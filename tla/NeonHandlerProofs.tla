-------------------------- MODULE NeonHandlerProofs ---------------------------
(***************************************************************************)
(* Theorems about the virtual networks and the handlers of a host: for any *)
(* number of processes, ids, parties, killed processes and failed          *)
(* commands.                                                               *)
(*                                                                         *)
(* The first part is about VirtualNetwork alone.  The second shows that the*)
(* handlers use the networks as VirtualNetwork says, so that its theorems  *)
(* hold of them, and that no handler takes the delay from a party of       *)
(* another that still computes.  The last part is about the secrets of a   *)
(* handler, SecretState: for any primes, parties and sharings it has what  *)
(* its parties share, by the sums of the signed binomial coefficients.     *)
(***************************************************************************)
EXTENDS NeonHandler, SecretState, EventLogProofs

(***************************************************************************)
(* The file lock protects the choice of an id.                             *)
(***************************************************************************)

\* A process that is about to create a bridge, or has one, has an id.
IdChosen ==
  \A p \in Procs : (net[p].stage \in {"adding", "creating"} \/ net[p].bridge_active) => net[p].bridge_ID \in Ids

\* Between the request for the lock and the creation of the bridge the lock is held.
LockHeld == \A p \in Procs : net[p].stage \in {"choosing", "adding"} => lock = p

LockInv == NetTypeOK /\ IdChosen /\ LockHeld /\ ChosenIdStaysFree

LEMMA LockInit == NetInit => LockInv
  BY NetAssumption DEF NetInit, LockInv, NetTypeOK, Manager, NoManager, Party, IdChosen, LockHeld, ChosenIdStaysFree

\* What a step of one process has to respect for the others to keep the invariant:
\* the lock passes only from the process to nobody or from nobody to the process,
\* and a bridge is created only under the lock.
LEMMA LockStep ==
  ASSUME LockInv,
         NEW p \in Procs, NEW m \in Manager,
         net' = [net EXCEPT ![p] = m],
         bridges' \subseteq Ids, namespaces' \subseteq Party \X Ids,
         clash' \in {"none", "reused", "collided"},
         kills' \in 0 .. MaxFaults, faults' \in 0 .. MaxFaults,
         lock' \in Procs \cup {None},
         lock' = lock \/ lock \in {p, None},
         bridges' \subseteq bridges \/ lock = p,
         m.stage \in {"adding", "creating"} \/ m.bridge_active => m.bridge_ID \in Ids,
         m.stage \in {"choosing", "adding"} => lock' = p,
         m.stage = "adding" => m.bridge_ID \notin bridges'
  PROVE  LockInv'
<1>1. NetTypeOK'
  BY DEF LockInv, NetTypeOK
<1>2. net'[p] = m /\ \A q \in Procs \ {p} : net'[q] = net[q]
  BY DEF LockInv, NetTypeOK
<1>3. IdChosen'
  BY <1>2 DEF LockInv, IdChosen
<1>4. ASSUME NEW q \in Procs \ {p}, net[q].stage \in {"choosing", "adding"}
      PROVE  lock' = q /\ bridges' \subseteq bridges
  BY <1>4, NetAssumption DEF LockInv, LockHeld
<1>5. LockHeld'
  BY <1>2, <1>4 DEF LockHeld
<1>6. ChosenIdStaysFree'
  BY <1>2, <1>4 DEF LockInv, ChosenIdStaysFree
<1>7. QED
  BY <1>1, <1>3, <1>5, <1>6 DEF LockInv

\* A failed deletion leaves a manager that tries again or has no network.
LEMMA DeletionFailsStep ==
  ASSUME net \in [Procs -> Manager], NEW p \in Procs, DeletionFails(p)
  PROVE  /\ net'[p] \in Manager /\ net' = [net EXCEPT ![p] = net'[p]]
         /\ net'[p].stage \in {"off", "failed"}
         /\ net'[p].stage = "off" => net'[p] = NoManager
         /\ net'[p].bridge_active =>
              net[p].bridge_active /\ net'[p].bridge_ID = net[p].bridge_ID /\ net'[p].stage = "failed"
<1> DEFINE m == [net[p] EXCEPT !.stage = "failed", !.todo = {}, !.tries = net[p].tries + 1]
<1>1. net' = [net EXCEPT ![p] = IF net[p].tries = 2 THEN NoManager ELSE m]
  BY DEF DeletionFails
<1>2. NoManager \in Manager /\ NoManager.stage = "off" /\ NoManager.bridge_active = FALSE
  BY NetAssumption DEF NoManager, Manager
<1>3. ASSUME net[p].tries # 2
      PROVE  /\ m \in Manager /\ m.stage = "failed"
             /\ m.bridge_active = net[p].bridge_active /\ m.bridge_ID = net[p].bridge_ID
  <2>1. net[p] \in Manager /\ net[p].tries + 1 \in 0 .. 2
    BY <1>3 DEF Manager
  <2>2. QED
    BY <2>1 DEF Manager
<1> HIDE DEF m
<1>4. net'[p] = (IF net[p].tries = 2 THEN NoManager ELSE m) /\ net' = [net EXCEPT ![p] = net'[p]]
  BY <1>1
<1>5. QED
  BY <1>2, <1>3, <1>4

LEMMA LockNext == LockInv /\ [NetNext]_netVars => LockInv'
<1> SUFFICES ASSUME LockInv, [NetNext]_netVars PROVE LockInv'
  BY Zenon
<1> USE NetAssumption DEF LockInv, NetTypeOK, IdChosen, LockHeld, ChosenIdStaysFree
<1>1. ASSUME NEW p \in Procs, NEW n \in 1 .. MaxParties, setup_network(p, n) PROVE LockInv'
  <2> DEFINE T == {i \in Party : net[p].active <= i /\ i < n}
             m == [net[p] EXCEPT !.stage  = IF net[p].bridge_active THEN "creating" ELSE "locking",
                                 !.wanted = n, !.todo = T]
  <2>1. net' = [net EXCEPT ![p] = m]
    BY <1>1 DEF setup_network
  <2>2. T \in SUBSET Party
    OBVIOUS
  <2>3. net[p] \in Manager /\ n \in 0 .. MaxParties
    OBVIOUS
  <2> HIDE DEF T
  <2>4. m \in Manager
    BY <2>2, <2>3 DEF Manager
  <2>5. /\ net'[p] \in Manager /\ net' = [net EXCEPT ![p] = net'[p]]
        /\ net'[p].stage \in {"creating", "locking"} /\ net'[p].bridge_ID = net[p].bridge_ID
        /\ net'[p].bridge_active = net[p].bridge_active
        /\ net'[p].stage = "creating" => net[p].bridge_active
    BY <2>1, <2>3, <2>4 DEF Manager
  <2>6. QED
    BY <1>1, <2>5, LockStep DEF setup_network
<1>2. ASSUME NEW p \in Procs, AcquireLock(p) PROVE LockInv'
  <2>1. net'[p] \in Manager /\ net' = [net EXCEPT ![p] = net'[p]]
    BY <1>2 DEF AcquireLock, Manager
  <2>2. QED
    BY <1>2, <2>1, LockStep DEF AcquireLock, Manager
<1>3. ASSUME NEW p \in Procs, ChooseId(p) PROVE LockInv'
  <2>1. PICK id \in Ids : /\ ~is_ID_taken(id)
                          /\ net' = [net EXCEPT ![p].stage = "adding", ![p].bridge_ID = id]
    BY <1>3 DEF ChooseId
  <2>2. /\ net'[p] \in Manager /\ net' = [net EXCEPT ![p] = net'[p]]
        /\ net'[p].stage = "adding" /\ net'[p].bridge_ID = id
    BY <2>1, ZenonT(60) DEF Manager
  <2>3. id \notin bridges /\ lock = p
    BY <1>3, <2>1 DEF ChooseId, is_ID_taken
  <2>4. QED
    BY <1>3, <2>2, <2>3, LockStep DEF ChooseId
<1>4. ASSUME NEW p \in Procs, AddBridge(p) PROVE LockInv'
  <2>1. net'[p] \in Manager /\ net' = [net EXCEPT ![p] = net'[p]]
    BY <1>4, ZenonT(60) DEF AddBridge, Unlocked, Manager
  <2>2. QED
    BY <1>4, <2>1, LockStep DEF AddBridge, Unlocked, Manager
<1>5. ASSUME NEW p \in Procs, BridgeFails(p) PROVE LockInv'
  <2>1. net'[p] \in Manager /\ net' = [net EXCEPT ![p] = net'[p]]
    BY <1>5 DEF BridgeFails, Unlocked, Fault, Manager
  <2>2. QED
    BY <1>5, <2>1, LockStep DEF BridgeFails, Unlocked, Fault, Manager
<1>6. ASSUME NEW p \in Procs, NEW i \in Party, AddNamespace(p, i) PROVE LockInv'
  <2>1. net'[p] \in Manager /\ net' = [net EXCEPT ![p] = net'[p]]
    BY <1>6 DEF AddNamespace, Own, Manager
  <2>2. QED
    BY <1>6, <2>1, LockStep DEF AddNamespace, Own, Manager
<1>7. ASSUME NEW p \in Procs, NEW i \in Party, NamespaceFails(p, i) PROVE LockInv'
  <2>1. net'[p] \in Manager /\ net' = [net EXCEPT ![p] = net'[p]]
    BY <1>7 DEF NamespaceFails, Own, Manager
  <2>2. QED
    BY <1>7, <2>1, LockStep DEF NamespaceFails, Own, Manager
<1>8. ASSUME NEW p \in Procs, CheckNetwork(p) PROVE LockInv'
  <2>1. net'[p] \in Manager /\ net' = [net EXCEPT ![p] = net'[p]]
    BY <1>8, ZenonT(60) DEF CheckNetwork, Manager
  <2>2. /\ net'[p].stage \in {"up", "failed"} /\ net'[p].bridge_ID = net[p].bridge_ID
        /\ net'[p].bridge_active = net[p].bridge_active
    BY <1>8 DEF CheckNetwork, Manager
  <2>3. QED
    BY <1>8, <2>1, <2>2, LockStep DEF CheckNetwork
<1>9. ASSUME NEW p \in Procs, ListOwn(p) PROVE LockInv'
  <2>1. net'[p] \in Manager /\ net' = [net EXCEPT ![p] = net'[p]]
    BY <1>9, ZenonT(60) DEF ListOwn, Own, Manager
  <2>2. QED
    BY <1>9, <2>1, LockStep, ZenonT(60) DEF ListOwn, Own, Manager
<1>10. ASSUME NEW p \in Procs, DeleteBridge(p) PROVE LockInv'
  <2>1. net[p].stage = "bridge" /\ net[p] \in Manager
    BY <1>10 DEF DeleteBridge
  <2>2. /\ net'[p] \in Manager /\ net' = [net EXCEPT ![p] = net'[p]]
        /\ net'[p].stage \in {"off", "failed", "namespaces"}
        /\ net'[p].bridge_active => net[p].bridge_active /\ net'[p].bridge_ID = net[p].bridge_ID
    BY <1>10, <2>1, DeletionFailsStep DEF DeleteBridge, Manager
  <2>3. QED
    BY <1>10, <2>2, LockStep DEF DeleteBridge
<1>11. ASSUME NEW p \in Procs, DeleteNamespace(p) PROVE LockInv'
  <2>1. net[p].stage = "namespaces" /\ net[p] \in Manager
    BY <1>11 DEF DeleteNamespace
  <2>2. /\ net'[p] \in Manager /\ net' = [net EXCEPT ![p] = net'[p]]
        /\ net'[p].stage \in {"off", "failed", "namespaces"}
        /\ net'[p].bridge_active => net[p].bridge_active /\ net'[p].bridge_ID = net[p].bridge_ID
    <3>1. PICK i \in net[p].todo :
            IF i \in Own(p, {i}) THEN net' = [net EXCEPT ![p].todo = @ \ {i}] ELSE DeletionFails(p)
      BY <1>11 DEF DeleteNamespace
    <3>2. CASE net' = [net EXCEPT ![p].todo = @ \ {i}]
      BY <2>1, <3>2 DEF Manager
    <3>3. CASE DeletionFails(p)
      BY <3>3, DeletionFailsStep
    <3>4. QED
      BY <3>1, <3>2, <3>3
  <2>3. QED
    BY <1>11, <2>2, LockStep DEF DeleteNamespace
<1>12. ASSUME NEW p \in Procs, Forget(p) PROVE LockInv'
  <2>1. net'[p] \in Manager /\ net' = [net EXCEPT ![p] = net'[p]]
    BY <1>12 DEF Forget, NoManager, Manager
  <2>2. QED
    BY <1>12, <2>1, LockStep DEF Forget, NoManager, Manager
<1>13. ASSUME NEW p \in Procs, KillNetwork(p) PROVE LockInv'
  <2>1. net'[p] \in Manager /\ net' = [net EXCEPT ![p] = net'[p]]
    BY <1>13 DEF KillNetwork, NoManager, Unlocked, Manager
  <2>2. QED
    BY <1>13, <2>1, LockStep DEF KillNetwork, NoManager, Unlocked, Manager
<1>14. CASE UNCHANGED netVars
  BY <1>14 DEF netVars
<1>15. QED
  BY <1>1, <1>2, <1>3, <1>4, <1>5, <1>6, <1>7, <1>8, <1>9, <1>10, <1>11, <1>12, <1>13, <1>14
  DEF NetNext, SetupStep, CleanStep
\* The types of the host's bridges, namespaces, lock and managers.
THEOREM NetTypeCorrect == NetSpec => []NetTypeOK
<1>1. LockInv => NetTypeOK
  BY DEF LockInv
<1>2. QED
  BY LockInit, LockNext, <1>1, PTL DEF NetSpec

\* However many processes set up, tear down, fail or are killed: nobody creates a
\* bridge of an id that another has chosen (virtualnet.py:52-100).
THEOREM LockProtectsChoice == NetSpec => []ChosenIdStaysFree
<1>1. LockInv => ChosenIdStaysFree
  BY DEF LockInv
<1>2. QED
  BY LockInit, LockNext, <1>1, PTL DEF NetSpec

(***************************************************************************)
(* A network stays intact as long as no bridge fails and no id is reused.  *)
(***************************************************************************)

Undisturbed == clash = "none" /\ faults = 0

\* The process has created its bridge and not forgotten it.
Holds(p) == net[p].stage \in {"creating", "up", "failed", "bridge", "namespaces"}

\* What a process relies on: its bridge is there as soon as it creates namespaces,
\* every namespace it need not create is there, and before that it needs all of them.
Intact(p) ==
  /\ net[p].bridge_active <=> Holds(p)
  /\ net[p].stage \in {"creating", "up"} =>
       /\ net[p].bridge_ID \in bridges
       /\ \A i \in Party : i < net[p].active => <<i, net[p].bridge_ID>> \in namespaces
  /\ net[p].stage = "creating" =>
       \A i \in Party : i < net[p].wanted /\ i \notin net[p].todo => <<i, net[p].bridge_ID>> \in namespaces
  /\ net[p].stage \in {"off", "locking", "choosing", "adding"} => net[p].active = 0
  /\ net[p].stage \in {"locking", "choosing", "adding"} => \A i \in Party : i < net[p].wanted => i \in net[p].todo

Distinct ==
  \A p, q \in Procs : p # q /\ Holds(p) /\ Holds(q) => net[p].bridge_ID # net[q].bridge_ID

IntactInv == NetTypeOK /\ (Undisturbed => Distinct /\ \A p \in Procs : Intact(p))

LEMMA IntactInit == NetInit => IntactInv
<1>1. NetInit => NetTypeOK
  BY LockInit DEF LockInv
<1>2. NetInit => \A p \in Procs : net[p].stage = "off" /\ net[p].active = 0 /\ net[p].bridge_active = FALSE
  BY DEF NetInit, NoManager
<1>3. QED
  BY <1>1, <1>2 DEF IntactInv, Distinct, Intact, Holds

\* What a step of one process has to respect for the networks to stay intact: an id
\* it comes to hold is nobody else's, and what others hold is left alone.
LEMMA IntactStep ==
  ASSUME NetTypeOK, Distinct, \A q \in Procs : Intact(q),
         NEW p \in Procs,
         net' = [net EXCEPT ![p] = net'[p]],
         Intact(p)',
         Holds(p)' => \/ Holds(p) /\ net'[p].bridge_ID = net[p].bridge_ID
                      \/ \A q \in Procs \ {p} : net[q].bridge_ID # net'[p].bridge_ID,
         \A q \in Procs \ {p} : Holds(q) =>
           /\ net[q].bridge_ID \in bridges => net[q].bridge_ID \in bridges'
           /\ \A i \in Party : <<i, net[q].bridge_ID>> \in namespaces => <<i, net[q].bridge_ID>> \in namespaces'
  PROVE  Distinct' /\ \A q \in Procs : Intact(q)'
<1>1. \A q \in Procs \ {p} : net'[q] = net[q]
  BY DEF NetTypeOK
<1>2. Distinct'
  BY <1>1 DEF Distinct, Holds
<1>3. ASSUME NEW q \in Procs \ {p} PROVE Intact(q)'
  BY <1>1 DEF Intact, Holds
<1>4. QED
  BY <1>2, <1>3

\* A failed deletion keeps the id or forgets it with everything else.
LEMMA DeletionKeepsIntact ==
  ASSUME net \in [Procs -> Manager], NEW p \in Procs, Holds(p), Intact(p), DeletionFails(p)
  PROVE  /\ net' = [net EXCEPT ![p] = net'[p]] /\ Intact(p)'
         /\ Holds(p)' => net'[p].bridge_ID = net[p].bridge_ID
<1> DEFINE m == [net[p] EXCEPT !.stage = "failed", !.todo = {}, !.tries = net[p].tries + 1]
<1>1. CASE net[p].tries = 2
  <2>1. net' = [net EXCEPT ![p] = NoManager]
    BY <1>1 DEF DeletionFails
  <2>2. QED
    BY <2>1 DEF Intact, Holds, NoManager
<1>2. CASE net[p].tries # 2
  <2>1. net' = [net EXCEPT ![p] = m]
    BY <1>2 DEF DeletionFails
  <2>2. m.stage = "failed" /\ m.bridge_ID = net[p].bridge_ID /\ m.bridge_active = net[p].bridge_active
    BY DEF Manager
  <2> HIDE DEF m
  <2>3. QED
    BY <2>1, <2>2 DEF Intact, Holds
<1>3. QED
  BY <1>1, <1>2

\* No step forgets that a bridge failed or an id was reused.
LEMMA UndisturbedBefore == NetTypeOK /\ Undisturbed' /\ [NetNext]_netVars => Undisturbed
<1> SUFFICES ASSUME NetTypeOK, Undisturbed', [NetNext]_netVars PROVE Undisturbed
  OBVIOUS
<1>1. faults' = 0 => faults = 0
  <2>1. ASSUME Fault PROVE faults' # 0
    BY <2>1 DEF Fault, NetTypeOK
  <2>2. CASE UNCHANGED faults
    BY <2>2
  <2>3. QED
    BY <2>1, <2>2, ZenonT(60) DEF netVars, NetNext, setup_network, SetupStep, AcquireLock, ChooseId, AddBridge, BridgeFails,
         AddNamespace, NamespaceFails, CheckNetwork, ListOwn, CleanStep, DeleteBridge, DeleteNamespace, Forget,
         KillNetwork
<1>2. clash' = "none" => clash = "none"
  <2>1. ASSUME NEW p \in Procs, AddBridge(p) \/ \E i \in Party : NamespaceFails(p, i)
        PROVE  clash' = "none" => clash = "none"
    BY <2>1 DEF AddBridge, NamespaceFails
  <2>2. CASE UNCHANGED clash
    BY <2>2
  <2>3. QED
    BY <2>1, <2>2, ZenonT(60) DEF netVars, NetNext, setup_network, SetupStep, AcquireLock, ChooseId, BridgeFails,
         AddNamespace, CheckNetwork, ListOwn, CleanStep, DeleteBridge, DeleteNamespace, Forget, KillNetwork
<1>3. QED
  BY <1>1, <1>2 DEF Undisturbed

LEMMA IntactNext == IntactInv /\ NetTypeOK' /\ [NetNext]_netVars => IntactInv'
<1> SUFFICES ASSUME NetTypeOK, NetTypeOK', Undisturbed', IntactInv, [NetNext]_netVars
             PROVE  Distinct' /\ \A p \in Procs : Intact(p)'
  BY DEF IntactInv
<1>0. Undisturbed
  BY UndisturbedBefore
<1> USE NetAssumption
<1>a. Distinct /\ \A q \in Procs : Intact(q)
  BY <1>0 DEF IntactInv
<1>b. net \in [Procs -> Manager]
  BY DEF NetTypeOK
<1>c. \A p \in Procs : /\ net[p] \in Manager /\ net[p].active \in Nat /\ net[p].wanted \in Nat
                       /\ net[p].todo \subseteq Party
  BY <1>b DEF Manager
<1>1. ASSUME NEW p \in Procs, NEW n \in 1 .. MaxParties, setup_network(p, n)
      PROVE  Distinct' /\ \A q \in Procs : Intact(q)'
  <2>1. /\ net' = [net EXCEPT ![p] = net'[p]]
        /\ net'[p].stage = (IF net[p].bridge_active THEN "creating" ELSE "locking")
        /\ net'[p].wanted = n /\ net'[p].todo = {i \in Party : net[p].active <= i /\ i < n}
        /\ net'[p].bridge_ID = net[p].bridge_ID /\ net'[p].bridge_active = net[p].bridge_active
        /\ net'[p].active = net[p].active
    BY <1>1, <1>b, <1>c DEF setup_network, Manager
  <2>2. Intact(p)'
    <3>1. \A i \in Party : i \in Nat
      BY DEF Party
    <3>2. CASE net[p].stage = "up"
      <4>1. \A i \in Party : i < n /\ i \notin net'[p].todo => i < net[p].active
        BY <1>c, <2>1, <3>1
      <4>2. net'[p].stage = "creating"
        BY <1>a, <2>1, <3>2 DEF Intact, Holds
      <4>3. UNCHANGED <<bridges, namespaces>>
        BY <1>1 DEF setup_network
      <4>4. QED
        BY <1>a, <2>1, <3>2, <4>1, <4>2, <4>3 DEF Intact, Holds
    <3>3. CASE net[p].stage = "off"
      <4>1. net[p].active = 0 /\ net'[p].stage = "locking"
        BY <1>a, <1>c, <2>1, <3>3 DEF Intact, Holds, Manager
      <4>2. \A i \in Party : i < n => i \in net'[p].todo
        BY <2>1, <3>1, <4>1
      <4>3. QED
        BY <1>a, <2>1, <3>3, <4>1, <4>2 DEF Intact, Holds
    <3>4. QED
      BY <1>1, <3>2, <3>3 DEF setup_network
  <2>3. QED
    BY <1>1, <1>a, <2>1, <2>2, IntactStep DEF setup_network, Intact, Holds
<1>2. ASSUME NEW p \in Procs, AcquireLock(p)
      PROVE  Distinct' /\ \A q \in Procs : Intact(q)'
  <2>1. /\ net' = [net EXCEPT ![p] = net'[p]]
        /\ net'[p] = [net[p] EXCEPT !.stage = "choosing"]
    BY <1>2, <1>b DEF AcquireLock
  <2>2. Intact(p)' /\ ~Holds(p)'
    BY <1>2, <1>a, <1>c, <2>1 DEF AcquireLock, Intact, Holds, Manager
  <2>3. QED
    BY <1>2, <1>a, <2>1, <2>2, IntactStep DEF AcquireLock
<1>3. ASSUME NEW p \in Procs, ChooseId(p)
      PROVE  Distinct' /\ \A q \in Procs : Intact(q)'
  <2>1. PICK id \in Ids : net' = [net EXCEPT ![p].stage = "adding", ![p].bridge_ID = id]
    BY <1>3 DEF ChooseId
  <2>2. /\ net' = [net EXCEPT ![p] = net'[p]]
        /\ net'[p].stage = "adding" /\ net'[p].bridge_active = net[p].bridge_active
        /\ net'[p].active = net[p].active /\ net'[p].wanted = net[p].wanted /\ net'[p].todo = net[p].todo
    BY <1>b, <1>c, <2>1 DEF Manager
  <2>3. Intact(p)' /\ ~Holds(p)'
    BY <1>3, <1>a, <2>2 DEF ChooseId, Intact, Holds
  <2>4. QED
    BY <1>3, <1>a, <2>2, <2>3, IntactStep DEF ChooseId
<1>4. ASSUME NEW p \in Procs, AddBridge(p)
      PROVE  Distinct' /\ \A q \in Procs : Intact(q)'
  <2>1. /\ net' = [net EXCEPT ![p] = net'[p]]
        /\ net'[p] = [net[p] EXCEPT !.stage = "creating", !.bridge_active = TRUE]
    BY <1>4, <1>b, <1>c DEF AddBridge, Manager
  <2>2. ~InUse(p)
    BY <1>4 DEF AddBridge, Undisturbed
  <2>3. Intact(p)' /\ net'[p].bridge_ID = net[p].bridge_ID
    <3>1. /\ net'[p].stage = "creating" /\ net'[p].bridge_active /\ net'[p].bridge_ID = net[p].bridge_ID
          /\ net'[p].active = net[p].active /\ net'[p].wanted = net[p].wanted /\ net'[p].todo = net[p].todo
      BY <1>c, <2>1 DEF Manager
    <3>2. net[p].active = 0 /\ \A i \in Party : i < net[p].wanted => i \in net[p].todo
      BY <1>4, <1>a DEF AddBridge, Intact
    <3>3. \A i \in Party : ~(i < 0)
      BY DEF Party
    <3>4. net'[p].bridge_ID \in bridges'
      BY <1>4, <3>1 DEF AddBridge
    <3>5. QED
      BY <3>1, <3>2, <3>3, <3>4 DEF Intact, Holds
  <2>4. QED
    BY <1>4, <1>a, <2>1, <2>2, <2>3, IntactStep DEF AddBridge, InUse
<1>5. ASSUME NEW p \in Procs, BridgeFails(p) PROVE FALSE
  BY <1>5 DEF BridgeFails, Fault, Undisturbed, NetTypeOK
<1>6. ASSUME NEW p \in Procs, NEW i \in Party, AddNamespace(p, i)
      PROVE  Distinct' /\ \A q \in Procs : Intact(q)'
  <2>1. /\ net' = [net EXCEPT ![p] = net'[p]]
        /\ net'[p] = [net[p] EXCEPT !.todo = net[p].todo \ {i}]
        /\ namespaces' = namespaces \cup {<<i, net[p].bridge_ID>>}
    BY <1>6, <1>b DEF AddNamespace
  <2>2. Intact(p)' /\ Holds(p) /\ net'[p].bridge_ID = net[p].bridge_ID
    BY <1>6, <1>a, <1>c, <2>1 DEF AddNamespace, Intact, Holds, Manager
  <2>3. QED
    BY <1>6, <1>a, <2>1, <2>2, IntactStep DEF AddNamespace
<1>7. ASSUME NEW p \in Procs, NEW i \in Party, NamespaceFails(p, i) PROVE FALSE
  BY <1>7, <1>a DEF NamespaceFails, Undisturbed, Intact
<1>8. ASSUME NEW p \in Procs, CheckNetwork(p)
      PROVE  Distinct' /\ \A q \in Procs : Intact(q)'
  <2>1. /\ net' = [net EXCEPT ![p] = net'[p]]
        /\ net'[p].stage \in {"up", "failed"}
        /\ net'[p].active \in {net[p].active, net[p].wanted}
        /\ net'[p].bridge_ID = net[p].bridge_ID /\ net'[p].bridge_active = net[p].bridge_active
    BY <1>8, <1>b, <1>c DEF CheckNetwork, Manager
  <2>2. Intact(p)' /\ Holds(p)
    <3>1. net[p].stage = "creating" /\ net[p].todo = {} /\ UNCHANGED <<bridges, namespaces>>
      BY <1>8 DEF CheckNetwork
    <3>2. \A i \in Party : i < net'[p].active => <<i, net[p].bridge_ID>> \in namespaces
      BY <1>a, <2>1, <3>1 DEF Intact
    <3>3. QED
      BY <1>a, <2>1, <3>1, <3>2 DEF Intact, Holds
  <2>3. QED
    BY <1>8, <1>a, <2>1, <2>2, IntactStep DEF CheckNetwork
<1>9. ASSUME NEW p \in Procs, ListOwn(p)
      PROVE  Distinct' /\ \A q \in Procs : Intact(q)'
  <2>1. /\ net' = [net EXCEPT ![p] = net'[p]]
        /\ net'[p].stage \in {"bridge", "namespaces"}
        /\ net'[p].bridge_ID = net[p].bridge_ID /\ net'[p].bridge_active = net[p].bridge_active
    BY <1>9, <1>b, <1>c DEF ListOwn, Manager
  <2>2. Intact(p)' /\ Holds(p)
    BY <1>9, <1>a, <2>1 DEF ListOwn, Intact, Holds
  <2>3. QED
    BY <1>9, <1>a, <2>1, <2>2, IntactStep DEF ListOwn
<1>10. ASSUME NEW p \in Procs, DeleteBridge(p)
       PROVE  Distinct' /\ \A q \in Procs : Intact(q)'
  <2>1. CASE net' = [net EXCEPT ![p].stage = "namespaces"]
    <3>1. /\ net' = [net EXCEPT ![p] = net'[p]] /\ net'[p].stage = "namespaces"
          /\ net'[p].bridge_ID = net[p].bridge_ID /\ net'[p].bridge_active = net[p].bridge_active
      BY <1>b, <1>c, <2>1 DEF Manager
    <3>2. Intact(p)' /\ Holds(p)
      BY <1>10, <1>a, <3>1 DEF DeleteBridge, Intact, Holds
    <3>3. \A q \in Procs \ {p} : Holds(q) => net[q].bridge_ID # net[p].bridge_ID
      BY <1>a, <3>2 DEF Distinct
    <3>4. QED
      BY <1>10, <1>a, <3>1, <3>2, <3>3, IntactStep DEF DeleteBridge
  <2>2. CASE DeletionFails(p)
    <3>1. Holds(p) /\ \A q \in Procs \ {p} : Holds(q) => net[q].bridge_ID # net[p].bridge_ID
      BY <1>10, <1>a DEF DeleteBridge, Holds, Distinct
    <3>2. net' = [net EXCEPT ![p] = net'[p]] /\ Intact(p)' /\ (Holds(p)' => net'[p].bridge_ID = net[p].bridge_ID)
      BY <1>a, <1>b, <2>2, <3>1, DeletionKeepsIntact
    <3>3. QED
      BY <1>10, <1>a, <3>1, <3>2, IntactStep DEF DeleteBridge
  <2>3. QED
    BY <1>10, <2>1, <2>2 DEF DeleteBridge
<1>11. ASSUME NEW p \in Procs, DeleteNamespace(p)
       PROVE  Distinct' /\ \A q \in Procs : Intact(q)'
  <2>0. PICK i \in net[p].todo :
          /\ IF i \in Own(p, {i}) THEN net' = [net EXCEPT ![p].todo = @ \ {i}] ELSE DeletionFails(p)
          /\ namespaces' = namespaces \ {<<i, net[p].bridge_ID>>}
    BY <1>11 DEF DeleteNamespace
  <2>1. Holds(p) /\ \A q \in Procs \ {p} : Holds(q) => net[q].bridge_ID # net[p].bridge_ID
    BY <1>11, <1>a DEF DeleteNamespace, Holds, Distinct
  <2>2. net' = [net EXCEPT ![p] = net'[p]] /\ Intact(p)' /\ (Holds(p)' => net'[p].bridge_ID = net[p].bridge_ID)
    <3>1. CASE net' = [net EXCEPT ![p].todo = @ \ {i}]
      <4>1. /\ net' = [net EXCEPT ![p] = net'[p]] /\ net'[p].stage = "namespaces"
            /\ net'[p].bridge_ID = net[p].bridge_ID /\ net'[p].bridge_active = net[p].bridge_active
        BY <1>11, <1>b, <1>c, <3>1 DEF DeleteNamespace, Manager
      <4>2. QED
        BY <1>11, <1>a, <4>1 DEF DeleteNamespace, Intact, Holds
    <3>2. CASE DeletionFails(p)
      BY <1>a, <1>b, <2>1, <3>2, DeletionKeepsIntact
    <3>3. QED
      BY <2>0, <3>1, <3>2
  <2>3. QED
    BY <1>11, <1>a, <2>0, <2>1, <2>2, IntactStep DEF DeleteNamespace
<1>12. ASSUME NEW p \in Procs, net' = [net EXCEPT ![p] = NoManager], UNCHANGED <<bridges, namespaces>>
       PROVE  Distinct' /\ \A q \in Procs : Intact(q)'
  <2>1. net' = [net EXCEPT ![p] = net'[p]] /\ net'[p] = NoManager
    BY <1>12, <1>b
  <2>2. Intact(p)' /\ ~Holds(p)'
    BY <2>1 DEF Intact, Holds, NoManager
  <2>3. QED
    BY <1>12, <1>a, <2>1, <2>2, IntactStep
<1>13. CASE UNCHANGED netVars
  BY <1>13, <1>a DEF netVars, Distinct, Intact, Holds
<1>14. QED
  BY <1>1, <1>2, <1>3, <1>4, <1>5, <1>6, <1>7, <1>8, <1>9, <1>10, <1>11, <1>12, <1>13
  DEF NetNext, SetupStep, CleanStep, Forget, KillNetwork

\* As long as no bridge fails and no id is taken before the last network of that id
\* is gone, no process ever harms the network of another (virtualnet.py:83-161,
\* 163-172, 238-272).
THEOREM NetworksStayIntact == NetSpec => []NetworksAreIntact
<1>1. LockInv => NetTypeOK
  BY DEF LockInv
<1>2. IntactInv => NetworksAreIntact
  <2> SUFFICES ASSUME IntactInv, Undisturbed, NEW p \in Procs, net[p].stage = "up"
               PROVE  /\ net[p].bridge_ID \in bridges
                      /\ Own(p, 0 .. net[p].active - 1) = 0 .. net[p].active - 1
                      /\ \A q \in Procs \ {p} : net[q].stage = "up" => net[q].bridge_ID # net[p].bridge_ID
    BY DEF NetworksAreIntact, Undisturbed
  <2>1. net[p].active \in 0 .. MaxParties
    BY DEF IntactInv, NetTypeOK, Manager
  <2>2. \A i \in 0 .. net[p].active - 1 : i \in Party /\ i < net[p].active
    BY <2>1, NetAssumption DEF Party
  <2>3. QED
    BY <2>2 DEF IntactInv, Intact, Distinct, Holds, Own
<1>3. QED
  BY LockInit, LockNext, IntactInit, IntactNext, <1>1, <1>2, PTL DEF NetSpec

(***************************************************************************)
(* Everything there is on the host belongs to a process that will remove   *)
(* it, as long as nothing fails and nobody is killed.                      *)
(***************************************************************************)

\* A step of one manager leaves the others alone.
LEMMA NetLocal ==
  ASSUME net \in [Procs -> Manager], NEW p \in Procs,
         \/ \E n \in 1 .. MaxParties : setup_network(p, n)
         \/ SetupStep(p) \/ ListOwn(p) \/ CleanStep(p) \/ KillNetwork(p)
  PROVE  \A q \in Procs \ {p} : net'[q] = net[q]
<1>1. ASSUME DeletionFails(p) PROVE \A q \in Procs \ {p} : net'[q] = net[q]
  BY <1>1 DEF DeletionFails
<1>2. QED
  BY <1>1 DEF setup_network, SetupStep, AcquireLock, ChooseId, AddBridge, BridgeFails, AddNamespace, NamespaceFails,
     CheckNetwork, ListOwn, CleanStep, DeleteBridge, DeleteNamespace, Forget, KillNetwork

\* The lock is held by a process that chooses an id.
LockUsed == lock # None => net[lock].stage \in {"choosing", "adding"}

HasBridge(p, id) == Holds(p) /\ net[p].stage # "namespaces" /\ net[p].bridge_ID = id

HasNamespace(p, i, id) ==
  /\ Holds(p) /\ net[p].bridge_ID = id
  /\ net[p].stage \in {"bridge", "namespaces"} => i \in net[p].todo

\* What a process means to delete is there, so that no deletion fails.
CanDelete(p) ==
  /\ Holds(p) /\ net[p].stage # "namespaces" => net[p].bridge_ID \in bridges
  /\ net[p].stage \in {"bridge", "namespaces"} => \A i \in net[p].todo : <<i, net[p].bridge_ID>> \in namespaces

Accounted ==
  /\ \A p \in Procs : CanDelete(p)
  /\ \A id \in bridges : \E p \in Procs : HasBridge(p, id)
  /\ \A i \in Party, id \in Ids : <<i, id>> \in namespaces => \E p \in Procs : HasNamespace(p, i, id)

AccountInv == LockUsed /\ (Undisturbed /\ kills = 0 => Accounted)

LEMMA AccountInit == NetInit => AccountInv
<1> SUFFICES ASSUME NetInit PROVE AccountInv
  OBVIOUS
<1>1. \A p \in Procs : net[p].stage = "off"
  BY DEF NetInit, NoManager
<1>2. QED
  BY <1>1 DEF NetInit, AccountInv, LockUsed, Accounted, CanDelete, Holds

LEMMA LockUsedNext == NetTypeOK /\ LockUsed /\ [NetNext]_netVars => LockUsed'
<1> SUFFICES ASSUME NetTypeOK, LockUsed, [NetNext]_netVars PROVE LockUsed'
  OBVIOUS
<1>1. net \in [Procs -> Manager] /\ lock \in Procs \cup {None} /\ None \notin Procs
  BY NetAssumption DEF NetTypeOK
<1>2. CASE UNCHANGED netVars
  BY <1>2 DEF netVars, LockUsed
<1>3. ASSUME NEW p \in Procs,
             \/ \E n \in 1 .. MaxParties : setup_network(p, n)
             \/ SetupStep(p) \/ ListOwn(p) \/ CleanStep(p) \/ KillNetwork(p)
      PROVE  LockUsed'
  <2>1. \A q \in Procs \ {p} : net'[q] = net[q]
    BY <1>1, <1>3, NetLocal
  <2>2. CASE lock' = lock /\ lock # p
    BY <1>1, <2>1, <2>2 DEF LockUsed
  <2>3. CASE lock' = Unlocked(p)
    BY <1>1, <2>1, <2>3 DEF LockUsed, Unlocked
  <2>4. CASE AcquireLock(p) \/ ChooseId(p)
    BY <1>1, <2>1, <2>4 DEF AcquireLock, ChooseId, LockUsed, Manager
  <2>5. CASE lock' = lock /\ lock = p /\ net[p].stage \notin {"choosing", "adding"}
    BY <1>1, <2>5 DEF LockUsed
  <2>6. QED
    BY <1>3, <2>2, <2>3, <2>4, <2>5 DEF setup_network, SetupStep, AddBridge, BridgeFails, AddNamespace, NamespaceFails,
       CheckNetwork, ListOwn, CleanStep, DeleteBridge, DeleteNamespace, Forget, KillNetwork
<1>4. QED
  BY <1>2, <1>3 DEF NetNext

\* What a step of one process has to respect: what is there is its own afterwards, or
\* was not its own before, and it deletes nothing of another.
LEMMA AccountStep ==
  ASSUME NetTypeOK, Accounted, NEW p \in Procs,
         \A q \in Procs \ {p} : net'[q] = net[q],
         CanDelete(p)',
         \A id \in bridges' : HasBridge(p, id)' \/ (id \in bridges /\ ~HasBridge(p, id)),
         \A i \in Party, id \in Ids : <<i, id>> \in namespaces' =>
           HasNamespace(p, i, id)' \/ (<<i, id>> \in namespaces /\ ~HasNamespace(p, i, id)),
         \A q \in Procs \ {p} : Holds(q) =>
           /\ net[q].bridge_ID \in bridges => net[q].bridge_ID \in bridges'
           /\ \A i \in Party : <<i, net[q].bridge_ID>> \in namespaces => <<i, net[q].bridge_ID>> \in namespaces'
  PROVE  Accounted'
<1>1. \A q \in Procs \ {p} : CanDelete(q)'
  <2>1. \A q \in Procs : net[q].todo \subseteq Party
    BY DEF NetTypeOK, Manager
  <2>2. QED
    BY <2>1 DEF Accounted, CanDelete, Holds
<1>2. ASSUME NEW id \in bridges' PROVE \E q \in Procs : HasBridge(q, id)'
  <2>1. CASE id \in bridges /\ ~HasBridge(p, id)
    <3>1. PICK q \in Procs : HasBridge(q, id)
      BY <2>1 DEF Accounted
    <3>2. q # p /\ HasBridge(q, id)'
      BY <2>1, <3>1 DEF HasBridge, Holds
    <3>3. QED
      BY <3>2
  <2>2. QED
    BY <2>1
<1>3. ASSUME NEW i \in Party, NEW id \in Ids, <<i, id>> \in namespaces'
      PROVE  \E q \in Procs : HasNamespace(q, i, id)'
  <2>1. CASE <<i, id>> \in namespaces /\ ~HasNamespace(p, i, id)
    <3>1. PICK q \in Procs : HasNamespace(q, i, id)
      BY <2>1 DEF Accounted
    <3>2. q # p /\ HasNamespace(q, i, id)'
      BY <2>1, <3>1 DEF HasNamespace, Holds
    <3>3. QED
      BY <3>2
  <2>2. QED
    BY <1>3, <2>1
<1>4. QED
  BY <1>1, <1>2, <1>3 DEF Accounted

LEMMA AccountNext == IntactInv /\ AccountInv /\ NetTypeOK' /\ [NetNext]_netVars => AccountInv'
<1> SUFFICES ASSUME NetTypeOK, IntactInv, AccountInv, NetTypeOK', [NetNext]_netVars, Undisturbed', kills' = 0
             PROVE  Accounted'
  BY LockUsedNext DEF IntactInv, AccountInv
<1>a. Undisturbed /\ Distinct /\ \A q \in Procs : Intact(q)
  BY UndisturbedBefore DEF IntactInv
<1>b. net \in [Procs -> Manager] /\ \A q \in Procs : net[q] \in Manager
  BY DEF NetTypeOK
<1>c. ASSUME NEW p \in Procs, KillNetwork(p) PROVE FALSE
  BY <1>c DEF KillNetwork, NetTypeOK
<1>d. kills = 0
  BY <1>c, ZenonT(60) DEF netVars, NetNext, setup_network, SetupStep, AcquireLock, ChooseId, AddBridge, BridgeFails, AddNamespace,
     NamespaceFails, CheckNetwork, ListOwn, CleanStep, DeleteBridge, DeleteNamespace, Forget
<1>e. Accounted /\ \A q \in Procs : CanDelete(q)
  BY <1>a, <1>d DEF AccountInv, Accounted
<1>1. CASE UNCHANGED netVars
  BY <1>1, <1>e DEF netVars, Accounted, CanDelete, HasBridge, HasNamespace, Holds
<1>2. ASSUME NEW p \in Procs,
             \/ \E n \in 1 .. MaxParties : setup_network(p, n)
             \/ SetupStep(p) \/ ListOwn(p) \/ CleanStep(p)
      PROVE  Accounted'
  <2>1. \A q \in Procs \ {p} : net'[q] = net[q]
    BY <1>2, <1>b, NetLocal
  <2>2. ASSUME NEW n \in 1 .. MaxParties, setup_network(p, n) PROVE Accounted'
    <3>1. /\ net[p].stage \in {"off", "up"} /\ net'[p].bridge_ID = net[p].bridge_ID
          /\ net'[p].stage = (IF net[p].bridge_active THEN "creating" ELSE "locking")
          /\ UNCHANGED <<bridges, namespaces>>
      BY <1>b, <2>2 DEF setup_network, Manager
    <3>2. /\ Holds(p) => Holds(p)' /\ net'[p].stage \notin {"bridge", "namespaces"}
          /\ Holds(p)' => net[p].stage = "up"
      BY <1>a, <3>1 DEF Holds, Intact
    <3>3. CanDelete(p)'
      BY <1>e, <3>1, <3>2 DEF CanDelete, Holds
    <3>4. QED
      BY <1>e, <2>1, <3>1, <3>2, <3>3, AccountStep DEF HasBridge, HasNamespace
  <2>3. CASE AcquireLock(p) \/ ChooseId(p)
    <3>1. ~Holds(p) /\ ~Holds(p)' /\ UNCHANGED <<bridges, namespaces>> /\ net'[p].stage \in {"choosing", "adding"}
      BY <1>b, <2>3 DEF AcquireLock, ChooseId, Holds, Manager
    <3>2. QED
      BY <1>e, <2>1, <3>1, AccountStep DEF HasBridge, HasNamespace, CanDelete
  <2>4. CASE AddBridge(p)
    <3>1. /\ ~Holds(p) /\ net'[p].stage = "creating" /\ net'[p].bridge_ID = net[p].bridge_ID
          /\ bridges' = bridges \cup {net[p].bridge_ID} /\ UNCHANGED namespaces
      BY <1>b, <2>4 DEF AddBridge, Holds, Manager
    <3>2. CanDelete(p)' /\ \A id \in bridges' : HasBridge(p, id)' \/ (id \in bridges /\ ~HasBridge(p, id))
      BY <3>1 DEF CanDelete, HasBridge, Holds
    <3>3. QED
      BY <1>e, <2>1, <3>1, <3>2, AccountStep DEF HasNamespace
  <2>5. ASSUME NEW i \in Party, AddNamespace(p, i) PROVE Accounted'
    <3>1. /\ Holds(p) /\ net'[p].stage = "creating" /\ net[p].stage = "creating" /\ net'[p].bridge_ID = net[p].bridge_ID
          /\ namespaces' = namespaces \cup {<<i, net[p].bridge_ID>>} /\ UNCHANGED bridges
      BY <1>b, <2>5 DEF AddNamespace, Holds, Manager
    <3>2. CanDelete(p)' /\ \A id \in bridges' : HasBridge(p, id)' \/ (id \in bridges /\ ~HasBridge(p, id))
      BY <1>e, <3>1 DEF CanDelete, HasBridge, Holds
    <3>3. \A j \in Party, id \in Ids : <<j, id>> \in namespaces' =>
            HasNamespace(p, j, id)' \/ (<<j, id>> \in namespaces /\ ~HasNamespace(p, j, id))
      BY <3>1 DEF HasNamespace, Holds
    <3>4. QED
      BY <1>e, <2>1, <3>1, <3>2, <3>3, AccountStep
  <2>6. ASSUME BridgeFails(p) \/ \E i \in Party : NamespaceFails(p, i) PROVE FALSE
    <3>1. ASSUME BridgeFails(p) PROVE FALSE
      BY <3>1 DEF BridgeFails, Fault, Undisturbed, NetTypeOK
    <3>2. ASSUME NEW i \in Party, NamespaceFails(p, i) PROVE FALSE
      BY <3>2, <1>a DEF NamespaceFails, Undisturbed, Intact
    <3>3. QED
      BY <2>6, <3>1, <3>2
  <2>7. CASE CheckNetwork(p) \/ ListOwn(p)
    <3>1. /\ Holds(p) /\ net[p].stage \in {"creating", "up", "failed"} /\ net'[p].bridge_ID = net[p].bridge_ID
          /\ UNCHANGED <<bridges, namespaces>>
      BY <1>b, <2>7 DEF CheckNetwork, ListOwn, Holds, Manager
    <3>2. \/ net'[p].stage \in {"up", "failed"}
          \/ net'[p].stage = "bridge" /\ net'[p].todo = Own(p, Party)
      BY <1>b, <1>e, <2>7, <3>1 DEF CheckNetwork, ListOwn, Manager, CanDelete
    <3>3. CanDelete(p)'
      BY <1>e, <3>1, <3>2 DEF CanDelete, Holds, Own
    <3>4. \A id \in bridges' : HasBridge(p, id)' \/ (id \in bridges /\ ~HasBridge(p, id))
      BY <3>1, <3>2 DEF HasBridge, Holds
    <3>5. \A j \in Party, id \in Ids : <<j, id>> \in namespaces' =>
            HasNamespace(p, j, id)' \/ (<<j, id>> \in namespaces /\ ~HasNamespace(p, j, id))
      BY <3>1, <3>2 DEF HasNamespace, Holds, Own
    <3>6. QED
      BY <1>e, <2>1, <3>1, <3>3, <3>4, <3>5, AccountStep
  <2>8. CASE DeleteBridge(p)
    <3>1. net[p].stage = "bridge" /\ net[p].bridge_ID \in bridges /\ bridges' = bridges \ {net[p].bridge_ID}
      BY <1>e, <2>8 DEF DeleteBridge, CanDelete, Holds
    <3>2. net' = [net EXCEPT ![p].stage = "namespaces"] /\ UNCHANGED namespaces
      BY <2>8, <3>1 DEF DeleteBridge
    <3>3. net'[p].stage = "namespaces" /\ net'[p].bridge_ID = net[p].bridge_ID /\ net'[p].todo = net[p].todo
      BY <1>b, <3>2 DEF Manager
    <3>4. CanDelete(p)'
      BY <1>e, <3>1, <3>2, <3>3 DEF CanDelete, Holds
    <3>5. \A id \in bridges' : id \in bridges /\ ~HasBridge(p, id)
      BY <3>1 DEF HasBridge
    <3>6. \A j \in Party, id \in Ids : <<j, id>> \in namespaces' =>
            HasNamespace(p, j, id)' \/ (<<j, id>> \in namespaces /\ ~HasNamespace(p, j, id))
      BY <3>1, <3>2, <3>3 DEF HasNamespace, Holds
    <3>7. \A q \in Procs \ {p} : Holds(q) => net[q].bridge_ID # net[p].bridge_ID
      BY <1>a, <3>1 DEF Distinct, Holds
    <3>8. QED
      BY <1>e, <2>1, <3>1, <3>2, <3>4, <3>5, <3>6, <3>7, AccountStep
  <2>9. CASE DeleteNamespace(p)
    <3>1. PICK i \in net[p].todo :
            /\ IF i \in Own(p, {i}) THEN net' = [net EXCEPT ![p].todo = @ \ {i}] ELSE DeletionFails(p)
            /\ namespaces' = namespaces \ {<<i, net[p].bridge_ID>>}
      BY <2>9 DEF DeleteNamespace
    <3>2. net[p].stage = "namespaces" /\ UNCHANGED bridges
      BY <2>9 DEF DeleteNamespace
    <3>3. i \in Own(p, {i})
      BY <1>e, <3>1, <3>2 DEF CanDelete, Own
    <3>4. net'[p].stage = "namespaces" /\ net'[p].bridge_ID = net[p].bridge_ID /\ net'[p].todo = net[p].todo \ {i}
      BY <1>b, <3>1, <3>2, <3>3 DEF Manager
    <3>5. CanDelete(p)'
      BY <1>e, <3>1, <3>2, <3>4 DEF CanDelete
    <3>6. \A id \in bridges' : id \in bridges /\ ~HasBridge(p, id)
      BY <3>2 DEF HasBridge
    <3>7. \A j \in Party, id \in Ids : <<j, id>> \in namespaces' =>
            HasNamespace(p, j, id)' \/ (<<j, id>> \in namespaces /\ ~HasNamespace(p, j, id))
      BY <3>1, <3>2, <3>4 DEF HasNamespace, Holds
    <3>8. \A q \in Procs \ {p} : Holds(q) => net[q].bridge_ID # net[p].bridge_ID
      BY <1>a, <3>2 DEF Distinct, Holds
    <3>9. QED
      BY <1>e, <2>1, <3>1, <3>2, <3>5, <3>6, <3>7, <3>8, AccountStep
  <2>10. CASE Forget(p)
    <3>1. /\ net[p].stage = "namespaces" /\ net[p].todo = {} /\ net'[p] = NoManager
          /\ UNCHANGED <<bridges, namespaces>>
      BY <1>b, <2>10 DEF Forget
    <3>2. CanDelete(p)'
      BY <3>1 DEF CanDelete, Holds, NoManager
    <3>3. ~(\E id : HasBridge(p, id)) /\ ~(\E i, id : HasNamespace(p, i, id))
      BY <3>1, Zenon DEF HasBridge, HasNamespace
    <3>4. QED
      BY <1>e, <2>1, <3>1, <3>2, <3>3, AccountStep
  <2>11. QED
    BY <1>2, <2>2, <2>3, <2>4, <2>5, <2>6, <2>7, <2>8, <2>9, <2>10 DEF SetupStep, CleanStep
<1>3. QED
  BY <1>1, <1>2, <1>c DEF NetNext


(***************************************************************************)
(* The inductive invariant.                                                *)
(***************************************************************************)

\* Parties wait, and compute, only among those of the handler and between their launch
\* and the end of the clients.
ClientsOK(p) ==
  /\ handler[p].phase # "none" => handler[p].n_parties > 0
  /\ handler[p].phase \in {"compile", "reset"} /\ handler[p].task # "smpc" => handler[p].n_parties > 1
  /\ handler[p].waiting \subseteq Clients(p) /\ handler[p].computing \subseteq Clients(p)
  /\ handler[p].phase \in {"none", "idle", "compile", "reset"} => handler[p].clients = {}
  /\ handler[p].phase \in {"network", "launch", "running"} => handler[p].clients # {}
  /\ handler[p].phase \notin {"launch", "running", "cleanup"} => handler[p].computing = {}
  /\ handler[p].computing # {} => handler[p].clients # {}

\* The network has as many namespaces as the handler has parties before the first is
\* launched and for as long as one computes, is not torn down while there are clients,
\* and is gone when the handler is.
NetworkOK(p) ==
  /\ handler[p].phase = "none" => net[p] = NoManager
  /\ Virtual(p) =>
       /\ handler[p].phase = "network" =>
            /\ net[p].stage \in {"locking", "choosing", "adding", "creating"} => net[p].wanted = handler[p].n_parties
            /\ net[p].stage = "up" => handler[p].n_parties <= net[p].active
       /\ handler[p].phase \in {"launch", "running"} \/ handler[p].computing # {} =>
            net[p].stage = "up" /\ handler[p].n_parties <= net[p].active
       /\ handler[p].clients # {} /\ handler[p].phase = "cleanup" => net[p].stage \in {"up", "failed"}

HandlerInv == TypeOK /\ \A p \in Procs : ClientsOK(p) /\ NetworkOK(p)

(***************************************************************************)
(* Every step of a handler is one of VirtualNetwork or leaves it alone.    *)
(***************************************************************************)

LEMMA NetStep == HandlerInv /\ [Next]_vars => [NetNext]_netVars
<1> SUFFICES ASSUME HandlerInv, [Next]_vars, ~UNCHANGED netVars PROVE NetNext
  OBVIOUS
<1>1. PICK p \in Procs : Step(p) \/ Kill(p)
  BY DEF Next, vars
<1>2. CASE measure_bandwidth(p) \/ SetUp(p) \/ tear_down_namespaces(p) \/ TearDown(p) \/ Kill(p)
  BY <1>2 DEF NetNext, measure_bandwidth, SetUp, tear_down_namespaces, TearDown, Kill
<1>3. CASE create_clients(p)
  <2>1. handler[p].n_parties \in 1 .. MaxParties
    BY <1>3 DEF create_clients, HandlerInv, TypeOK, Handler, ClientsOK
  <2>2. setup_network(p, handler[p].n_parties)
    BY <1>3 DEF create_clients
  <2>3. QED
    BY <2>1, <2>2 DEF NetNext
<1>4. CASE UNCHANGED netVars
  BY <1>4
<1>5. QED
  BY <1>1, <1>2, <1>3, <1>4 DEF Step, NewHandler, smpc, measure_delay, prepare_virtual_networks, start_computation,
     finish_computation, EndTask, Raises, close, DeleteClients, final_cleanup, HostUnchanged

\* While a network is set up the number of namespaces wanted stays, and it is up only
\* when it has so many.
LEMMA SetupReachesWanted ==
  ASSUME net \in [Procs -> Manager], NEW p \in Procs, SetupStep(p)
  PROVE  /\ net'[p].stage \in {"locking", "choosing", "adding", "creating"} =>
              /\ net[p].stage \in {"locking", "choosing", "adding", "creating"}
              /\ net'[p].wanted = net[p].wanted
         /\ net'[p].stage = "up" => net[p].stage = "creating" /\ net[p].wanted <= net'[p].active
         /\ namespaces \subseteq namespaces'
<1>1. net[p] \in Manager
  OBVIOUS
<1>2. CASE AcquireLock(p)
  BY <1>1, <1>2 DEF AcquireLock, Manager
<1>3. CASE ChooseId(p)
  BY <1>1, <1>3 DEF ChooseId, Manager
<1>4. CASE AddBridge(p)
  BY <1>1, <1>4 DEF AddBridge, Manager
<1>5. CASE BridgeFails(p)
  BY <1>1, <1>5 DEF BridgeFails, Manager
<1>6. ASSUME NEW i \in Party, AddNamespace(p, i)
      PROVE  net'[p].stage = "creating" /\ net'[p].wanted = net[p].wanted /\ namespaces \subseteq namespaces'
  BY <1>1, <1>6 DEF AddNamespace, Manager
<1>7. ASSUME NEW i \in Party, NamespaceFails(p, i)
      PROVE  net'[p].stage = "failed" /\ namespaces \subseteq namespaces'
  BY <1>1, <1>7 DEF NamespaceFails, Manager
<1>8. CASE CheckNetwork(p)
  BY <1>1, <1>8 DEF CheckNetwork, Manager
<1>9. QED
  BY <1>2, <1>3, <1>4, <1>5, <1>6, <1>7, <1>8 DEF SetupStep, AddNamespace

(***************************************************************************)
(* The invariant is inductive.                                             *)
(***************************************************************************)

LEMMA HandlerInit == Init => LockInv /\ HandlerInv
<1> SUFFICES ASSUME Init PROVE LockInv /\ HandlerInv
  OBVIOUS
<1>1. LockInv
  BY LockInit DEF Init
<1>2. NoHandler \in Handler
  BY NetAssumption DEF NoHandler, Handler
<1>3. TypeOK
  <2>1. NetTypeOK /\ handler \in [Procs -> Handler]
    BY <1>1, <1>2 DEF Init, LockInv
  <2>2. handlers \in 0 .. MaxHandlers /\ tasks \in 0 .. MaxTasks
    BY HandlerAssumption DEF Init
  <2>3. lo_delay \in BOOLEAN /\ veth_delays \subseteq namespaces
    BY DEF Init
  <2>4. QED
    BY <2>1, <2>2, <2>3 DEF TypeOK
<1>4. ASSUME NEW p \in Procs PROVE ClientsOK(p) /\ NetworkOK(p)
  BY DEF Init, NetInit, NoHandler, ClientsOK, NetworkOK
<1>5. QED
  BY <1>1, <1>3, <1>4 DEF HandlerInv

\* What a step of one process has to respect: nothing of another process changes.
LEMMA HandlerStep ==
  ASSUME HandlerInv, NetTypeOK', NEW p \in Procs,
         handler' = [handler EXCEPT ![p] = handler'[p]], handler'[p] \in Handler,
         handlers' \in 0 .. MaxHandlers, tasks' \in 0 .. MaxTasks,
         lo_delay' \in BOOLEAN, veth_delays' \subseteq namespaces',
         \A q \in Procs \ {p} : net'[q] = net[q],
         ClientsOK(p)', NetworkOK(p)'
  PROVE  HandlerInv'
<1>1. \A q \in Procs \ {p} : handler'[q] = handler[q]
  BY DEF HandlerInv, TypeOK
<1>2. handler' \in [Procs -> Handler]
  BY DEF HandlerInv, TypeOK
<1>3. \A q \in Procs \ {p} : ClientsOK(q)'
  BY <1>1 DEF HandlerInv, ClientsOK, Clients
<1>4. \A q \in Procs \ {p} : NetworkOK(q)'
  BY <1>1 DEF HandlerInv, NetworkOK, Virtual
<1>5. QED
  BY <1>2, <1>3, <1>4 DEF HandlerInv, TypeOK

LEMMA HandlerNext == HandlerInv /\ NetTypeOK' /\ [Next]_vars => HandlerInv'
<1> SUFFICES ASSUME HandlerInv, NetTypeOK', [Next]_vars PROVE HandlerInv'
  OBVIOUS
<1> USE NetAssumption, HandlerAssumption
<1>a. /\ net \in [Procs -> Manager] /\ handler \in [Procs -> Handler]
      /\ handlers \in 0 .. MaxHandlers /\ tasks \in 0 .. MaxTasks
      /\ lo_delay \in BOOLEAN /\ veth_delays \subseteq namespaces
  BY DEF HandlerInv, TypeOK, NetTypeOK
<1>b. \A p \in Procs : handler[p] \in Handler /\ ClientsOK(p) /\ NetworkOK(p)
  BY <1>a DEF HandlerInv
<1>c. \A p \in Procs : /\ handler[p].n_parties \in 0 .. MaxParties
                       /\ handler[p].waiting \in SUBSET Party /\ handler[p].computing \in SUBSET Party
  BY <1>b DEF Handler
<1>d. \A p \in Procs : Clients(p) \subseteq Party
  BY <1>c DEF Clients, Party
<1>1. ASSUME NEW p \in Procs, NewHandler(p) PROVE HandlerInv'
  <2>1. PICK m \in Modes, n \in 1 .. MaxParties :
          handler' = [handler EXCEPT ![p] = [NoHandler EXCEPT !.phase = "idle", !.mode = m, !.n_parties = n]]
    BY <1>1 DEF NewHandler
  <2>2. /\ handler' = [handler EXCEPT ![p] = handler'[p]] /\ handler'[p] \in Handler
        /\ handler'[p].phase = "idle" /\ handler'[p].n_parties > 0 /\ handler'[p].clients = {}
        /\ handler'[p].waiting = {} /\ handler'[p].computing = {}
    <3>1. handler'[p] = [phase |-> "idle", mode |-> m, task |-> None, n_parties |-> n,
                         clients |-> {}, waiting |-> {}, computing |-> {}]
      BY <1>a, <2>1 DEF NoHandler
    <3>2. handler' = [handler EXCEPT ![p] = handler'[p]]
      BY <1>a, <2>1
    <3>3. QED
      BY <3>1, <3>2 DEF Handler
  <2>3. ClientsOK(p)' /\ NetworkOK(p)'
    BY <2>2 DEF ClientsOK, NetworkOK
  <2>4. handlers' \in 0 .. MaxHandlers
    BY <1>1, <1>a DEF NewHandler
  <2>5. UNCHANGED <<net, namespaces, tasks, lo_delay, veth_delays>>
    BY <1>1 DEF NewHandler, netVars
  <2>6. QED
    BY <1>a, <2>2, <2>3, <2>4, <2>5, HandlerStep
<1>2. ASSUME NEW p \in Procs, smpc(p) \/ measure_delay(p) \/ measure_bandwidth(p) PROVE HandlerInv'
  <2>1. PICK task \in Task, first \in {"compile", "reset"} : Begin(p, task, first) /\ (task # "smpc" => handler[p].n_parties > 1)
    BY <1>2 DEF smpc, measure_delay, measure_bandwidth, Task
  <2>2. /\ handler' = [handler EXCEPT ![p] = handler'[p]] /\ handler'[p] \in Handler
        /\ handler'[p] = [handler[p] EXCEPT !.phase = first, !.task = task]
        /\ tasks' \in 0 .. MaxTasks /\ handlers' = handlers
    <3>1. handler' = [handler EXCEPT ![p].phase = first, ![p].task = task]
      BY <2>1 DEF Begin
    <3>2. handler'[p] = [handler[p] EXCEPT !.phase = first, !.task = task] /\ handler' = [handler EXCEPT ![p] = handler'[p]]
      BY <1>a, <3>1
    <3>3. handler'[p] \in Handler
      BY <1>b, <3>2 DEF Handler
    <3>4. tasks' \in 0 .. MaxTasks /\ handlers' = handlers
      BY <1>a, <2>1 DEF Begin
    <3>5. QED
      BY <3>2, <3>3, <3>4
  <2>3. /\ handler'[p].phase = first /\ handler'[p].task = task /\ handler[p].phase = "idle"
        /\ handler'[p].n_parties = handler[p].n_parties /\ handler'[p].clients = handler[p].clients
        /\ handler'[p].waiting = handler[p].waiting /\ handler'[p].computing = handler[p].computing
    <3>1. handler[p].phase = "idle"
      BY <2>1 DEF Begin
    <3>2. handler[p] \in Handler /\ handler'[p] = [handler[p] EXCEPT !.phase = first, !.task = task]
      BY <1>b, <2>2
    <3>3. QED
      BY <3>1, <3>2 DEF Handler
  <2>4. ClientsOK(p)' /\ NetworkOK(p)'
    BY <1>b, <2>1, <2>3 DEF ClientsOK, NetworkOK, Clients
  <2>5. \A q \in Procs \ {p} : net'[q] = net[q]
    BY <1>2, <1>a, NetLocal DEF smpc, measure_delay, measure_bandwidth, HostUnchanged, netVars
  <2>6. UNCHANGED <<namespaces, lo_delay, veth_delays>>
    BY <1>2 DEF smpc, measure_delay, measure_bandwidth, HostUnchanged, netVars, ListOwn
  <2>7. QED
    BY <1>a, <2>2, <2>4, <2>5, <2>6, HandlerStep
<1>3. ASSUME NEW p \in Procs, create_clients(p) PROVE HandlerInv'
  <2> DEFINE W == IF handler[p].task = "smpc" THEN Clients(p) ELSE IF Virtual(p) THEN {0, 1} ELSE {0}
             P == IF Virtual(p) THEN "network" ELSE "launch"
             h == [handler[p] EXCEPT !.clients = Clients(p), !.waiting = W, !.phase = P]
  <2>1. handler' = [handler EXCEPT ![p] = h]
    BY <1>3 DEF create_clients
  <2>2. handler[p].n_parties > 0 /\ (handler[p].task # "smpc" => handler[p].n_parties > 1)
    BY <1>3, <1>b DEF create_clients, ClientsOK
  <2>3. W \subseteq Clients(p) /\ Clients(p) # {}
    <3>1. Clients(p) = 0 .. handler[p].n_parties - 1 /\ handler[p].n_parties \in Nat
      BY <1>c DEF Clients
    <3>2. 0 \in Clients(p) /\ (handler[p].task # "smpc" => 1 \in Clients(p))
      BY <2>2, <3>1
    <3>3. QED
      BY <3>2
  <2>4. P \in {"network", "launch"} /\ (P = "network" <=> Virtual(p))
    OBVIOUS
  <2> HIDE DEF W, P
  <2>5. h \in Handler
    BY <1>b, <1>d, <2>3, <2>4 DEF Handler
  <2>6. /\ h.phase = P /\ h.clients = Clients(p) /\ h.waiting = W
        /\ \A f \in {"n_parties", "mode", "computing"} : h[f] = handler[p][f]
    BY <1>b DEF Handler
  <2> HIDE DEF h
  <2>7. handler'[p] = h
    BY <1>a, <2>1
  <2>8. handler[p].computing = {}
    BY <1>3, <1>b DEF create_clients, ClientsOK
  <2>9. ClientsOK(p)'
    BY <2>2, <2>3, <2>4, <2>6, <2>7, <2>8 DEF ClientsOK, Clients
  <2>10. Virtual(p) => setup_network(p, handler[p].n_parties)
    BY <1>3 DEF create_clients
  <2>11. Virtual(p) => net'[p].stage \in {"creating", "locking"} /\ net'[p].wanted = handler[p].n_parties
    BY <1>a, <2>10 DEF setup_network, Manager
  <2>12. NetworkOK(p)'
    BY <2>4, <2>6, <2>7, <2>8, <2>11 DEF NetworkOK, Virtual
  <2>13. (\A q \in Procs \ {p} : net'[q] = net[q]) /\ UNCHANGED <<namespaces, handlers, tasks, lo_delay, veth_delays>>
    <3>1. UNCHANGED netVars \/ setup_network(p, handler[p].n_parties)
      BY <1>3 DEF create_clients
    <3>2. handler[p].n_parties \in 1 .. MaxParties
      BY <1>c, <2>2
    <3>3. QED
      BY <1>3, <1>a, <3>1, <3>2, NetLocal DEF create_clients, netVars, setup_network
  <2>14. QED
    BY <1>a, <2>1, <2>5, <2>7, <2>9, <2>12, <2>13, HandlerStep
<1>4. ASSUME NEW p \in Procs, SetUp(p) PROVE HandlerInv'
  <2>1. SetupStep(p) /\ handler[p].phase = "network" /\ UNCHANGED handlerVars
    BY <1>4 DEF SetUp
  <2>2. handler[p].computing = {}
    BY <1>b, <2>1 DEF ClientsOK
  <2>3. net[p] \in Manager /\ net'[p] \in Manager
    BY <1>a DEF NetTypeOK
  <2>4. NetworkOK(p)'
    BY <1>a, <1>b, <2>1, <2>2, SetupReachesWanted DEF NetworkOK, Virtual, handlerVars
  <2>5. ClientsOK(p)'
    BY <1>b, <2>1 DEF ClientsOK, Clients, handlerVars
  <2>6. (\A q \in Procs \ {p} : net'[q] = net[q]) /\ namespaces \subseteq namespaces'
    BY <1>a, <2>1, NetLocal, SetupReachesWanted
  <2>7. QED
    BY <1>a, <1>b, <2>1, <2>4, <2>5, <2>6, HandlerStep DEF handlerVars
<1>5. ASSUME NEW p \in Procs, prepare_virtual_networks(p) \/ Raises(p) \/ close(p) PROVE HandlerInv'
  <2>1. PICK to \in {"launch", "cleanup"} :
          /\ handler' = [handler EXCEPT ![p].phase = to]
          /\ to = "launch" => handler[p].phase = "network" /\ net[p].stage = "up"
          /\ to = "cleanup" => /\ handler[p].phase \in {"idle", "compile", "reset", "network", "launch", "running"}
                               /\ handler[p].phase = "network" => net[p].stage = "failed"
    BY <1>5 DEF prepare_virtual_networks, Raises, close, Goto
  <2>2. UNCHANGED <<netVars, handlers, tasks, lo_delay, veth_delays>>
    BY <1>5 DEF prepare_virtual_networks, Raises, close, Goto, HostUnchanged
  <2>3. /\ handler' = [handler EXCEPT ![p] = handler'[p]] /\ handler'[p] \in Handler /\ handler'[p].phase = to
        /\ \A f \in {"mode", "task", "n_parties", "clients", "waiting", "computing"} : handler'[p][f] = handler[p][f]
    BY <1>a, <1>b, <2>1 DEF Handler
  <2>4. ClientsOK(p)'
    BY <1>b, <2>1, <2>3 DEF ClientsOK, Clients
  <2>5. NetworkOK(p)'
    BY <1>b, <2>1, <2>2, <2>3 DEF NetworkOK, ClientsOK, Virtual, netVars
  <2>6. QED
    BY <1>a, <2>2, <2>3, <2>4, <2>5, HandlerStep DEF netVars
<1>6. ASSUME NEW p \in Procs, NEW i \in Party, start_computation(p, i) PROVE HandlerInv'
  <2>1. PICK to \in {"launch", "running"} :
          handler' = [handler EXCEPT ![p].waiting = @ \ {i}, ![p].computing = @ \cup {i}, ![p].phase = to]
    BY <1>6 DEF start_computation
  <2>2. i \in handler[p].waiting /\ handler[p].phase = "launch" /\ UNCHANGED <<netVars, handlers, tasks>>
    BY <1>6 DEF start_computation
  <2>3. /\ handler' = [handler EXCEPT ![p] = handler'[p]] /\ handler'[p] \in Handler /\ handler'[p].phase = to
        /\ handler'[p].waiting = handler[p].waiting \ {i} /\ handler'[p].computing = handler[p].computing \cup {i}
        /\ handler'[p].mode = handler[p].mode /\ handler'[p].n_parties = handler[p].n_parties
        /\ handler'[p].clients = handler[p].clients
    <3>1. handler' = [handler EXCEPT ![p] = handler'[p]]
      BY <1>a, <2>1
    <3>2. handler'[p] = [handler[p] EXCEPT !.waiting = handler[p].waiting \ {i},
                                           !.computing = handler[p].computing \cup {i}, !.phase = to]
      BY <1>a, <2>1
    <3>3. handler[p].waiting \ {i} \in SUBSET Party /\ handler[p].computing \cup {i} \in SUBSET Party
      BY <1>c
    <3>4. QED
      BY <1>b, <3>1, <3>2, <3>3 DEF Handler
  <2>4. ClientsOK(p)'
    BY <1>b, <2>2, <2>3 DEF ClientsOK, Clients
  <2>5. NetworkOK(p)'
    BY <1>b, <2>2, <2>3 DEF NetworkOK, Virtual, netVars
  <2>6. lo_delay' \in BOOLEAN /\ veth_delays' \subseteq namespaces'
    BY <1>6, <1>a, <2>2 DEF start_computation, enable_latency, netVars
  <2>7. QED
    BY <1>a, <2>2, <2>3, <2>4, <2>5, <2>6, HandlerStep DEF netVars
<1>7. ASSUME NEW p \in Procs, finish_computation(p) PROVE HandlerInv'
  <2>1. PICK i : /\ handler' = [handler EXCEPT ![p].computing = @ \ {i}]
                 /\ disable_latency(p, i)
    BY <1>7 DEF finish_computation
  <2>2. handler[p].phase = "running" /\ UNCHANGED <<netVars, handlers, tasks>>
    BY <1>7 DEF finish_computation
  <2>3. /\ handler' = [handler EXCEPT ![p] = handler'[p]] /\ handler'[p] \in Handler
        /\ handler'[p].computing = handler[p].computing \ {i}
        /\ \A f \in {"phase", "mode", "task", "n_parties", "clients", "waiting"} : handler'[p][f] = handler[p][f]
    BY <1>a, <1>b, <2>1 DEF Handler
  <2>4. ClientsOK(p)'
    BY <1>b, <2>3 DEF ClientsOK, Clients
  <2>5. NetworkOK(p)'
    BY <1>b, <2>2, <2>3 DEF NetworkOK, Virtual, netVars
  <2>6. lo_delay' \in BOOLEAN /\ veth_delays' \subseteq namespaces'
    BY <1>a, <2>1, <2>2 DEF disable_latency, netVars
  <2>7. QED
    BY <1>a, <2>2, <2>3, <2>4, <2>5, <2>6, HandlerStep DEF netVars
<1>8. ASSUME NEW p \in Procs, EndTask(p) \/ DeleteClients(p) PROVE HandlerInv'
  <2>1. /\ handler' = [handler EXCEPT ![p] = handler'[p]] /\ handler'[p] \in Handler
        /\ handler'[p].phase \in {"idle", "cleanup"} /\ handler[p].phase # "none"
        /\ handler'[p].clients = {} /\ handler'[p].computing = {} /\ handler'[p].waiting \subseteq handler[p].waiting
        /\ handler'[p].n_parties = handler[p].n_parties
    BY <1>8, <1>a, <1>b DEF EndTask, DeleteClients, Handler
  <2>2. UNCHANGED <<netVars, handlers, tasks>> /\ DelayOfClients(p, handler[p].clients)
    BY <1>8 DEF EndTask, DeleteClients
  <2>3. ClientsOK(p)'
    BY <1>b, <2>1 DEF ClientsOK, Clients
  <2>4. NetworkOK(p)'
    BY <2>1 DEF NetworkOK
  <2>5. lo_delay' \in BOOLEAN /\ veth_delays' \subseteq namespaces'
    BY <1>a, <2>2 DEF DelayOfClients, netVars
  <2>6. QED
    BY <1>a, <2>1, <2>2, <2>3, <2>4, <2>5, HandlerStep DEF netVars
<1>9. ASSUME NEW p \in Procs, tear_down_namespaces(p) \/ TearDown(p) PROVE HandlerInv'
  <2>1. handler' = handler /\ handlers' = handlers /\ tasks' = tasks /\ lo_delay' = lo_delay
    BY <1>9 DEF tear_down_namespaces, TearDown, handlerVars
  <2>2. veth_delays' \subseteq namespaces'
    BY <1>9, <1>a DEF tear_down_namespaces, TearDown, handlerVars, ListOwn
  <2>3. \A q \in Procs \ {p} : net'[q] = net[q]
    BY <1>9, <1>a, NetLocal DEF tear_down_namespaces, TearDown
  <2>4. /\ handler[p].phase \in {"reset", "cleanup"}
        /\ Virtual(p) => handler[p].clients = {} /\ handler[p].computing = {}
    BY <1>9, <1>b DEF tear_down_namespaces, TearDown, CleanStep, DeleteBridge, DeleteNamespace, Forget, ClientsOK, NetworkOK
  <2>5. ClientsOK(p)' /\ NetworkOK(p)'
    BY <1>b, <2>1, <2>4 DEF ClientsOK, NetworkOK, Clients, Virtual
  <2>6. QED
    BY <1>a, <1>b, <2>1, <2>2, <2>3, <2>5, HandlerStep
<1>10. ASSUME NEW p \in Procs, final_cleanup(p) \/ Kill(p) PROVE HandlerInv'
  <2>1. /\ handler' = [handler EXCEPT ![p] = NoHandler]
        /\ UNCHANGED <<namespaces, handlers, tasks, lo_delay, veth_delays>>
    BY <1>10 DEF final_cleanup, Kill, HostUnchanged, netVars, KillNetwork
  <2>2. \A q \in Procs \ {p} : net'[q] = net[q]
    BY <1>10, <1>a, NetLocal DEF final_cleanup, Kill, HostUnchanged, netVars
  <2>3. handler'[p] = NoHandler /\ NoHandler \in Handler
    BY <1>a, <2>1 DEF NoHandler, Handler
  <2>4. ClientsOK(p)' /\ NetworkOK(p)'
    <3>1. net'[p] = NoManager
      BY <1>10, <1>a DEF final_cleanup, Kill, KillNetwork, HostUnchanged, netVars
    <3>2. QED
      BY <2>3, <3>1 DEF ClientsOK, NetworkOK, NoHandler
  <2>5. QED
    BY <1>a, <2>1, <2>2, <2>3, <2>4, HandlerStep
<1>11. CASE UNCHANGED vars
  BY <1>11 DEF vars, netVars, handlerVars, HandlerInv, TypeOK, ClientsOK, NetworkOK, Clients, Virtual
<1>12. QED
  BY <1>1, <1>2, <1>3, <1>4, <1>5, <1>6, <1>7, <1>8, <1>9, <1>10, <1>11 DEF Next, Step

(***************************************************************************)
(* What follows from the networks.                                         *)
(***************************************************************************)

LEMMA InvNext == LockInv /\ HandlerInv /\ [Next]_vars => LockInv' /\ HandlerInv'
<1>1. LockInv /\ HandlerInv /\ [Next]_vars => LockInv'
  BY NetStep, LockNext
<1>2. LockInv' => NetTypeOK'
  BY DEF LockInv
<1>3. QED
  BY <1>1, <1>2, HandlerNext

\* The handlers implement VirtualNetwork: whatever they compute, measure or fail at,
\* they set networks up and tear them down only as its processes do.
THEOREM HandlersUseTheNetwork == Spec => NetSpec
<1>1. Init => NetInit
  BY DEF Init
<1>2. LockInv /\ HandlerInv /\ [Next]_vars => [NetNext]_netVars
  BY NetStep
<1>3. QED
  BY HandlerInit, InvNext, <1>1, <1>2, PTL DEF Spec, NetSpec

\* The types of the host and its handlers.
THEOREM HandlerTypeCorrect == Spec => []TypeOK
<1>1. HandlerInv => TypeOK
  BY DEF HandlerInv
<1>2. QED
  BY HandlerInit, InvNext, <1>1, PTL DEF Spec

\* Handlers that run computations and measurements, end or are killed never choose the
\* same id at the same time (neonhandler.py:66-97, virtualnet.py:52-100).
THEOREM HandlersChooseFreeIds == Spec => []ChosenIdStaysFree
  BY HandlersUseTheNetwork, LockProtectsChoice, PTL

\* No handler harms the network of another (neonhandler.py:903-934, virtualnet.py:163-172).
THEOREM HandlersKeepNetworksIntact == Spec => []NetworksAreIntact
  BY HandlersUseTheNetwork, NetworksStayIntact, PTL

\* A step of one process leaves handler and manager of the others alone.
LEMMA StepLocal ==
  ASSUME HandlerInv, NEW p \in Procs, Step(p) \/ Kill(p)
  PROVE  \A q \in Procs \ {p} : handler'[q] = handler[q] /\ net'[q] = net[q]
<1>1. net \in [Procs -> Manager] /\ handler \in [Procs -> Handler]
  BY DEF HandlerInv, TypeOK, NetTypeOK
<1>2. \A q \in Procs \ {p} : handler'[q] = handler[q]
  <2>1. CASE NewHandler(p)
    BY <1>1, <2>1 DEF NewHandler
  <2>2. CASE smpc(p) \/ measure_delay(p) \/ measure_bandwidth(p) \/ create_clients(p)
    BY <1>1, <2>2 DEF smpc, measure_delay, measure_bandwidth, Begin, create_clients
  <2>3. CASE (\E i \in Party : start_computation(p, i)) \/ finish_computation(p)
    BY <1>1, <2>3 DEF start_computation, finish_computation
  <2>4. CASE prepare_virtual_networks(p) \/ Raises(p) \/ close(p)
    BY <1>1, <2>4 DEF prepare_virtual_networks, Raises, close, Goto
  <2>5. CASE EndTask(p) \/ DeleteClients(p) \/ final_cleanup(p) \/ Kill(p)
    BY <1>1, <2>5 DEF EndTask, DeleteClients, final_cleanup, Kill
  <2>6. CASE UNCHANGED handler
    BY <2>6
  <2>7. QED
    BY <2>1, <2>2, <2>3, <2>4, <2>5, <2>6 DEF Step, SetUp, tear_down_namespaces, TearDown, handlerVars
<1>3. CASE UNCHANGED net
  BY <1>2, <1>3
<1>4. CASE measure_bandwidth(p) \/ SetUp(p) \/ tear_down_namespaces(p) \/ TearDown(p) \/ Kill(p)
  <2>1. UNCHANGED net \/ SetupStep(p) \/ ListOwn(p) \/ CleanStep(p) \/ KillNetwork(p)
    BY <1>4 DEF measure_bandwidth, SetUp, tear_down_namespaces, TearDown, Kill, netVars
  <2>2. QED
    BY <1>1, <1>2, <2>1, NetLocal
<1>5. CASE create_clients(p)
  <2>1. handler[p].n_parties \in 1 .. MaxParties
    BY <1>1, <1>5 DEF create_clients, HandlerInv, ClientsOK, Handler
  <2>2. UNCHANGED net \/ setup_network(p, handler[p].n_parties)
    BY <1>5, Zenon DEF create_clients, netVars
  <2>3. QED
    BY <1>1, <1>2, <2>1, <2>2, NetLocal
<1>6. QED
  BY <1>2, <1>3, <1>4, <1>5 DEF Step, NewHandler, smpc, measure_delay, prepare_virtual_networks, start_computation,
     finish_computation, EndTask, Raises, close, DeleteClients, final_cleanup, HostUnchanged, netVars

\* A party of another process that computes keeps its delay in every step of p.
LEMMA OthersKeepDelay ==
  ASSUME HandlerInv, HandlerInv', IntactInv, NetworksAreIntact', Undisturbed, VirtualDelaysHold,
         clash' = "none" /\ faults' = 0,
         NEW p \in Procs, Step(p) \/ Kill(p),
         NEW q \in Procs \ {p}, Virtual(q), handler'[q] = handler[q], net'[q] = net[q],
         NEW i \in handler[q].computing
  PROVE  Interface(q, i) \in veth_delays'
<1>1. Interface(q, i) \in veth_delays
  BY DEF VirtualDelaysHold, Undisturbed
<1>2. net[q].stage = "up" /\ handler[q].n_parties <= net[q].active /\ i \in Clients(q)
  BY DEF HandlerInv, NetworkOK, ClientsOK
<1>3. net[p].stage \in {"up", "failed"} => net[p].bridge_ID # net[q].bridge_ID
  BY <1>2 DEF IntactInv, Distinct, Holds
<1>4. \A C : net[p].stage \in {"up", "failed"} => Interface(q, i) \in veth_delays \ {Interface(p, j) : j \in C}
  BY <1>1, <1>3 DEF Interface
<1>5. CASE veth_delays \subseteq veth_delays'
  BY <1>1, <1>5
<1>6. CASE finish_computation(p)
  <2>1. PICK j : disable_latency(p, j)
    BY <1>6 DEF finish_computation
  <2>2. Virtual(p) => net[p].stage = "up"
    BY <1>6 DEF finish_computation, HandlerInv, NetworkOK
  <2>3. QED
    BY <1>1, <1>4, <2>1, <2>2 DEF disable_latency, Interface
<1>7. CASE EndTask(p) \/ DeleteClients(p)
  <2>1. Virtual(p) => net[p].stage \in {"up", "failed"}
    BY <1>7 DEF EndTask, DeleteClients, HandlerInv, NetworkOK
  <2>2. DelayOfClients(p, handler[p].clients)
    BY <1>7 DEF EndTask, DeleteClients
  <2>3. QED
    BY <1>1, <1>4, <2>1, <2>2 DEF DelayOfClients
<1>8. CASE TearDown(p)
  <2>1. /\ net'[q].stage = "up" /\ i \in 0 .. net'[q].active - 1
    BY <1>2 DEF HandlerInv, TypeOK, NetTypeOK, Manager, Handler, Clients
  <2>2. i \in Own(q, 0 .. net[q].active - 1)'
    BY <2>1 DEF NetworksAreIntact
  <2>3. QED
    BY <1>1, <1>8, <2>2 DEF TearDown, Own, Interface
<1>9. QED
  BY <1>5, <1>6, <1>7, <1>8 DEF Step, Kill, NewHandler, smpc, measure_delay, measure_bandwidth, create_clients, SetUp,
     prepare_virtual_networks, start_computation, enable_latency, Raises, close, tear_down_namespaces, final_cleanup,
     HostUnchanged, handlerVars

\* So does a party of p itself.
LEMMA OwnKeepDelay ==
  ASSUME HandlerInv, NetworksAreIntact, Undisturbed, VirtualDelaysHold,
         NEW p \in Procs, Step(p) \/ Kill(p),
         Virtual(p)', NEW i \in handler'[p].computing
  PROVE  Interface(p, i)' \in veth_delays'
<1>1. handler \in [Procs -> Handler] /\ net \in [Procs -> Manager]
  BY DEF HandlerInv, TypeOK, NetTypeOK
<1>2. ClientsOK(p) /\ NetworkOK(p) /\ handler[p] \in Handler
  BY <1>1 DEF HandlerInv
<1>3. \A j \in handler[p].computing : Virtual(p) => Interface(p, j) \in veth_delays
  BY DEF VirtualDelaysHold, Undisturbed
<1>4. CASE UNCHANGED <<net, veth_delays>> /\ handler'[p].mode = handler[p].mode /\ i \in handler[p].computing
  BY <1>3, <1>4 DEF Virtual, Interface
<1>5. CASE \E j \in Party : start_computation(p, j)
  <2>1. PICK j \in Party : start_computation(p, j)
    BY <1>5
  <2>2. /\ handler'[p].computing = handler[p].computing \cup {j} /\ handler'[p].mode = handler[p].mode
        /\ j \in handler[p].waiting /\ handler[p].phase = "launch" /\ UNCHANGED netVars
    BY <1>1, <1>2, <2>1 DEF start_computation, Handler
  <2>3. Virtual(p) /\ veth_delays' = veth_delays \cup ({Interface(p, j)} \cap namespaces)
    BY <2>1, <2>2 DEF start_computation, enable_latency, Virtual
  <2>4. net[p].stage = "up" /\ j \in 0 .. net[p].active - 1
    BY <1>1, <1>2, <2>2, <2>3 DEF ClientsOK, NetworkOK, Clients, Handler, Manager
  <2>5. Interface(p, j) \in namespaces
    BY <2>4 DEF NetworksAreIntact, Undisturbed, Own, Interface
  <2>6. QED
    BY <1>3, <2>2, <2>3, <2>5 DEF Interface, netVars
<1>6. CASE finish_computation(p)
  <2>1. PICK j : handler' = [handler EXCEPT ![p].computing = @ \ {j}] /\ disable_latency(p, j)
    BY <1>6 DEF finish_computation
  <2>2. handler'[p].computing = handler[p].computing \ {j} /\ handler'[p].mode = handler[p].mode
    BY <1>1, <1>2, <2>1 DEF Handler
  <2>3. UNCHANGED netVars
    BY <1>6 DEF finish_computation
  <2>4. Virtual(p) /\ veth_delays' = veth_delays \ {Interface(p, j)}
    BY <2>1, <2>2 DEF disable_latency, Virtual
  <2>5. QED
    BY <1>3, <2>2, <2>3, <2>4 DEF Interface, netVars
<1>7. CASE Raises(p)
  <2>1. handler'[p].computing = handler[p].computing /\ handler'[p].mode = handler[p].mode
    BY <1>1, <1>2, <1>7 DEF Raises, Goto, Handler
  <2>2. UNCHANGED <<net, veth_delays>>
    BY <1>7 DEF Raises, HostUnchanged, netVars
  <2>3. QED
    BY <1>4, <2>1, <2>2
<1>8. CASE NewHandler(p) \/ EndTask(p) \/ DeleteClients(p) \/ final_cleanup(p) \/ Kill(p)
  <2>1. handler'[p].computing = {}
    <3>1. CASE NewHandler(p)
      BY <1>1, <3>1 DEF NewHandler, NoHandler
    <3>2. CASE EndTask(p) \/ DeleteClients(p)
      BY <1>1, <1>2, <3>2 DEF EndTask, DeleteClients, Handler
    <3>3. CASE final_cleanup(p) \/ Kill(p)
      BY <1>1, <3>3 DEF final_cleanup, Kill, NoHandler
    <3>4. QED
      BY <1>8, <3>1, <3>2, <3>3
  <2>2. QED
    BY <2>1
<1>9. CASE \/ smpc(p) \/ measure_delay(p) \/ measure_bandwidth(p) \/ create_clients(p) \/ SetUp(p)
           \/ prepare_virtual_networks(p) \/ close(p)
  <2>1. handler[p].phase \notin {"launch", "running", "cleanup"}
    BY <1>9 DEF smpc, measure_delay, measure_bandwidth, Begin, create_clients, SetUp, prepare_virtual_networks, close, Goto
  <2>2. handler'[p].computing = handler[p].computing
    BY <1>1, <1>2, <1>9 DEF smpc, measure_delay, measure_bandwidth, Begin, create_clients, SetUp, handlerVars,
       prepare_virtual_networks, close, Goto, Handler
  <2>3. QED
    BY <1>2, <2>1, <2>2 DEF ClientsOK
<1>10. CASE tear_down_namespaces(p) \/ TearDown(p)
  <2>1. handler' = handler
    BY <1>10 DEF tear_down_namespaces, TearDown, handlerVars
  <2>2. handler[p].clients = {} \/ net[p].stage # "up"
    BY <1>10 DEF tear_down_namespaces, TearDown, CleanStep, DeleteBridge, DeleteNamespace, Forget
  <2>3. QED
    BY <1>2, <2>1, <2>2 DEF ClientsOK, NetworkOK, Virtual
<1>11. QED
  BY <1>5, <1>6, <1>7, <1>8, <1>9, <1>10 DEF Step

LEMMA DelayNext ==
  /\ HandlerInv /\ IntactInv /\ NetworksAreIntact /\ VirtualDelaysHold
  /\ HandlerInv' /\ IntactInv' /\ NetworksAreIntact'
  /\ [Next]_vars
  => VirtualDelaysHold'
<1> SUFFICES ASSUME HandlerInv, IntactInv, NetworksAreIntact, VirtualDelaysHold, HandlerInv', NetworksAreIntact',
                    [Next]_vars, clash' = "none", faults' = 0
             PROVE  \A q \in Procs : Virtual(q)' => \A i \in handler'[q].computing : Interface(q, i)' \in veth_delays'
  BY DEF VirtualDelaysHold, Virtual, Interface
<1>1. Undisturbed
  BY NetStep, UndisturbedBefore DEF HandlerInv, TypeOK, Undisturbed
<1>2. CASE UNCHANGED vars
  BY <1>1, <1>2 DEF vars, netVars, handlerVars, VirtualDelaysHold, Undisturbed, Virtual, Interface
<1>3. ASSUME NEW p \in Procs, Step(p) \/ Kill(p)
      PROVE  \A q \in Procs : Virtual(q)' => \A i \in handler'[q].computing : Interface(q, i)' \in veth_delays'
  <2>1. \A q \in Procs \ {p} : handler'[q] = handler[q] /\ net'[q] = net[q]
    BY <1>3, StepLocal
  <2>2. ASSUME NEW q \in Procs \ {p}, Virtual(q)', NEW i \in handler'[q].computing
        PROVE  Interface(q, i)' \in veth_delays'
    <3>1. Virtual(q) /\ i \in handler[q].computing /\ Interface(q, i)' = Interface(q, i)
      BY <2>1, <2>2 DEF Virtual, Interface
    <3>2. QED
      BY <1>1, <1>3, <2>1, <3>1, OthersKeepDelay
  <2>3. QED
    BY <1>1, <1>3, <2>2, OwnKeepDelay
<1>4. QED
  BY <1>2, <1>3 DEF Next

\* A party of a virtual network computes under the delay that was asked for, whatever
\* other processes do, as long as no bridge fails and no id is reused
\* (neonhandler.py:788-795, MPSPDZClient.py:339-345, 388-393).
THEOREM DelaysHold == Spec => []VirtualDelaysHold
<1>1. Init => VirtualDelaysHold
  BY DEF Init, NoHandler, VirtualDelaysHold
<1>2. NetSpec => []IntactInv
  <2>1. LockInv => NetTypeOK
    BY DEF LockInv
  <2>2. QED
    BY LockInit, LockNext, IntactInit, IntactNext, <2>1, PTL DEF NetSpec
<1>3. QED
  BY HandlerInit, InvNext, HandlersUseTheNetwork, NetworksStayIntact, DelayNext, <1>1, <1>2, PTL DEF Spec

(***************************************************************************)
(* What is left on the host.                                               *)
(***************************************************************************)

\* The loopback interface is delayed only for a handler that still has clients, the
\* deletion of which takes the delay away.
LoopbackUsed == kills = 0 /\ lo_delay => \E p \in Procs : ~Virtual(p) /\ handler[p].clients # {}

LEMMA LoopbackNext == HandlerInv /\ HandlerInv' /\ LoopbackUsed /\ [Next]_vars => LoopbackUsed'
<1> SUFFICES ASSUME HandlerInv, HandlerInv', LoopbackUsed, [Next]_vars, kills' = 0, lo_delay'
             PROVE  \E q \in Procs : ~Virtual(q)' /\ handler'[q].clients # {}
  BY DEF LoopbackUsed, Virtual
<1>1. CASE UNCHANGED vars
  BY <1>1 DEF vars, netVars, handlerVars, LoopbackUsed, Virtual
<1>2. ASSUME NEW p \in Procs, Step(p) \/ Kill(p)
      PROVE  \E q \in Procs : ~Virtual(q)' /\ handler'[q].clients # {}
  <2>1. handler \in [Procs -> Handler] /\ handler[p] \in Handler /\ ClientsOK(p)
    BY DEF HandlerInv, TypeOK
  <2>2. \A q \in Procs \ {p} : handler'[q] = handler[q]
    BY <1>2, StepLocal
  <2>3. kills = 0 /\ ~Kill(p)
    <3>1. kills \in Nat
      BY DEF HandlerInv, TypeOK, NetTypeOK
    <3>2. ~KillNetwork(p)
      BY <3>1 DEF KillNetwork
    <3>3. ~Kill(p)
      BY <3>2 DEF Kill
    <3>4. kills' = kills
      <4>1. CASE UNCHANGED netVars
        BY <4>1, Zenon DEF netVars
      <4>2. CASE \/ \E n \in 1 .. MaxParties : setup_network(p, n)
                 \/ SetupStep(p) \/ ListOwn(p) \/ CleanStep(p)
        BY <4>2 DEF setup_network, SetupStep, AcquireLock, ChooseId, AddBridge, BridgeFails, AddNamespace, NamespaceFails,
           CheckNetwork, ListOwn, CleanStep, DeleteBridge, DeleteNamespace, Forget
      <4>3. CASE create_clients(p)
        BY <4>3 DEF create_clients, setup_network, netVars
      <4>4. QED
        BY <1>2, <3>3, <4>1, <4>2, <4>3 DEF Step, NewHandler, smpc, measure_delay, measure_bandwidth, SetUp,
           prepare_virtual_networks, start_computation, finish_computation, EndTask, Raises, close, DeleteClients,
           tear_down_namespaces, TearDown, final_cleanup, HostUnchanged
    <3>5. QED
      BY <3>3, <3>4
  <2>4. CASE lo_delay /\ (handler[p].clients = {} \/ Virtual(p))
    <3>1. PICK q \in Procs : ~Virtual(q) /\ handler[q].clients # {}
      BY <2>3, <2>4 DEF LoopbackUsed
    <3>2. q # p
      BY <2>4, <3>1
    <3>3. QED
      BY <2>2, <3>1, <3>2 DEF Virtual
  <2>5. CASE handler'[p].clients = handler[p].clients /\ handler'[p].mode = handler[p].mode
             /\ handler[p].clients # {} /\ ~Virtual(p)
    BY <2>5 DEF Virtual
  <2>6. CASE \E i \in Party : start_computation(p, i)
    <3>1. PICK i \in Party : start_computation(p, i)
      BY <2>6
    <3>2. /\ handler'[p].clients = handler[p].clients /\ handler'[p].mode = handler[p].mode
          /\ handler[p].clients # {}
      BY <2>1, <3>1 DEF start_computation, Handler, ClientsOK
    <3>3. Virtual(p) => lo_delay
      BY <3>1 DEF start_computation, enable_latency
    <3>4. QED
      BY <2>4, <2>5, <3>2, <3>3
  <2>7. CASE EndTask(p) \/ DeleteClients(p)
    <3>1. handler[p].clients # {} /\ DelayOfClients(p, handler[p].clients)
      BY <2>1, <2>7 DEF EndTask, DeleteClients, ClientsOK
    <3>2. Virtual(p) /\ lo_delay
      BY <3>1 DEF DelayOfClients
    <3>3. QED
      BY <2>4, <3>2
  <2>8. CASE finish_computation(p) \/ Raises(p) \/ prepare_virtual_networks(p) \/ close(p)
    <3>1. lo_delay
      BY <2>8 DEF finish_computation, disable_latency, Raises, prepare_virtual_networks, close, HostUnchanged
    <3>2. handler'[p].clients = handler[p].clients /\ handler'[p].mode = handler[p].mode
      BY <2>1, <2>8 DEF finish_computation, Raises, prepare_virtual_networks, close, Goto, Handler
    <3>3. QED
      BY <2>4, <2>5, <3>1, <3>2
  <2>9. CASE SetUp(p) \/ tear_down_namespaces(p) \/ TearDown(p)
    BY <2>4, <2>5, <2>9 DEF SetUp, tear_down_namespaces, TearDown, handlerVars
  <2>10. CASE \/ NewHandler(p) \/ smpc(p) \/ measure_delay(p) \/ measure_bandwidth(p) \/ create_clients(p)
              \/ final_cleanup(p)
    <3>1. lo_delay
      BY <2>10 DEF NewHandler, smpc, measure_delay, measure_bandwidth, create_clients, final_cleanup, HostUnchanged
    <3>2. handler[p].clients = {}
      BY <2>1, <2>10 DEF NewHandler, smpc, measure_delay, measure_bandwidth, Begin, create_clients, final_cleanup, ClientsOK
    <3>3. QED
      BY <2>4, <3>1, <3>2
  <2>11. QED
    BY <1>2, <2>3, <2>6, <2>7, <2>8, <2>9, <2>10 DEF Step
<1>3. QED
  BY <1>1, <1>2 DEF Next

\* When all handlers have ended, by themselves or by an exception at any stage, the
\* host has no bridge, namespace or delay of theirs left (neonhandler.py:921-934).
THEOREM HostLeftClean == Spec => []HostIsLeftClean
<1>1. NetSpec => [](IntactInv /\ AccountInv)
  <2>1. LockInv => NetTypeOK
    BY DEF LockInv
  <2>2. QED
    BY LockInit, LockNext, IntactInit, IntactNext, AccountInit, AccountNext, <2>1, PTL DEF NetSpec
<1>2. Init => LoopbackUsed
  BY DEF Init, LoopbackUsed
<1>3. HandlerInv /\ AccountInv /\ LoopbackUsed => HostIsLeftClean
  <2> SUFFICES ASSUME HandlerInv, AccountInv, LoopbackUsed, kills = 0, Undisturbed,
                      \A p \in Procs : handler[p].phase = "none"
               PROVE  bridges = {} /\ namespaces = {} /\ lock = None /\ ~lo_delay /\ veth_delays = {}
    BY DEF HostIsLeftClean, Undisturbed
  <2>1. \A p \in Procs : net[p].stage = "off" /\ handler[p].clients = {}
    BY DEF HandlerInv, ClientsOK, NetworkOK, NoManager
  <2>2. Accounted /\ LockUsed
    BY DEF AccountInv
  <2>3. \A p \in Procs : ~Holds(p)
    BY <2>1 DEF Holds
  <2>4. bridges = {}
    BY <2>2, <2>3 DEF Accounted, HasBridge
  <2>5. namespaces = {}
    <3>1. namespaces \subseteq Party \X Ids
      BY DEF HandlerInv, TypeOK, NetTypeOK
    <3>2. \A i \in Party, id \in Ids : <<i, id>> \notin namespaces
      BY <2>2, <2>3 DEF Accounted, HasNamespace
    <3>3. QED
      BY <3>1, <3>2
  <2>6. lock = None
    <3>1. lock \in Procs \cup {None}
      BY DEF HandlerInv, TypeOK, NetTypeOK
    <3>2. QED
      BY <2>1, <2>2, <3>1 DEF LockUsed
  <2>7. ~lo_delay
    BY <2>1 DEF LoopbackUsed
  <2>8. veth_delays = {}
    BY <2>5 DEF HandlerInv, TypeOK
  <2>9. QED
    BY <2>4, <2>5, <2>6, <2>7, <2>8
<1>4. QED
  BY HandlerInit, InvNext, HandlersUseTheNetwork, LoopbackNext, <1>1, <1>2, <1>3, PTL DEF Spec

(***************************************************************************)
(* The secrets of a handler: loops that add up and multiply.               *)
(***************************************************************************)

\* The values of the loop over n values, one by one.
LEMMA TotalOfLoop ==
  ASSUME NEW n \in Nat, NEW v, NEW s \in [0 .. n -> Int], s[0] = 0, \A k \in 1 .. n : s[k] = s[k-1] + v[k-1],
         NEW m \in 0 .. n
  PROVE  Total(v, m) = s[m]
<1> DEFINE upto[i \in 0 .. m] == IF i = 0 THEN 0 ELSE upto[i-1] + v[i-1]
           f == [i \in 0 .. m |-> s[i]]
           P == {k \in Nat : k <= m => upto[k] = f[k]}
<1>1. Total(v, m) = upto[m]
  BY DEF Total
<1>2. ASSUME NEW k \in 0 .. m PROVE f[k] = IF k = 0 THEN 0 ELSE f[k-1] + v[k-1]
  <2>1. k # 0 => k - 1 \in 0 .. m /\ k \in 1 .. n
    OBVIOUS
  <2>2. QED
    BY <2>1
<1>3. f = [k \in 0 .. m |-> IF k = 0 THEN 0 ELSE f[k-1] + v[k-1]]
  <2> HIDE DEF f
  <2>1. f = [k \in 0 .. m |-> f[k]]
    BY DEF f
  <2>2. QED
    BY <1>2, <2>1
<1>4. upto = [k \in 0 .. m |-> IF k = 0 THEN 0 ELSE upto[k-1] + v[k-1]]
  BY <1>3, Zenon
<1>5. f[m] = s[m]
  OBVIOUS
<1> HIDE DEF upto, f
<1>6. 0 \in P
  BY <1>2, <1>4
<1>7. ASSUME NEW k \in Nat, k \in P PROVE k + 1 \in P
  <2> SUFFICES ASSUME k + 1 <= m PROVE upto[k+1] = f[k+1]
    OBVIOUS
  <2>1. k <= m /\ k + 1 \in 0 .. m /\ (k + 1) - 1 = k /\ k + 1 # 0
    OBVIOUS
  <2>2. upto[k] = f[k]
    BY <1>7, <2>1
  <2>3. f[k+1] = f[k] + v[k]
    BY <1>2, <2>1
  <2>4. upto[k+1] = upto[k] + v[k]
    BY <1>4, <2>1
  <2>5. QED
    BY <2>2, <2>3, <2>4
<1>8. m \in P
  <2> HIDE DEF P
  <2>1. m \in Nat
    OBVIOUS
  <2>2. QED
    BY <1>6, <1>7, <2>1, Induction
<1>9. QED
  BY <1>1, <1>5, <1>8

LEMMA TotalStep ==
  ASSUME NEW n \in Nat, NEW v, \A i \in 0 .. n - 1 : v[i] \in Int
  PROVE  /\ Total(v, 0) = 0
         /\ \A m \in 0 .. n : Total(v, m) \in Int
         /\ \A m \in 0 .. n - 1 : Total(v, m + 1) = Total(v, m) + v[m]
<1> DEFINE D == Int
           F == [x \in Nat \X D |-> IF x[1] \in 1 .. n THEN x[2] + v[x[1]-1] ELSE 0]
<1>1. F \in [Nat \X D -> D]
  OBVIOUS
<1>2. PICK s \in [0 .. n -> D] : s[0] = 0 /\ \A k \in 1 .. n : s[k] = F[<<k,s[k-1]>>]
  <2> HIDE DEF F, D
  <2>1. 0 \in D
    BY DEF D
  <2>2. Runs(D, F, 0, n) # {}
    BY <1>1, <2>1, LoopRuns
  <2>3. QED
    BY <2>2 DEF Runs
<1>3. ASSUME NEW k \in 1 .. n PROVE s[k] = s[k-1] + v[k-1]
  <2>1. k - 1 \in 0 .. n /\ k \in Nat
    OBVIOUS
  <2>2. s[k-1] \in D
    BY <2>1
  <2>3. F[<<k,s[k-1]>>] = s[k-1] + v[k-1]
    BY <2>1, <2>2
  <2>4. QED
    BY <1>2, <2>3
<1>4. ASSUME NEW m \in 0 .. n PROVE Total(v, m) = s[m]
  <2>1. s \in [0 .. n -> Int] /\ s[0] = 0 /\ \A k \in 1 .. n : s[k] = s[k-1] + v[k-1]
    BY <1>2, <1>3
  <2>2. QED
    BY ONLY <2>1, n \in Nat, m \in 0 .. n, TotalOfLoop
<1> HIDE DEF F
<1>5. ASSUME NEW m \in 0 .. n - 1 PROVE Total(v, m + 1) = Total(v, m) + v[m]
  <2>1. m \in 0 .. n /\ m + 1 \in 1 .. n /\ m + 1 \in 0 .. n /\ (m + 1) - 1 = m
    OBVIOUS
  <2>2. QED
    BY <1>3, <1>4, <2>1
<1>6. QED
  BY <1>2, <1>4, <1>5

LEMMA ProductOfLoop ==
  ASSUME NEW n \in Nat, NEW v, NEW s \in [0 .. n -> Int], s[0] = 1, \A k \in 1 .. n : s[k] = s[k-1] * v[k-1],
         NEW m \in 0 .. n
  PROVE  Product(v, m) = s[m]
<1> DEFINE upto[i \in 0 .. m] == IF i = 0 THEN 1 ELSE upto[i-1] * v[i-1]
           f == [i \in 0 .. m |-> s[i]]
           P == {k \in Nat : k <= m => upto[k] = f[k]}
<1>1. Product(v, m) = upto[m]
  BY DEF Product
<1>2. ASSUME NEW k \in 0 .. m PROVE f[k] = IF k = 0 THEN 1 ELSE f[k-1] * v[k-1]
  <2>1. k # 0 => k - 1 \in 0 .. m /\ k \in 1 .. n
    OBVIOUS
  <2>2. QED
    BY <2>1
<1>3. f = [k \in 0 .. m |-> IF k = 0 THEN 1 ELSE f[k-1] * v[k-1]]
  <2> HIDE DEF f
  <2>1. f = [k \in 0 .. m |-> f[k]]
    BY DEF f
  <2>2. QED
    BY <1>2, <2>1
<1>4. upto = [k \in 0 .. m |-> IF k = 0 THEN 1 ELSE upto[k-1] * v[k-1]]
  BY <1>3, Zenon
<1>5. f[m] = s[m]
  OBVIOUS
<1> HIDE DEF upto, f
<1>6. 0 \in P
  BY <1>2, <1>4
<1>7. ASSUME NEW k \in Nat, k \in P PROVE k + 1 \in P
  <2> SUFFICES ASSUME k + 1 <= m PROVE upto[k+1] = f[k+1]
    OBVIOUS
  <2>1. k <= m /\ k + 1 \in 0 .. m /\ (k + 1) - 1 = k /\ k + 1 # 0
    OBVIOUS
  <2>2. upto[k] = f[k]
    BY <1>7, <2>1
  <2>3. f[k+1] = f[k] * v[k]
    BY <1>2, <2>1
  <2>4. upto[k+1] = upto[k] * v[k]
    BY <1>4, <2>1
  <2>5. QED
    BY <2>2, <2>3, <2>4
<1>8. m \in P
  <2> HIDE DEF P
  <2>1. m \in Nat
    OBVIOUS
  <2>2. QED
    BY <1>6, <1>7, <2>1, Induction
<1>9. QED
  BY <1>1, <1>5, <1>8

LEMMA ProductStep ==
  ASSUME NEW n \in Nat, NEW v, \A i \in 0 .. n - 1 : v[i] \in Int
  PROVE  /\ Product(v, 0) = 1
         /\ \A m \in 0 .. n : Product(v, m) \in Int
         /\ \A m \in 0 .. n - 1 : Product(v, m + 1) = Product(v, m) * v[m]
<1> DEFINE D == Int
           F == [x \in Nat \X D |-> IF x[1] \in 1 .. n THEN x[2] * v[x[1]-1] ELSE 0]
<1>1. F \in [Nat \X D -> D]
  OBVIOUS
<1>2. PICK s \in [0 .. n -> D] : s[0] = 1 /\ \A k \in 1 .. n : s[k] = F[<<k,s[k-1]>>]
  <2> HIDE DEF F, D
  <2>1. 1 \in D
    BY DEF D
  <2>2. Runs(D, F, 1, n) # {}
    BY <1>1, <2>1, LoopRuns
  <2>3. QED
    BY <2>2 DEF Runs
<1>3. ASSUME NEW k \in 1 .. n PROVE s[k] = s[k-1] * v[k-1]
  <2>1. k - 1 \in 0 .. n /\ k \in Nat
    OBVIOUS
  <2>2. s[k-1] \in D
    BY <2>1
  <2>3. F[<<k,s[k-1]>>] = s[k-1] * v[k-1]
    BY <2>1, <2>2
  <2>4. QED
    BY <1>2, <2>3
<1>4. ASSUME NEW m \in 0 .. n PROVE Product(v, m) = s[m]
  <2>1. s \in [0 .. n -> Int] /\ s[0] = 1 /\ \A k \in 1 .. n : s[k] = s[k-1] * v[k-1]
    BY <1>2, <1>3
  <2>2. QED
    BY ONLY <2>1, n \in Nat, m \in 0 .. n, ProductOfLoop
<1> HIDE DEF F
<1>5. ASSUME NEW m \in 0 .. n - 1 PROVE Product(v, m + 1) = Product(v, m) * v[m]
  <2>1. m \in 0 .. n /\ m + 1 \in 1 .. n /\ m + 1 \in 0 .. n /\ (m + 1) - 1 = m
    OBVIOUS
  <2>2. QED
    BY <1>3, <1>4, <2>1
<1>6. QED
  BY <1>2, <1>4, <1>5

LEMMA PowerStep ==
  ASSUME NEW x \in Int, NEW n \in Nat
  PROVE  Power(x, 0) = 1 /\ Power(x, n) \in Int /\ Power(x, n + 1) = Power(x, n) * x
<1> DEFINE v == [i \in Nat |-> x]
           m == n + 1
<1>1. m \in Nat /\ \A i \in 0 .. m - 1 : v[i] \in Int
  OBVIOUS
<1>2. Power(x, 0) = Product(v, 0) /\ Power(x, n) = Product(v, n) /\ Power(x, n + 1) = Product(v, n + 1)
  BY DEF Power
<1>3. n \in 0 .. m /\ n \in 0 .. m - 1 /\ v[n] = x
  OBVIOUS
<1> HIDE DEF v, m
<1>4. QED
  BY <1>1, <1>2, <1>3, ProductStep

\* Sums of sums and of multiples.
Combines(z, n, x, u, y, v) == \A i \in 0 .. n - 1 : u[i] \in Int /\ v[i] \in Int /\ z[i] = x * u[i] + y * v[i]

LEMMA TotalIsLinear ==
  ASSUME NEW n \in Nat, NEW u, NEW v, NEW z, NEW x \in Int, NEW y \in Int, Combines(z, n, x, u, y, v)
  PROVE  Total(z, n) = x * Total(u, n) + y * Total(v, n)
<1> USE DEF Combines
<1> DEFINE S == {k \in Nat : k <= n => Total(z, k) = x * Total(u, k) + y * Total(v, k)}
<1>1. \A i \in 0 .. n - 1 : x * u[i] + y * v[i] \in Int
  <2> TAKE i \in 0 .. n - 1
  <2> DEFINE a == u[i]
             b == v[i]
  <2>1. a \in Int /\ b \in Int
    OBVIOUS
  <2> HIDE DEF a, b
  <2>2. x * a + y * b \in Int
    BY <2>1
  <2>3. QED
    BY <2>2 DEF a, b
<1>2. (\A i \in 0 .. n - 1 : u[i] \in Int) /\ (\A i \in 0 .. n - 1 : v[i] \in Int) /\ (\A i \in 0 .. n - 1 : z[i] \in Int)
  BY <1>1
<1>3. /\ Total(u, 0) = 0 /\ (\A m \in 0 .. n : Total(u, m) \in Int)
      /\ \A m \in 0 .. n - 1 : Total(u, m + 1) = Total(u, m) + u[m]
  BY ONLY <1>2, n \in Nat, TotalStep
<1>4. /\ Total(v, 0) = 0 /\ (\A m \in 0 .. n : Total(v, m) \in Int)
      /\ \A m \in 0 .. n - 1 : Total(v, m + 1) = Total(v, m) + v[m]
  BY ONLY <1>2, n \in Nat, TotalStep
<1>5. /\ Total(z, 0) = 0 /\ (\A m \in 0 .. n : Total(z, m) \in Int)
      /\ \A m \in 0 .. n - 1 : Total(z, m + 1) = Total(z, m) + z[m]
  BY ONLY <1>2, n \in Nat, TotalStep
<1>6. 0 \in S
  BY <1>3, <1>4, <1>5
<1>7. ASSUME NEW k \in Nat, k \in S PROVE k + 1 \in S
  <2> SUFFICES ASSUME k + 1 <= n PROVE Total(z, k + 1) = x * Total(u, k + 1) + y * Total(v, k + 1)
    OBVIOUS
  <2> DEFINE a == Total(u, k)
             b == Total(v, k)
             c == u[k]
             d == v[k]
  <2>1. k \in 0 .. n - 1 /\ k \in 0 .. n /\ k <= n
    OBVIOUS
  <2>2. Total(u, k + 1) = a + c /\ Total(v, k + 1) = b + d /\ Total(z, k + 1) = Total(z, k) + z[k]
    BY <1>3, <1>4, <1>5, <2>1
  <2>3. Total(z, k) = x * a + y * b /\ z[k] = x * c + y * d
    BY <1>7, <2>1
  <2>4. a \in Int /\ b \in Int /\ c \in Int /\ d \in Int
    BY <1>2, <1>3, <1>4, <2>1
  <2> HIDE DEF a, b, c, d
  <2>5. x * (a + c) + y * (b + d) = x * a + y * b + (x * c + y * d)
    BY <2>4
  <2>6. QED
    BY <2>2, <2>3, <2>5
<1>8. n \in S
  <2> HIDE DEF S
  <2>1. QED
    BY <1>6, <1>7, Induction
<1>9. QED
  BY <1>8

\* The first value apart from the others.
LEMMA TotalFromFirst ==
  ASSUME NEW n \in Nat, NEW u, NEW v, \A i \in 0 .. n : u[i] \in Int, \A i \in 0 .. n - 1 : v[i] = u[i+1]
  PROVE  Total(u, n + 1) = u[0] + Total(v, n)
<1> DEFINE S == {k \in Nat : k <= n => Total(u, k + 1) = u[0] + Total(v, k)}
           m == n + 1
<1>1. m \in Nat /\ (\A i \in 0 .. m - 1 : u[i] \in Int) /\ (\A i \in 0 .. n - 1 : v[i] \in Int)
  OBVIOUS
<1> HIDE DEF m
<1>2. /\ Total(u, 0) = 0 /\ (\A j \in 0 .. m : Total(u, j) \in Int)
      /\ \A j \in 0 .. m - 1 : Total(u, j + 1) = Total(u, j) + u[j]
  BY ONLY <1>1, TotalStep
<1>3. /\ Total(v, 0) = 0 /\ (\A j \in 0 .. n : Total(v, j) \in Int)
      /\ \A j \in 0 .. n - 1 : Total(v, j + 1) = Total(v, j) + v[j]
  BY ONLY <1>1, n \in Nat, TotalStep
<1>4. 0 \in S
  <2>1. 0 \in 0 .. m - 1 /\ u[0] \in Int
    BY DEF m
  <2>2. Total(u, 0 + 1) = 0 + u[0]
    BY <1>2, <2>1
  <2>3. QED
    BY <1>3, <2>1, <2>2
<1>5. ASSUME NEW k \in Nat, k \in S PROVE k + 1 \in S
  <2> SUFFICES ASSUME k + 1 <= n PROVE Total(u, (k + 1) + 1) = u[0] + Total(v, k + 1)
    OBVIOUS
  <2>1. k \in 0 .. n - 1 /\ k + 1 \in 0 .. m - 1 /\ k \in 0 .. n /\ k + 1 \in 0 .. m /\ k <= n /\ 0 \in 0 .. n
    BY DEF m
  <2>2. Total(u, (k + 1) + 1) = Total(u, k + 1) + u[k+1] /\ Total(v, k + 1) = Total(v, k) + v[k] /\ v[k] = u[k+1]
    BY <1>2, <1>3, <2>1
  <2>3. Total(u, k + 1) = u[0] + Total(v, k)
    BY <1>5, <2>1
  <2>4. Total(v, k) \in Int /\ v[k] \in Int /\ u[0] \in Int
    BY <1>1, <1>3, <2>1
  <2>5. QED
    BY <2>2, <2>3, <2>4
<1>6. n \in S
  <2> HIDE DEF S
  <2>1. QED
    BY <1>4, <1>5, Induction
<1>7. QED
  BY <1>6

(***************************************************************************)
(* Congruence.                                                             *)
(***************************************************************************)

Congruent(p, a, b) == \E k \in Int : a = b + p * k

LEMMA CongruentIsEqual == ASSUME NEW p \in Nat \ {0}, NEW a \in Int PROVE Congruent(p, a, a)
<1>1. a = a + p * 0
  OBVIOUS
<1>2. QED
  BY <1>1 DEF Congruent

LEMMA CongruentToRemainder == ASSUME NEW p \in Nat \ {0}, NEW a \in Int PROVE Congruent(p, a % p, a)
<1> DEFINE q == a \div p
           r == a % p
<1>1. a = p * q + r /\ q \in Int /\ r \in Int
  BY DivMod
<1> HIDE DEF q, r
<1>2. r = a + p * (-q) /\ -q \in Int
  BY <1>1
<1>3. Congruent(p, r, a)
  BY <1>2 DEF Congruent
<1>4. QED
  BY <1>3 DEF r

LEMMA CongruentInOrder ==
  ASSUME NEW p \in Nat \ {0}, NEW a \in Int, NEW b \in Int, Congruent(p, a, b)
  PROVE  Congruent(p, b, a)
<1>1. PICK k \in Int : a = b + p * k
  BY DEF Congruent
<1>2. b = a + p * (-k) /\ -k \in Int
  BY <1>1
<1>3. QED
  BY <1>2 DEF Congruent

LEMMA CongruentTwice ==
  ASSUME NEW p \in Nat \ {0}, NEW a \in Int, NEW b \in Int, NEW c \in Int, Congruent(p, a, b), Congruent(p, b, c)
  PROVE  Congruent(p, a, c)
<1>1. PICK k \in Int : a = b + p * k
  BY DEF Congruent
<1>2. PICK l \in Int : b = c + p * l
  BY DEF Congruent
<1>3. a = c + p * (k + l) /\ k + l \in Int
  BY <1>1, <1>2
<1>4. QED
  BY <1>3 DEF Congruent

LEMMA SumsCongruent ==
  ASSUME NEW p \in Nat \ {0}, NEW a \in Int, NEW b \in Int, NEW c \in Int, NEW d \in Int,
         Congruent(p, a, b), Congruent(p, c, d)
  PROVE  Congruent(p, a + c, b + d)
<1>1. PICK k \in Int : a = b + p * k
  BY DEF Congruent
<1>2. PICK l \in Int : c = d + p * l
  BY DEF Congruent
<1>3. a + c = b + d + p * (k + l) /\ k + l \in Int
  BY <1>1, <1>2
<1>4. QED
  BY <1>3 DEF Congruent

LEMMA ProductsCongruent ==
  ASSUME NEW p \in Nat \ {0}, NEW a \in Int, NEW b \in Int, NEW c \in Int, NEW d \in Int,
         Congruent(p, a, b), Congruent(p, c, d)
  PROVE  Congruent(p, a * c, b * d)
<1>1. PICK k \in Int : a = b + p * k
  BY DEF Congruent
<1>2. PICK l \in Int : c = d + p * l
  BY DEF Congruent
<1> DEFINE q == k * c + b * l
<1>3. q \in Int
  BY <1>2
<1>4. a * c = b * d + p * q
  <2>1. a * c = b * c + p * (k * c)
    BY <1>1, <1>2
  <2>2. b * c = b * d + p * (b * l)
    BY <1>1, <1>2
  <2>3. p * (k * c) + p * (b * l) = p * q
    <3> DEFINE x == k * c
               y == b * l
    <3>1. x \in Int /\ y \in Int
      OBVIOUS
    <3> HIDE DEF x, y
    <3>2. p * x + p * y = p * (x + y)
      BY <3>1
    <3>3. QED
      BY <3>2 DEF x, y
  <2> DEFINE x == p * (k * c)
             y == p * (b * l)
  <2>4. x \in Int /\ y \in Int /\ b * c \in Int /\ b * d \in Int
    OBVIOUS
  <2> HIDE DEF q, x, y
  <2>5. a * c = b * c + x /\ b * c = b * d + y /\ x + y = p * q
    BY <2>1, <2>2, <2>3 DEF x, y
  <2>6. QED
    BY <2>4, <2>5
<1> HIDE DEF q
<1>5. QED
  BY <1>3, <1>4 DEF Congruent

\* Congruent numbers have the same remainder.
LEMMA RemaindersAgree ==
  ASSUME NEW p \in Nat \ {0}, NEW a \in Int, NEW b \in Int
  PROVE  Congruent(p, a, b) <=> a % p = b % p
<1> DEFINE q == a \div p
           r == a % p
           s == b \div p
           t == b % p
<1>1. a = p * q + r /\ q \in Int /\ r \in 0 .. p - 1 /\ b = p * s + t /\ s \in Int /\ t \in 0 .. p - 1
  BY DivMod
<1> HIDE DEF q, r, s, t
<1>2. ASSUME Congruent(p, a, b) PROVE r = t
  <2>1. PICK k \in Int : a = b + p * k
    BY <1>2 DEF Congruent
  <2> DEFINE z == s + k
  <2>2. p * q + r = p * z + t /\ z \in Int
    BY <1>1, <2>1
  <2> HIDE DEF z
  <2>3. QED
    BY <1>1, <2>2, QuotientUnique
<1>3. ASSUME r = t PROVE Congruent(p, a, b)
  <2>1. a = b + p * (q - s) /\ q - s \in Int
    BY <1>1, <1>3
  <2>2. QED
    BY <2>1 DEF Congruent
<1>4. QED
  BY <1>2, <1>3 DEF r, t

\* Sums of congruent numbers.
LEMMA TotalsCongruent ==
  ASSUME NEW p \in Nat \ {0}, NEW n \in Nat, NEW u, NEW v,
         \A i \in 0 .. n - 1 : u[i] \in Int /\ v[i] \in Int /\ Congruent(p, u[i], v[i])
  PROVE  Congruent(p, Total(u, n), Total(v, n))
<1> DEFINE S == {k \in Nat : k <= n => Congruent(p, Total(u, k), Total(v, k))}
<1>1. (\A i \in 0 .. n - 1 : u[i] \in Int) /\ (\A i \in 0 .. n - 1 : v[i] \in Int)
  OBVIOUS
<1>2. /\ Total(u, 0) = 0 /\ (\A m \in 0 .. n : Total(u, m) \in Int)
      /\ \A m \in 0 .. n - 1 : Total(u, m + 1) = Total(u, m) + u[m]
  BY ONLY <1>1, n \in Nat, TotalStep
<1>3. /\ Total(v, 0) = 0 /\ (\A m \in 0 .. n : Total(v, m) \in Int)
      /\ \A m \in 0 .. n - 1 : Total(v, m + 1) = Total(v, m) + v[m]
  BY ONLY <1>1, n \in Nat, TotalStep
<1>4. 0 \in S
  BY <1>2, <1>3, CongruentIsEqual
<1>5. ASSUME NEW k \in Nat, k \in S PROVE k + 1 \in S
  <2> SUFFICES ASSUME k + 1 <= n PROVE Congruent(p, Total(u, k + 1), Total(v, k + 1))
    OBVIOUS
  <2>1. k \in 0 .. n - 1 /\ k \in 0 .. n /\ k <= n
    OBVIOUS
  <2>2. Total(u, k + 1) = Total(u, k) + u[k] /\ Total(v, k + 1) = Total(v, k) + v[k]
    BY <1>2, <1>3, <2>1
  <2>3. Congruent(p, Total(u, k), Total(v, k)) /\ Congruent(p, u[k], v[k])
    BY <1>5, <2>1
  <2>4. Total(u, k) \in Int /\ Total(v, k) \in Int /\ u[k] \in Int /\ v[k] \in Int
    BY <1>1, <1>2, <1>3, <2>1
  <2>5. QED
    BY <2>2, <2>3, <2>4, SumsCongruent
<1>6. n \in S
  <2> HIDE DEF S
  <2>1. QED
    BY <1>4, <1>5, Induction
<1>7. QED
  BY <1>6

(***************************************************************************)
(* Signed binomial coefficients.                                           *)
(***************************************************************************)

FirstRow == [k \in Nat |-> IF k = 0 THEN 1 ELSE 0]
RowAfter(r) == [k \in Nat |-> IF k = 0 THEN r[k] ELSE r[k] - r[k-1]]
Rows(n) == {w \in [0 .. n -> [Nat -> Int]] : w[0] = FirstRow /\ \A m \in 1 .. n : w[m] = RowAfter(w[m-1])}

LEMMA RowsExist == ASSUME NEW n \in Nat PROVE Rows(n) # {}
<1> DEFINE D == [Nat -> Int]
           F == [x \in Nat \X D |-> RowAfter(x[2])]
<1>1. ASSUME NEW r \in D PROVE RowAfter(r) \in D
  BY DEF RowAfter
<1>2. FirstRow \in D
  BY DEF FirstRow
<1> HIDE DEF D
<1>3. F \in [Nat \X D -> D]
  BY <1>1
<1>4. PICK w \in [0 .. n -> D] : w[0] = FirstRow /\ \A k \in 1 .. n : w[k] = F[<<k,w[k-1]>>]
  <2> HIDE DEF F
  <2>1. Runs(D, F, FirstRow, n) # {}
    BY <1>2, <1>3, LoopRuns
  <2>2. QED
    BY <2>1 DEF Runs
<1>5. ASSUME NEW k \in 1 .. n PROVE w[k] = RowAfter(w[k-1])
  <2>1. k - 1 \in 0 .. n /\ k \in Nat
    OBVIOUS
  <2>2. w[k-1] \in D
    BY <2>1
  <2>3. F[<<k,w[k-1]>>] = RowAfter(w[k-1])
    BY <2>1, <2>2
  <2> HIDE DEF F
  <2>4. QED
    BY <1>4, <2>3
<1>6. w \in Rows(n)
  BY <1>4, <1>5 DEF Rows, D
<1>7. QED
  BY <1>6

\* The entries of a row, and how they depend on each other.
RowFits(r, m) ==
  /\ r[0] = 1
  /\ \A k \in Nat : k > m => r[k] = 0
  /\ \A k \in Nat : (k + 1) * r[k+1] = (k - m) * r[k]

LEMMA RowsStep ==
  ASSUME NEW r \in [Nat -> Int], NEW m \in Nat, RowFits(r, m), NEW s, s = RowAfter(r)
  PROVE  /\ RowFits(s, m + 1)
         /\ \A k \in Nat : (k + 1) * s[k+1] = -((m + 1) * r[k])
         /\ \A k \in Nat : (m - k) * s[k+1] = (m + 1) * r[k+1]
<1>1. s[0] = r[0] /\ \A k \in Nat : s[k+1] = r[k+1] - r[k]
  <2>1. \A k \in Nat : k + 1 \in Nat /\ k + 1 # 0 /\ (k + 1) - 1 = k
    OBVIOUS
  <2>2. QED
    BY <2>1 DEF RowAfter
<1>2. /\ r[0] = 1 /\ \A k \in Nat : k > m => r[k] = 0
      /\ \A k \in Nat : (k + 1) * r[k+1] = (k - m) * r[k]
  BY DEF RowFits
<1>3. ASSUME NEW k \in Nat PROVE (k + 1) * s[k+1] = -((m + 1) * r[k])
  <2> DEFINE a == r[k]
             b == r[k+1]
  <2>1. a \in Int /\ b \in Int /\ s[k+1] = b - a /\ (k + 1) * b = (k - m) * a
    <3>1. k + 1 \in Nat
      OBVIOUS
    <3>2. a \in Int /\ b \in Int
      BY <3>1
    <3>3. s[k+1] = b - a
      BY <1>1
    <3>4. (k + 1) * b = (k - m) * a
      BY <1>2
    <3>5. QED
      BY <3>2, <3>3, <3>4
  <2> HIDE DEF a, b
  <2>2. (k + 1) * (b - a) = (k + 1) * b - (k + 1) * a
    BY <2>1
  <2>3. (k - m) * a - (k + 1) * a = -((m + 1) * a)
    BY <2>1
  <2>4. QED
    BY <2>1, <2>2, <2>3 DEF a
<1>4. ASSUME NEW k \in Nat PROVE (m - k) * s[k+1] = (m + 1) * r[k+1]
  <2> DEFINE a == r[k]
             b == r[k+1]
  <2>1. a \in Int /\ b \in Int /\ s[k+1] = b - a /\ (k + 1) * b = (k - m) * a
    <3>1. k + 1 \in Nat
      OBVIOUS
    <3>2. a \in Int /\ b \in Int
      BY <3>1
    <3>3. s[k+1] = b - a
      BY <1>1
    <3>4. (k + 1) * b = (k - m) * a
      BY <1>2
    <3>5. QED
      BY <3>2, <3>3, <3>4
  <2> HIDE DEF a, b
  <2>2. (m - k) * (b - a) = (m - k) * b + (k - m) * a
    BY <2>1
  <2>3. (m - k) * b + (k + 1) * b = (m + 1) * b
    BY <2>1
  <2>4. QED
    BY <2>1, <2>2, <2>3 DEF b
<1>5. ASSUME NEW k \in Nat, k > m + 1 PROVE s[k] = 0
  <2>1. k - 1 \in Nat /\ (k - 1) + 1 = k /\ k - 1 > m /\ k > m
    BY <1>5
  <2>2. s[k] = r[k] - r[k-1]
    BY <1>1, <2>1
  <2>3. QED
    BY <1>2, <2>1, <2>2
<1>6. ASSUME NEW k \in Nat PROVE (k + 1) * s[k+1] = (k - (m + 1)) * s[k]
  <2>1. CASE k = 0
    <3>1. (0 + 1) * s[0+1] = -((m + 1) * r[0]) /\ r[0] = 1 /\ s[0] = 1
      BY <1>1, <1>2, <1>3
    <3>2. -((m + 1) * 1) = (0 - (m + 1)) * 1
      OBVIOUS
    <3>3. QED
      BY <2>1, <3>1, <3>2
  <2>2. CASE k # 0
    <3> DEFINE j == k - 1
    <3>1. j \in Nat /\ j + 1 = k
      BY <2>2
    <3> HIDE DEF j
    <3>2. (k + 1) * s[k+1] = -((m + 1) * r[k])
      BY <1>3
    <3>3. (m - j) * s[k] = (m + 1) * r[k]
      BY <1>4, <3>1
    <3>4. s[k] \in Int
      <4>1. s[j+1] = r[j+1] - r[j]
        BY <1>1, <3>1
      <4>2. r[j+1] \in Int /\ r[j] \in Int
        BY <3>1
      <4>3. QED
        BY <3>1, <4>1, <4>2
    <3> DEFINE x == s[k]
    <3>5. x \in Int
      BY <3>4
    <3>6. -((m - j) * x) = (k - (m + 1)) * x
      <4> HIDE DEF x
      <4>1. k - (m + 1) = j - m /\ m - j \in Int
        BY <3>1
      <4>2. -((m - j) * x) = (j - m) * x
        BY <3>1, <3>5
      <4>3. QED
        BY <4>1, <4>2
    <3>7. QED
      BY <3>2, <3>3, <3>6
  <2>3. QED
    BY <2>1, <2>2
<1>7. RowFits(s, m + 1)
  BY <1>1, <1>2, <1>5, <1>6 DEF RowFits
<1>8. QED
  BY <1>3, <1>4, <1>7

LEMMA RowsFit ==
  ASSUME NEW n \in Nat, NEW w \in Rows(n)
  PROVE  /\ \A m \in 0 .. n : w[m] \in [Nat -> Int] /\ RowFits(w[m], m) /\ w[m][m] * w[m][m] = 1
         /\ \A m \in 0 .. n - 1 : /\ w[m+1] = RowAfter(w[m])
                                  /\ w[m+1][m+1] = -w[m][m]
<1> DEFINE S == {m \in Nat : m <= n => RowFits(w[m], m) /\ w[m][m] * w[m][m] = 1}
<1>1. w \in [0 .. n -> [Nat -> Int]] /\ w[0] = FirstRow /\ \A m \in 1 .. n : w[m] = RowAfter(w[m-1])
  BY DEF Rows
<1>2. ASSUME NEW m \in 0 .. n - 1 PROVE w[m+1] = RowAfter(w[m]) /\ w[m] \in [Nat -> Int]
  <2>1. m + 1 \in 1 .. n /\ (m + 1) - 1 = m /\ m \in 0 .. n
    OBVIOUS
  <2>2. QED
    BY <1>1, <2>1
<1>3. 0 \in S
  <2>1. RowFits(FirstRow, 0)
    <3>1. \A k \in Nat : (k + 1) * FirstRow[k+1] = (k - 0) * FirstRow[k]
      <4> TAKE k \in Nat
      <4>1. FirstRow[k+1] = 0 /\ (k # 0 => FirstRow[k] = 0) /\ FirstRow[0] = 1
        BY DEF FirstRow
      <4>2. QED
        BY <4>1
    <3>2. QED
      BY <3>1 DEF RowFits, FirstRow
  <2>2. FirstRow[0] * FirstRow[0] = 1
    BY DEF FirstRow
  <2>3. QED
    BY <1>1, <2>1, <2>2
<1>4. ASSUME NEW m \in 0 .. n - 1, RowFits(w[m], m) PROVE w[m+1][m+1] = -w[m][m]
  <2>1. w[m+1] = RowAfter(w[m]) /\ w[m] \in [Nat -> Int] /\ m \in Nat
    BY <1>2
  <2>2. w[m][m+1] = 0
    <3>1. m + 1 \in Nat /\ m + 1 > m
      BY <2>1
    <3>2. QED
      BY <1>4, <3>1 DEF RowFits
  <2>3. w[m+1][m+1] = w[m][m+1] - w[m][m]
    <3>1. m + 1 \in Nat /\ m + 1 # 0 /\ (m + 1) - 1 = m
      BY <2>1
    <3>2. QED
      BY <2>1, <3>1 DEF RowAfter
  <2>4. w[m][m] \in Int
    BY <2>1
  <2>5. QED
    BY <2>2, <2>3, <2>4
<1>5. ASSUME NEW m \in Nat, m \in S PROVE m + 1 \in S
  <2> SUFFICES ASSUME m + 1 <= n PROVE RowFits(w[m+1], m + 1) /\ w[m+1][m+1] * w[m+1][m+1] = 1
    OBVIOUS
  <2>1. m \in 0 .. n - 1 /\ m <= n
    OBVIOUS
  <2>2. RowFits(w[m], m) /\ w[m][m] * w[m][m] = 1
    BY <1>5, <2>1
  <2>3. w[m+1] = RowAfter(w[m]) /\ w[m] \in [Nat -> Int]
    BY <1>2, <2>1
  <2>4. RowFits(w[m+1], m + 1)
    BY <2>2, <2>3, RowsStep
  <2> DEFINE x == w[m][m]
  <2>5. x \in Int /\ w[m+1][m+1] = -x /\ x * x = 1
    BY <1>4, <2>1, <2>2, <2>3
  <2> HIDE DEF x
  <2>6. (-x) * (-x) = x * x
    BY <2>5
  <2>7. QED
    BY <2>4, <2>5, <2>6
<1>6. ASSUME NEW m \in 0 .. n PROVE RowFits(w[m], m) /\ w[m][m] * w[m][m] = 1
  <2> HIDE DEF S
  <2>1. m \in Nat
    OBVIOUS
  <2>2. m \in S
    BY <1>3, <1>5, <2>1, Induction
  <2>3. QED
    BY <2>2 DEF S
<1>7. \A m \in 0 .. n - 1 : m \in 0 .. n
  OBVIOUS
<1>8. QED
  BY <1>1, <1>2, <1>4, <1>6, <1>7

\* The entries of a row add up to one of the row before.
LEMMA RowAddsUp ==
  ASSUME NEW r \in [Nat -> Int], NEW k \in Nat
  PROVE  Total(RowAfter(r), k + 1) = r[k]
<1> DEFINE s == RowAfter(r)
           S == {m \in Nat : Total(s, m + 1) = r[m]}
<1>1. s[0] = r[0] /\ \A m \in Nat : s[m+1] = r[m+1] - r[m]
  <2>1. \A m \in Nat : m + 1 \in Nat /\ m + 1 # 0 /\ (m + 1) - 1 = m
    OBVIOUS
  <2>2. QED
    BY <2>1 DEF RowAfter
<1>2. \A m \in Nat : s[m] \in Int
  BY DEF RowAfter
<1> HIDE DEF s
<1>3. ASSUME NEW m \in Nat PROVE Total(s, m + 1) = Total(s, m) + s[m] /\ Total(s, m) \in Int /\ Total(s, 0) = 0
  <2> DEFINE n == m + 1
  <2>1. n \in Nat /\ (\A i \in 0 .. n - 1 : s[i] \in Int) /\ m \in 0 .. n - 1 /\ m \in 0 .. n
    BY <1>2
  <2> HIDE DEF n
  <2>2. QED
    BY <2>1, TotalStep
<1>4. 0 \in S
  <2>1. Total(s, 0 + 1) = 0 + s[0]
    BY <1>3
  <2>2. QED
    BY <1>1, <1>2, <2>1
<1>5. ASSUME NEW m \in Nat, m \in S PROVE m + 1 \in S
  <2>1. Total(s, (m + 1) + 1) = Total(s, m + 1) + s[m+1]
    BY <1>3
  <2>2. Total(s, m + 1) = r[m] /\ r[m] \in Int /\ r[m+1] \in Int
    BY <1>5
  <2>3. QED
    BY <1>1, <2>1, <2>2
<1>6. k \in S
  <2> HIDE DEF S
  <2>1. QED
    BY <1>4, <1>5, Induction
<1>7. QED
  BY <1>6 DEF s

\* The sum of the powers of numbers in a row, each times the coefficient of its place.
Moment(r, m, a, e) == Total([k \in Nat |-> r[k] * Power(k + a, e)], m + 1)

\* A sum of more powers than their exponent is zero.
Vanish(w, n, e) == \A m \in 0 .. n : m > e => \A a \in Int : Moment(w[m], m, a, e) = 0

LEMMA ConstantsVanish ==
  ASSUME NEW n \in Nat, NEW w \in Rows(n)
  PROVE  Vanish(w, n, 0)
<1> SUFFICES ASSUME NEW m \in 0 .. n, m > 0, NEW a \in Int PROVE Moment(w[m], m, a, 0) = 0
  BY DEF Vanish
<1> DEFINE l == m - 1
           r == w[l]
           s == w[m]
           z == [k \in Nat |-> s[k] * Power(k + a, 0)]
<1>1. l \in 0 .. n - 1 /\ l \in 0 .. n /\ l + 1 = m /\ l \in Nat /\ m \in Nat /\ m + 1 \in Nat
  OBVIOUS
<1>2. r \in [Nat -> Int] /\ RowFits(r, l) /\ s = RowAfter(r) /\ s \in [Nat -> Int]
  <2> HIDE DEF l
  <2>1. QED
    BY <1>1, RowsFit
<1>3. Moment(w[m], m, a, 0) = Total(z, m + 1)
  BY DEF Moment
<1>4. \A k \in 0 .. (m + 1) - 1 : s[k] \in Int /\ s[k] \in Int /\ z[k] = 1 * s[k] + 0 * s[k]
  <2> TAKE k \in 0 .. (m + 1) - 1
  <2>1. k \in Nat /\ k + a \in Int
    OBVIOUS
  <2>2. Power(k + a, 0) = 1
    BY <2>1, <1>1, PowerStep
  <2> HIDE DEF s
  <2>3. s[k] \in Int
    BY <1>2, <2>1
  <2>4. z[k] = s[k] * 1
    BY <2>1, <2>2
  <2>5. QED
    BY <2>3, <2>4
<1>5. Total(s, m + 1) = 0
  <2>1. Total(RowAfter(r), m + 1) = r[m]
    BY <1>1, <1>2, RowAddsUp
  <2>2. r[m] = 0
    BY <1>1, <1>2 DEF RowFits
  <2>3. QED
    BY <1>2, <2>1, <2>2
<1> HIDE DEF l, r, s, z
<1>6. Total(z, m + 1) = 1 * Total(s, m + 1) + 0 * Total(s, m + 1)
  <2> DEFINE j == m + 1
  <2>1. j \in Nat /\ Combines(z, j, 1, s, 0, s)
    BY <1>1, <1>4 DEF Combines
  <2> HIDE DEF j
  <2>2. Total(z, j) = 1 * Total(s, j) + 0 * Total(s, j)
    BY ONLY <2>1, 1 \in Int, 0 \in Int, TotalIsLinear
  <2>3. QED
    BY <2>2 DEF j
<1>7. QED
  BY <1>3, <1>5, <1>6

LEMMA PowersVanish ==
  ASSUME NEW n \in Nat, NEW w \in Rows(n), NEW e \in Nat, Vanish(w, n, e)
  PROVE  Vanish(w, n, e + 1)
<1> SUFFICES ASSUME NEW m \in 0 .. n, m > e + 1, NEW a \in Int PROVE Moment(w[m], m, a, e + 1) = 0
  BY DEF Vanish
<1> DEFINE l == m - 1
           b == a + 1
           r == w[l]
           s == w[m]
           P(k) == Power(k + a, e)
           z == [k \in Nat |-> s[k] * Power(k + a, e + 1)]
           u == [k \in Nat |-> s[k] * Power(k + a, e)]
           v == [k \in Nat |-> k * (s[k] * P(k))]
           q == [k \in Nat |-> r[k] * Power(k + b, e)]
<1>1. /\ l \in 0 .. n - 1 /\ l \in 0 .. n /\ l + 1 = m /\ l \in Nat /\ m \in Nat /\ m + 1 \in Nat
      /\ l > e /\ m > e /\ b \in Int
  OBVIOUS
<1>2. r \in [Nat -> Int] /\ RowFits(r, l) /\ s = RowAfter(r) /\ s \in [Nat -> Int]
  <2> HIDE DEF l
  <2>1. QED
    BY <1>1, RowsFit
<1>3. Total(u, m + 1) = 0 /\ Total(q, l + 1) = 0
  <2>1. Moment(s, m, a, e) = 0 /\ Moment(r, l, b, e) = 0
    BY <1>1 DEF Vanish
  <2>2. QED
    BY <2>1 DEF Moment
<1>4. Moment(w[m], m, a, e + 1) = Total(z, m + 1)
  BY DEF Moment
<1> HIDE DEF l, r, s, b
<1>5. ASSUME NEW k \in Nat PROVE P(k) \in Int /\ Power(k + a, e + 1) = P(k) * (k + a)
  <2>1. k + a \in Int
    OBVIOUS
  <2>2. QED
    BY <2>1, PowerStep
<1> HIDE DEF P
<1>6. ASSUME NEW k \in Nat PROVE u[k] \in Int /\ v[k] \in Int /\ z[k] = a * u[k] + 1 * v[k]
  <2> DEFINE x == s[k]
             y == P(k)
             xy == x * y
  <2>1. x \in Int /\ y \in Int
    BY <1>2, <1>5
  <2>2. z[k] = x * (y * (k + a)) /\ u[k] = x * y /\ v[k] = k * (x * y)
    BY <1>5 DEF P
  <2> HIDE DEF x, y
  <2>3. xy \in Int
    BY <2>1
  <2>4. x * (y * (k + a)) = xy * (k + a)
    BY <2>1
  <2> HIDE DEF xy
  <2>5. xy * (k + a) = a * xy + 1 * (k * xy) /\ k * xy \in Int
    BY <2>3
  <2>6. QED
    BY <2>2, <2>3, <2>4, <2>5 DEF xy
<1>7. ASSUME NEW k \in Nat PROVE v[k+1] = -(m * q[k]) /\ q[k] \in Int
  <2> DEFINE x == s[k+1]
             y == P(k + 1)
             c == r[k]
  <2>1. k + 1 \in Nat /\ (k + 1) + a = k + b
    BY DEF b
  <2>2. x \in Int /\ y \in Int /\ c \in Int
    BY <1>2, <1>5, <2>1
  <2>3. y = Power(k + b, e)
    BY <2>1 DEF P
  <2>4. (k + 1) * x = -(m * c)
    <3>1. (k + 1) * s[k+1] = -((l + 1) * r[k])
      BY <1>1, <1>2, RowsStep
    <3>2. QED
      BY <1>1, <3>1
  <2>5. v[k+1] = (k + 1) * (x * y) /\ q[k] = c * y
    BY <2>1, <2>3
  <2> HIDE DEF x, y, c
  <2>6. (k + 1) * (x * y) = ((k + 1) * x) * y /\ (-(m * c)) * y = -(m * (c * y)) /\ c * y \in Int
    BY <1>1, <2>2
  <2>7. QED
    BY <2>4, <2>5, <2>6
<1>8. v[0] = 0
  <2>1. s[0] * P(0) \in Int
    BY <1>2, <1>5
  <2>2. v[0] = 0 * (s[0] * P(0))
    OBVIOUS
  <2>3. QED
    BY <2>1, <2>2
<1> HIDE DEF z, u, v, q
<1>9. Total(z, m + 1) = a * Total(u, m + 1) + 1 * Total(v, m + 1)
  <2> DEFINE j == m + 1
  <2>1. j \in Nat /\ Combines(z, j, a, u, 1, v)
    BY <1>1, <1>6 DEF Combines
  <2> HIDE DEF j
  <2>2. Total(z, j) = a * Total(u, j) + 1 * Total(v, j)
    BY ONLY <2>1, 1 \in Int, a \in Int, TotalIsLinear
  <2>3. QED
    BY <2>2 DEF j
<1>10. Total(v, m + 1) = 0
  <2> DEFINE f == [k \in Nat |-> v[k+1]]
             d == -m
  <2>1. \A k \in 0 .. m - 1 : f[k] = v[k+1]
    BY <1>1
  <2>2. \A k \in 0 .. m : v[k] \in Int
    BY <1>1, <1>6
  <2>3. Combines(f, m, d, q, 0, q)
    BY <1>1, <1>7 DEF Combines
  <2>4. d \in Int
    BY <1>1
  <2> HIDE DEF f, d
  <2>5. Total(v, m + 1) = v[0] + Total(f, m)
    BY ONLY <1>1, <2>1, <2>2, TotalFromFirst
  <2>6. Total(f, m) = d * Total(q, m) + 0 * Total(q, m)
    BY ONLY <1>1, <2>3, <2>4, 0 \in Int, TotalIsLinear
  <2>7. Total(q, m) = 0
    BY <1>1, <1>3
  <2>8. QED
    BY <1>8, <2>4, <2>5, <2>6, <2>7
<1>11. QED
  BY <1>3, <1>4, <1>9, <1>10

LEMMA MomentsVanish ==
  ASSUME NEW n \in Nat, NEW w \in Rows(n), NEW e \in Nat
  PROVE  Vanish(w, n, e)
<1> DEFINE S == {i \in Nat : Vanish(w, n, i)}
<1>1. 0 \in S
  BY ConstantsVanish
<1>2. ASSUME NEW i \in Nat, i \in S PROVE i + 1 \in S
  BY <1>2, PowersVanish
<1>3. e \in S
  <2> HIDE DEF S
  <2>1. QED
    BY <1>1, <1>2, Induction
<1>4. QED
  BY <1>3

(***************************************************************************)
(* A polynomial from its values.                                           *)
(***************************************************************************)

Terms(x, c, t) == [i \in 0 .. t - 1 |-> Power(x, t - i - 1) * c[i]]

LEMMA TermsAddUp ==
  ASSUME NEW t \in Nat, NEW c \in [0 .. t - 1 -> Int], NEW x \in Int
  PROVE  /\ Total(Terms(x, c, t), 0) = 0
         /\ \A m \in 0 .. t : Total(Terms(x, c, t), m) \in Int
         /\ \A m \in 0 .. t - 1 : /\ Total(Terms(x, c, t), m + 1) = Total(Terms(x, c, t), m) + Power(x, t - m - 1) * c[m]
                                  /\ Power(x, t - m - 1) \in Int
<1> DEFINE v == Terms(x, c, t)
<1>1. ASSUME NEW m \in 0 .. t - 1
      PROVE  v[m] = Power(x, t - m - 1) * c[m] /\ v[m] \in Int /\ Power(x, t - m - 1) \in Int
  <2>1. t - m - 1 \in Nat
    OBVIOUS
  <2>2. Power(x, t - m - 1) \in Int
    BY <2>1, PowerStep
  <2>3. v[m] = Power(x, t - m - 1) * c[m]
    BY DEF Terms
  <2> DEFINE a == Power(x, t - m - 1)
             b == c[m]
  <2>4. a \in Int /\ b \in Int /\ v[m] = a * b
    BY <2>2, <2>3
  <2> HIDE DEF a, b, v
  <2>5. a * b \in Int
    BY <2>4
  <2>6. QED
    BY <2>2, <2>3, <2>4, <2>5
<1> HIDE DEF v
<1>2. /\ Total(v, 0) = 0 /\ (\A m \in 0 .. t : Total(v, m) \in Int)
      /\ \A m \in 0 .. t - 1 : Total(v, m + 1) = Total(v, m) + v[m]
  <2>1. \A i \in 0 .. t - 1 : v[i] \in Int
    BY <1>1
  <2>2. QED
    BY ONLY <2>1, t \in Nat, TotalStep
<1>3. \A m \in 0 .. t - 1 : /\ Total(v, m + 1) = Total(v, m) + Power(x, t - m - 1) * c[m]
                            /\ Power(x, t - m - 1) \in Int
  BY <1>1, <1>2
<1>4. QED
  BY <1>2, <1>3 DEF v

\* The values of a polynomial at 0 .. t, each times the coefficient of its place.
Weighted(r, c, t, n) == [k \in Nat |-> r[k] * Total(Terms(k, c, t), n)]

LEMMA PolynomialsVanish ==
  ASSUME NEW t \in Nat, NEW w \in Rows(t), NEW c \in [0 .. t - 1 -> Int], NEW n \in 0 .. t
  PROVE  Total(Weighted(w[t], c, t, n), t + 1) = 0
<1> DEFINE r == w[t]
           l == t + 1
           z(m) == Weighted(r, c, t, m)
           S == {m \in Nat : m <= t => Total(z(m), l) = 0}
<1>1. r \in [Nat -> Int] /\ l \in Nat /\ t \in 0 .. t
  <2>1. t \in 0 .. t
    OBVIOUS
  <2>2. QED
    BY <2>1, RowsFit
<1>2. ASSUME NEW k \in Nat
      PROVE  /\ Total(Terms(k, c, t), 0) = 0
             /\ \A m \in 0 .. t : Total(Terms(k, c, t), m) \in Int
             /\ \A m \in 0 .. t - 1 : /\ Total(Terms(k, c, t), m + 1) = Total(Terms(k, c, t), m) + Power(k, t - m - 1) * c[m]
                                      /\ Power(k, t - m - 1) \in Int
  <2>1. k \in Int
    OBVIOUS
  <2>2. QED
    BY <2>1, TermsAddUp
<1>3. ASSUME NEW m \in 0 .. t - 1 PROVE Moment(r, t, 0, t - m - 1) = 0
  <2> DEFINE e == t - m - 1
  <2>1. e \in Nat /\ t > e
    OBVIOUS
  <2> HIDE DEF e
  <2>2. Vanish(w, t, e)
    BY <2>1, MomentsVanish
  <2>3. Moment(w[t], t, 0, e) = 0
    BY <1>1, <2>1, <2>2 DEF Vanish
  <2>4. QED
    BY <2>3 DEF e
<1> HIDE DEF r, l
<1>4. ASSUME NEW k \in Nat, NEW m \in 0 .. t PROVE z(m)[k] \in Int /\ z(m)[k] = r[k] * Total(Terms(k, c, t), m)
  <2>1. z(m)[k] = r[k] * Total(Terms(k, c, t), m)
    BY DEF Weighted
  <2>2. r[k] \in Int /\ Total(Terms(k, c, t), m) \in Int
    BY <1>1, <1>2
  <2>3. QED
    BY <2>1, <2>2
<1>5. 0 \in S
  <2> DEFINE f == z(0)
  <2>0. l \in Nat
    BY <1>1
  <2>1. Combines(f, l, 0, f, 0, f)
    <3> USE DEF Combines
    <3> TAKE k \in 0 .. l - 1
    <3>1. k \in Nat /\ 0 \in 0 .. t
      BY <1>1
    <3>2. f[k] = r[k] * 0 /\ r[k] \in Int
      BY <1>1, <1>2, <1>4, <3>1
    <3> HIDE DEF f
    <3>3. QED
      BY <3>2
  <2> HIDE DEF f
  <2>2. Total(f, l) = 0 * Total(f, l) + 0 * Total(f, l)
    BY ONLY <2>0, <2>1, 0 \in Int, TotalIsLinear
  <2>3. Total(f, l) \in Int
    <3>1. (\A k \in 0 .. l - 1 : f[k] \in Int) /\ l \in 0 .. l
      BY <1>1, <2>1 DEF Combines
    <3>2. QED
      BY ONLY <1>1, <3>1, TotalStep
  <2>4. Total(f, l) = 0
    BY <2>2, <2>3
  <2>5. QED
    BY <2>4 DEF f
<1>6. ASSUME NEW m \in Nat, m \in S PROVE m + 1 \in S
  <2> SUFFICES ASSUME m + 1 <= t PROVE Total(z(m + 1), l) = 0
    OBVIOUS
  <2> DEFINE e == t - m - 1
             d == c[m]
             f == z(m)
             g == z(m + 1)
             h == [k \in Nat |-> r[k] * Power(k + 0, e)]
  <2>1. m \in 0 .. t - 1 /\ m \in 0 .. t /\ m + 1 \in 0 .. t /\ m <= t /\ e \in Nat
    OBVIOUS
  <2>2. d \in Int /\ Total(f, l) = 0 /\ Total(h, l) = 0
    <3>1. Moment(r, t, 0, e) = 0
      BY <1>3, <2>1
    <3>2. Total(h, l) = 0
      BY <3>1 DEF Moment, l
    <3>3. QED
      BY <1>6, <2>1, <3>2
  <2>3. ASSUME NEW k \in Nat PROVE f[k] \in Int /\ h[k] \in Int /\ g[k] = 1 * f[k] + d * h[k]
    <3> DEFINE x == r[k]
               y == Total(Terms(k, c, t), m)
               p == Power(k, e)
    <3>1. x \in Int /\ y \in Int /\ p \in Int /\ d \in Int
      BY <1>1, <1>2, <2>1
    <3>2. f[k] = x * y /\ f[k] \in Int
      BY <1>4, <2>1
    <3>3. g[k] = x * (y + p * d)
      <4>1. g[k] = r[k] * Total(Terms(k, c, t), m + 1)
        BY <1>4, <2>1
      <4>2. Total(Terms(k, c, t), m + 1) = y + p * d
        BY <1>2, <2>1
      <4>3. QED
        BY <4>1, <4>2
    <3>4. h[k] = x * p
      <4>1. k + 0 = k
        OBVIOUS
      <4>2. QED
        BY <4>1
    <3> HIDE DEF x, y, p, d, f, g, h
    <3>5. x * p \in Int /\ x * (y + p * d) = 1 * (x * y) + d * (x * p)
      <4>1. x * (y + p * d) = x * y + x * (p * d)
        <5> DEFINE pd == p * d
        <5>1. pd \in Int
          BY <3>1
        <5> HIDE DEF pd
        <5>2. x * (y + pd) = x * y + x * pd
          BY <3>1, <5>1
        <5>3. QED
          BY <5>2 DEF pd
      <4>2. x * (p * d) = d * (x * p) /\ x * p \in Int /\ x * y \in Int
        BY <3>1
      <4>3. QED
        BY <4>1, <4>2
    <3>6. QED
      BY <3>2, <3>3, <3>4, <3>5
  <2> HIDE DEF d, e, f, g, h
  <2>8. l \in Nat /\ d \in Int
    BY <1>1, <2>2
  <2>4. Combines(g, l, 1, f, d, h)
    BY <1>1, <2>3 DEF Combines
  <2>5. Total(g, l) = 1 * Total(f, l) + d * Total(h, l)
    BY ONLY <2>8, <2>4, 1 \in Int, TotalIsLinear
  <2>6. Total(g, l) = 0
    BY <2>2, <2>5
  <2>7. QED
    BY <2>6 DEF g
<1>7. n \in S
  <2> HIDE DEF S
  <2>1. n \in Nat
    OBVIOUS
  <2>2. QED
    BY <1>5, <1>6, <2>1, Induction
<1>8. QED
  BY <1>7 DEF r, l

\* At zero the polynomial has its last coefficient.
LEMMA ConstantTerm ==
  ASSUME NEW t \in Nat \ {0}, NEW c \in [0 .. t - 1 -> Int]
  PROVE  Total(Terms(0, c, t), t) = c[t-1]
<1> DEFINE v == Terms(0, c, t)
           l == t - 1
           S == {m \in Nat : m <= l => Total(v, m) = 0}
<1>1. l \in Nat /\ l + 1 = t /\ l \in 0 .. t - 1 /\ t - l - 1 = 0 /\ c[l] \in Int
  OBVIOUS
<1>2. /\ Total(v, 0) = 0 /\ \A m \in 0 .. t : Total(v, m) \in Int
      /\ \A m \in 0 .. t - 1 : /\ Total(v, m + 1) = Total(v, m) + Power(0, t - m - 1) * c[m]
                               /\ Power(0, t - m - 1) \in Int
  <2>1. 0 \in Int /\ t \in Nat
    OBVIOUS
  <2>2. QED
    BY ONLY <2>1, c \in [0 .. t - 1 -> Int], TermsAddUp
<1> HIDE DEF v
<1>3. ASSUME NEW m \in Nat, m < l PROVE Power(0, t - m - 1) = 0
  <2> DEFINE e == t - m - 2
  <2>1. e \in Nat /\ e + 1 = t - m - 1
    BY <1>1, <1>3
  <2> HIDE DEF e
  <2>2. Power(0, e + 1) = Power(0, e) * 0 /\ Power(0, e) \in Int
    <3>1. 0 \in Int
      OBVIOUS
    <3>2. QED
      BY ONLY <2>1, <3>1, PowerStep
  <2>3. QED
    BY <2>1, <2>2
<1>4. 0 \in S
  BY <1>2
<1>5. ASSUME NEW m \in Nat, m \in S PROVE m + 1 \in S
  <2> SUFFICES ASSUME m + 1 <= l PROVE Total(v, m + 1) = 0
    OBVIOUS
  <2>1. m \in 0 .. t - 1 /\ m < l /\ m <= l /\ c[m] \in Int
    BY <1>1
  <2>2. Total(v, m) = 0 /\ Power(0, t - m - 1) = 0
    BY <1>3, <1>5, <2>1
  <2>3. Total(v, m + 1) = 0 + 0 * c[m]
    BY <1>2, <2>1, <2>2
  <2>4. QED
    BY <2>1, <2>3
<1>6. Total(v, l) = 0
  <2> HIDE DEF S, l
  <2>1. l \in S
    BY <1>1, <1>4, <1>5, Induction
  <2>2. QED
    BY <1>1, <2>1 DEF S
<1>7. Power(0, 0) = 1
  BY PowerStep
<1>8. Total(v, t) = 0 + 1 * c[l]
  <2>1. Total(v, l + 1) = Total(v, l) + Power(0, t - l - 1) * c[l]
    BY <1>1, <1>2
  <2> HIDE DEF l
  <2>2. QED
    BY <1>1, <1>6, <1>7, <2>1
<1>9. QED
  BY <1>1, <1>8 DEF v

(***************************************************************************)
(* The coefficients of the reconstruction.                                 *)
(***************************************************************************)

\* What is no multiple of the prime has an inverse.
LEMMA InverseIs ==
  ASSUME NEW p \in Primes, NEW a \in Int, a % p # 0
  PROVE  mod_inverse(a, p) \in Int /\ Congruent(p, a * mod_inverse(a, p), 1)
<1> DEFINE r == a % p
           I == mod_inverse(a, p)
<1>1. p \in Nat \ {0,1}
  BY StateAssumption
<1>2. r \in 1 .. p - 1
  <2>1. r \in 0 .. p - 1
    BY <1>1, DivMod
  <2>2. QED
    BY <1>1, <2>1
<1>3. PICK b \in 1 .. p - 1 : (r * b) % p = 1
  <2> HIDE DEF r
  <2>1. QED
    BY <1>2, StateAssumption
<1>4. (a * b) % p = 1
  <2>1. ((a % p) * b) % p = (a * b) % p
    <3>1. p \in Nat \ {0} /\ b \in Int
      BY <1>1
    <3>2. QED
      BY <3>1, ProductOfRemainder
  <2>2. QED
    BY <1>3, <2>1
<1>5. 1 % p = 1
  <2>1. 1 \in 0 .. p - 1 /\ p \in Nat \ {0}
    BY <1>1
  <2>2. QED
    BY <2>1, SmallRemainder
<1>6. I \in 0 .. p - 1 /\ (a * I) % p = 1 % p
  <2>1. b \in 0 .. p - 1
    BY <1>1
  <2>2. QED
    BY <1>4, <1>5, <2>1 DEF mod_inverse
<1> HIDE DEF I
<1>7. I \in Int /\ a * I \in Int /\ p \in Nat \ {0} /\ 1 \in Int
  BY <1>1, <1>6
<1>8. Congruent(p, a * I, 1)
  <2> DEFINE x == a * I
  <2>1. x \in Int /\ x % p = 1 % p
    BY <1>6, <1>7
  <2> HIDE DEF x
  <2>2. Congruent(p, x, 1)
    BY <1>7, <2>1, RemaindersAgree
  <2>3. QED
    BY <2>2 DEF x
<1>9. QED
  BY <1>7, <1>8 DEF I

\* The places of two parties differ by no multiple of the prime.
LEMMA PlacesDiffer ==
  ASSUME NEW p \in Primes, NEW i \in 0 .. p - 1, NEW j \in 0 .. p - 1, i # j
  PROVE  mod_inverse(i - j, p) \in Int /\ Congruent(p, (i - j) * mod_inverse(i - j, p), 1)
<1>1. p \in Nat \ {0}
  BY StateAssumption
<1>2. CASE i > j
  <2> DEFINE d == i - j
  <2>1. d \in 0 .. p - 1 /\ d # 0 /\ d \in Int
    BY <1>1, <1>2
  <2> HIDE DEF d
  <2>2. d % p # 0
    BY <1>1, <2>1, SmallRemainder
  <2>3. QED
    BY <2>1, <2>2, InverseIs DEF d
<1>3. CASE i < j
  <2> DEFINE d == i - j
             e == p + d
  <2>1. d \in Int /\ e \in 0 .. p - 1 /\ e # 0 /\ d = p * (-1) + e /\ -1 \in Int
    BY <1>1, <1>3
  <2> HIDE DEF d, e
  <2>2. (p * (-1) + e) % p = e
    BY <1>1, <2>1, QuotientIs
  <2>3. d % p # 0
    BY <2>1, <2>2
  <2>4. QED
    BY <2>1, <2>3, InverseIs DEF d
<1>4. QED
  BY <1>1, <1>2, <1>3

\* What a place is multiplied with for each of the other places.
Quotients(j, t, p) == [i \in 0 .. t - 1 |-> IF i = j THEN 1 ELSE (i + 1) * mod_inverse(i - j, p)]

LEMMA QuotientsMultiply ==
  ASSUME NEW p \in Primes, NEW t \in 1 .. p, NEW j \in 0 .. t - 1
  PROVE  /\ Product(Quotients(j, t, p), 0) = 1
         /\ \A m \in 0 .. t : Product(Quotients(j, t, p), m) \in Int
         /\ Product(Quotients(j, t, p), j + 1) = Product(Quotients(j, t, p), j)
         /\ \A m \in 0 .. t - 1 : m # j =>
              Product(Quotients(j, t, p), m + 1) = Product(Quotients(j, t, p), m) * ((m + 1) * mod_inverse(m - j, p))
<1> DEFINE v == Quotients(j, t, p)
<1>1. p \in Nat \ {0} /\ t \in Nat
  BY StateAssumption
<1>2. ASSUME NEW i \in 0 .. t - 1
      PROVE  v[i] \in Int /\ (i = j => v[i] = 1) /\ (i # j => v[i] = (i + 1) * mod_inverse(i - j, p))
  <2>1. v[i] = IF i = j THEN 1 ELSE (i + 1) * mod_inverse(i - j, p)
    BY DEF Quotients
  <2>2. ASSUME i # j PROVE mod_inverse(i - j, p) \in Int
    <3>1. i \in 0 .. p - 1 /\ j \in 0 .. p - 1
      BY <1>1
    <3>2. QED
      BY <2>2, <3>1, PlacesDiffer
  <2> HIDE DEF v
  <2>3. QED
    BY <2>1, <2>2
<1> HIDE DEF v
<1>3. /\ Product(v, 0) = 1 /\ (\A m \in 0 .. t : Product(v, m) \in Int)
      /\ \A m \in 0 .. t - 1 : Product(v, m + 1) = Product(v, m) * v[m]
  <2>1. \A i \in 0 .. t - 1 : v[i] \in Int
    BY <1>2
  <2>2. QED
    BY ONLY <1>1, <2>1, ProductStep
<1>4. Product(v, j + 1) = Product(v, j)
  <2>1. j \in 0 .. t - 1 /\ j \in 0 .. t
    BY <1>1
  <2>2. Product(v, j + 1) = Product(v, j) * 1 /\ Product(v, j) \in Int
    BY <1>2, <1>3, <2>1
  <2>3. QED
    BY <2>2
<1>5. ASSUME NEW m \in 0 .. t - 1, m # j PROVE Product(v, m + 1) = Product(v, m) * ((m + 1) * mod_inverse(m - j, p))
  BY <1>2, <1>3, <1>5
<1>6. QED
  BY <1>3, <1>4, <1>5 DEF v

LEMMA CoefficientIs ==
  ASSUME NEW p \in Primes, NEW t \in 1 .. p, NEW w \in Rows(t), NEW j \in 0 .. t - 1
  PROVE  Product(Quotients(j, t, p), t) \in Int /\ Congruent(p, Product(Quotients(j, t, p), t), -w[t][j+1])
<1> DEFINE Q(m) == Product(Quotients(j, t, p), m)
           I(m) == mod_inverse(m - j, p)
           S == {m \in Nat : m <= j => Congruent(p, Q(m) * w[j][m], 1)}
           T == {m \in Nat : j < m /\ m <= t => Congruent(p, Q(m), -w[m][j+1])}
<1>1. p \in Nat \ {0} /\ t \in Nat /\ j \in Nat /\ j < t /\ j \in 0 .. t
  BY StateAssumption
<1>2. /\ Q(0) = 1 /\ (\A m \in 0 .. t : Q(m) \in Int) /\ Q(j + 1) = Q(j)
      /\ \A m \in 0 .. t - 1 : m # j => Q(m + 1) = Q(m) * ((m + 1) * I(m))
  BY QuotientsMultiply
<1>3. ASSUME NEW m \in 0 .. t - 1, m # j PROVE I(m) \in Int /\ Congruent(p, (m - j) * I(m), 1)
  <2>1. m \in 0 .. p - 1 /\ j \in 0 .. p - 1
    BY <1>1
  <2>2. QED
    BY <1>3, <2>1, PlacesDiffer
<1>4. /\ \A m \in 0 .. t : w[m] \in [Nat -> Int] /\ RowFits(w[m], m) /\ w[m][m] * w[m][m] = 1
      /\ \A m \in 0 .. t - 1 : w[m+1] = RowAfter(w[m]) /\ w[m+1][m+1] = -w[m][m]
  BY <1>1, RowsFit
<1> HIDE DEF Q, I
<1>5. 0 \in S
  <2>1. w[j][0] = 1
    BY <1>1, <1>4 DEF RowFits
  <2>2. Congruent(p, 1, 1)
    BY <1>1, CongruentIsEqual
  <2>3. Q(0) * w[j][0] = 1
    BY <1>2, <2>1
  <2>4. QED
    BY <2>2, <2>3
<1>6. ASSUME NEW m \in Nat, m \in S PROVE m + 1 \in S
  <2> SUFFICES ASSUME m + 1 <= j PROVE Congruent(p, Q(m + 1) * w[j][m+1], 1)
    OBVIOUS
  <2> DEFINE q == Q(m)
             i == I(m)
             x == w[j][m]
             y == w[j][m+1]
             d == m - j
  <2>1. m \in 0 .. t - 1 /\ m # j /\ m <= j /\ m \in 0 .. t /\ d \in Int
    BY <1>1
  <2>2. Q(m + 1) = q * ((m + 1) * i) /\ q \in Int /\ i \in Int /\ x \in Int /\ y \in Int
    BY <1>1, <1>2, <1>3, <1>4, <2>1
  <2>3. (m + 1) * y = d * x
    BY <1>1, <1>4 DEF RowFits
  <2>4. Congruent(p, q * x, 1) /\ Congruent(p, d * i, 1)
    BY <1>3, <1>6, <2>1
  <2> HIDE DEF q, i, x, y, d
  <2>5. (q * ((m + 1) * i)) * y = (q * i) * ((m + 1) * y)
    BY <2>2
  <2>6. (q * i) * (d * x) = (q * x) * (d * i)
    BY <2>1, <2>2
  <2>7. Congruent(p, (q * x) * (d * i), 1 * 1)
    <3> DEFINE a == q * x
               b == d * i
    <3>1. a \in Int /\ b \in Int /\ Congruent(p, a, 1) /\ Congruent(p, b, 1)
      BY <2>1, <2>2, <2>4
    <3> HIDE DEF a, b
    <3>2. Congruent(p, a * b, 1 * 1)
      BY <1>1, <3>1, ProductsCongruent
    <3>3. QED
      BY <3>2 DEF a, b
  <2>8. Q(m + 1) * y = (q * x) * (d * i)
    BY <2>2, <2>3, <2>5, <2>6
  <2>9. Congruent(p, Q(m + 1) * y, 1)
    BY <2>7, <2>8
  <2>10. QED
    BY <2>9 DEF y
<1>7. Congruent(p, Q(j + 1), -w[j+1][j+1])
  <2> DEFINE q == Q(j)
             x == w[j][j]
  <2>1. q \in Int /\ x \in Int /\ x * x = 1 /\ Q(j + 1) = q /\ w[j+1][j+1] = -x
    BY <1>1, <1>2, <1>4
  <2>2. Congruent(p, q * x, 1)
    <3> HIDE DEF S
    <3>1. j \in S
      BY <1>1, <1>5, <1>6, Induction
    <3>2. QED
      BY <3>1 DEF S
  <2> HIDE DEF q, x
  <2>3. Congruent(p, (q * x) * x, 1 * x)
    <3> DEFINE a == q * x
    <3>1. a \in Int /\ Congruent(p, a, 1) /\ Congruent(p, x, x)
      BY <1>1, <2>1, <2>2, CongruentIsEqual
    <3> HIDE DEF a
    <3>2. Congruent(p, a * x, 1 * x)
      BY <1>1, <2>1, <3>1, ProductsCongruent
    <3>3. QED
      BY <3>2 DEF a
  <2>4. (q * x) * x = q
    <3>1. (q * x) * x = q * (x * x)
      BY <2>1
    <3>2. QED
      BY <2>1, <3>1
  <2>5. 1 * x = x /\ -(-x) = x
    BY <2>1
  <2>6. Congruent(p, q, x)
    BY <2>3, <2>4, <2>5
  <2>7. QED
    BY <2>1, <2>5, <2>6
<1>8. 0 \in T
  BY <1>1
<1>9. ASSUME NEW m \in Nat, m \in T PROVE m + 1 \in T
  <2> SUFFICES ASSUME j < m + 1, m + 1 <= t PROVE Congruent(p, Q(m + 1), -w[m+1][j+1])
    OBVIOUS
  <2>1. CASE m = j
    BY <1>7, <2>1
  <2>2. CASE m # j
    <3> DEFINE q == Q(m)
               i == I(m)
               x == w[m][j+1]
               y == w[m+1][j+1]
               d == m - j
               e == (m + 1) * i
    <3>1. m \in 0 .. t - 1 /\ m \in 0 .. t /\ m + 1 \in 0 .. t /\ j < m /\ m <= t /\ d \in Int /\ j + 1 \in Nat
      BY <1>1, <2>2
    <3>2. /\ Q(m + 1) = q * e /\ q \in Int /\ i \in Int /\ x \in Int /\ y \in Int
          /\ Congruent(p, q, -x) /\ Congruent(p, d * i, 1)
      BY <1>2, <1>3, <1>4, <1>9, <2>2, <3>1
    <3>3. d * y = (m + 1) * x
      BY <1>1, <1>4, <3>1, RowsStep
    <3> HIDE DEF q, i, x, y, d
    <3>4. Congruent(p, q * e, (-x) * e)
      <4>1. e \in Int /\ -x \in Int
        BY <3>2
      <4> HIDE DEF e
      <4>2. Congruent(p, e, e)
        BY <1>1, <4>1, CongruentIsEqual
      <4>3. QED
        BY <1>1, <3>2, <4>1, <4>2, ProductsCongruent
    <3>5. (-x) * e = (-y) * (d * i)
      <4>1. (-x) * ((m + 1) * i) = -(((m + 1) * x) * i)
        BY <3>2
      <4>2. -((d * y) * i) = (-y) * (d * i)
        BY <3>1, <3>2
      <4>3. QED
        BY <3>3, <4>1, <4>2
    <3>6. Congruent(p, (-y) * (d * i), (-y) * 1)
      <4> DEFINE a == d * i
      <4>1. a \in Int /\ -y \in Int /\ Congruent(p, a, 1)
        BY <3>1, <3>2
      <4> HIDE DEF a
      <4>2. Congruent(p, -y, -y)
        BY <1>1, <4>1, CongruentIsEqual
      <4>3. Congruent(p, (-y) * a, (-y) * 1)
        BY <1>1, <4>1, <4>2, ProductsCongruent
      <4>4. QED
        BY <4>3 DEF a
    <3>7. (-y) * 1 = -y /\ q * e \in Int /\ (-x) * e \in Int /\ -y \in Int
      <4>1. e \in Int
        BY <3>2
      <4> HIDE DEF e
      <4>2. QED
        BY <3>2, <4>1
    <3> HIDE DEF e
    <3>8. Congruent(p, q * e, -y)
      <4> DEFINE a == q * e
                 b == (-x) * e
      <4>1. a \in Int /\ b \in Int /\ Congruent(p, a, b) /\ Congruent(p, b, -y)
        BY <3>4, <3>5, <3>6, <3>7
      <4> HIDE DEF a, b
      <4>2. Congruent(p, a, -y)
        BY <1>1, <3>7, <4>1, CongruentTwice
      <4>3. QED
        BY <4>2 DEF a
    <3>9. QED
      BY <3>2, <3>8 DEF y
  <2>3. QED
    BY <2>1, <2>2
<1>10. t \in T
  <2> HIDE DEF T
  <2>1. QED
    BY <1>1, <1>8, <1>9, Induction
<1>11. t \in 0 .. t
  BY <1>1
<1>12. QED
  BY <1>1, <1>2, <1>10, <1>11 DEF Q

\* From the values of a polynomial at the places of the parties the loop has its last
\* coefficient, if there are as many parties as coefficients.
LEMMA CombineIsConstantTerm ==
  ASSUME NEW p \in Primes, NEW t \in 1 .. p, NEW c \in [0 .. t - 1 -> Int], NEW shares,
         \A j \in 0 .. t - 1 : shares[j] = polynom(j + 1, c, p)
  PROVE  combine(shares, lagrange_coefficients(t, p), t, p) = c[t-1] % p
<1> DEFINE L == lagrange_coefficients(t, p)
           F(k) == Total(Terms(k, c, t), t)
           a == c[t-1]
           u == [j \in 0 .. t - 1 |-> shares[j] * L[j]]
<1>1. p \in Nat \ {0} /\ t \in Nat \ {0} /\ t \in Nat /\ t \in 0 .. t /\ t - 1 \in 0 .. t - 1 /\ a \in Int
  BY StateAssumption
<1>2. PICK w \in Rows(t) : TRUE
  BY <1>1, RowsExist
<1> DEFINE r == w[t]
           q == [j \in 0 .. t - 1 |-> r[j+1] * F(j + 1)]
           g == [j \in 0 .. t - 1 |-> -(r[j+1] * F(j + 1))]
           h == Weighted(r, c, t, t)
<1>3. r \in [Nat -> Int] /\ r[0] = 1
  BY <1>1, <1>2, RowsFit DEF RowFits
<1>4. ASSUME NEW k \in Nat PROVE F(k) \in Int
  <2>1. k \in Int
    OBVIOUS
  <2>2. QED
    BY <1>1, <2>1, TermsAddUp
<1>5. F(0) = a
  BY <1>1, ConstantTerm
<1>6. Total(h, t + 1) = 0
  BY <1>1, PolynomialsVanish
<1>7. \A k \in Nat : h[k] = r[k] * F(k)
  BY DEF Weighted
<1>8. ASSUME NEW j \in 0 .. t - 1 PROVE shares[j] = F(j + 1) % p
  <2>1. Cardinality(DOMAIN c) = t
    <3>1. DOMAIN c = 0 .. t - 1
      OBVIOUS
    <3>2. Cardinality(0 .. t - 1) = t
      <4> DEFINE l == t - 1
      <4>1. 0 \in Int /\ l \in Int /\ 0 <= l /\ l - 0 + 1 = t
        BY <1>1
      <4> HIDE DEF l
      <4>2. Cardinality(0 .. l) = t
        <5>1. Cardinality(0 .. l) = IF 0 > l THEN 0 ELSE l - 0 + 1
          BY ONLY <4>1, FS_Interval
        <5>2. QED
          BY <4>1, <5>1
      <4>3. QED
        BY <4>2 DEF l
    <3>3. QED
      BY <3>1, <3>2
  <2>2. polynom(j + 1, c, p) = F(j + 1) % p
    BY <2>1 DEF polynom, Terms
  <2>3. QED
    BY <2>2
<1>9. ASSUME NEW j \in 0 .. t - 1 PROVE L[j] \in Int /\ Congruent(p, L[j], -r[j+1])
  <2>1. L[j] = Product(Quotients(j, t, p), t)
    BY DEF lagrange_coefficients, Quotients
  <2>2. QED
    BY <1>2, <2>1, CoefficientIs
<1> HIDE DEF F, L, r, a, h
<1>10. ASSUME NEW j \in 0 .. t - 1
       PROVE  q[j] \in Int /\ g[j] \in Int /\ g[j] = -q[j] /\ q[j] = h[j+1] /\ u[j] \in Int /\ Congruent(p, u[j], g[j])
  <2> DEFINE x == F(j + 1)
             y == r[j+1]
             s == shares[j]
             l == L[j]
  <2>1. j + 1 \in Nat
    BY <1>1
  <2>2. x \in Int /\ y \in Int /\ l \in Int /\ s = x % p /\ Congruent(p, l, -y)
    BY <1>3, <1>4, <1>8, <1>9, <2>1
  <2>3. q[j] = y * x /\ g[j] = -(y * x) /\ u[j] = s * l /\ h[j+1] = y * x
    BY <1>7, <2>1
  <2> HIDE DEF x, y, l, s, q, g, u
  <2>4. s \in Int
    BY <1>1, <2>2, DivMod
  <2>5. Congruent(p, s, x)
    BY <1>1, <2>2, CongruentToRemainder
  <2>6. Congruent(p, s * l, x * (-y))
    <3>1. -y \in Int
      BY <2>2
    <3>2. QED
      BY <1>1, <2>2, <2>4, <2>5, <3>1, ProductsCongruent
  <2>7. x * (-y) = -(y * x) /\ y * x \in Int /\ s * l \in Int
    BY <2>2, <2>4
  <2>8. QED
    BY <2>3, <2>6, <2>7
<1>11. h[0] = a /\ \A k \in 0 .. t : h[k] \in Int
  <2>1. h[0] = r[0] * F(0)
    BY <1>7
  <2>2. ASSUME NEW k \in 0 .. t PROVE h[k] \in Int
    <3>1. k \in Nat
      BY <1>1
    <3>2. h[k] = r[k] * F(k) /\ r[k] \in Int /\ F(k) \in Int
      BY <1>3, <1>4, <1>7, <3>1
    <3>3. QED
      BY <3>2
  <2>3. QED
    BY <1>1, <1>3, <1>5, <2>1, <2>2
<1> HIDE DEF u, q, g
<1>12. Total(q, t) = -a
  <2>1. Total(h, t + 1) = h[0] + Total(q, t)
    <3>1. \A j \in 0 .. t - 1 : q[j] = h[j+1]
      BY <1>10
    <3>2. QED
      BY <1>1, <1>11, <3>1, TotalFromFirst
  <2>2. Total(q, t) \in Int
    <3>1. \A j \in 0 .. t - 1 : q[j] \in Int
      BY <1>10
    <3>2. QED
      BY <1>1, <3>1, TotalStep
  <2> DEFINE x == Total(q, t)
  <2>3. 0 = a + x /\ a \in Int /\ x \in Int
    <3>1. Total(h, t + 1) = a + x
      BY <1>11, <2>1
    <3>2. QED
      BY <1>1, <1>6, <2>2, <3>1
  <2> HIDE DEF x
  <2>4. x = -a
    BY <2>3
  <2>5. QED
    BY <2>4 DEF x
<1>13. Total(g, t) = a
  <2> DEFINE d == -1
  <2>1. Combines(g, t, d, q, 0, q)
    <3>1. \A j \in 0 .. t - 1 : q[j] \in Int /\ g[j] = -q[j]
      BY <1>10
    <3>2. \A j \in 0 .. t - 1 : g[j] = d * q[j] + 0 * q[j]
      BY <3>1
    <3>3. QED
      BY <3>1, <3>2 DEF Combines
  <2>2. d \in Int /\ 0 \in Int
    OBVIOUS
  <2> HIDE DEF d
  <2>3. Total(g, t) = d * Total(q, t) + 0 * Total(q, t)
    BY <1>1, <2>1, <2>2, TotalIsLinear
  <2>4. QED
    BY <1>1, <1>12, <2>3 DEF d
<1>14. Total(u, t) \in Int /\ Congruent(p, Total(u, t), a)
  <2>1. \A j \in 0 .. t - 1 : u[j] \in Int
    BY <1>10
  <2>2. Total(u, t) \in Int
    BY <1>1, <2>1, TotalStep
  <2>3. \A j \in 0 .. t - 1 : u[j] \in Int /\ g[j] \in Int /\ Congruent(p, u[j], g[j])
    BY <1>10
  <2>4. Congruent(p, Total(u, t), Total(g, t))
    BY <1>1, <2>3, TotalsCongruent
  <2>5. QED
    BY <1>13, <2>2, <2>4
<1>15. combine(shares, L, t, p) = Total(u, t) % p
  BY DEF combine, u
<1>16. Total(u, t) % p = a % p
  BY <1>1, <1>14, RemaindersAgree
<1>17. QED
  BY <1>15, <1>16 DEF L, a

\* If all coefficients but the last are zero, so that all parties have the secret itself.
LEMMA ConstantPolynomial ==
  ASSUME NEW p \in Primes, NEW t \in Nat \ {0}, NEW s \in Int, NEW x \in Nat
  PROVE  polynom(x, [i \in 0 .. t - 1 |-> IF i = t - 1 THEN s ELSE 0], p) = s % p
<1> DEFINE c == [i \in 0 .. t - 1 |-> IF i = t - 1 THEN s ELSE 0]
           l == t - 1
           v == Terms(x, c, t)
           S == {m \in Nat : m <= l => Total(v, m) = 0}
<1>1. c \in [0 .. t - 1 -> Int] /\ l \in Nat /\ l + 1 = t /\ l \in 0 .. t - 1 /\ t - l - 1 = 0 /\ c[l] = s
      /\ x \in Int /\ t \in Nat
  OBVIOUS
<1>2. /\ Total(v, 0) = 0 /\ \A m \in 0 .. t : Total(v, m) \in Int
      /\ \A m \in 0 .. t - 1 : /\ Total(v, m + 1) = Total(v, m) + Power(x, t - m - 1) * c[m]
                               /\ Power(x, t - m - 1) \in Int
  <2> HIDE DEF c
  <2>1. QED
    BY <1>1, TermsAddUp
<1>3. \A m \in 0 .. t - 1 : m < l => c[m] = 0
  OBVIOUS
<1>4. Cardinality(DOMAIN c) = t
  <2>1. 0 \in Int /\ l \in Int /\ 0 <= l /\ l - 0 + 1 = t /\ DOMAIN c = 0 .. l
    OBVIOUS
  <2> HIDE DEF l, c
  <2>2. Cardinality(0 .. l) = IF 0 > l THEN 0 ELSE l - 0 + 1
    BY ONLY <2>1, FS_Interval
  <2>3. QED
    BY <2>1, <2>2
<1>5. polynom(x, c, p) = Total(v, t) % p
  <2> HIDE DEF c
  <2>1. QED
    BY <1>4 DEF polynom, Terms
<1> HIDE DEF v, c
<1>6. 0 \in S
  BY <1>2
<1>7. ASSUME NEW m \in Nat, m \in S PROVE m + 1 \in S
  <2> SUFFICES ASSUME m + 1 <= l PROVE Total(v, m + 1) = 0
    OBVIOUS
  <2> DEFINE y == Power(x, t - m - 1)
  <2>1. m \in 0 .. t - 1 /\ m < l /\ m <= l
    BY <1>1
  <2>2. Total(v, m) = 0 /\ c[m] = 0 /\ y \in Int /\ Total(v, m + 1) = Total(v, m) + y * c[m]
    BY <1>2, <1>3, <1>7, <2>1
  <2> HIDE DEF y
  <2>3. QED
    BY <2>2
<1>8. Total(v, l) = 0
  <2> HIDE DEF S, l
  <2>1. l \in S
    BY <1>1, <1>6, <1>7, Induction
  <2>2. QED
    BY <1>1, <2>1 DEF S
<1>9. Power(x, 0) = 1
  BY <1>1, PowerStep
<1>10. Total(v, t) = s
  <2>1. Total(v, l + 1) = Total(v, l) + Power(x, t - l - 1) * c[l]
    BY <1>1, <1>2
  <2> HIDE DEF l
  <2>2. Total(v, t) = 0 + 1 * s
    BY <1>1, <1>8, <1>9, <2>1
  <2>3. QED
    BY <2>2
<1>11. QED
  BY <1>5, <1>10 DEF c

(***************************************************************************)
(* The representation in the files.                                        *)
(***************************************************************************)

LEMMA NoMultiples ==
  ASSUME NEW p \in Primes, NEW a \in Int, NEW b \in Int, a % p # 0, b % p # 0
  PROVE  (a * b) % p # 0
<1> SUFFICES ASSUME (a * b) % p = 0 PROVE FALSE
  OBVIOUS
<1> DEFINE I == mod_inverse(a, p)
           x == a * b
           y == a * I
<1>1. p \in Nat \ {0} /\ x \in Int /\ 0 % p = 0
  <2>1. p \in Nat \ {0} /\ 0 \in 0 .. p - 1
    BY StateAssumption
  <2>2. QED
    BY <2>1, SmallRemainder
<1>2. I \in Int /\ Congruent(p, y, 1)
  BY InverseIs
<1>3. Congruent(p, x, 0)
  <2> HIDE DEF x
  <2>1. x % p = 0 % p /\ 0 \in Int
    BY <1>1 DEF x
  <2>2. QED
    BY <1>1, <2>1, RemaindersAgree
<1> HIDE DEF I
<1>4. y \in Int /\ y * b = I * x
  BY <1>2
<1> HIDE DEF x, y
<1>5. Congruent(p, y * b, 1 * b)
  <2>1. Congruent(p, b, b)
    BY <1>1, CongruentIsEqual
  <2>2. QED
    BY <1>1, <1>2, <1>4, <2>1, ProductsCongruent
<1>6. Congruent(p, I * x, I * 0)
  <2>1. Congruent(p, I, I)
    BY <1>1, <1>2, CongruentIsEqual
  <2>2. QED
    BY <1>1, <1>2, <1>3, <2>1, ProductsCongruent
<1> DEFINE z == I * x
<1>7. z \in Int /\ Congruent(p, z, b) /\ Congruent(p, z, 0)
  <2>1. 1 * b = b /\ I * 0 = 0 /\ z \in Int
    BY <1>1, <1>2
  <2>2. QED
    BY <1>4, <1>5, <1>6, <2>1
<1> HIDE DEF z
<1>8. z % p = b % p /\ z % p = 0 % p
  <2>1. 0 \in Int
    OBVIOUS
  <2>2. QED
    BY <1>1, <1>7, <2>1, RemaindersAgree
<1>9. QED
  BY <1>1, <1>8

\* A power of the word is no multiple of the prime, and greater than its exponent.
LEMMA PowersOfWord ==
  ASSUME NEW p \in Primes, NEW k \in Nat
  PROVE  Power(Word, k) \in Int /\ Power(Word, k) % p # 0 /\ Power(Word, k) > k
<1> DEFINE S == {i \in Nat : Power(Word, i) % p # 0 /\ Power(Word, i) > i}
<1>1. /\ Word \in Int /\ Word > 1 /\ Word % p # 0 /\ p \in Nat \ {0,1}
  BY StateAssumption
<1>2. ASSUME NEW i \in Nat PROVE Power(Word, 0) = 1 /\ Power(Word, i) \in Int /\ Power(Word, i + 1) = Power(Word, i) * Word
  BY <1>1, PowerStep
<1>3. 0 \in S
  <2>1. 1 \in 0 .. p - 1 /\ p \in Nat \ {0}
    BY <1>1
  <2>2. 1 % p = 1
    BY <2>1, SmallRemainder
  <2>3. Power(Word, 0) = 1
    BY <1>2
  <2>4. QED
    BY <2>2, <2>3
<1>4. ASSUME NEW i \in Nat, i \in S PROVE i + 1 \in S
  <2> DEFINE x == Power(Word, i)
  <2>1. x \in Int /\ x % p # 0 /\ x > i /\ Power(Word, i + 1) = x * Word
    BY <1>2, <1>4
  <2> HIDE DEF x
  <2>2. (x * Word) % p # 0
    BY <1>1, <2>1, NoMultiples
  <2>3. x * Word > i + 1
    <3>1. x * Word >= x * 2
      BY <1>1, <2>1
    <3>2. x * 2 > i + 1
      BY <2>1
    <3>3. x * Word \in Int /\ x * 2 \in Int
      BY <1>1, <2>1
    <3>4. QED
      BY <3>1, <3>2, <3>3
  <2>4. QED
    BY <2>1, <2>2, <2>3
<1>5. k \in S
  <2> HIDE DEF S
  <2>1. QED
    BY <1>3, <1>4, Induction
<1>6. QED
  BY <1>2, <1>5

LEMMA MontgomeryFactor ==
  ASSUME NEW p \in Primes
  PROVE  get_R_for_prime(p) \in Int /\ get_R_for_prime(p) % p # 0
<1> DEFINE Fits(k) == Power(Word, k) >= p /\ \A j \in 1 .. k - 1 : Power(Word, j) < p
           S == {k \in Nat : k # 0 /\ Power(Word, k) >= p}
           e == CHOOSE k \in 1 .. p : Fits(k)
<1>1. p \in Nat \ {0}
  BY StateAssumption
<1>2. p \in S
  <2>1. p \in Nat /\ p \in Int /\ Power(Word, p) \in Int /\ Power(Word, p) > p
    BY <1>1, PowersOfWord
  <2>2. Power(Word, p) >= p
    BY <2>1
  <2>3. QED
    BY <1>1, <2>2
<1>3. PICK n \in S : \A m \in S : n <= m
  <2> HIDE DEF S
  <2>1. S # {}
    BY <1>2
  <2>2. S \subseteq Nat
    BY DEF S
  <2>3. QED
    BY <2>1, <2>2, LeastElement
<1>4. n \in 1 .. p /\ Fits(n)
  <2>1. n \in Nat /\ n # 0 /\ n <= p /\ Power(Word, n) >= p
    BY <1>2, <1>3
  <2>2. ASSUME NEW j \in 1 .. n - 1 PROVE Power(Word, j) < p
    <3>1. j \in Nat /\ j # 0 /\ j < n
      BY <2>1
    <3>2. j \notin S
      <4> HIDE DEF S
      <4>1. j \in S => n <= j
        BY <1>3
      <4>2. QED
        BY <2>1, <3>1, <4>1
    <3>3. Power(Word, j) \in Int
      BY <3>1, PowersOfWord
    <3>4. QED
      BY <1>1, <3>1, <3>2, <3>3
  <2>3. QED
    BY <1>1, <2>1, <2>2
<1>5. e \in 1 .. p
  <2> HIDE DEF Fits
  <2>1. QED
    BY <1>4
<1>6. get_R_for_prime(p) = Power(Word, e)
  BY DEF get_R_for_prime
<1> HIDE DEF e
<1>7. e \in Nat
  BY <1>1, <1>5
<1>8. QED
  BY <1>6, <1>7, PowersOfWord

\* What is written and read back is the remainder, whose representation is that of the number.
LEMMA MontgomeryRoundTrip ==
  ASSUME NEW p \in Primes, NEW x \in Int
  PROVE  /\ _convert_int_to_montgomery(x, p) \in Int
         /\ _convert_montgomery_to_int(_convert_int_to_montgomery(x, p), p) = x % p
         /\ _convert_int_to_montgomery(x % p, p) = _convert_int_to_montgomery(x, p)
<1> DEFINE R == get_R_for_prime(p)
           I == mod_inverse(R, p)
           z == (x * R) % p
<1>1. p \in Nat \ {0} /\ R \in Int
  BY StateAssumption, MontgomeryFactor
<1>2. I \in Int /\ Congruent(p, R * I, 1)
  BY MontgomeryFactor, InverseIs
<1>3. /\ _convert_int_to_montgomery(x, p) = z
      /\ _convert_montgomery_to_int(z, p) = (z * I) % p
      /\ _convert_int_to_montgomery(x % p, p) = ((x % p) * R) % p
  BY DEF _convert_int_to_montgomery, _convert_montgomery_to_int
<1> HIDE DEF R, I
<1>4. z \in Int
  <2> DEFINE a == x * R
  <2>1. a \in Int
    BY <1>1
  <2> HIDE DEF a
  <2>2. a % p \in Int
    BY <1>1, <2>1, DivMod
  <2>3. QED
    BY <2>2 DEF a
<1>5. ((x % p) * R) % p = z
  BY <1>1, ProductOfRemainder
<1>6. (z * I) % p = x % p
  <2> DEFINE a == x * R
             b == R * I
             c == a * I
  <2>1. a \in Int /\ b \in Int /\ z = a % p /\ Congruent(p, b, 1)
    BY <1>1, <1>2
  <2>2. c = x * b /\ c \in Int
    BY <1>1, <1>2
  <2> HIDE DEF a, b, z
  <2>3. (z * I) % p = c % p
    BY <1>1, <1>2, <2>1, ProductOfRemainder
  <2> HIDE DEF c
  <2>4. Congruent(p, x * b, x * 1)
    <3>1. Congruent(p, x, x)
      BY <1>1, CongruentIsEqual
    <3>2. QED
      BY <1>1, <2>1, <3>1, ProductsCongruent
  <2>5. Congruent(p, c, x)
    <3>1. x * 1 = x
      OBVIOUS
    <3>2. QED
      BY <2>2, <2>4, <3>1
  <2>6. c % p = x % p
    BY <1>1, <2>2, <2>5, RemaindersAgree
  <2>7. QED
    BY <2>3, <2>6
<1>7. QED
  BY <1>3, <1>4, <1>5, <1>6

(***************************************************************************)
(* The secrets of a handler over its computations.                         *)
(***************************************************************************)

StateTypeOK ==
  /\ prime \in Primes /\ n_parties \in PartyCounts /\ supported \in BOOLEAN
  /\ secrets \in Int \cup {None} /\ truth \in Int \cup {None}
  /\ file \in [PartyIds -> Int \cup {None}]
  /\ cached_for \in [Thresholds -> Primes \cup {None}]
  /\ phase \in {"idle", "computing", "finished", "recovered"} /\ runs \in 0 .. MaxRuns

\* What is cached for a threshold is of the prime it was computed with.
CacheFits ==
  lagrange = [t \in Thresholds |->
                IF cached_for[t] = None THEN None ELSE lagrange_coefficients(t, cached_for[t])]

\* The parties have the values of one polynomial, whose last coefficient is their secret.
FilesShare(c, t) ==
  /\ c \in [0 .. t - 1 -> Int] /\ c[t-1] % prime = truth
  /\ \A i \in Parties : file[i] = _convert_int_to_montgomery(polynom(i + 1, c, prime), prime)
Shared == phase \in {"computing", "finished"} /\ truth # None => \E c : FilesShare(c, get_threshold(n_parties))

StateInv == StateTypeOK /\ CacheFits /\ Shared /\ ReconstructsUnderOnePrime

LEMMA ThresholdIs ==
  ASSUME NEW n \in PartyCounts, NEW p \in Primes
  PROVE  /\ get_threshold(n) \in Thresholds /\ get_threshold(n) \in 1 .. n /\ get_threshold(n) \in 1 .. p
         /\ n \in Nat \ {0} /\ 0 .. n - 1 \subseteq PartyIds
<1>1. n \in Nat \ {0} /\ p \in Nat /\ n < p
  BY StateAssumption
<1>2. (n + 1) \div 2 \in 1 .. n
  BY <1>1
<1> DEFINE t == get_threshold(n)
<1>3. t \in 1 .. n
  BY <1>2 DEF get_threshold
<1>4. t \in Thresholds
  BY DEF Thresholds
<1> HIDE DEF t
<1>5. t \in 1 .. p
  BY <1>1, <1>3
<1>6. 0 .. n - 1 \subseteq PartyIds
  BY DEF PartyIds
<1>7. QED
  BY <1>1, <1>3, <1>4, <1>5, <1>6 DEF t

LEMMA PolynomialInField ==
  ASSUME NEW p \in Primes, NEW t \in Nat, NEW c \in [0 .. t - 1 -> Int], NEW x \in Nat
  PROVE  polynom(x, c, p) \in 0 .. p - 1
<1>1. p \in Nat \ {0} /\ x \in Int /\ t \in 0 .. t
  BY StateAssumption
<1>2. Total(Terms(x, c, t), t) \in Int
  BY <1>1, TermsAddUp
<1>3. Cardinality(DOMAIN c) = t
  <2> DEFINE l == t - 1
  <2>1. 0 \in Int /\ l \in Int /\ DOMAIN c = 0 .. l /\ (IF 0 > l THEN 0 ELSE l - 0 + 1) = t
    OBVIOUS
  <2> HIDE DEF l
  <2>2. Cardinality(0 .. l) = IF 0 > l THEN 0 ELSE l - 0 + 1
    BY ONLY <2>1, FS_Interval
  <2>3. QED
    BY <2>1, <2>2
<1>4. polynom(x, c, p) = Total(Terms(x, c, t), t) % p
  BY <1>3 DEF polynom, Terms
<1>5. QED
  BY <1>1, <1>2, <1>4, DivMod

LEMMA CoefficientsAreNumbers ==
  ASSUME NEW p \in Primes, NEW t \in 1 .. p
  PROVE  lagrange_coefficients(t, p) \in [0 .. t - 1 -> Int]
<1>1. t \in Nat
  BY StateAssumption
<1>2. PICK w \in Rows(t) : TRUE
  BY <1>1, RowsExist
<1>3. ASSUME NEW j \in 0 .. t - 1 PROVE Product(Quotients(j, t, p), t) \in Int
  BY <1>2, CoefficientIs
<1>4. lagrange_coefficients(t, p) = [j \in 0 .. t - 1 |-> Product(Quotients(j, t, p), t)]
  BY DEF lagrange_coefficients, Quotients
<1>5. QED
  BY <1>3, <1>4

LEMMA CombinationIsNumber ==
  ASSUME NEW p \in Primes, NEW t \in Nat, NEW shares, NEW c \in [0 .. t - 1 -> Int],
         \A j \in 0 .. t - 1 : shares[j] \in Int
  PROVE  combine(shares, c, t, p) \in Int
<1> DEFINE u == [j \in 0 .. t - 1 |-> shares[j] * c[j]]
<1>1. \A j \in 0 .. t - 1 : u[j] \in Int
  OBVIOUS
<1>2. combine(shares, c, t, p) = Total(u, t) % p
  BY DEF combine
<1> HIDE DEF u
<1>3. Total(u, t) \in Int
  <2>1. t \in 0 .. t
    OBVIOUS
  <2>2. QED
    BY <1>1, <2>1, TotalStep
<1>4. p \in Nat \ {0}
  BY StateAssumption
<1>5. QED
  BY <1>2, <1>3, <1>4, DivMod

\* Any sharing that is drawn, or the secret itself, is one by a polynomial.
LEMMA SharingIsPolynomial ==
  ASSUME NEW p \in Primes, NEW n \in PartyCounts, NEW secret \in Int,
         NEW s \in generate_shares(n, get_threshold(n), secret, p) \cup generate_shares_insecurely(n, secret)
  PROVE  \E c \in [0 .. get_threshold(n) - 1 -> Int] :
           /\ c[get_threshold(n)-1] % p = secret % p
           /\ \A i \in 0 .. n - 1 : /\ s[i] \in Int
                                    /\ _convert_int_to_montgomery(s[i], p) =
                                         _convert_int_to_montgomery(polynom(i + 1, c, p), p)
<1> DEFINE t == get_threshold(n)
<1>1. p \in Nat \ {0} /\ t \in Nat \ {0} /\ t \in Nat /\ n \in Nat /\ t - 1 \in 0 .. t - 1
  BY StateAssumption, ThresholdIs
<1> HIDE DEF t
<1>2. CASE s \in generate_shares(n, t, secret, p)
  <2>1. PICK c \in [0 .. t - 1 -> 0 .. p - 1] :
          c[t-1] = secret % p /\ s = [i \in 0 .. n - 1 |-> polynom(i + 1, c, p)]
    BY <1>2 DEF generate_shares
  <2>2. c \in [0 .. t - 1 -> Int]
    BY <1>1
  <2>3. c[t-1] % p = secret % p
    <3>1. c[t-1] \in 0 .. p - 1
      BY <1>1
    <3>2. c[t-1] % p = c[t-1]
      BY <1>1, <3>1, SmallRemainder
    <3>3. QED
      BY <2>1, <3>2
  <2>4. ASSUME NEW i \in 0 .. n - 1 PROVE s[i] = polynom(i + 1, c, p) /\ s[i] \in Int
    <3>1. i + 1 \in Nat
      BY <1>1
    <3>2. polynom(i + 1, c, p) \in 0 .. p - 1
      BY <1>1, <2>2, <3>1, PolynomialInField
    <3>3. QED
      BY <1>1, <2>1, <3>2
  <2>5. QED
    BY <2>2, <2>3, <2>4 DEF t
<1>3. CASE s \in generate_shares_insecurely(n, secret)
  <2> DEFINE c == [i \in 0 .. t - 1 |-> IF i = t - 1 THEN secret ELSE 0]
  <2>1. c \in [0 .. t - 1 -> Int] /\ c[t-1] = secret
    BY <1>1
  <2>2. ASSUME NEW i \in 0 .. n - 1
        PROVE  /\ s[i] \in Int
               /\ _convert_int_to_montgomery(s[i], p) = _convert_int_to_montgomery(polynom(i + 1, c, p), p)
    <3>1. i + 1 \in Nat
      BY <1>1
    <3>2. polynom(i + 1, c, p) = secret % p
      BY <1>1, <3>1, ConstantPolynomial
    <3>3. s[i] = secret
      BY <1>3 DEF generate_shares_insecurely
    <3> HIDE DEF c
    <3>4. _convert_int_to_montgomery(secret % p, p) = _convert_int_to_montgomery(secret, p)
      BY MontgomeryRoundTrip
    <3>5. QED
      BY <3>2, <3>3, <3>4
  <2> HIDE DEF c
  <2>3. QED
    BY <2>1, <2>2 DEF t
<1>4. QED
  BY <1>2, <1>3 DEF t

LEMMA StateInitial == ASSUME StateInit PROVE StateInv
<1>1. 0 \in 0 .. MaxRuns /\ Values \subseteq Int
  BY StateAssumption
<1>2. StateTypeOK
  BY <1>1 DEF StateInit, StateTypeOK
<1>3. CacheFits
  BY DEF StateInit, CacheFits
<1>4. Shared /\ ReconstructsUnderOnePrime
  BY DEF StateInit, Shared, ReconstructsUnderOnePrime
<1>5. QED
  BY <1>2, <1>3, <1>4 DEF StateInv

LEMMA PrepareKeeps == ASSUME StateInv, prepare_smpc PROVE StateInv'
<1> DEFINE t == get_threshold(n_parties)
           S == generate_shares(n_parties, t, secrets, prime) \cup generate_shares_insecurely(n_parties, secrets)
<1>1. StateTypeOK /\ CacheFits
  BY DEF StateInv
<1>2. /\ runs < MaxRuns /\ runs' = runs + 1 /\ phase' = "computing"
      /\ UNCHANGED <<prime, n_parties, supported, secrets, lagrange, cached_for>>
  BY DEF prepare_smpc
<1>3. CacheFits'
  BY <1>1, <1>2 DEF CacheFits
<1>4. ReconstructsUnderOnePrime'
  BY <1>2 DEF ReconstructsUnderOnePrime
<1>5. runs' \in 0 .. MaxRuns
  BY <1>1, <1>2, StateAssumption DEF StateTypeOK
<1>6. prime \in Primes /\ n_parties \in PartyCounts /\ Parties \subseteq PartyIds
  BY <1>1, ThresholdIs DEF StateTypeOK, Parties
<1>7. CASE secrets = None
  <2>1. file' = clean_folders /\ truth' = None
    BY <1>7 DEF prepare_smpc
  <2>2. file' \in [PartyIds -> Int \cup {None}]
    BY <1>1, <2>1 DEF clean_folders, StateTypeOK
  <2>3. StateTypeOK'
    BY <1>1, <1>2, <1>5, <2>1, <2>2 DEF StateTypeOK
  <2>4. Shared'
    BY <2>1 DEF Shared
  <2>5. QED
    BY <1>3, <1>4, <2>3, <2>4 DEF StateInv
<1>8. CASE secrets # None
  <2>1. PICK s \in S : file' = write_shares(s)
    BY <1>8 DEF prepare_smpc
  <2>2. truth' = secrets % prime
    BY <1>8 DEF prepare_smpc
  <2>3. secrets \in Int
    BY <1>1, <1>8 DEF StateTypeOK
  <2>4. PICK c \in [0 .. t - 1 -> Int] :
          /\ c[t-1] % prime = secrets % prime
          /\ \A i \in 0 .. n_parties - 1 :
               /\ s[i] \in Int
               /\ _convert_int_to_montgomery(s[i], prime) = _convert_int_to_montgomery(polynom(i + 1, c, prime), prime)
    <3> HIDE DEF S
    <3>1. s \in generate_shares(n_parties, get_threshold(n_parties), secrets, prime)
                   \cup generate_shares_insecurely(n_parties, secrets)
      BY <2>1 DEF S
    <3>2. QED
      BY <1>6, <2>3, <3>1, SharingIsPolynomial
  <2>5. file' \in [PartyIds -> Int \cup {None}]
    <3>1. ASSUME NEW i \in Parties PROVE _convert_int_to_montgomery(s[i], prime) \in Int
      <4>1. s[i] \in Int
        BY <2>4 DEF Parties
      <4>2. QED
        BY <1>6, <4>1, MontgomeryRoundTrip
    <3>2. QED
      BY <1>1, <2>1, <3>1 DEF write_shares, StateTypeOK
  <2>6. StateTypeOK'
    <3>1. truth' \in Int
      <4>1. prime \in Nat \ {0}
        BY <1>6, StateAssumption
      <4>2. QED
        BY <2>2, <2>3, <4>1, DivMod
    <3>2. QED
      BY <1>1, <1>2, <1>5, <2>5, <3>1 DEF StateTypeOK
  <2>7. \A i \in Parties : file'[i] = _convert_int_to_montgomery(polynom(i + 1, c, prime), prime)
    BY <1>6, <2>1, <2>4 DEF write_shares, Parties
  <2>8. FilesShare(c, t)'
    <3>1. prime' = prime /\ n_parties' = n_parties /\ c[t-1] % prime = truth'
      BY <1>2, <2>2, <2>4
    <3>2. QED
      BY <2>4, <2>7, <3>1 DEF FilesShare, Parties
  <2>9. Shared'
    <3>1. n_parties' = n_parties
      BY <1>2
    <3>2. QED
      BY <2>8, <3>1 DEF Shared
  <2>10. QED
    BY <1>3, <1>4, <2>6, <2>9 DEF StateInv
<1>9. QED
  BY <1>7, <1>8

LEMMA ComputeKeeps == ASSUME StateInv, Compute PROVE StateInv'
<1> DEFINE t == get_threshold(n_parties)
<1>1. StateTypeOK /\ CacheFits /\ Shared
  BY DEF StateInv
<1>2. /\ phase = "computing" /\ phase' = "finished"
      /\ UNCHANGED <<prime, n_parties, supported, secrets, lagrange, runs, cached_for>>
  BY DEF Compute
<1>3. CacheFits'
  BY <1>1, <1>2 DEF CacheFits
<1>4. ReconstructsUnderOnePrime'
  BY <1>2 DEF ReconstructsUnderOnePrime
<1>5. prime \in Primes /\ n_parties \in PartyCounts /\ Parties \subseteq PartyIds /\ 0 \in Parties
  BY <1>1, ThresholdIs DEF StateTypeOK, Parties
<1>6. PICK v \in Values, done \in SUBSET Parties :
        /\ \E s \in generate_shares(n_parties, t, v, prime) :
             file' = [i \in PartyIds |-> IF i \in done THEN _convert_int_to_montgomery(s[i], prime) ELSE file[i]]
        /\ truth' = IF done = Parties THEN v % prime ELSE IF done = {} THEN truth ELSE None
  BY DEF Compute
<1>7. PICK s \in generate_shares(n_parties, t, v, prime) :
         file' = [i \in PartyIds |-> IF i \in done THEN _convert_int_to_montgomery(s[i], prime) ELSE file[i]]
  BY <1>6
<1>8. v \in Int /\ prime \in Nat \ {0}
  BY <1>5, StateAssumption
<1>9. PICK c \in [0 .. t - 1 -> Int] :
        /\ c[t-1] % prime = v % prime
        /\ \A i \in 0 .. n_parties - 1 :
             /\ s[i] \in Int
             /\ _convert_int_to_montgomery(s[i], prime) = _convert_int_to_montgomery(polynom(i + 1, c, prime), prime)
  <2>1. s \in generate_shares(n_parties, get_threshold(n_parties), v, prime)
                 \cup generate_shares_insecurely(n_parties, v)
    BY <1>6
  <2>2. QED
    BY <1>5, <1>8, <2>1, SharingIsPolynomial
<1>10. file' \in [PartyIds -> Int \cup {None}]
  <2>1. ASSUME NEW i \in Parties PROVE _convert_int_to_montgomery(s[i], prime) \in Int
    <3>1. s[i] \in Int
      BY <1>9 DEF Parties
    <3>2. QED
      BY <1>5, <3>1, MontgomeryRoundTrip
  <2>2. QED
    BY <1>1, <1>7, <2>1 DEF StateTypeOK
<1>11. StateTypeOK'
  <2>1. v % prime \in Int
    BY <1>8, DivMod
  <2>2. truth' \in Int \cup {None}
    BY <1>1, <1>6, <2>1 DEF StateTypeOK
  <2>3. QED
    BY <1>1, <1>2, <1>10, <2>2 DEF StateTypeOK
<1>12. CASE done = Parties
  <2>1. truth' = v % prime /\ \A i \in Parties : file'[i] = _convert_int_to_montgomery(polynom(i + 1, c, prime), prime)
    BY <1>5, <1>6, <1>7, <1>9, <1>12 DEF Parties
  <2>2. FilesShare(c, t)'
    BY <1>2, <1>9, <2>1 DEF FilesShare, Parties
  <2>3. Shared'
    <3>1. n_parties' = n_parties
      BY <1>2
    <3>2. QED
      BY <2>2, <3>1 DEF Shared
  <2>4. QED
    BY <1>3, <1>4, <1>11, <2>3 DEF StateInv
<1>13. CASE done = {}
  <2>1. truth' = truth
    BY <1>5, <1>6, <1>13
  <2>2. file' = file
    BY <1>1, <1>7, <1>13 DEF StateTypeOK
  <2>3. Shared'
    BY <1>1, <1>2, <2>1, <2>2 DEF Shared, FilesShare, Parties
  <2>4. QED
    BY <1>3, <1>4, <1>11, <2>3 DEF StateInv
<1>14. CASE done # Parties /\ done # {}
  <2>1. truth' = None
    BY <1>6, <1>14
  <2>2. Shared'
    BY <2>1 DEF Shared
  <2>3. QED
    BY <1>3, <1>4, <1>11, <2>2 DEF StateInv
<1>15. QED
  BY <1>12, <1>13, <1>14

\* What the parties share by a polynomial is what the handler combines.
LEMMA ShareIsRecovered ==
  ASSUME StateTypeOK, NEW c, FilesShare(c, get_threshold(n_parties))
  PROVE  combine(read_shares, lagrange_coefficients(get_threshold(n_parties), prime), get_threshold(n_parties), prime)
           = truth
<1> DEFINE t == get_threshold(n_parties)
<1>1. /\ prime \in Primes /\ prime \in Nat \ {0} /\ n_parties \in PartyCounts
      /\ t \in 1 .. n_parties /\ t \in 1 .. prime /\ t \in Nat /\ n_parties \in Nat
  <2>1. prime \in Primes /\ n_parties \in PartyCounts
    BY DEF StateTypeOK
  <2>2. t \in 1 .. n_parties /\ t \in 1 .. prime
    BY <2>1, ThresholdIs
  <2> HIDE DEF t
  <2>3. QED
    BY <2>1, <2>2, StateAssumption
<1> HIDE DEF t
<1>2. /\ c \in [0 .. t - 1 -> Int] /\ c[t-1] % prime = truth
      /\ \A i \in Parties : file[i] = _convert_int_to_montgomery(polynom(i + 1, c, prime), prime)
  BY DEF FilesShare, t
<1>3. ASSUME NEW j \in 0 .. t - 1 PROVE read_shares[j] = polynom(j + 1, c, prime)
  <2> DEFINE x == polynom(j + 1, c, prime)
  <2>1. j \in Parties /\ j + 1 \in Nat
    BY <1>1 DEF Parties
  <2>2. x \in 0 .. prime - 1 /\ x \in Int
    BY <1>1, <1>2, <2>1, PolynomialInField
  <2>3. file[j] = _convert_int_to_montgomery(x, prime)
    BY <1>2, <2>1
  <2> HIDE DEF x
  <2>4. /\ _convert_int_to_montgomery(x, prime) \in Int
        /\ _convert_montgomery_to_int(_convert_int_to_montgomery(x, prime), prime) = x % prime
    BY <1>1, <2>2, MontgomeryRoundTrip
  <2>5. x % prime = x
    BY <1>1, <2>2, SmallRemainder
  <2>6. file[j] # None
    BY <2>3, <2>4, StateAssumption
  <2>7. read_shares[j] = _convert_montgomery_to_int(file[j], prime)
    BY <2>1, <2>6 DEF read_shares
  <2>8. QED
    BY <2>3, <2>4, <2>5, <2>7 DEF x
<1>4. combine(read_shares, lagrange_coefficients(t, prime), t, prime) = c[t-1] % prime
  BY <1>1, <1>2, <1>3, CombineIsConstantTerm
<1>5. QED
  BY <1>2, <1>4 DEF t

LEMMA RecoverKeeps == ASSUME StateInv, recover_shares PROVE StateInv'
<1> DEFINE t == get_threshold(n_parties)
           coefficients == IF lagrange[t] = None THEN lagrange_coefficients(t, prime) ELSE lagrange[t]
<1>1. StateTypeOK /\ CacheFits /\ Shared
  BY DEF StateInv
<1>2. /\ phase = "finished" /\ phase' = "recovered"
      /\ UNCHANGED <<prime, n_parties, supported, file, runs, truth>>
  BY DEF recover_shares
<1>3. Shared'
  BY <1>2 DEF Shared
<1>4. /\ prime \in Primes /\ n_parties \in PartyCounts /\ t \in Thresholds /\ t \in 1 .. n_parties
      /\ t \in 1 .. prime /\ t \in Nat /\ n_parties \in Nat /\ Parties \subseteq PartyIds
  BY <1>1, StateAssumption, ThresholdIs DEF StateTypeOK, Parties
<1>5. ASSUME NEW p \in Primes, NEW n \in PartyCounts
      PROVE  /\ lagrange_coefficients(get_threshold(n), p) \in [0 .. get_threshold(n) - 1 -> Int]
             /\ lagrange_coefficients(get_threshold(n), p) # None /\ p # None
  <2> DEFINE l == get_threshold(n)
  <2>1. l \in 1 .. n /\ l \in 1 .. p
    BY ThresholdIs
  <2> HIDE DEF l
  <2>2. lagrange_coefficients(l, p) \in [0 .. l - 1 -> Int]
    BY <2>1, CoefficientsAreNumbers
  <2>3. None \notin [0 .. l - 1 -> Int] /\ p # None
    BY <2>1, StateAssumption
  <2>4. QED
    BY <2>2, <2>3 DEF l
<1>6. CASE ~supported
  <2>1. secrets' = None /\ UNCHANGED <<lagrange, cached_for>>
    BY <1>6 DEF recover_shares
  <2>2. StateTypeOK'
    BY <1>1, <1>2, <2>1 DEF StateTypeOK
  <2>3. CacheFits'
    BY <1>1, <2>1 DEF CacheFits
  <2>4. ReconstructsUnderOnePrime'
    BY <1>2, <1>6 DEF ReconstructsUnderOnePrime
  <2>5. QED
    BY <1>3, <2>2, <2>3, <2>4 DEF StateInv
<1>7. CASE supported
  <2>1. /\ lagrange' = [lagrange EXCEPT ![t] = coefficients]
        /\ cached_for' = [cached_for EXCEPT ![t] = IF @ = None THEN prime ELSE @]
        /\ secrets' = IF file[0] = None THEN None
                      ELSE IF \E j \in 0 .. t - 1 : file[j] = None THEN secrets
                      ELSE combine(read_shares, coefficients, t, prime)
    BY <1>7 DEF recover_shares
  <2>2. cached_for \in [Thresholds -> Primes \cup {None}] /\ cached_for' \in [Thresholds -> Primes \cup {None}]
    BY <1>1, <1>4, <2>1 DEF StateTypeOK
  <2>3. /\ DOMAIN lagrange = Thresholds
        /\ \A l \in Thresholds : lagrange[l] = IF cached_for[l] = None THEN None ELSE lagrange_coefficients(l, cached_for[l])
    BY <1>1 DEF CacheFits
  <2>4. cached_for[t] # None =>
          cached_for[t] \in Primes /\ lagrange[t] = lagrange_coefficients(t, cached_for[t]) /\ lagrange[t] # None
    BY <1>4, <1>5, <2>2, <2>3
  <2>5. cached_for[t] = None => lagrange[t] = None
    BY <1>4, <2>3
  <2>6. coefficients = lagrange_coefficients(t, cached_for'[t]) /\ cached_for'[t] \in Primes
    BY <1>4, <2>1, <2>2, <2>4, <2>5
  <2> HIDE DEF coefficients
  <2>7. coefficients \in [0 .. t - 1 -> Int]
    BY <1>4, <1>5, <2>6
  <2>8. CacheFits'
    <3>1. ASSUME NEW l \in Thresholds
          PROVE  lagrange'[l] = IF cached_for'[l] = None THEN None ELSE lagrange_coefficients(l, cached_for'[l])
      <4>1. CASE l = t
        <5>1. lagrange'[t] = coefficients
          BY <1>4, <2>1, <2>3
        <5>2. cached_for'[t] # None
          BY <1>4, <1>5, <2>6
        <5>3. QED
          BY <2>6, <4>1, <5>1, <5>2
      <4>2. CASE l # t
        BY <2>1, <2>2, <2>3, <4>2
      <4>3. QED
        BY <4>1, <4>2
    <3>2. lagrange' = [l \in Thresholds |-> lagrange'[l]]
      BY <2>1, <2>3
    <3>3. QED
      BY <3>1, <3>2 DEF CacheFits
  <2>9. secrets' \in Int \cup {None}
    <3>1. CASE \A j \in 0 .. t - 1 : file[j] # None
      <4>1. ASSUME NEW j \in 0 .. t - 1 PROVE read_shares[j] \in Int
        <5>1. j \in Parties /\ j \in PartyIds
          BY <1>4 DEF Parties
        <5>2. file[j] \in Int
          BY <1>1, <3>1, <5>1 DEF StateTypeOK
        <5>3. read_shares[j] = _convert_montgomery_to_int(file[j], prime)
          BY <3>1, <5>1 DEF read_shares
        <5> DEFINE I == mod_inverse(get_R_for_prime(prime), prime)
                   x == file[j] * I
        <5>4. I \in Int /\ prime \in Nat \ {0}
          BY <1>4, MontgomeryFactor, InverseIs, StateAssumption
        <5> HIDE DEF I
        <5>5. x \in Int /\ read_shares[j] = x % prime
          BY <5>2, <5>3, <5>4 DEF _convert_montgomery_to_int, I
        <5> HIDE DEF x
        <5>6. QED
          BY <5>4, <5>5, DivMod
      <4>2. combine(read_shares, coefficients, t, prime) \in Int
        BY <1>4, <2>7, <4>1, CombinationIsNumber
      <4>3. QED
        BY <1>4, <2>1, <3>1, <4>2
    <3>2. CASE \E j \in 0 .. t - 1 : file[j] = None
      BY <1>1, <2>1, <3>2 DEF StateTypeOK
    <3>3. QED
      BY <3>1, <3>2
  <2>10. StateTypeOK'
    BY <1>1, <1>2, <2>2, <2>9 DEF StateTypeOK
  <2>11. ReconstructsUnderOnePrime'
    <3> SUFFICES ASSUME cached_for'[t] = prime, \A i \in Parties : file[i] # None, truth # None
                 PROVE  secrets' = truth
      BY <1>2 DEF ReconstructsUnderOnePrime, Parties
    <3>1. PICK c : FilesShare(c, t)
      BY <1>1, <1>2 DEF Shared
    <3>2. combine(read_shares, lagrange_coefficients(t, prime), t, prime) = truth
      BY <1>1, <3>1, ShareIsRecovered
    <3>3. \A j \in 0 .. t - 1 : j \in Parties
      BY <1>4 DEF Parties
    <3>4. 0 \in 0 .. t - 1
      BY <1>4
    <3>5. secrets' = combine(read_shares, coefficients, t, prime)
      BY <2>1, <3>3, <3>4
    <3>6. QED
      BY <2>6, <3>2, <3>5
  <2>12. QED
    BY <1>3, <2>8, <2>10, <2>11 DEF StateInv
<1>8. QED
  BY <1>6, <1>7

LEMMA StateStep == ASSUME StateInv, [StateNext]_stateVars PROVE StateInv'
<1>1. ASSUME Configure PROVE StateInv'
  <2>1. StateTypeOK'
    BY <1>1 DEF Configure, StateInv, StateTypeOK
  <2>2. CacheFits'
    BY <1>1 DEF Configure, StateInv, CacheFits
  <2>3. Shared' /\ ReconstructsUnderOnePrime'
    BY <1>1 DEF Configure, Shared, ReconstructsUnderOnePrime
  <2>4. QED
    BY <2>1, <2>2, <2>3 DEF StateInv
<1>2. ASSUME set_secrets PROVE StateInv'
  <2>1. StateTypeOK'
    BY <1>2, StateAssumption DEF set_secrets, StateInv, StateTypeOK
  <2>2. CacheFits'
    BY <1>2 DEF set_secrets, StateInv, CacheFits
  <2>3. Shared' /\ ReconstructsUnderOnePrime'
    BY <1>2 DEF set_secrets, Shared, ReconstructsUnderOnePrime
  <2>4. QED
    BY <2>1, <2>2, <2>3 DEF StateInv
<1>3. ASSUME NextComputation PROVE StateInv'
  <2>1. StateTypeOK'
    BY <1>3 DEF NextComputation, StateInv, StateTypeOK
  <2>2. CacheFits'
    BY <1>3 DEF NextComputation, StateInv, CacheFits
  <2>3. Shared' /\ ReconstructsUnderOnePrime'
    BY <1>3 DEF NextComputation, Shared, ReconstructsUnderOnePrime
  <2>4. QED
    BY <2>1, <2>2, <2>3 DEF StateInv
<1>4. CASE UNCHANGED stateVars
  <2>1. StateTypeOK'
    BY <1>4 DEF stateVars, StateInv, StateTypeOK
  <2>2. CacheFits'
    BY <1>4 DEF stateVars, StateInv, CacheFits
  <2>3. Shared' /\ ReconstructsUnderOnePrime'
    BY <1>4 DEF stateVars, StateInv, Shared, FilesShare, Parties, ReconstructsUnderOnePrime
  <2>4. QED
    BY <2>1, <2>2, <2>3 DEF StateInv
<1>5. QED
  BY <1>1, <1>2, <1>3, <1>4, PrepareKeeps, ComputeKeeps, RecoverKeeps DEF StateNext

\* At every step: types, every cached entry is of the prime it was computed with, and the
\* files of the parties share what they are said to share (neonhandler.py:834-898).
THEOREM StateInvariant == StateSpec => []StateInv
<1>1. StateInit => StateInv
  BY StateInitial
<1>2. StateInv /\ [StateNext]_stateVars => StateInv'
  BY StateStep
<1>3. QED
  BY <1>1, <1>2, PTL DEF StateSpec

\* Whatever sharing is drawn and whichever parties fail, over any changes of the configuration
\* a handler has the value that its parties share, if it has cached the coefficients with the
\* prime in use: for any primes, numbers of parties and secrets (shamir.py:108-159).
THEOREM SecretsAreReconstructed == StateSpec => []ReconstructsUnderOnePrime
<1>1. StateInv => ReconstructsUnderOnePrime
  BY DEF StateInv
<1>2. QED
  BY <1>1, StateInvariant, PTL
===============================================================================
