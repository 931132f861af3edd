----------------------------- MODULE MinerSession -----------------------------
(***************************************************************************)
(* One driver executes experiments one after the other.  For each it       *)
(* starts the parties and then, as a hook, the client that builds the      *)
(* model; it waits for the client, then for the parties, and puts the      *)
(* model files it finds into the report.  The client talks to each party   *)
(* over a socket of its own, always in the order of the parties.           *)
(*                                                                         *)
(* What the parties compute is SplitMiner's; here an artifact is its name, *)
(* the run it belongs to and whether the party altered it.                 *)
(***************************************************************************)
EXTENDS Integers, Sequences, FiniteSets

CONSTANTS
  N,              \* number of parties
  Experiments,    \* number of runs of the driver
  Repetitions,    \* NEON_REPETITIONS
  Faults,         \* steps at which the client may fail
  Corrupt,        \* parties that may alter what they send
  Sizes           \* subset of {"small", "large"}: flows against the layout budget

ASSUME NAssumption == N \in Nat \ {0}
ASSUME ExperimentsAssumption == Experiments \in Nat /\ Repetitions \in Nat \ {0}
ASSUME FaultsAssumption == Faults \subseteq {"connect", "build"}
ASSUME CorruptAssumption == Corrupt \subseteq 1 .. N
ASSUME SizesAssumption == Sizes \subseteq {"small", "large"}

Party == 1 .. N

\* What discover_bpmn sends, in its order.
Artifacts == <<"sfpdfg", "self loops", "concurrencies", "activities", "activity binning">>

File == {"file.svg", "file-without-lanes.bpmn", "file.bpmn"}

VARIABLES
  driver,     \* "launch", "client", "parties", "report" or "finished"
  run,        \* the current experiment
  size,       \* of its model
  party,      \* where the program of each party is
  rep,        \* repetitions the party has begun
  sent,       \* artifacts the party has sent in this repetition
  link,       \* the client's socket to each party
  toParty,    \* flags on their way to each party
  toClient,   \* payloads on their way from each party
  client,     \* where the client is
  turn,       \* the party whose socket the client is at
  batch,      \* the payloads of the current artifact, by party
  received,   \* the artifacts accepted so far
  files,      \* for each file of model_output/bpmn the run that wrote it, or 0
  reports     \* the reports written, in order

control  == <<driver, run, size, reports>>
parties  == <<party, rep, sent>>
channels == <<link, toParty, toClient>>
mining   == <<client, turn, batch, received>>
vars     == <<control, parties, channels, mining, files>>

All(x) == [p \in Party |-> x]

Init ==
  /\ driver = "launch" /\ run = 0 /\ size \in Sizes
  /\ party = All("exited") /\ rep = All(0) /\ sent = All(0)
  /\ link = All("none") /\ toParty = All(<<>>) /\ toClient = All(<<>>)
  /\ client = "exited" /\ turn = 1 /\ batch = <<>> /\ received = <<>>
  /\ files = [f \in File |-> 0]
  /\ reports = <<>>

(***************************************************************************)
(* The driver.                                                             *)
(***************************************************************************)

\* __execute_smpc starts the parties and calls the hook.
Launch ==
  /\ driver = "launch" /\ run < Experiments
  /\ driver' = "client" /\ run' = run + 1 /\ size' \in Sizes
  /\ party' = All("listen") /\ rep' = All(1) /\ sent' = All(0)
  /\ link' = All("none") /\ toParty' = All(<<>>) /\ toClient' = All(<<>>)
  /\ client' = "connect" /\ turn' = 1 /\ batch' = <<>> /\ received' = <<>>
  /\ UNCHANGED <<files, reports>>

\* proc.wait() in the hook; the exit status is not looked at.
AwaitClient ==
  /\ driver = "client" /\ client = "exited"
  /\ driver' = "parties"
  /\ UNCHANGED <<run, size, reports, parties, channels, mining, files>>

\* finish_computation waits for one party after the other.
AwaitParties ==
  /\ driver = "parties" /\ \A p \in Party : party[p] \in {"exited", "aborted"}
  /\ driver' = "report"
  /\ UNCHANGED <<run, size, reports, parties, channels, mining, files>>

\* run_was_successfull, and the post-processing hook that reads the model files.
Report ==
  /\ driver = "report"
  /\ reports' = Append(reports,
       [success |-> \A p \in Party : party[p] = "exited", output |-> files])
  /\ driver' = IF run < Experiments THEN "launch" ELSE "finished"
  /\ UNCHANGED <<run, size, parties, channels, mining, files>>

(***************************************************************************)
(* A party.  aborted is the end of a party whose client or peer is gone.   *)
(***************************************************************************)
Goto(p, at) == party' = [party EXCEPT ![p] = at]

\* listen_for_clients
Listen(p) ==
  /\ party[p] = "listen"
  /\ Goto(p, "accept")
  /\ UNCHANGED <<control, rep, sent, channels, mining, files>>

\* accept_client_connection blocks until a client connects.
Accept(p) ==
  /\ party[p] = "accept" /\ link[p] = "pending"
  /\ link' = [link EXCEPT ![p] = "open"]
  /\ Goto(p, "flag")
  /\ UNCHANGED <<control, rep, sent, toParty, toClient, mining, files>>

\* Mutant: a party does not wait for the client to finish.
ReadFlagOnce(p) ==
  /\ \/ party[p] = "flag" /\ toParty[p] # <<>> /\ toParty' = [toParty EXCEPT ![p] = Tail(@)]
     \/ party[p] = "wait" /\ UNCHANGED toParty
  /\ Goto(p, IF party[p] = "flag" THEN "compute" ELSE "close")
  /\ UNCHANGED <<control, rep, sent, link, toClient, mining, files>>

\* session.read_regint()
ReadFlag(p) ==
  /\ party[p] \in {"flag", "wait"} /\ toParty[p] # <<>>
  /\ toParty' = [toParty EXCEPT ![p] = Tail(@)]
  /\ Goto(p, IF party[p] = "flag" THEN "compute" ELSE "close")
  /\ UNCHANGED <<control, rep, sent, link, toClient, mining, files>>

\* The computation takes all parties: no one gets through it before every other
\* one has entered it.
Entered(q, r) == rep[q] > r \/ (rep[q] = r /\ party[q] \in {"compute", "send", "wait", "close", "exited"})

Compute(p) ==
  /\ party[p] = "compute" /\ \A q \in Party : Entered(q, rep[p])
  /\ sent' = [sent EXCEPT ![p] = 0]
  /\ Goto(p, "send")
  /\ UNCHANGED <<control, rep, channels, mining, files>>

\* session.send_cints, session.send_string
Send(p) ==
  /\ party[p] = "send" /\ link[p] = "open"
  /\ \E altered \in {FALSE, (p \in Corrupt)} :
       toClient' = [toClient EXCEPT ![p] =
         Append(@, [run |-> run, kind |-> Artifacts[sent[p] + 1], altered |-> altered])]
  /\ sent' = [sent EXCEPT ![p] = @ + 1]
  /\ Goto(p, IF sent[p] + 1 = Len(Artifacts) THEN "wait" ELSE "send")
  /\ UNCHANGED <<control, rep, link, toParty, mining, files>>

\* closeclientconnection, and the next turn of for_range(repetitions).
Close(p) ==
  /\ party[p] = "close"
  /\ IF rep[p] < Repetitions
     THEN /\ rep' = [rep EXCEPT ![p] = @ + 1]
          /\ link' = [link EXCEPT ![p] = "none"]
          /\ Goto(p, "listen")
     ELSE /\ link' = [link EXCEPT ![p] = "closed"]
          /\ Goto(p, "exited")
          /\ UNCHANGED rep
  /\ UNCHANGED <<control, sent, toParty, toClient, mining, files>>

\* A socket the client closed fails the party that reads or writes it; a party
\* that is gone fails the computation of the others.
Abort(p) ==
  /\ \/ party[p] \in {"flag", "wait"} /\ toParty[p] = <<>> /\ link[p] = "closed"
     \/ party[p] \in {"accept", "send"} /\ link[p] = "closed"
     \/ party[p] = "compute" /\ \E q \in Party : party[q] = "aborted"
  /\ Goto(p, "aborted")
  /\ link' = [link EXCEPT ![p] = "closed"]
  /\ UNCHANGED <<control, rep, sent, toParty, toClient, mining, files>>

PartyStep(p) ==
  \/ Listen(p) \/ Accept(p) \/ ReadFlag(p) \/ Compute(p) \/ Send(p) \/ Close(p) \/ Abort(p)

(***************************************************************************)
(* The client.                                                             *)
(***************************************************************************)

\* At the sockets one after the other, then on to the next step.
NextSocket(next) ==
  IF turn < N THEN turn' = turn + 1 /\ UNCHANGED client ELSE turn' = 1 /\ client' = next

\* Client(hosts, port_base, my_client_id): a connection waits at a listening
\* party until it is accepted.
Connect ==
  /\ client = "connect" /\ party[turn] # "listen" /\ link[turn] = "none"
  /\ link' = [link EXCEPT ![turn] = "pending"]
  /\ NextSocket("hello")
  /\ UNCHANGED <<control, parties, toParty, toClient, batch, received, files>>

\* send_handshake_flag(1), and send_handshake_flag(2) at the end.
SendFlag ==
  /\ client \in {"hello", "bye"}
  /\ toParty' = [toParty EXCEPT ![turn] = Append(@, IF client = "hello" THEN 1 ELSE 2)]
  /\ NextSocket(IF client = "hello" THEN "receive" ELSE "leave")
  /\ UNCHANGED <<control, parties, link, toClient, batch, received, files>>

\* _receive_plain_values
Receive ==
  /\ client = "receive" /\ toClient[turn] # <<>>
  /\ batch' = Append(batch, Head(toClient[turn]))
  /\ toClient' = [toClient EXCEPT ![turn] = Tail(@)]
  /\ NextSocket("compare")
  /\ UNCHANGED <<control, parties, link, toParty, received, files>>

\* Mutant: expect_agreement = False.
AgreedAnyway(values) == TRUE

Agreed(values) == \A i \in DOMAIN values : values[i] = values[1]

\* The end of receive_cint_values: the first party's payload, if all agree.
Compare ==
  /\ client = "compare" /\ Agreed(batch)
  /\ received' = Append(received, batch[1])
  /\ batch' = <<>>
  /\ client' = IF Len(received) + 1 < Len(Artifacts) THEN "receive"
               ELSE IF size = "large" THEN "flat" ELSE "svg"
  /\ UNCHANGED <<control, parties, channels, turn, files>>

\* The model is drawn, written without and then with pools; one that exceeds
\* the budget of the layout is written without pools only.
Write(at, file, next) ==
  /\ client = at
  /\ files' = [files EXCEPT ![file] = run]
  /\ client' = next
  /\ UNCHANGED <<control, parties, channels, turn, batch, received>>

SaveVisualisation == Write("svg", "file.svg", "flat")
SaveFlatModel     == Write("flat", "file-without-lanes.bpmn", IF size = "large" THEN "bye" ELSE "pooled")
SavePooledModel   == Write("pooled", "file.bpmn", "bye")

\* Mutant: the sockets stay open.
LeaveOpen == UNCHANGED link

\* __exit__ closes the sockets, and so does the end of the process.
CloseSockets == link' = [p \in Party |-> IF link[p] \in {"pending", "open"} THEN "closed" ELSE link[p]]

Leave ==
  /\ client = "leave"
  /\ client' = "exited"
  /\ CloseSockets
  /\ UNCHANGED <<control, parties, toParty, toClient, turn, batch, received, files>>

\* The assertion on the payloads, and the reset of a connection whose party is
\* gone while the client waits for its payload.
Fail ==
  /\ \/ client = "compare" /\ ~Agreed(batch)
     \/ client = "receive" /\ toClient[turn] = <<>> /\ link[turn] = "closed"
  /\ client' = "exited"
  /\ CloseSockets
  /\ UNCHANGED <<control, parties, toParty, toClient, turn, batch, received, files>>

ClientStep ==
  \/ Connect \/ SendFlag \/ Receive \/ Compare
  \/ SaveVisualisation \/ SaveFlatModel \/ SavePooledModel \/ Leave \/ Fail

\* The client dies of what is outside this system: no WorkDir and no namespace
\* of the parties is found, a certificate is missing, the discovery or the
\* layout raises an exception.
Crash ==
  /\ \/ "connect" \in Faults /\ client = "connect"
     \/ "build" \in Faults /\ client \in {"svg", "flat", "pooled"}
  /\ client' = "exited"
  /\ CloseSockets
  /\ UNCHANGED <<control, parties, toParty, toClient, turn, batch, received, files>>

DriverStep == Launch \/ AwaitClient \/ AwaitParties \/ Report

Next == DriverStep \/ (\E p \in Party : PartyStep(p)) \/ ClientStep \/ Crash

\* Every process goes on when it can; nothing makes the client crash.
Fairness ==
  /\ WF_vars(DriverStep)
  /\ \A p \in Party : WF_vars(PartyStep(p))
  /\ WF_vars(ClientStep)

Spec     == Init /\ [][Next]_vars
FairSpec == Spec /\ Fairness

(***************************************************************************)
(* Properties.                                                             *)
(***************************************************************************)
\* The programs of the client and of the parties agree on the order of the
\* artifacts: what the client takes for the k-th one is the k-th one, of this
\* run, from every party, and nobody altered it unless all did.
ArtifactsInOrder ==
  \A k \in DOMAIN received :
    /\ received[k].run = run /\ received[k].kind = Artifacts[k]
    /\ received[k].altered => Corrupt = Party

\* A party that ended well was released by a client that had all artifacts and
\* had written the model, when the others were past the computation; so the report of a
\* successful run carries the model of that run (split_miner.py:949,
\* split_miner_socket.py:407, main.py:108-134).
ReleasedAfterModel ==
  /\ driver \in {"client", "parties", "report"} =>
       \A p \in Party : party[p] = "exited" =>
         /\ Len(received) = Len(Artifacts)
         /\ files["file-without-lanes.bpmn"] = run
         /\ \A q \in Party : party[q] \notin {"listen", "accept", "flag", "compute", "send"}
  /\ \A r \in DOMAIN reports :
       reports[r].success => reports[r].output["file-without-lanes.bpmn"] = r

\* Once the client has connected to every party, the run ends in a report,
\* whatever becomes of the client.
ConnectedRunIsReported ==
  \A r \in 1 .. Experiments : (client = "hello" /\ run = r) ~> (Len(reports) >= r)

\* Every experiment ends in a report, and the driver finishes.
EveryRunIsReported == <>(driver = "finished")

(***************************************************************************)
(* Statements of the documentation that the code does not meet.            *)
(***************************************************************************)

\* "A run writes ... model_output/bpmn/: the discovered collaboration, as .bpmn
\* and .svg": the files found after a successful run are not another run's.
ReportedFilesAreOfTheRun ==
  \A r \in DOMAIN reports :
    reports[r].success => \A f \in File : reports[r].output[f] \in {0, r}
===============================================================================
