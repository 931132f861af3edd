-------------------------- MODULE MinerSessionProofs --------------------------
(***************************************************************************)
(* Theorems about the session of driver, parties and client: for any       *)
(* number of parties, runs and repetitions, whoever fails and whoever      *)
(* alters what it sends.                                                   *)
(***************************************************************************)
EXTENDS MinerSession, SequenceTheorems, TLAPS

(***************************************************************************)
(* Types                                                                   *)
(***************************************************************************)
Runs    == 0 .. Experiments
Kind    == {Artifacts[k] : k \in 1 .. 5}
Payload == [run : Runs, kind : Kind, altered : BOOLEAN]
Outcome == [success : BOOLEAN, output : [File -> Runs]]
Place   == {"listen", "accept", "flag", "compute", "send", "wait", "close", "exited", "aborted"}

TypeOK ==
  /\ driver \in {"launch", "client", "parties", "report", "finished"}
  /\ run \in Runs /\ size \in Sizes
  /\ party \in [Party -> Place] /\ rep \in [Party -> Nat] /\ sent \in [Party -> Nat]
  /\ link \in [Party -> {"none", "pending", "open", "closed"}]
  /\ toParty \in [Party -> Seq({1, 2})] /\ toClient \in [Party -> Seq(Payload)]
  /\ client \in {"connect", "hello", "receive", "compare", "svg", "flat", "pooled", "bye", "leave", "exited"}
  /\ turn \in Party /\ batch \in Seq(Payload) /\ received \in Seq(Payload)
  /\ files \in [File -> Runs] /\ reports \in Seq(Outcome)

\* A party sends each artifact once.
SentOK == \A p \in Party : sent[p] <= 5 /\ (party[p] = "send" => sent[p] < 5)

\* The client has one payload of each party it has come to.
BatchOK ==
  /\ client \in {"connect", "hello"} => batch = <<>> /\ received = <<>>
  /\ client = "receive" => Len(batch) = turn - 1 /\ Len(received) < 5
  /\ client = "compare" => Len(batch) = N /\ turn = 1 /\ Len(received) < 5
  /\ client \in {"svg", "flat", "pooled", "bye", "leave"} => batch = <<>> /\ Len(received) = 5

TypeInv == TypeOK /\ SentOK /\ BatchOK

(***************************************************************************)
(* Artifacts in order                                                      *)
(***************************************************************************)

\* The k-th artifact of this run, which only some parties may alter.
Genuine(x, p, k) == x.run = run /\ x.kind = Artifacts[k] /\ (x.altered => p \in Corrupt)

\* The payloads the client has taken of party p.
Taken(p) == Len(received) + (IF p <= Len(batch) THEN 1 ELSE 0)

\* What is on the way from a party are the artifacts after those the client has.
ChannelInOrder(p) ==
  /\ sent[p] = Taken(p) + Len(toClient[p])
  /\ \A i \in 1 .. Len(toClient[p]) : Genuine(toClient[p][i], p, Taken(p) + i)
ChannelsInOrder == client # "exited" => \A p \in Party : ChannelInOrder(p)

BatchInOrder ==
  client \in {"receive", "compare"} => \A p \in 1 .. Len(batch) : Genuine(batch[p], p, Len(received) + 1)

ReceivedInOrder ==
  \A k \in 1 .. Len(received) :
    /\ received[k].run = run /\ received[k].kind = Artifacts[k]
    /\ received[k].altered => Corrupt = Party

\* Before its computation a party has sent nothing, and after it there is no other.
ComputesOnce(p) ==
  /\ rep[p] = 0 => party[p] = "exited"
  /\ rep[p] = 1 /\ party[p] \in {"listen", "accept", "flag", "compute"} => sent[p] = 0
  /\ rep[p] > 1 => party[p] \in {"listen", "accept"} /\ link[p] = "none"
OneComputation == \A p \in Party : ComputesOnce(p)

\* The first flag is on its way to no party the client has not come to.
Unflagged(p) ==
  (client = "connect" \/ (client = "hello" /\ turn <= p)) =>
    /\ party[p] \in {"listen", "accept", "flag", "aborted"} /\ rep[p] = 1
    /\ toParty[p] = <<>>
NoFlagYet == \A p \in Party : Unflagged(p)

OrderInv == OneComputation /\ NoFlagYet /\ ChannelsInOrder /\ BatchInOrder /\ ReceivedInOrder

(***************************************************************************)
(* Release after the model                                                 *)
(***************************************************************************)

\* The second flag is on its way to a party, or has reached it.
Released(p) ==
  \/ party[p] \in {"close", "exited"} \/ rep[p] > 1
  \/ party[p] \in {"compute", "send", "wait"} /\ toParty[p] # <<>>
  \/ party[p] \in {"listen", "accept", "flag"} /\ Len(toParty[p]) > 1

Finished == Len(received) = 5 /\ files["file-without-lanes.bpmn"] = run /\ \A q \in Party : sent[q] = 5

\* Before the first run there are no processes.
Unstarted == run = 0 => driver = "launch" /\ client = "exited" /\ \A p \in Party : party[p] = "exited"

FinishedBeforeRelease ==
  /\ client \in {"pooled", "bye", "leave"} => files["file-without-lanes.bpmn"] = run
  /\ run > 0 => \A p \in Party : Released(p) => Finished

\* A party ends after its last repetition only.
Repeated ==
  run > 0 => \A p \in Party : rep[p] \in 1 .. Repetitions /\ (party[p] = "exited" => rep[p] = Repetitions)

ReportsOK ==
  /\ driver \in {"client", "parties", "report"} => run = Len(reports) + 1
  /\ driver \in {"launch", "finished"} => run = Len(reports)
  /\ \A r \in 1 .. Len(reports) :
       reports[r].success => reports[r].output["file-without-lanes.bpmn"] = r

ReleaseInv == Unstarted /\ FinishedBeforeRelease /\ Repeated /\ ReportsOK

(***************************************************************************)
(* Proofs                                                                  *)
(***************************************************************************)
LEMMA FiveArtifacts == Len(Artifacts) = 5
  BY DEF Artifacts

LEMMA TypeInit == Init => TypeInv
<1> SUFFICES ASSUME Init PROVE TypeInv
  OBVIOUS
<1>1. 0 \in Runs /\ 1 \in Party
  BY NAssumption, ExperimentsAssumption DEF Runs, Party
<1>2. party \in [Party -> Place] /\ rep \in [Party -> Nat] /\ sent \in [Party -> Nat]
  BY DEF Init, All, Place
<1>3. /\ link \in [Party -> {"none", "pending", "open", "closed"}]
      /\ toParty \in [Party -> Seq({1, 2})] /\ toClient \in [Party -> Seq(Payload)]
  BY DEF Init, All
<1>4. files \in [File -> Runs]
  BY <1>1 DEF Init
<1>5. TypeOK
  BY <1>1, <1>2, <1>3, <1>4 DEF Init, TypeOK
<1>6. SentOK /\ BatchOK
  BY DEF Init, All, SentOK, BatchOK
<1>7. QED
  BY <1>5, <1>6 DEF TypeInv

\* What a step of one party has to respect.
LEMMA PartyType ==
  ASSUME TypeInv, NEW p \in Party, NEW at \in Place,
         Goto(p, at), UNCHANGED <<control, mining, files>>,
         rep' \in [Party -> Nat], sent' \in [Party -> Nat],
         link' \in [Party -> {"none", "pending", "open", "closed"}],
         toParty' \in [Party -> Seq({1, 2})], toClient' \in [Party -> Seq(Payload)],
         \A q \in Party : sent'[q] <= 5,
         \A q \in Party \ {p} : sent'[q] = sent[q],
         at = "send" => sent'[p] < 5
  PROVE  TypeInv'
<1>1. party' \in [Party -> Place] /\ party'[p] = at /\ \A q \in Party \ {p} : party'[q] = party[q]
  BY DEF TypeInv, TypeOK, Goto
<1>2. TypeOK'
  BY <1>1 DEF TypeInv, TypeOK, control, mining
<1>3. SentOK'
  BY <1>1 DEF TypeInv, SentOK
<1>4. BatchOK'
  BY DEF TypeInv, BatchOK, control, mining
<1>5. QED
  BY <1>2, <1>3, <1>4 DEF TypeInv

\* The payload a party sends, altered or not.
LEMMA SendsPayload ==
  ASSUME NEW p \in Party, Send(p)
  PROVE  \E altered \in BOOLEAN :
           /\ altered => p \in Corrupt
           /\ toClient' = [toClient EXCEPT ![p] =
                Append(toClient[p], [run |-> run, kind |-> Artifacts[sent[p] + 1], altered |-> altered])]
<1>1. PICK altered \in {FALSE, (p \in Corrupt)} :
        toClient' = [toClient EXCEPT ![p] =
          Append(toClient[p], [run |-> run, kind |-> Artifacts[sent[p] + 1], altered |-> altered])]
  BY Zenon DEF Send
<1>2. altered = FALSE \/ altered = (p \in Corrupt)
  BY <1>1, Zenon
<1>3. CASE p \in Corrupt
  <2>1. altered = FALSE \/ altered = TRUE
    BY <1>2, <1>3, Zenon
  <2>2. QED
    BY <1>1, <1>3, <2>1, Zenon
<1>4. CASE p \notin Corrupt
  <2>1. (p \in Corrupt) = FALSE
    BY <1>4
  <2>2. altered = FALSE
    BY <1>2, <2>1, Zenon
  <2>3. QED
    BY <1>1, <2>2, Zenon
<1>5. QED
  BY <1>3, <1>4

LEMMA SendsType ==
  ASSUME TypeInv, NEW p \in Party, Send(p)
  PROVE  TypeInv'
<1>1. PICK altered \in BOOLEAN :
        toClient' = [toClient EXCEPT ![p] =
          Append(toClient[p], [run |-> run, kind |-> Artifacts[sent[p] + 1], altered |-> altered])]
  BY SendsPayload
<1>a. party[p] = "send"
  BY Zenon DEF Send
<1>2. sent[p] \in 0 .. 4
  <2>1. sent[p] \in Nat
    BY DEF TypeInv, TypeOK
  <2>2. sent[p] < 5
    BY <1>a DEF TypeInv, SentOK
  <2>3. QED
    BY <2>1, <2>2
<1>b. sent[p] + 1 \in 1 .. 5
  BY <1>2
<1>3. Artifacts[sent[p] + 1] \in Kind /\ run \in Runs
  BY <1>b DEF Kind, TypeInv, TypeOK
<1>4. [run |-> run, kind |-> Artifacts[sent[p] + 1], altered |-> altered] \in Payload
  BY <1>3 DEF Payload
<1>5. toClient' \in [Party -> Seq(Payload)]
  BY <1>1, <1>4 DEF TypeInv, TypeOK
<1>6. /\ sent' \in [Party -> Nat] /\ sent'[p] = sent[p] + 1
      /\ \A q \in Party \ {p} : sent'[q] = sent[q]
  BY <1>2 DEF Send, TypeInv, TypeOK
<1>7. PICK at \in {"wait", "send"} : Goto(p, at) /\ (at = "send" => sent[p] + 1 # 5)
  BY FiveArtifacts DEF Send
<1>8. \A q \in Party : sent'[q] <= 5
  BY <1>2, <1>6 DEF TypeInv, SentOK
<1>9. at = "send" => sent'[p] < 5
  BY <1>2, <1>6, <1>7
<1>10. /\ rep' \in [Party -> Nat] /\ toParty' \in [Party -> Seq({1, 2})]
       /\ link' \in [Party -> {"none", "pending", "open", "closed"}] /\ UNCHANGED <<control, mining, files>>
  BY DEF Send, TypeInv, TypeOK
<1>11. QED
  BY <1>5, <1>6, <1>7, <1>8, <1>9, <1>10, PartyType DEF Place

\* The client comes to the next party or begins with the first one again.
LEMMA SocketAfterSocket ==
  ASSUME turn \in Party, NEW next, NextSocket(next)
  PROVE  /\ turn' \in Party
         /\ \/ turn < N /\ turn' = turn + 1 /\ client' = client
            \/ turn = N /\ turn' = 1 /\ client' = next
  BY NAssumption DEF NextSocket, Party

\* What a step of the client has to respect.
LEMMA ClientType ==
  ASSUME TypeInv, UNCHANGED <<control, parties>>,
         client' \in {"connect", "hello", "receive", "compare", "svg", "flat", "pooled", "bye", "leave", "exited"},
         turn' \in Party, batch' \in Seq(Payload), received' \in Seq(Payload), files' \in [File -> Runs],
         link' \in [Party -> {"none", "pending", "open", "closed"}],
         toParty' \in [Party -> Seq({1, 2})], toClient' \in [Party -> Seq(Payload)], BatchOK'
  PROVE  TypeInv'
  BY DEF TypeInv, TypeOK, SentOK, control, parties

LEMMA TypeNext == TypeInv /\ [Next]_vars => TypeInv'
<1> SUFFICES ASSUME TypeInv, [Next]_vars PROVE TypeInv'
  OBVIOUS
<1>1. CASE Launch
  <2>1. party' \in [Party -> Place] /\ rep' \in [Party -> Nat] /\ sent' \in [Party -> Nat]
    BY <1>1 DEF Launch, All, Place
  <2>2. /\ link' \in [Party -> {"none", "pending", "open", "closed"}]
        /\ toParty' \in [Party -> Seq({1, 2})] /\ toClient' \in [Party -> Seq(Payload)]
    BY <1>1 DEF Launch, All
  <2>3. run' \in Runs /\ turn' \in Party
    BY <1>1, NAssumption, ExperimentsAssumption DEF Launch, TypeInv, TypeOK, Runs, Party
  <2>4. TypeOK'
    <3>1. files' \in [File -> Runs] /\ reports' \in Seq(Outcome) /\ size' \in Sizes
      BY <1>1 DEF Launch, TypeInv, TypeOK
    <3>2. batch' = <<>> /\ received' = <<>> /\ driver' = "client" /\ client' = "connect"
      BY <1>1 DEF Launch
    <3>3. QED
      BY <2>1, <2>2, <2>3, <3>1, <3>2 DEF TypeOK
  <2>5. SentOK' /\ BatchOK'
    BY <1>1 DEF Launch, All, SentOK, BatchOK
  <2>6. QED
    BY <2>4, <2>5 DEF TypeInv
<1>2. CASE AwaitClient
  BY <1>2 DEF AwaitClient, TypeInv, TypeOK, SentOK, BatchOK, control, parties, channels, mining
<1>3. CASE AwaitParties
  BY <1>3 DEF AwaitParties, TypeInv, TypeOK, SentOK, BatchOK, control, parties, channels, mining
<1>4. CASE Report
  <2>1. [success |-> \A p \in Party : party[p] = "exited", output |-> files] \in Outcome
    BY DEF Outcome, TypeInv, TypeOK
  <2>2. reports' \in Seq(Outcome)
    BY <1>4, <2>1 DEF Report, TypeInv, TypeOK
  <2>3. QED
    BY <1>4, <2>2 DEF Report, TypeInv, TypeOK, SentOK, BatchOK, parties, channels, mining
<1>5. ASSUME NEW p \in Party, Listen(p) PROVE TypeInv'
  BY <1>5, PartyType DEF Listen, TypeInv, TypeOK, SentOK, control, channels, mining, Place
<1>6. ASSUME NEW p \in Party, Accept(p) PROVE TypeInv'
  BY <1>6, PartyType DEF Accept, TypeInv, TypeOK, SentOK, control, mining, Place
<1>7. ASSUME NEW p \in Party, ReadFlag(p) PROVE TypeInv'
  <2>1. toParty' \in [Party -> Seq({1, 2})]
    BY <1>7 DEF ReadFlag, TypeInv, TypeOK
  <2>2. PICK at \in {"compute", "close"} : Goto(p, at)
    BY <1>7 DEF ReadFlag
  <2>3. QED
    BY <1>7, <2>1, <2>2, PartyType DEF ReadFlag, TypeInv, TypeOK, SentOK, control, mining, Place
<1>8. ASSUME NEW p \in Party, Compute(p) PROVE TypeInv'
  <2>1. /\ sent' \in [Party -> Nat] /\ sent'[p] = 0
        /\ \A q \in Party \ {p} : sent'[q] = sent[q]
    BY <1>8 DEF Compute, TypeInv, TypeOK
  <2>2. \A q \in Party : sent'[q] <= 5
    BY <2>1 DEF TypeInv, SentOK
  <2>3. QED
    <3>1. /\ Goto(p, "send") /\ "send" \in Place /\ UNCHANGED <<control, mining, files>>
          /\ UNCHANGED <<rep, link, toParty, toClient>>
      BY <1>8 DEF Compute, channels, Place
    <3>2. /\ rep' \in [Party -> Nat] /\ link' \in [Party -> {"none", "pending", "open", "closed"}]
          /\ toParty' \in [Party -> Seq({1, 2})] /\ toClient' \in [Party -> Seq(Payload)]
      BY <3>1 DEF TypeInv, TypeOK
    <3>3. sent'[p] < 5
      BY <2>1
    <3>4. QED
      BY <2>1, <2>2, <3>1, <3>2, <3>3, PartyType
<1>9. ASSUME NEW p \in Party, Send(p) PROVE TypeInv'
  BY <1>9, SendsType
<1>10. ASSUME NEW p \in Party, Close(p) PROVE TypeInv'
  <2>1. rep' \in [Party -> Nat]
    <3>1. rep \in [Party -> Nat]
      BY DEF TypeInv, TypeOK
    <3>2. QED
      BY <1>10, <3>1 DEF Close
  <2>2. link' \in [Party -> {"none", "pending", "open", "closed"}]
    BY <1>10 DEF Close, TypeInv, TypeOK
  <2>3. PICK at \in {"listen", "exited"} : Goto(p, at)
    BY <1>10 DEF Close
  <2>4. QED
    BY <1>10, <2>1, <2>2, <2>3, PartyType DEF Close, TypeInv, TypeOK, SentOK, control, mining, Place
<1>11. ASSUME NEW p \in Party, Abort(p) PROVE TypeInv'
  <2>1. link' \in [Party -> {"none", "pending", "open", "closed"}]
    BY <1>11 DEF Abort, TypeInv, TypeOK
  <2>2. QED
    BY <1>11, <2>1, PartyType DEF Abort, TypeInv, TypeOK, SentOK, control, mining, Place
<1>12. CASE Connect
  <2>1. turn \in Party /\ NextSocket("hello") /\ client = "connect" /\ batch = <<>> /\ received = <<>>
    BY <1>12 DEF Connect, TypeInv, TypeOK, BatchOK
  <2>2. turn' \in Party /\ client' \in {"connect", "hello"}
    BY <2>1, SocketAfterSocket
  <2>3. link' \in [Party -> {"none", "pending", "open", "closed"}]
    BY <1>12 DEF Connect, TypeInv, TypeOK
  <2>4. BatchOK'
    BY <1>12, <2>1, <2>2 DEF Connect, BatchOK
  <2>5. QED
    BY <1>12, <2>2, <2>3, <2>4, ClientType DEF Connect, TypeInv, TypeOK
<1>13. CASE SendFlag
  <2> DEFINE next == IF client = "hello" THEN "receive" ELSE "leave"
  <2>1. turn \in Party /\ NextSocket(next) /\ client \in {"hello", "bye"} /\ UNCHANGED <<batch, received>>
    BY <1>13 DEF SendFlag, TypeInv, TypeOK
  <2>2. /\ turn' \in Party
        /\ client' = client \/ (client' = next /\ turn' = 1)
    BY <2>1, SocketAfterSocket
  <2>3. toParty' \in [Party -> Seq({1, 2})]
    BY <1>13 DEF SendFlag, TypeInv, TypeOK
  <2>4. Len(<<>>) = 0
    OBVIOUS
  <2>5. BatchOK'
    BY <2>1, <2>2, <2>4 DEF TypeInv, BatchOK
  <2>6. QED
    BY <1>13, <2>1, <2>2, <2>3, <2>5, ClientType DEF SendFlag, TypeInv, TypeOK
<1>14. CASE Receive
  <2>1. /\ turn \in Party /\ toClient[turn] \in Seq(Payload) /\ toClient[turn] # <<>>
        /\ batch \in Seq(Payload) /\ NextSocket("compare") /\ client = "receive"
        /\ Len(batch) = turn - 1 /\ Len(received) < 5 /\ received' = received
    BY <1>14 DEF Receive, TypeInv, TypeOK, BatchOK
  <2>2. Head(toClient[turn]) \in Payload /\ Tail(toClient[turn]) \in Seq(Payload)
    BY <2>1
  <2>3. batch' \in Seq(Payload) /\ Len(batch') = Len(batch) + 1
    BY <1>14, <2>1, <2>2 DEF Receive
  <2>4. toClient' \in [Party -> Seq(Payload)]
    BY <1>14, <2>2 DEF Receive, TypeInv, TypeOK
  <2>5. /\ turn' \in Party
        /\ \/ turn < N /\ turn' = turn + 1 /\ client' = "receive"
           \/ turn = N /\ turn' = 1 /\ client' = "compare"
    BY <2>1, SocketAfterSocket
  <2>6. BatchOK'
    <3>1. turn \in Nat /\ Len(batch) \in Nat /\ N \in Nat
      BY <2>1, NAssumption DEF Party
    <3>2. Len(batch') = turn /\ Len(received') < 5
      BY <2>1, <2>3, <3>1
    <3>3. CASE turn < N /\ turn' = turn + 1 /\ client' = "receive"
      BY <3>1, <3>2, <3>3 DEF BatchOK
    <3>4. CASE turn = N /\ turn' = 1 /\ client' = "compare"
      BY <3>1, <3>2, <3>4 DEF BatchOK
    <3>5. QED
      BY <2>5, <3>3, <3>4
  <2>7. QED
    BY <1>14, <2>3, <2>4, <2>5, <2>6, ClientType DEF Receive, TypeInv, TypeOK
<1>15. CASE Compare
  <2>1. batch \in Seq(Payload) /\ Len(batch) = N /\ received \in Seq(Payload) /\ Len(received) < 5 /\ turn = 1
    BY <1>15 DEF Compare, TypeInv, TypeOK, BatchOK
  <2>2. batch[1] \in Payload
    BY <2>1, NAssumption
  <2>3. received' \in Seq(Payload) /\ Len(received') = Len(received) + 1
    BY <1>15, <2>1, <2>2 DEF Compare
  <2>4. /\ client' \in {"receive", "flat", "svg"}
        /\ client' = "receive" <=> Len(received) + 1 < 5
    BY <1>15, FiveArtifacts DEF Compare
  <2>5. BatchOK'
    <3>1. batch' = <<>> /\ turn' = 1 /\ Len(<<>>) = 0 /\ Len(received) \in Nat
      BY <1>15, <2>1 DEF Compare
    <3>2. QED
      BY <2>1, <2>3, <2>4, <3>1 DEF BatchOK
  <2>6. /\ UNCHANGED <<control, parties, link, toParty, toClient, turn, files>> /\ batch' = <<>>
    BY <1>15 DEF Compare, channels
  <2>7. /\ turn' \in Party /\ batch' \in Seq(Payload) /\ files' \in [File -> Runs]
        /\ link' \in [Party -> {"none", "pending", "open", "closed"}]
        /\ toParty' \in [Party -> Seq({1, 2})] /\ toClient' \in [Party -> Seq(Payload)]
    BY <2>6 DEF TypeInv, TypeOK
  <2>8. QED
    BY <2>3, <2>4, <2>5, <2>6, <2>7, ClientType
<1>16. CASE SaveVisualisation
  BY <1>16 DEF SaveVisualisation, Write, TypeInv, TypeOK, SentOK, BatchOK, control, parties, channels, mining, File
<1>17. CASE SaveFlatModel
  BY <1>17 DEF SaveFlatModel, Write, TypeInv, TypeOK, SentOK, BatchOK, control, parties, channels, mining, File
<1>18. CASE SavePooledModel
  BY <1>18 DEF SavePooledModel, Write, TypeInv, TypeOK, SentOK, BatchOK, control, parties, channels, mining, File
<1>19. CASE Leave
  BY <1>19 DEF Leave, CloseSockets, TypeInv, TypeOK, SentOK, BatchOK, control, parties, channels, mining
<1>20. CASE Fail
  BY <1>20 DEF Fail, CloseSockets, TypeInv, TypeOK, SentOK, BatchOK, control, parties, channels, mining
<1>21. CASE Crash
  BY <1>21 DEF Crash, CloseSockets, TypeInv, TypeOK, SentOK, BatchOK, control, parties, channels, mining
<1>22. CASE UNCHANGED vars
  BY <1>22 DEF vars, TypeInv, TypeOK, SentOK, BatchOK, control, parties, channels, mining
<1>23. QED
  BY <1>1, <1>2, <1>3, <1>4, <1>5, <1>6, <1>7, <1>8, <1>9, <1>10, <1>11, <1>12, <1>13, <1>14, <1>15, <1>16,
     <1>17, <1>18, <1>19, <1>20, <1>21, <1>22 DEF Next, DriverStep, PartyStep, ClientStep

\* A step of a party changes what belongs to that party only.
LEMMA PartyShape ==
  ASSUME TypeInv, NEW p \in Party, PartyStep(p)
  PROVE  /\ UNCHANGED <<driver, run, size, reports, client, turn, batch, received, files>>
         /\ \A q \in Party \ {p} :
              /\ party'[q] = party[q] /\ rep'[q] = rep[q] /\ sent'[q] = sent[q]
              /\ link'[q] = link[q] /\ toParty'[q] = toParty[q] /\ toClient'[q] = toClient[q]
<1>1. /\ party \in [Party -> Place] /\ rep \in [Party -> Nat] /\ sent \in [Party -> Nat]
      /\ link \in [Party -> {"none", "pending", "open", "closed"}]
      /\ toParty \in [Party -> Seq({1, 2})] /\ toClient \in [Party -> Seq(Payload)]
  BY DEF TypeInv, TypeOK
<1>2. CASE Listen(p)
  BY <1>1, <1>2 DEF Listen, Goto, control, channels, mining
<1>3. CASE Accept(p)
  BY <1>1, <1>3 DEF Accept, Goto, control, channels, mining
<1>4. CASE ReadFlag(p)
  BY <1>1, <1>4 DEF ReadFlag, Goto, control, channels, mining
<1>5. CASE Compute(p)
  BY <1>1, <1>5 DEF Compute, Goto, control, channels, mining
<1>6. CASE Send(p)
  <2>1. PICK altered \in BOOLEAN :
          toClient' = [toClient EXCEPT ![p] =
            Append(toClient[p], [run |-> run, kind |-> Artifacts[sent[p] + 1], altered |-> altered])]
    BY <1>6, SendsPayload
  <2>2. \A q \in Party \ {p} : toClient'[q] = toClient[q]
    BY <1>1, <2>1
  <2>3. /\ UNCHANGED <<control, rep, link, toParty, mining, files>>
        /\ sent' = [sent EXCEPT ![p] = sent[p] + 1]
        /\ party' = [party EXCEPT ![p] = IF sent[p] + 1 = Len(Artifacts) THEN "wait" ELSE "send"]
    BY <1>6, Zenon DEF Send, Goto
  <2>4. QED
    BY <1>1, <2>2, <2>3 DEF control, mining
<1>7. CASE Close(p)
  BY <1>1, <1>7 DEF Close, Goto, control, channels, mining
<1>8. CASE Abort(p)
  BY <1>1, <1>8 DEF Abort, Goto, control, channels, mining
<1>9. QED
  BY <1>2, <1>3, <1>4, <1>5, <1>6, <1>7, <1>8 DEF PartyStep

\* A step of the client leaves driver and parties alone.
LEMMA ClientShape ==
  ASSUME ClientStep \/ Crash
  PROVE  UNCHANGED <<driver, run, size, reports, party, rep, sent>>
  BY DEF ClientStep, Connect, SendFlag, Receive, Compare, SaveVisualisation, SaveFlatModel, SavePooledModel,
         Write, Leave, Fail, Crash, control, parties

\* The steps of the driver but for a launch leave parties and client alone.
LEMMA DriverShape ==
  ASSUME AwaitClient \/ AwaitParties \/ Report
  PROVE  UNCHANGED <<run, size, party, rep, sent, link, toParty, toClient, client, turn, batch, received, files>>
  BY DEF AwaitClient, AwaitParties, Report, parties, channels, mining

LEMMA OneComputationNext == TypeInv /\ OneComputation /\ NoFlagYet /\ [Next]_vars => OneComputation'
<1> SUFFICES ASSUME TypeInv, OneComputation, NoFlagYet, [Next]_vars PROVE OneComputation'
  OBVIOUS
<1>1. CASE Launch
  BY <1>1 DEF Launch, All, OneComputation, ComputesOnce
<1>2. CASE AwaitClient \/ AwaitParties \/ Report
  BY <1>2, DriverShape DEF OneComputation, ComputesOnce
<1>3. ASSUME NEW p \in Party, PartyStep(p) PROVE OneComputation'
  <2>1. \A q \in Party \ {p} : ComputesOnce(q)'
    BY <1>3, PartyShape DEF OneComputation, ComputesOnce
  <2>2. ComputesOnce(p)'
    <3>1. /\ party \in [Party -> Place] /\ rep \in [Party -> Nat] /\ sent \in [Party -> Nat]
          /\ link \in [Party -> {"none", "pending", "open", "closed"}] /\ ComputesOnce(p)
      BY DEF TypeInv, TypeOK, OneComputation
    <3>2. CASE Listen(p)
      BY <3>1, <3>2 DEF Listen, Goto, ComputesOnce, channels
    <3>3. CASE Accept(p)
      BY <3>1, <3>3 DEF Accept, Goto, ComputesOnce
    <3>4. CASE ReadFlag(p)
      BY <3>1, <3>4 DEF ReadFlag, Goto, ComputesOnce
    <3>5. CASE Compute(p)
      BY <3>1, <3>5 DEF Compute, Goto, ComputesOnce, channels
    <3>6. CASE Send(p)
      <4>1. /\ party[p] = "send" /\ rep' = rep
            /\ party' = [party EXCEPT ![p] = IF sent[p] + 1 = Len(Artifacts) THEN "wait" ELSE "send"]
        BY <3>6, Zenon DEF Send, Goto
      <4>2. QED
        BY <3>1, <4>1 DEF ComputesOnce
    <3>7. CASE Close(p)
      <4>1. rep[p] = 1 /\ party[p] = "close"
        BY <3>1, <3>7 DEF Close, ComputesOnce
      <4>2. CASE rep[p] < Repetitions
        BY <3>1, <3>7, <4>1, <4>2 DEF Close, Goto, ComputesOnce
      <4>3. CASE ~(rep[p] < Repetitions)
        BY <3>1, <3>7, <4>1, <4>3 DEF Close, Goto, ComputesOnce
      <4>4. QED
        BY <4>2, <4>3
    <3>8. CASE Abort(p)
      BY <3>1, <3>8 DEF Abort, Goto, ComputesOnce
    <3>9. QED
      BY <1>3, <3>2, <3>3, <3>4, <3>5, <3>6, <3>7, <3>8 DEF PartyStep
  <2>3. QED
    BY <2>1, <2>2 DEF OneComputation
<1>4. CASE Connect
  <2>1. turn \in Party /\ Unflagged(turn) /\ client = "connect" /\ link' = [link EXCEPT ![turn] = "pending"]
    BY <1>4 DEF Connect, NoFlagYet, TypeInv, TypeOK
  <2>2. rep[turn] = 1
    BY <2>1 DEF Unflagged
  <2>3. QED
    BY <1>4, <2>1, <2>2, ClientShape DEF ClientStep, OneComputation, ComputesOnce, TypeInv, TypeOK
<1>5. CASE UNCHANGED <<party, rep, sent, link>>
  BY <1>5 DEF OneComputation, ComputesOnce
<1>6. CASE CloseSockets /\ UNCHANGED <<party, rep, sent>>
  BY <1>6 DEF CloseSockets, OneComputation, ComputesOnce
<1>7. QED
  BY <1>1, <1>2, <1>3, <1>4, <1>5, <1>6 DEF Next, DriverStep, ClientStep, SendFlag, Receive, Compare,
     SaveVisualisation, SaveFlatModel, SavePooledModel, Write, Leave, Fail, Crash, vars, parties, channels

LEMMA NoFlagYetNext == TypeInv /\ NoFlagYet /\ [Next]_vars => NoFlagYet'
<1> SUFFICES ASSUME TypeInv, NoFlagYet, [Next]_vars PROVE NoFlagYet'
  OBVIOUS
<1>1. CASE Launch
  BY <1>1 DEF Launch, All, NoFlagYet, Unflagged
<1>2. CASE AwaitClient \/ AwaitParties \/ Report
  BY <1>2, DriverShape DEF NoFlagYet, Unflagged
<1>3. ASSUME NEW p \in Party, PartyStep(p) PROVE NoFlagYet'
  <2>1. \A q \in Party \ {p} : Unflagged(q)'
    BY <1>3, PartyShape DEF NoFlagYet, Unflagged
  <2>2. Unflagged(p)'
    <3>1. /\ party \in [Party -> Place] /\ UNCHANGED <<client, turn>> /\ Unflagged(p)
      BY <1>3, PartyShape DEF TypeInv, TypeOK, NoFlagYet
    <3>2. CASE Listen(p)
      BY <3>1, <3>2 DEF Listen, Goto, Unflagged, channels
    <3>3. CASE Accept(p)
      BY <3>1, <3>3 DEF Accept, Goto, Unflagged
    <3>4. CASE ReadFlag(p)
      BY <3>1, <3>4 DEF ReadFlag, Unflagged
    <3>5. CASE Compute(p)
      BY <3>1, <3>5 DEF Compute, Unflagged
    <3>6. CASE Send(p)
      <4>1. party[p] = "send"
        BY <3>6, Zenon DEF Send
      <4>2. QED
        BY <3>1, <4>1 DEF Unflagged
    <3>7. CASE Close(p)
      BY <3>1, <3>7 DEF Close, Unflagged
    <3>8. CASE Abort(p)
      BY <3>1, <3>8 DEF Abort, Goto, Unflagged
    <3>9. QED
      BY <1>3, <3>2, <3>3, <3>4, <3>5, <3>6, <3>7, <3>8 DEF PartyStep
  <2>3. QED
    BY <2>1, <2>2 DEF NoFlagYet
<1>4. CASE Connect
  BY <1>4, ClientShape DEF Connect, ClientStep, NoFlagYet, Unflagged
<1>5. CASE SendFlag
  <2> DEFINE next == IF client = "hello" THEN "receive" ELSE "leave"
  <2>1. turn \in Party /\ NextSocket(next) /\ toParty \in [Party -> Seq({1, 2})] /\ client \in {"hello", "bye"}
    BY <1>5 DEF SendFlag, TypeInv, TypeOK
  <2>2. \A q \in Party \ {turn} : toParty'[q] = toParty[q]
    BY <1>5, <2>1 DEF SendFlag
  <2>3. UNCHANGED <<party, rep>>
    BY <1>5, ClientShape DEF ClientStep
  <2>4. \/ client' = "hello" /\ client = "hello" /\ turn' = turn + 1
        \/ client' \in {"receive", "bye", "leave"}
    BY <2>1, SocketAfterSocket
  <2>5. QED
    BY <2>1, <2>2, <2>3, <2>4 DEF NoFlagYet, Unflagged, Party
<1>6. CASE client' \notin {"connect", "hello"}
  BY <1>6 DEF NoFlagYet, Unflagged
<1>7. CASE UNCHANGED vars
  BY <1>7 DEF vars, parties, channels, mining, NoFlagYet, Unflagged
<1>8. CASE Receive
  <2>1. client = "receive" /\ client' \in {"receive", "compare"}
    BY <1>8, SocketAfterSocket DEF Receive, TypeInv, TypeOK
  <2>2. QED
    BY <1>6, <2>1
<1>9. CASE Compare \/ SaveVisualisation \/ SaveFlatModel \/ SavePooledModel \/ Leave \/ Fail \/ Crash
  BY <1>6, <1>9 DEF Compare, SaveVisualisation, SaveFlatModel, SavePooledModel, Write, Leave, Fail, Crash
<1>10. QED
  BY <1>1, <1>2, <1>3, <1>4, <1>5, <1>7, <1>8, <1>9 DEF Next, DriverStep, ClientStep

\* What reaches the channel of a party is the next artifact.
LEMMA SendInOrder ==
  ASSUME TypeInv, NEW p \in Party, ChannelInOrder(p), Send(p)
  PROVE  ChannelInOrder(p)'
<1>1. PICK altered \in BOOLEAN :
        /\ altered => p \in Corrupt
        /\ toClient' = [toClient EXCEPT ![p] =
             Append(toClient[p], [run |-> run, kind |-> Artifacts[sent[p] + 1], altered |-> altered])]
  BY SendsPayload
<1> DEFINE x == [run |-> run, kind |-> Artifacts[sent[p] + 1], altered |-> altered]
<1>2. x.run = run /\ x.kind = Artifacts[sent[p] + 1] /\ x.altered = altered
  OBVIOUS
<1>3. Genuine(x, p, sent[p] + 1)
  BY <1>1, <1>2 DEF Genuine
<1>4. /\ toClient[p] \in Seq(Payload) /\ sent[p] \in Nat /\ Len(received) \in Nat
      /\ toClient'[p] = Append(toClient[p], x)
  BY <1>1 DEF TypeInv, TypeOK
<1>5. sent'[p] = sent[p] + 1 /\ UNCHANGED <<run, received, batch>>
  <2>1. sent' = [sent EXCEPT ![p] = sent[p] + 1] /\ UNCHANGED <<control, mining>>
    BY Zenon DEF Send
  <2>2. QED
    BY <2>1 DEF TypeInv, TypeOK, control, mining
<1>6. Taken(p)' = Taken(p) /\ Taken(p) \in Nat
  BY <1>4, <1>5 DEF Taken
<1> HIDE DEF x
<1>7. Len(toClient'[p]) = Len(toClient[p]) + 1 /\ Len(toClient[p]) \in Nat
  BY <1>4
<1>8. sent'[p] = Taken(p)' + Len(toClient'[p])
  BY <1>4, <1>5, <1>6, <1>7 DEF ChannelInOrder
<1>9. ASSUME NEW i \in 1 .. Len(toClient'[p]) PROVE Genuine(toClient'[p][i], p, Taken(p) + i)
  <2>1. CASE i = Len(toClient[p]) + 1
    BY <1>3, <1>4, <1>6, <1>7, <2>1 DEF ChannelInOrder
  <2>2. CASE i \in 1 .. Len(toClient[p])
    BY <1>4, <2>2 DEF ChannelInOrder
  <2>3. QED
    BY <1>7, <2>1, <2>2
<1>10. QED
  BY <1>5, <1>6, <1>8, <1>9 DEF ChannelInOrder, Genuine

LEMMA ChannelsNext ==
  TypeInv /\ OneComputation /\ ChannelsInOrder /\ [Next]_vars => ChannelsInOrder'
<1> SUFFICES ASSUME TypeInv, OneComputation, ChannelsInOrder, [Next]_vars PROVE ChannelsInOrder'
  OBVIOUS
<1>1. CASE Launch
  <2>1. \A p \in Party : sent'[p] = 0 /\ toClient'[p] = <<>>
    BY <1>1 DEF Launch, All
  <2>2. received' = <<>> /\ batch' = <<>> /\ Len(<<>>) = 0
    BY <1>1 DEF Launch
  <2>3. \A p \in Party : Taken(p)' = 0
    BY <2>2, NAssumption DEF Taken, Party
  <2>4. \A p \in Party : ChannelInOrder(p)'
    BY <2>1, <2>2, <2>3 DEF ChannelInOrder
  <2>5. QED
    BY <2>4 DEF ChannelsInOrder
<1>2. CASE AwaitClient \/ AwaitParties \/ Report
  <2>1. UNCHANGED <<run, sent, toClient, client, batch, received>>
    BY <1>2, DriverShape
  <2>2. ASSUME NEW q \in Party, ChannelInOrder(q) PROVE ChannelInOrder(q)'
    BY <2>1, <2>2 DEF ChannelInOrder, Taken, Genuine
  <2>3. QED
    BY <2>1, <2>2 DEF ChannelsInOrder
<1>3. ASSUME NEW p \in Party, PartyStep(p) PROVE ChannelsInOrder'
  <2>1. UNCHANGED <<run, client, batch, received>>
    BY <1>3, PartyShape
  <2>2. SUFFICES ASSUME client # "exited" PROVE \A q \in Party : ChannelInOrder(q)'
    BY <2>1 DEF ChannelsInOrder
  <2>3. \A q \in Party : ChannelInOrder(q)
    BY <2>2 DEF ChannelsInOrder
  <2>4. ASSUME NEW q \in Party, sent'[q] = sent[q], toClient'[q] = toClient[q] PROVE ChannelInOrder(q)'
    BY <2>1, <2>3, <2>4 DEF ChannelInOrder, Taken, Genuine
  <2>5. \A q \in Party \ {p} : ChannelInOrder(q)'
    BY <1>3, <2>4, PartyShape
  <2>6. CASE Send(p)
    BY <2>3, <2>5, <2>6, SendInOrder
  <2>7. CASE Compute(p)
    <3>1. party[p] = "compute" /\ rep[p] \in Nat /\ sent \in [Party -> Nat] /\ ComputesOnce(p)
      BY <2>7 DEF Compute, TypeInv, TypeOK, OneComputation
    <3>2. sent[p] = 0
      BY <3>1 DEF ComputesOnce
    <3>3. sent'[p] = sent[p] /\ toClient'[p] = toClient[p]
      BY <2>7, <3>1, <3>2 DEF Compute, channels
    <3>4. QED
      BY <2>4, <2>5, <3>3
  <2>8. CASE UNCHANGED <<sent, toClient>>
    BY <2>4, <2>8
  <2>9. QED
    BY <1>3, <2>6, <2>7, <2>8 DEF PartyStep, Listen, Accept, ReadFlag, Close, Abort, channels
<1>4. CASE Receive
  <2>1. UNCHANGED <<run, sent, received>> /\ client = "receive"
    BY <1>4, ClientShape DEF Receive, ClientStep
  <2>2. /\ turn \in Party /\ toClient \in [Party -> Seq(Payload)] /\ toClient[turn] # <<>>
        /\ batch \in Seq(Payload) /\ received \in Seq(Payload) /\ Len(batch) = turn - 1
    BY <1>4 DEF Receive, TypeInv, TypeOK, BatchOK
  <2>3. Head(toClient[turn]) \in Payload
    BY <2>2
  <2>4. Len(batch') = turn
    BY <1>4, <2>2, <2>3 DEF Receive, Party
  <2>5. /\ \A q \in Party \ {turn} : toClient'[q] = toClient[q]
        /\ toClient'[turn] = Tail(toClient[turn])
    BY <1>4, <2>2 DEF Receive
  <2>6. ASSUME NEW q \in Party \ {turn} PROVE ChannelInOrder(q)'
    <3>1. Taken(q)' = Taken(q)
      BY <2>1, <2>2, <2>4 DEF Taken, Party
    <3>2. ChannelInOrder(q)
      BY <2>1 DEF ChannelsInOrder
    <3>3. QED
      BY <2>1, <2>5, <3>1, <3>2 DEF ChannelInOrder, Genuine
  <2>7. \A q \in Party : q = turn => ChannelInOrder(q)'
    <3>1. ChannelInOrder(turn)
      BY <2>1, <2>2 DEF ChannelsInOrder
    <3>2. Len(received)' + (IF turn <= Len(batch)' THEN 1 ELSE 0) = Taken(turn) + 1 /\ Taken(turn) \in Nat
      BY <2>1, <2>2, <2>4 DEF Taken, Party
    <3>3. /\ Len(Tail(toClient[turn])) = Len(toClient[turn]) - 1 /\ Len(toClient[turn]) \in Nat
          /\ \A i \in 1 .. Len(Tail(toClient[turn])) : Tail(toClient[turn])[i] = toClient[turn][i + 1]
      BY <2>2
    <3>4. sent[turn] = Taken(turn) + 1 + Len(Tail(toClient[turn]))
      BY <3>1, <3>2, <3>3 DEF ChannelInOrder
    <3>5. ASSUME NEW i \in 1 .. Len(Tail(toClient[turn]))
          PROVE  Genuine(Tail(toClient[turn])[i], turn, Taken(turn) + 1 + i)
      <4>1. i + 1 \in 1 .. Len(toClient[turn]) /\ Taken(turn) + (i + 1) = Taken(turn) + 1 + i
        <5>1. i \in Nat /\ i >= 1 /\ i <= Len(toClient[turn]) - 1
          BY <3>3
        <5>2. QED
          BY <3>2, <3>3, <5>1
      <4>2. QED
        BY <3>1, <3>3, <4>1 DEF ChannelInOrder
    <3>6. ASSUME NEW q \in Party, q = turn PROVE ChannelInOrder(q)'
      <4>1. Taken(q)' = Taken(turn) + 1
        BY <3>2, <3>6 DEF Taken
      <4>2. toClient'[q] = Tail(toClient[turn]) /\ sent'[q] = sent[turn] /\ run' = run
        BY <2>1, <2>5, <3>6
      <4>3. \A i \in 1 .. Len(toClient'[q]) : Genuine(toClient'[q][i], q, Taken(q)' + i)
        BY <3>5, <3>6, <4>1, <4>2
      <4>4. QED
        BY <3>4, <4>1, <4>2, <4>3 DEF ChannelInOrder, Genuine
    <3>7. QED
      BY <3>6
  <2>8. QED
    BY <2>6, <2>7 DEF ChannelsInOrder
<1>5. CASE Compare
  <2>1. /\ UNCHANGED <<run, sent, toClient>> /\ client = "compare" /\ batch' = <<>>
        /\ received' = Append(received, batch[1])
    BY <1>5, ClientShape DEF Compare, ClientStep, channels
  <2>2. batch \in Seq(Payload) /\ received \in Seq(Payload) /\ Len(batch) = N
    BY <2>1 DEF TypeInv, TypeOK, BatchOK
  <2>3. Len(received') = Len(received) + 1 /\ Len(batch') = 0
    BY <2>1, <2>2, NAssumption
  <2>4. \A q \in Party : Taken(q)' = Taken(q)
    BY <2>2, <2>3, NAssumption DEF Taken, Party
  <2>5. \A q \in Party : ChannelInOrder(q)
    BY <2>1 DEF ChannelsInOrder
  <2>6. QED
    BY <2>1, <2>4, <2>5 DEF ChannelsInOrder, ChannelInOrder, Genuine
<1>6. CASE UNCHANGED <<run, sent, toClient, batch, received>> /\ client # "exited"
  BY <1>6 DEF ChannelsInOrder, ChannelInOrder, Taken, Genuine
<1>7. CASE client' = "exited"
  BY <1>7 DEF ChannelsInOrder
<1>8. CASE UNCHANGED vars
  BY <1>8 DEF vars, control, parties, channels, mining, ChannelsInOrder, ChannelInOrder, Taken, Genuine
<1>9. CASE Connect \/ SendFlag \/ SaveVisualisation \/ SaveFlatModel \/ SavePooledModel
  BY <1>6, <1>9, ClientShape DEF ClientStep, Connect, SendFlag, SaveVisualisation, SaveFlatModel, SavePooledModel,
     Write, channels
<1>10. CASE Leave \/ Fail \/ Crash
  BY <1>7, <1>10 DEF Leave, Fail, Crash
<1>11. QED
  BY <1>1, <1>2, <1>3, <1>4, <1>5, <1>8, <1>9, <1>10 DEF Next, DriverStep, ClientStep

LEMMA BatchNext ==
  TypeInv /\ ChannelsInOrder /\ BatchInOrder /\ [Next]_vars => BatchInOrder'
<1> SUFFICES ASSUME TypeInv, ChannelsInOrder, BatchInOrder, [Next]_vars PROVE BatchInOrder'
  OBVIOUS
<1>1. CASE client' \notin {"receive", "compare"}
  BY <1>1 DEF BatchInOrder
<1>2. CASE batch' = <<>>
  BY <1>2 DEF BatchInOrder
<1>3. CASE UNCHANGED <<run, client, batch, received>>
  BY <1>3 DEF BatchInOrder, Genuine
<1>4. CASE Receive
  <2>1. /\ turn \in Party /\ toClient[turn] \in Seq(Payload) /\ toClient[turn] # <<>> /\ Head(toClient[turn]) \in Payload
        /\ batch \in Seq(Payload) /\ received \in Seq(Payload) /\ Len(batch) = turn - 1 /\ client = "receive"
        /\ batch' = Append(batch, Head(toClient[turn])) /\ received' = received
    BY <1>4 DEF Receive, TypeInv, TypeOK, BatchOK
  <2>2. Taken(turn) = Len(received) /\ Len(received) \in Nat
    BY <2>1 DEF Taken, Party
  <2>3. ChannelInOrder(turn)
    BY <2>1 DEF ChannelsInOrder
  <2>4. Head(toClient[turn]) = toClient[turn][1] /\ 1 \in 1 .. Len(toClient[turn])
    BY <2>1
  <2>5. Genuine(Head(toClient[turn]), turn, Len(received) + 1)
    BY <2>2, <2>3, <2>4 DEF ChannelInOrder
  <2>6. run' = run
    BY <1>4, ClientShape DEF ClientStep
  <2>7. \A p \in 1 .. Len(batch) : Genuine(batch[p], p, Len(received) + 1)
    BY <2>1 DEF BatchInOrder
  <2>8. ASSUME NEW p \in 1 .. Len(batch') PROVE Genuine(batch'[p], p, Len(received) + 1)
    <3>1. CASE p = turn
      BY <2>1, <2>5, <3>1 DEF Party
    <3>2. CASE p # turn
      BY <2>1, <2>7, <3>2 DEF Party
    <3>3. QED
      BY <3>1, <3>2
  <2>9. QED
    BY <2>1, <2>6, <2>8 DEF BatchInOrder, Genuine
<1>5. CASE Launch \/ Compare
  BY <1>2, <1>5 DEF Launch, Compare
<1>6. CASE AwaitClient \/ AwaitParties \/ Report
  BY <1>3, <1>6, DriverShape
<1>7. ASSUME NEW p \in Party, PartyStep(p) PROVE BatchInOrder'
  BY <1>3, <1>7, PartyShape
<1>8. CASE SendFlag
  BY <1>1, <1>2, <1>8, SocketAfterSocket DEF SendFlag, TypeInv, TypeOK, BatchOK
<1>9. CASE Connect
  <2>1. turn \in Party /\ NextSocket("hello") /\ client = "connect"
    BY <1>9 DEF Connect, TypeInv, TypeOK
  <2>2. client' \in {"connect", "hello"}
    BY <2>1, SocketAfterSocket
  <2>3. QED
    BY <1>1, <2>2
<1>10. CASE SaveVisualisation \/ SaveFlatModel \/ SavePooledModel \/ Leave \/ Fail \/ Crash
  BY <1>1, <1>10 DEF SaveVisualisation, SaveFlatModel, SavePooledModel, Write, Leave, Fail, Crash
<1>11. CASE UNCHANGED vars
  BY <1>3, <1>11 DEF vars, control, mining
<1>12. QED
  BY <1>4, <1>5, <1>6, <1>7, <1>8, <1>9, <1>10, <1>11 DEF Next, DriverStep, ClientStep

LEMMA ReceivedNext ==
  TypeInv /\ BatchInOrder /\ ReceivedInOrder /\ [Next]_vars => ReceivedInOrder'
<1> SUFFICES ASSUME TypeInv, BatchInOrder, ReceivedInOrder, [Next]_vars PROVE ReceivedInOrder'
  OBVIOUS
<1>1. CASE UNCHANGED <<run, received>>
  BY <1>1 DEF ReceivedInOrder
<1>2. CASE Launch
  BY <1>2 DEF Launch, ReceivedInOrder
<1>3. CASE Compare
  <2>1. /\ run' = run /\ client = "compare" /\ Agreed(batch) /\ received' = Append(received, batch[1])
    BY <1>3, ClientShape DEF Compare, ClientStep
  <2>2. /\ batch \in Seq(Payload) /\ received \in Seq(Payload) /\ Len(batch) = N /\ N \in Nat \ {0}
    BY <2>1, NAssumption DEF TypeInv, TypeOK, BatchOK
  <2>3. \A p \in 1 .. N : Genuine(batch[p], p, Len(received) + 1) /\ batch[p] = batch[1]
    BY <2>1, <2>2 DEF BatchInOrder, Agreed
  <2>4. batch[1].altered => Corrupt = Party
    BY <2>2, <2>3, CorruptAssumption DEF Genuine, Party
  <2>5. batch[1].run = run /\ batch[1].kind = Artifacts[Len(received) + 1]
    BY <2>2, <2>3 DEF Genuine
  <2>6. ASSUME NEW k \in 1 .. Len(received')
        PROVE  /\ received'[k].run = run /\ received'[k].kind = Artifacts[k]
               /\ received'[k].altered => Corrupt = Party
    <3>1. CASE k \in 1 .. Len(received)
      BY <2>1, <2>2, <3>1 DEF ReceivedInOrder
    <3>2. CASE k = Len(received) + 1
      BY <2>1, <2>2, <2>4, <2>5, <3>2
    <3>3. QED
      BY <2>1, <2>2, <3>1, <3>2
  <2>7. QED
    BY <2>1, <2>6 DEF ReceivedInOrder
<1>4. CASE AwaitClient \/ AwaitParties \/ Report
  BY <1>1, <1>4, DriverShape
<1>5. ASSUME NEW p \in Party, PartyStep(p) PROVE ReceivedInOrder'
  BY <1>1, <1>5, PartyShape
<1>6. CASE Connect \/ SendFlag \/ Receive \/ SaveVisualisation \/ SaveFlatModel \/ SavePooledModel
             \/ Leave \/ Fail \/ Crash
  BY <1>1, <1>6, ClientShape DEF ClientStep, Connect, SendFlag, Receive, SaveVisualisation, SaveFlatModel,
     SavePooledModel, Write, Leave, Fail, Crash
<1>7. CASE UNCHANGED vars
  BY <1>1, <1>7 DEF vars, control, mining
<1>8. QED
  BY <1>2, <1>3, <1>4, <1>5, <1>6, <1>7 DEF Next, DriverStep, ClientStep

LEMMA OrderInit == Init => OrderInv
<1> SUFFICES ASSUME Init PROVE OrderInv
  OBVIOUS
<1>1. OneComputation
  BY DEF Init, All, OneComputation, ComputesOnce
<1>2. QED
  BY <1>1 DEF Init, OrderInv, NoFlagYet, Unflagged, ChannelsInOrder, BatchInOrder, ReceivedInOrder

LEMMA OrderInvariant == Spec => [](TypeInv /\ OrderInv)
<1>1. Init => TypeInv /\ OrderInv
  BY TypeInit, OrderInit
<1>2. (TypeInv /\ OrderInv) /\ [Next]_vars => (TypeInv /\ OrderInv)'
  BY TypeNext, OneComputationNext, NoFlagYetNext, ChannelsNext, BatchNext, ReceivedNext DEF OrderInv
<1>3. QED
  BY <1>1, <1>2, PTL DEF Spec

\* Types are kept: every party sends each artifact at most once, and the client has
\* a payload of each party it has come to (socket_io.py, socket_client.py).
THEOREM SessionTypeCorrect == Spec => []TypeInv
  BY OrderInvariant, PTL

\* What the client takes for the k-th artifact is the k-th one of this run, and nobody
\* altered it unless all parties did, for any number of parties, runs and repetitions
\* (split_miner_socket.py, socket_client.py).
THEOREM SessionArtifactsInOrder == Spec => []ArtifactsInOrder
<1>1. TypeInv /\ OrderInv => ArtifactsInOrder
  BY DEF TypeInv, TypeOK, OrderInv, ReceivedInOrder, ArtifactsInOrder
<1>2. QED
  BY <1>1, OrderInvariant, PTL

(***************************************************************************)
(* Before the first run nothing but a launch is possible.                  *)
(***************************************************************************)
LEMMA UnstartedNext == TypeInv /\ Unstarted /\ [Next]_vars => Unstarted'
<1> SUFFICES ASSUME TypeInv, Unstarted, [Next]_vars PROVE Unstarted'
  OBVIOUS
<1>1. CASE Launch
  <2>1. run \in Nat /\ run' = run + 1
    BY <1>1, ExperimentsAssumption DEF Launch, TypeInv, TypeOK, Runs
  <2>2. QED
    BY <2>1 DEF Unstarted
<1>2. CASE UNCHANGED vars
  BY <1>2 DEF vars, control, parties, mining, Unstarted
<1>3. CASE AwaitClient \/ AwaitParties \/ Report
  <2>1. run' = run /\ driver # "launch"
    BY <1>3, DriverShape DEF AwaitClient, AwaitParties, Report
  <2>2. QED
    BY <2>1 DEF Unstarted
<1>4. ASSUME NEW p \in Party, PartyStep(p) PROVE Unstarted'
  <2>1. run' = run
    BY <1>4, PartyShape
  <2>2. party[p] # "exited"
    <3>1. CASE Send(p)
      BY <3>1, Zenon DEF Send
    <3>2. CASE Listen(p) \/ Accept(p) \/ ReadFlag(p) \/ Compute(p) \/ Close(p) \/ Abort(p)
      BY <3>2 DEF Listen, Accept, ReadFlag, Compute, Close, Abort
    <3>3. QED
      BY <1>4, <3>1, <3>2 DEF PartyStep
  <2>3. QED
    BY <2>1, <2>2 DEF Unstarted
<1>5. CASE ClientStep \/ Crash
  <2>1. run' = run /\ client # "exited"
    BY <1>5, ClientShape DEF ClientStep, Connect, SendFlag, Receive, Compare, SaveVisualisation, SaveFlatModel,
       SavePooledModel, Write, Leave, Fail, Crash
  <2>2. QED
    BY <2>1 DEF Unstarted
<1>6. QED
  BY <1>1, <1>2, <1>3, <1>4, <1>5 DEF Next, DriverStep

LEMMA RepeatedNext == TypeInv /\ Unstarted /\ Repeated /\ [Next]_vars => Repeated'
<1> SUFFICES ASSUME TypeInv, Unstarted, Repeated, [Next]_vars PROVE Repeated'
  OBVIOUS
<1>1. CASE Launch
  BY <1>1, ExperimentsAssumption DEF Launch, All, Repeated
<1>2. CASE UNCHANGED <<run, party, rep>>
  BY <1>2 DEF Repeated
<1>3. CASE AwaitClient \/ AwaitParties \/ Report
  BY <1>2, <1>3, DriverShape
<1>4. CASE ClientStep \/ Crash
  BY <1>2, <1>4, ClientShape
<1>5. CASE UNCHANGED vars
  BY <1>2, <1>5 DEF vars, control, parties
<1>6. ASSUME NEW p \in Party, PartyStep(p) PROVE Repeated'
  <2>1. run' = run /\ \A q \in Party \ {p} : party'[q] = party[q] /\ rep'[q] = rep[q]
    BY <1>6, PartyShape
  <2>2. SUFFICES ASSUME run > 0
                 PROVE  rep'[p] \in 1 .. Repetitions /\ (party'[p] = "exited" => rep'[p] = Repetitions)
    BY <2>1 DEF Repeated
  <2>3. rep[p] \in 1 .. Repetitions /\ Repetitions \in Nat
    BY <2>2, ExperimentsAssumption DEF Repeated
  <2>4. party \in [Party -> Place] /\ rep \in [Party -> Nat]
    BY DEF TypeInv, TypeOK
  <2>5. CASE rep' = rep /\ party'[p] # "exited"
    BY <2>3, <2>5
  <2>6. CASE Send(p)
    <3>1. /\ rep' = rep
          /\ party' = [party EXCEPT ![p] = IF sent[p] + 1 = Len(Artifacts) THEN "wait" ELSE "send"]
      BY <2>6, Zenon DEF Send, Goto
    <3>2. QED
      BY <2>3, <2>4, <3>1
  <2>7. CASE Listen(p) \/ Accept(p) \/ ReadFlag(p) \/ Compute(p) \/ Abort(p)
    BY <2>4, <2>5, <2>7 DEF Listen, Accept, ReadFlag, Compute, Abort, Goto
  <2>8. CASE Close(p)
    <3>1. CASE rep[p] < Repetitions
      BY <2>3, <2>4, <2>8, <3>1 DEF Close, Goto
    <3>2. CASE ~(rep[p] < Repetitions)
      BY <2>3, <2>4, <2>8, <3>2 DEF Close, Goto
    <3>3. QED
      BY <3>1, <3>2
  <2>9. QED
    BY <1>6, <2>6, <2>7, <2>8 DEF PartyStep
<1>7. QED
  BY <1>1, <1>3, <1>4, <1>5, <1>6 DEF Next, DriverStep

(***************************************************************************)
(* The second flag is sent when the model is written.                      *)
(***************************************************************************)

\* A client that takes its leave has the artifacts and the model.
LEMMA LeavesFinished ==
  ASSUME TypeInv, ChannelsInOrder, client = "bye", files["file-without-lanes.bpmn"] = run
  PROVE  Finished
<1>1. Len(received) = 5 /\ batch = <<>>
  BY DEF TypeInv, BatchOK
<1>2. ASSUME NEW q \in Party PROVE sent[q] = 5
  <2>1. sent[q] \in Nat /\ sent[q] <= 5 /\ Len(toClient[q]) \in Nat
    BY DEF TypeInv, TypeOK, SentOK
  <2>2. Taken(q) = 5
    <3>1. q \in 1 .. N /\ N \in Nat /\ Len(batch) = 0
      BY <1>1, NAssumption DEF Party
    <3>2. QED
      BY <1>1, <3>1 DEF Taken
  <2>3. sent[q] = Taken(q) + Len(toClient[q])
    BY DEF ChannelsInOrder, ChannelInOrder
  <2>4. QED
    BY <2>1, <2>2, <2>3
<1>3. QED
  BY <1>1, <1>2 DEF Finished

\* A party finds the second flag after the first one: no step of its own releases it.
LEMMA StepReleasesNobody ==
  ASSUME TypeInv, NEW p \in Party, PartyStep(p), Released(p)'
  PROVE  Released(p)
<1>1. /\ party \in [Party -> Place] /\ rep \in [Party -> Nat]
      /\ toParty \in [Party -> Seq({1, 2})] /\ toParty[p] \in Seq({1, 2})
  BY DEF TypeInv, TypeOK
<1>2. CASE Listen(p)
  BY <1>1, <1>2 DEF Listen, Goto, channels, Released
<1>3. CASE Accept(p)
  BY <1>1, <1>3 DEF Accept, Goto, Released
<1>4. CASE ReadFlag(p)
  <2>1. toParty'[p] = Tail(toParty[p]) /\ toParty[p] # <<>> /\ rep' = rep
    BY <1>1, <1>4 DEF ReadFlag
  <2>2. CASE party[p] = "wait"
    BY <2>1, <2>2 DEF Released
  <2>3. CASE party[p] = "flag"
    <3>1. party'[p] = "compute"
      BY <1>1, <1>4, <2>3 DEF ReadFlag, Goto
    <3>2. rep[p] > 1 \/ Tail(toParty[p]) # <<>>
      BY <2>1, <3>1 DEF Released
    <3>3. Tail(toParty[p]) # <<>> => Len(toParty[p]) > 1
      BY <1>1, <2>1
    <3>4. QED
      BY <2>3, <3>2, <3>3 DEF Released
  <2>4. QED
    BY <1>4, <2>2, <2>3 DEF ReadFlag
<1>5. CASE Compute(p)
  BY <1>1, <1>5 DEF Compute, Goto, channels, Released
<1>6. CASE Send(p)
  <2>1. /\ party[p] = "send" /\ rep' = rep /\ toParty' = toParty
        /\ party' = [party EXCEPT ![p] = IF sent[p] + 1 = Len(Artifacts) THEN "wait" ELSE "send"]
    BY <1>6, Zenon DEF Send, Goto
  <2>2. QED
    BY <1>1, <2>1 DEF Released
<1>7. CASE Close(p)
  BY <1>7 DEF Close, Released
<1>8. CASE Abort(p)
  BY <1>1, <1>8 DEF Abort, Goto, Released
<1>9. QED
  BY <1>2, <1>3, <1>4, <1>5, <1>6, <1>7, <1>8 DEF PartyStep

\* Nor does it send again what it has sent.
LEMMA StepKeepsFinished ==
  ASSUME TypeInv, OneComputation, Finished, NEW p \in Party, PartyStep(p)
  PROVE  Finished'
<1>1. UNCHANGED <<run, received, files>> /\ \A q \in Party \ {p} : sent'[q] = sent[q]
  BY PartyShape
<1>2. sent[p] = 5 /\ sent \in [Party -> Nat] /\ rep[p] \in Nat
  BY DEF TypeInv, TypeOK, Finished
<1>3. CASE Send(p)
  <2>1. party[p] = "send"
    BY <1>3, Zenon DEF Send
  <2>2. QED
    BY <1>2, <2>1 DEF TypeInv, SentOK
<1>4. CASE Compute(p)
  <2>1. party[p] = "compute" /\ ComputesOnce(p)
    BY <1>4 DEF Compute, OneComputation
  <2>2. QED
    BY <1>2, <2>1 DEF ComputesOnce
<1>5. CASE Listen(p) \/ Accept(p) \/ ReadFlag(p) \/ Close(p) \/ Abort(p)
  <2>1. sent' = sent
    BY <1>5 DEF Listen, Accept, ReadFlag, Close, Abort
  <2>2. QED
    BY <1>1, <2>1 DEF Finished
<1>6. QED
  BY <1>3, <1>4, <1>5 DEF PartyStep

\* The client has the model when it is about to take its leave.
LEMMA WrittenBeforeLeave ==
  ASSUME TypeInv, FinishedBeforeRelease, [Next]_vars, client' \in {"pooled", "bye", "leave"}
  PROVE  files'["file-without-lanes.bpmn"] = run'
<1>1. client \in {"pooled", "bye", "leave"} => files["file-without-lanes.bpmn"] = run
  BY DEF FinishedBeforeRelease
<1>2. CASE Launch
  BY <1>2 DEF Launch
<1>3. CASE UNCHANGED <<run, client, files>>
  BY <1>1, <1>3
<1>4. CASE AwaitClient \/ AwaitParties \/ Report
  BY <1>3, <1>4, DriverShape
<1>5. ASSUME NEW p \in Party, PartyStep(p) PROVE files'["file-without-lanes.bpmn"] = run'
  BY <1>3, <1>5, PartyShape
<1>6. CASE UNCHANGED vars
  BY <1>3, <1>6 DEF vars, control, mining
<1>7. CASE Connect
  <2>1. turn \in Party /\ NextSocket("hello") /\ client = "connect"
    BY <1>7 DEF Connect, TypeInv, TypeOK
  <2>2. client' \in {"connect", "hello"}
    BY <2>1, SocketAfterSocket
  <2>3. QED
    BY <2>2
<1>8. CASE SendFlag
  <2> DEFINE next == IF client = "hello" THEN "receive" ELSE "leave"
  <2>1. turn \in Party /\ NextSocket(next) /\ client \in {"hello", "bye"} /\ files' = files
    BY <1>8 DEF SendFlag, TypeInv, TypeOK
  <2>2. client' = client \/ client' = next
    BY <2>1, SocketAfterSocket
  <2>3. run' = run
    BY <1>8, ClientShape DEF ClientStep
  <2>4. QED
    BY <1>1, <2>1, <2>2, <2>3
<1>9. CASE Receive
  <2>1. turn \in Party /\ NextSocket("compare") /\ client = "receive"
    BY <1>9 DEF Receive, TypeInv, TypeOK
  <2>2. client' \in {"receive", "compare"}
    BY <2>1, SocketAfterSocket
  <2>3. QED
    BY <2>2
<1>10. CASE SaveFlatModel
  <2>1. run' = run /\ files \in [File -> Runs]
    BY <1>10, ClientShape DEF ClientStep, TypeInv, TypeOK
  <2>2. QED
    BY <1>10, <2>1 DEF SaveFlatModel, Write, File
<1>11. CASE SavePooledModel
  <2>1. run' = run /\ files \in [File -> Runs]
    BY <1>11, ClientShape DEF ClientStep, TypeInv, TypeOK
  <2>2. QED
    BY <1>1, <1>11, <2>1 DEF SavePooledModel, Write, File
<1>12. CASE Compare \/ SaveVisualisation \/ Leave \/ Fail \/ Crash
  BY <1>12 DEF Compare, SaveVisualisation, Write, Leave, Fail, Crash
<1>13. QED
  BY <1>2, <1>4, <1>5, <1>6, <1>7, <1>8, <1>9, <1>10, <1>11, <1>12 DEF Next, DriverStep, ClientStep

LEMMA FinishedBeforeReleaseNext ==
  TypeInv /\ OrderInv /\ FinishedBeforeRelease /\ [Next]_vars => FinishedBeforeRelease'
<1> SUFFICES ASSUME TypeInv, OrderInv, FinishedBeforeRelease, [Next]_vars PROVE FinishedBeforeRelease'
  OBVIOUS
<1>1. SUFFICES ASSUME run' > 0, NEW p \in Party, Released(p)' PROVE Finished'
  BY WrittenBeforeLeave DEF FinishedBeforeRelease
<1>2. run > 0 => \A q \in Party : Released(q) => Finished
  BY DEF FinishedBeforeRelease
<1>3. CASE Launch
  BY <1>1, <1>3 DEF Launch, All, Released
<1>4. CASE UNCHANGED <<run, party, rep, toParty, received, sent>> /\ files'["file-without-lanes.bpmn"] \in
             {run, files["file-without-lanes.bpmn"]}
  BY <1>1, <1>2, <1>4 DEF Released, Finished
<1>5. CASE AwaitClient \/ AwaitParties \/ Report
  BY <1>4, <1>5, DriverShape
<1>6. CASE UNCHANGED vars
  BY <1>4, <1>6 DEF vars, control, parties, channels, mining
<1>7. ASSUME NEW q \in Party, PartyStep(q) PROVE Finished'
  <2>1. /\ run' = run
        /\ p # q => party'[p] = party[p] /\ rep'[p] = rep[p] /\ toParty'[p] = toParty[p]
    BY <1>7, PartyShape
  <2>2. Released(p)
    <3>1. CASE p = q
      BY <1>1, <1>7, <3>1, StepReleasesNobody
    <3>2. CASE p # q
      BY <1>1, <2>1, <3>2 DEF Released
    <3>3. QED
      BY <3>1, <3>2
  <2>3. Finished
    BY <1>1, <1>2, <2>1, <2>2
  <2>4. QED
    BY <1>7, <2>3, StepKeepsFinished DEF OrderInv
<1>8. CASE SendFlag
  <2>1. /\ UNCHANGED <<run, party, rep, sent, received, files>> /\ turn \in Party
        /\ client \in {"hello", "bye"} /\ toParty \in [Party -> Seq({1, 2})]
        /\ toParty' = [toParty EXCEPT ![turn] = Append(toParty[turn], IF client = "hello" THEN 1 ELSE 2)]
    BY <1>8, ClientShape DEF SendFlag, ClientStep, TypeInv, TypeOK
  <2>2. CASE client = "bye"
    <3>1. Finished
      BY <2>2, LeavesFinished DEF FinishedBeforeRelease, OrderInv
    <3>2. QED
      BY <2>1, <3>1 DEF Finished
  <2>3. CASE client = "hello" /\ p = turn
    <3>1. Unflagged(p)
      BY <2>1 DEF OrderInv, NoFlagYet
    <3>2. /\ party[p] \in {"listen", "accept", "flag", "aborted"} /\ rep[p] = 1 /\ toParty[p] = <<>>
      BY <2>3, <3>1 DEF Unflagged, Party
    <3>3. toParty'[p] = Append(<<>>, 1)
      BY <2>1, <2>3, <3>2
    <3>4. Len(toParty'[p]) = 1
      BY <3>3
    <3>5. QED
      BY <1>1, <2>1, <3>2, <3>4 DEF Released
  <2>4. CASE p # turn
    <3>1. Released(p)
      BY <1>1, <2>1, <2>4 DEF Released
    <3>2. QED
      BY <1>1, <1>2, <2>1, <3>1 DEF Finished
  <2>5. QED
    BY <2>1, <2>2, <2>3, <2>4
<1>9. CASE Compare
  <2>1. /\ UNCHANGED <<run, party, rep, toParty>> /\ client = "compare"
    BY <1>9, ClientShape DEF Compare, ClientStep, channels
  <2>2. Finished /\ Len(received) < 5
    BY <1>1, <1>2, <2>1 DEF Released, TypeInv, BatchOK
  <2>3. QED
    BY <2>2 DEF Finished
<1>10. CASE Connect \/ Receive \/ Leave \/ Fail \/ Crash
  BY <1>4, <1>10, ClientShape DEF ClientStep, Connect, Receive, Leave, Fail, Crash
<1>11. CASE SaveVisualisation \/ SaveFlatModel \/ SavePooledModel
  <2>1. UNCHANGED <<run, party, rep, toParty, received, sent>>
    BY <1>11, ClientShape DEF ClientStep, SaveVisualisation, SaveFlatModel, SavePooledModel, Write, channels
  <2>2. files'["file-without-lanes.bpmn"] \in {run, files["file-without-lanes.bpmn"]}
    <3>1. files \in [File -> Runs]
      BY DEF TypeInv, TypeOK
    <3>2. QED
      BY <1>11, <3>1 DEF SaveVisualisation, SaveFlatModel, SavePooledModel, Write, File
  <2>3. QED
    BY <1>4, <2>1, <2>2
<1>12. QED
  BY <1>3, <1>5, <1>6, <1>7, <1>8, <1>9, <1>10, <1>11 DEF Next, DriverStep, ClientStep

(***************************************************************************)
(* The driver reports what the released parties stand for.                 *)
(***************************************************************************)
LEMMA ReportsNext ==
  TypeInv /\ FinishedBeforeRelease /\ ReportsOK /\ [Next]_vars => ReportsOK'
<1> SUFFICES ASSUME TypeInv, FinishedBeforeRelease, ReportsOK, [Next]_vars PROVE ReportsOK'
  OBVIOUS
<1>1. CASE UNCHANGED <<driver, run, reports>>
  BY <1>1 DEF ReportsOK
<1>2. CASE Launch
  BY <1>2 DEF Launch, ReportsOK
<1>3. CASE AwaitClient \/ AwaitParties
  BY <1>3 DEF AwaitClient, AwaitParties, ReportsOK
<1>4. CASE Report
  <2> DEFINE outcome == [success |-> \A p \in Party : party[p] = "exited", output |-> files]
  <2>1. reports' = Append(reports, outcome) /\ driver = "report" /\ run' = run /\ driver' \in {"launch", "finished"}
    BY <1>4 DEF Report
  <2>2. reports \in Seq(Outcome) /\ outcome \in Outcome
    BY DEF TypeInv, TypeOK, Outcome
  <2>3. run = Len(reports) + 1 /\ Len(reports) \in Nat
    BY <2>1, <2>2 DEF ReportsOK
  <2>4. outcome.success => outcome.output["file-without-lanes.bpmn"] = run
    <3>1. SUFFICES ASSUME \A p \in Party : party[p] = "exited" PROVE files["file-without-lanes.bpmn"] = run
      OBVIOUS
    <3>2. 1 \in Party
      BY NAssumption DEF Party
    <3>3. Released(1)
      BY <3>1, <3>2 DEF Released
    <3>4. QED
      BY <2>3, <3>2, <3>3 DEF FinishedBeforeRelease, Finished
  <2> HIDE DEF outcome
  <2>5. ASSUME NEW r \in 1 .. Len(reports')
        PROVE  reports'[r].success => reports'[r].output["file-without-lanes.bpmn"] = r
    <3>1. CASE r = Len(reports) + 1
      BY <2>1, <2>2, <2>3, <2>4, <3>1
    <3>2. CASE r \in 1 .. Len(reports)
      BY <2>1, <2>2, <3>2 DEF ReportsOK
    <3>3. QED
      BY <2>1, <2>2, <3>1, <3>2
  <2>6. Len(reports') = Len(reports) + 1
    BY <2>1, <2>2
  <2>7. QED
    BY <2>1, <2>3, <2>5, <2>6 DEF ReportsOK
<1>5. ASSUME NEW p \in Party, PartyStep(p) PROVE ReportsOK'
  BY <1>1, <1>5, PartyShape
<1>6. CASE ClientStep \/ Crash
  BY <1>1, <1>6, ClientShape
<1>7. CASE UNCHANGED vars
  BY <1>1, <1>7 DEF vars, control
<1>8. QED
  BY <1>2, <1>3, <1>4, <1>5, <1>6, <1>7 DEF Next, DriverStep

LEMMA ReleaseInit == Init => ReleaseInv
<1> SUFFICES ASSUME Init PROVE ReleaseInv
  OBVIOUS
<1>1. Unstarted
  BY DEF Init, All, Unstarted
<1>2. FinishedBeforeRelease /\ Repeated
  BY DEF Init, FinishedBeforeRelease, Repeated
<1>3. ReportsOK
  BY DEF Init, ReportsOK
<1>4. QED
  BY <1>1, <1>2, <1>3 DEF ReleaseInv

LEMMA ReleaseInvariant == Spec => [](TypeInv /\ OrderInv /\ ReleaseInv)
<1>1. TypeInv /\ OrderInv /\ ReleaseInv /\ [Next]_vars => ReleaseInv'
  BY UnstartedNext, RepeatedNext, FinishedBeforeReleaseNext, ReportsNext DEF ReleaseInv
<1>2. QED
  BY <1>1, ReleaseInit, OrderInvariant, PTL DEF Spec

\* A party that ended well was released by a client that had all artifacts and had
\* written the model, when every party was past its computation; the report of a
\* successful run carries the model of that run (split_miner.py:949, main.py:108-134).
THEOREM SessionReleasedAfterModel == Spec => []ReleasedAfterModel
<1>1. TypeInv /\ OrderInv /\ ReleaseInv => ReleasedAfterModel
  <2> SUFFICES ASSUME TypeInv, OrderInv, ReleaseInv PROVE ReleasedAfterModel
    OBVIOUS
  <2>1. ASSUME driver \in {"client", "parties", "report"}, NEW p \in Party, party[p] = "exited"
        PROVE  /\ Len(received) = 5 /\ files["file-without-lanes.bpmn"] = run
               /\ \A q \in Party : party[q] \notin {"listen", "accept", "flag", "compute", "send"}
    <3>1. run > 0
      <4>1. run = Len(reports) + 1 /\ Len(reports) \in Nat
        BY <2>1 DEF ReleaseInv, ReportsOK, TypeInv, TypeOK
      <4>2. QED
        BY <4>1
    <3>2. Finished
      BY <2>1, <3>1 DEF ReleaseInv, FinishedBeforeRelease, Released
    <3>3. Repetitions = 1
      <4>1. rep[p] \in 1 .. Repetitions /\ rep[p] = Repetitions
        BY <2>1, <3>1 DEF ReleaseInv, Repeated
      <4>2. ComputesOnce(p)
        BY DEF OrderInv, OneComputation
      <4>3. ~(rep[p] > 1)
        BY <2>1, <4>2 DEF ComputesOnce
      <4>4. QED
        BY <4>1, <4>3, ExperimentsAssumption
    <3>4. ASSUME NEW q \in Party PROVE party[q] \notin {"listen", "accept", "flag", "compute", "send"}
      <4>1. rep[q] = 1 /\ sent[q] = 5 /\ ComputesOnce(q)
        BY <3>1, <3>2, <3>3 DEF ReleaseInv, Repeated, Finished, OrderInv, OneComputation
      <4>2. party[q] \notin {"listen", "accept", "flag", "compute"}
        BY <4>1 DEF ComputesOnce
      <4>3. party[q] # "send"
        BY <4>1 DEF TypeInv, SentOK
      <4>4. QED
        BY <4>2, <4>3
    <3>5. QED
      BY <3>2, <3>4 DEF Finished
  <2>2. ASSUME NEW r \in DOMAIN reports, reports[r].success
        PROVE  reports[r].output["file-without-lanes.bpmn"] = r
    BY <2>2 DEF ReleaseInv, ReportsOK, TypeInv, TypeOK
  <2>3. QED
    BY <2>1, <2>2, FiveArtifacts DEF ReleasedAfterModel
<1>2. QED
  BY <1>1, ReleaseInvariant, PTL
===============================================================================
