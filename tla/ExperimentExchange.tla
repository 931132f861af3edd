-------------------------- MODULE ExperimentExchange --------------------------
(***************************************************************************)
(* The exchange of experiments, programs and reports with the backend: a   *)
(* user pushes specifications (script_utils.py), and for every experiment  *)
(* the backend starts jobs, each a process in a container of its own       *)
(* (internal_cli.py): one that hashes its program, one that compiles it,   *)
(* one that runs it.  What the jobs agree on is the hash, since the        *)
(* repository may be edited between them.  Posts may time out or be        *)
(* disconnected, requests and answers of jobs be lost, jobs crash.         *)
(*                                                                         *)
(* The backend is external.  A version of the repository stands for the    *)
(* hash of its program, which all experiments share; validation of a       *)
(* specification is one of the ways a request fails.  A trusted and an     *)
(* untrusted run differ in where the repository is read, not in what is    *)
(* compared, sent or reported.                                             *)
(***************************************************************************)
EXTENDS Naturals, Sequences, FiniteSets, Optional

CONSTANTS
  Specs,        \* the experiments of the file that is pushed
  MaxPasses,    \* the passes of an upload are numbered below this, 10
  MaxAttempts,  \* how often a job tries to send, 5
  MaxEdits,     \* bound: edits of the repository
  MaxPushes,    \* bound: pushes
  MaxJobs,      \* bound: jobs the backend starts
  MaxActivities,\* bound: pushes and jobs together
  MaxFaults     \* bound: faults, other than posts that time out

\* A first pass is made in any case.
ASSUME ExchangeAssumption ==
  /\ MaxPasses \in Nat \ {0, 1} /\ MaxAttempts \in Nat \ {0}
  /\ {MaxEdits, MaxPushes, MaxJobs, MaxActivities, MaxFaults} \subseteq Nat

VARIABLES
  version,      \* version of the repository
  experiments,  \* the backend: state and program hash of each experiment
  programs,     \* the backend: the compiled code under each hash
  reports,      \* the backend: the reports, in the order they came in
  push,         \* the upload of specifications
  job,          \* the job of each experiment
  pushes, jobs, faults

backendVars == <<experiments, programs, reports>>
pushVars == <<push, pushes>>
jobVars == <<job, jobs>>
exchangeVars == <<version, backendVars, pushVars, jobVars, faults>>

Version == 0 .. MaxEdits
Post == [spec : Specs, first_upload : BOOLEAN, force_update : BOOLEAN]

NoPush == [phase |-> "idle", update |-> FALSE, failed_only |-> FALSE, pass |-> 0,
           todo |-> {}, next |-> {}, dropped |-> {}, seen_failed |-> {}, updated |-> {}]
NoJob == [kind |-> None, step |-> "none", version |-> None, expected |-> None,
          code |-> None, attempt |-> 0, stored |-> FALSE, errored |-> FALSE, refused |-> FALSE, lost |-> FALSE]

ExchangeInit ==
  /\ version = 0
  /\ experiments = [e \in Specs |-> [state |-> "none", hash |-> None, reported |-> None]]
  /\ programs = [h \in Version |-> None] /\ reports = <<>>
  /\ push = NoPush /\ job = [e \in Specs |-> NoJob]
  /\ pushes = 0 /\ jobs = 0 /\ faults = 0

Edit ==
  /\ version < MaxEdits /\ version' = version + 1
  /\ UNCHANGED <<backendVars, pushVars, jobVars, faults>>

Fault == faults < MaxFaults /\ faults' = faults + 1
MayBegin == pushes + jobs < MaxActivities

(***************************************************************************)
(* The backend                                                             *)
(***************************************************************************)

\* An experiment is created, or hashed and if need be run again when that is asked for.
TakeExperiment(e, update) ==
  [experiments EXCEPT ![e].state = IF experiments[e].state = "none" \/ update THEN "new" ELSE experiments[e].state]

\* An experiment with a report of the same hash needs no run.
TakeHash(e, h) ==
  [experiments EXCEPT ![e].hash = h,
     ![e].state = IF experiments[e].reported = h THEN "done"
                  ELSE IF programs[h] # None THEN "compiled" ELSE "hashed"]

TakeProgram(h) ==
  [e \in Specs |-> IF experiments[e].state = "hashed" /\ experiments[e].hash = h
                   THEN [experiments[e] EXCEPT !.state = "compiled"] ELSE experiments[e]]

TakeReport(e, h) ==
  [experiments EXCEPT ![e].reported = h,
     ![e].state = IF experiments[e].state = "compiled" THEN "done" ELSE experiments[e].state]

TakeError(e) == [experiments EXCEPT ![e].state = "failed", ![e].reported = None]

(***************************************************************************)
(* Upload of specifications                                                *)
(***************************************************************************)

\* Only failed experiments are updated if that is asked for.
UpdateComputations(update, failed_only) == update /\ ~failed_only

upload_experiments ==
  /\ push.phase \in {"idle", "returned", "aborted"}
  /\ MayBegin /\ pushes < MaxPushes /\ pushes' = pushes + 1
  /\ \E u, failed_only \in BOOLEAN :
       LET update == UpdateComputations(u, failed_only) IN
       push' = [NoPush EXCEPT
         !.phase = "passing", !.pass = 1, !.update = update, !.failed_only = failed_only,
         !.todo = {[spec |-> e, first_upload |-> TRUE, force_update |-> update] : e \in Specs}]
  /\ UNCHANGED <<version, backendVars, jobVars, faults>>

\* Mutant: a post that times out is not repeated.
GiveUp(post) == {}

Again(post) == {post}

\* The posts of a pass are sent all at once and answered in any order.  One that is
\* answered by a failed experiment goes to the next pass with the order to update it,
\* once; one that times out goes there as it is, whether it was taken or not; one
\* whose connection breaks is forgotten.  A refusal ends the upload.
upload_spec(post) ==
  LET e == post.spec
      updates == push.update \/ post.force_update
      taken == experiments' = TakeExperiment(e, updates)
      retry == push.failed_only /\ experiments'[e].state = "failed"
      sent == [push EXCEPT !.todo = @ \ {post}, !.updated = IF updates THEN @ \cup {e} ELSE @]
  IN  /\ push.phase = "passing" /\ post \in push.todo
      /\ \/ /\ taken
            /\ push' = [sent EXCEPT
                 !.seen_failed = IF retry THEN @ \cup {e} ELSE @,
                 !.next = IF retry /\ post.first_upload
                          THEN @ \cup {[spec |-> e, first_upload |-> FALSE, force_update |-> TRUE]} ELSE @]
            /\ UNCHANGED faults
         \/ /\ taken \/ UNCHANGED experiments
            /\ push' = [sent EXCEPT !.next = @ \cup Again(post)]
            /\ UNCHANGED faults
         \/ /\ taken \/ UNCHANGED experiments
            /\ push' = [sent EXCEPT !.dropped = @ \cup {e}] /\ Fault
         \/ /\ UNCHANGED experiments
            /\ push' = [NoPush EXCEPT !.phase = "aborted"] /\ Fault
      /\ UNCHANGED <<version, programs, reports, pushes, jobVars>>

\* What is left after the last pass is left.
NextPass ==
  /\ push.phase = "passing" /\ push.todo = {}
  /\ push' = IF push.next # {} /\ push.pass + 1 < MaxPasses
             THEN [push EXCEPT !.todo = push.next, !.next = {}, !.pass = @ + 1]
             ELSE [push EXCEPT !.phase = "returned"]
  /\ UNCHANGED <<version, backendVars, pushes, jobVars, faults>>

(***************************************************************************)
(* Jobs                                                                    *)
(***************************************************************************)

Ended == {"none", "ended", "crashed"}
At(e, step) == job[e].step = step

\* Of a process that has ended only what became of it is kept.
Left(j, step) == IF step \in Ended THEN [NoJob EXCEPT !.kind = j.kind, !.step = step, !.stored = j.stored,
                                                      !.errored = j.errored, !.refused = j.refused, !.lost = j.lost]
                 ELSE [j EXCEPT !.step = step]
Goto(e, step) == job' = [job EXCEPT ![e] = Left(job[e], step)] /\ UNCHANGED jobs
JobOnly == UNCHANGED <<version, backendVars, pushVars, faults>>

\* A job has the repository of its time, or of the time its state was prepared for it.
StartJob(e) ==
  /\ job[e].step \in Ended
  /\ experiments[e].state \in {"new", "hashed", "compiled"}
  /\ MayBegin /\ jobs < MaxJobs /\ jobs' = jobs + 1
  /\ LET kind == CASE experiments[e].state = "new" -> "get_hash"
                   [] experiments[e].state = "hashed" -> "compile"
                   [] OTHER -> "run"
     IN  job' = [job EXCEPT ![e] = [NoJob EXCEPT !.kind = kind, !.version = version, !.step = "fetch"]]
  /\ JobOnly

\* Mutant: the hash is taken over from the backend once it is known.
HashOfBackend(e) == IF job[e].kind = "get_hash" THEN job[e].version ELSE experiments[e].hash

program_hash(e) == job[e].version

HashAgrees(e) == program_hash(e) = experiments[e].hash

\* The specification is fetched with the hash it is expected to have; a compilation
\* follows at once.
FetchSpec(e) ==
  /\ At(e, "fetch")
  /\ job' = [job EXCEPT
       ![e].expected = experiments[e].hash,
       ![e].code = IF job[e].kind = "compile" THEN job[e].version ELSE None,
       ![e].step = IF job[e].kind = "get_hash" THEN "put_hash"
                   ELSE IF ~HashAgrees(e) THEN "send_error"
                   ELSE IF job[e].kind = "compile" THEN "send" ELSE "download"]
  /\ UNCHANGED jobs /\ JobOnly

\* A request or its answer is lost, the set-up or the compilation fails.
Raises(e) ==
  /\ job[e].step \in {"fetch", "put_hash", "download"}
  /\ Fault
  /\ Goto(e, "send_error")
  /\ \/ UNCHANGED experiments
     \/ At(e, "put_hash") /\ experiments' = TakeHash(e, program_hash(e))
  /\ UNCHANGED <<version, programs, reports, pushVars>>

\* The status of the answer is not looked at.
get_experiment_hash(e) ==
  /\ At(e, "put_hash")
  /\ Goto(e, "ended")
  /\ \/ experiments' = TakeHash(e, program_hash(e)) /\ UNCHANGED faults
     \/ Fault /\ UNCHANGED experiments
  /\ UNCHANGED <<version, programs, reports, pushVars>>

\* A program the backend does not have raises; one that is there is run, with success
\* or without, which is reported at once.
run_experiment(e) ==
  /\ At(e, "download")
  /\ \E outcome \in {"send", "report_failure"} :
       LET code == programs[program_hash(e)]
       IN  job' = [job EXCEPT ![e].code = code, ![e].step = IF code # None THEN outcome ELSE "send_error"]
  /\ UNCHANGED jobs /\ JobOnly

\* The program or the report is stored, a second time if the first answer was lost.
Store(e) ==
  IF job[e].kind = "compile"
  THEN /\ programs' = [programs EXCEPT ![program_hash(e)] = job[e].code]
       /\ experiments' = TakeProgram(program_hash(e))
       /\ UNCHANGED reports
  ELSE /\ reports' = Append(reports, [spec |-> e, code |-> job[e].code, expected |-> job[e].expected])
       /\ experiments' = TakeReport(e, job[e].expected)
       /\ UNCHANGED programs

\* An attempt that is not answered by a success counts, whether it was taken or not.
\* After the last one, or at once after an exception other than a lost connection or a
\* timeout, an error is reported.
send_with_retry(e) ==
  /\ At(e, "send")
  /\ LET more == job[e].attempt + 1 < MaxAttempts
         again == [job[e] EXCEPT !.attempt = job[e].attempt + 1]
     IN  \/ /\ Store(e) /\ UNCHANGED faults
            /\ job' = [job EXCEPT ![e] = Left([job[e] EXCEPT !.stored = TRUE], "ended")]
         \/ \E next \in {"send_error"} \cup (IF more THEN {"send"} ELSE {}) :
              \/ /\ Store(e) /\ Fault
                 /\ job' = [job EXCEPT ![e] = [again EXCEPT !.step = next, !.stored = TRUE, !.lost = TRUE]]
              \/ /\ UNCHANGED backendVars /\ Fault
                 /\ job' = [job EXCEPT ![e] = [again EXCEPT !.step = next]]
  /\ UNCHANGED <<version, pushVars, jobs>>

\* Mutant: after the report of a run that was not successful the job goes on.
GoOn(e) == IF At(e, "report_failure") THEN "send" ELSE "ended"

AfterError(e) == "ended"

\* Where an exception of the request leads: that of an unsuccessful run is within the try
\* statement whose handler reports errors.
RaisesTo(e) == IF At(e, "report_failure") THEN "send_error" ELSE "crashed"

\* One request without a second attempt.  The status of the answer is not looked at: a
\* refused post is the end like one that was taken.
send_error(e) ==
  /\ job[e].step \in {"report_failure", "send_error"}
  /\ LET errored == [job[e] EXCEPT !.errored = TRUE]
     IN  \/ /\ experiments' = TakeError(e) /\ UNCHANGED faults
            /\ job' = [job EXCEPT ![e] = Left(errored, AfterError(e))]
         \/ /\ UNCHANGED experiments /\ Fault
            /\ job' = [job EXCEPT ![e] = Left([job[e] EXCEPT !.refused = TRUE], AfterError(e))]
         \/ /\ experiments' = TakeError(e) /\ Fault
            /\ job' = [job EXCEPT ![e] = Left(errored, RaisesTo(e))]
         \/ /\ UNCHANGED experiments /\ Fault
            /\ job' = [job EXCEPT ![e] = Left(job[e], RaisesTo(e))]
  /\ UNCHANGED <<version, programs, reports, pushVars, jobs>>

Crash(e) ==
  /\ job[e].step \notin Ended /\ Fault
  /\ Goto(e, "crashed")
  /\ UNCHANGED <<version, backendVars, pushVars>>

JobStep(e) ==
  \/ StartJob(e) \/ FetchSpec(e) \/ Raises(e) \/ get_experiment_hash(e) \/ run_experiment(e)
  \/ send_with_retry(e) \/ send_error(e) \/ Crash(e)

ExchangeNext ==
  \/ Edit
  \/ upload_experiments \/ NextPass \/ \E post \in push.todo : upload_spec(post)
  \/ \E e \in Specs : JobStep(e)

ExchangeSpec == ExchangeInit /\ [][ExchangeNext]_exchangeVars

(***************************************************************************)
(* Properties                                                              *)
(***************************************************************************)

\* When an upload returns, every experiment is known to the backend, and every one it
\* answered as failed was sent once more with the order to run it, but for those whose
\* connection broke and those whose posts timed out up to the last pass.  No other
\* experiment is ordered to run again, whatever timed out, failed meanwhile or was
\* repeated (script_utils.py:46-89).
UploadsAsAsked ==
  /\ push.phase = "returned" =>
       /\ push.next # {} => push.pass = MaxPasses - 1
       /\ \A e \in Specs \ (push.dropped \cup {post.spec : post \in push.next}) :
            /\ experiments[e].state # "none"
            /\ push.failed_only /\ e \in push.seen_failed => e \in push.updated
  /\ push.failed_only => push.updated \subseteq push.seen_failed

\* A report that reaches the backend was computed by the code the experiment's hash
\* stands for, although three jobs of different versions of the repository hashed,
\* compiled and ran it (internal_cli.py:115, 239).
ReportsOfExpectedProgram == \A k \in DOMAIN reports : reports[k].code = reports[k].expected

\* A compilation or a run that ends leaves its product or an error at the backend, unless
\* the backend refused the post of the error, and a product together with an error or with
\* a refused one only if an answer was lost on the way (internal_cli.py:112-143, 254-284).
ProductOrError ==
  \A e \in Specs : (job[e].step = "ended" /\ job[e].kind \in {"compile", "run"}) =>
    /\ job[e].stored \/ job[e].errored \/ job[e].refused
    /\ job[e].stored /\ (job[e].errored \/ job[e].refused) => job[e].lost
===============================================================================
