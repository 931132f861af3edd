---------------------------- MODULE ReportDownload ----------------------------
(***************************************************************************)
(* The download of reports (pull_reports.py, script_utils.py): the reports *)
(* of the backend are listed, those with a file in the folder left out,    *)
(* and the others asked for all at once.  Reports come in meanwhile, and a *)
(* pull may end in the middle and be repeated.                             *)
(***************************************************************************)
EXTENDS Naturals, Optional

CONSTANTS
  MaxReports,  \* bound: reports the backend gets
  MaxPulls     \* bound: pulls

ASSUME DownloadAssumption == MaxReports \in Nat /\ None \notin {"whole", "torn"}

VARIABLES
  arrived,     \* how many reports the backend has
  folder,      \* the files of reports, "whole" or "torn"
  pull,        \* the pull that is under way or was the last
  pulls,
  interrupted  \* history: reports whose file was being written when a pull ended

downloadVars == <<arrived, folder, pull, pulls, interrupted>>

Report == 1 .. MaxReports

DownloadInit ==
  /\ arrived = 0 /\ folder = [i \in Report |-> None]
  /\ pull = [phase |-> "returned", listed |-> {}, report_ids |-> {}, open |-> {}]
  /\ pulls = 0 /\ interrupted = {}

ReportArrives ==
  /\ arrived < MaxReports /\ arrived' = arrived + 1
  /\ UNCHANGED <<folder, pull, pulls, interrupted>>

\* The list comes with one answer; one that is no success ends the pull there.
fetch_report_ids ==
  /\ pull.phase \in {"returned", "aborted"}
  /\ pulls < MaxPulls /\ pulls' = pulls + 1
  /\ pull' = [phase |-> "listed", listed |-> 1 .. arrived, report_ids |-> {}, open |-> {}]
  /\ UNCHANGED <<arrived, folder, interrupted>>

Files == {i \in Report : folder[i] # None}

\* Mutant: the reports after the last one that is there.
newer_than_files(ids) == {i \in ids : \A j \in Files : j < i}

\* A report is there if a file of its name is, whole or not.
filter_already_existent_reports(ids) == ids \ Files

\* The specifications of their experiments are downloaded before the reports.
FilterReports ==
  /\ pull.phase = "listed"
  /\ pull' = [pull EXCEPT !.phase = "downloading",
                          !.report_ids = filter_already_existent_reports(pull.listed)]
  /\ UNCHANGED <<arrived, folder, pulls, interrupted>>

\* The file is opened, which empties it, when the answer is there, and written later.
OpenReport(i) ==
  /\ pull.phase = "downloading" /\ i \in pull.report_ids
  /\ pull' = [pull EXCEPT !.report_ids = @ \ {i}, !.open = @ \cup {i}]
  /\ folder' = [folder EXCEPT ![i] = "torn"]
  /\ UNCHANGED <<arrived, pulls, interrupted>>

WriteReport(i) ==
  /\ pull.phase = "downloading" /\ i \in pull.open
  /\ pull' = [pull EXCEPT !.open = @ \ {i}]
  /\ folder' = [folder EXCEPT ![i] = "whole"]
  /\ UNCHANGED <<arrived, pulls, interrupted>>

\* One answer that is no success, or a keyboard interrupt, ends all downloads, those
\* in the middle of a file too.
AbortPull ==
  /\ pull.phase \in {"listed", "downloading"}
  /\ pull' = [pull EXCEPT !.phase = "aborted"]
  /\ interrupted' = interrupted \cup pull.open
  /\ UNCHANGED <<arrived, folder, pulls>>

ReturnPull ==
  /\ pull.phase = "downloading" /\ pull.report_ids = {} /\ pull.open = {}
  /\ pull' = [pull EXCEPT !.phase = "returned"]
  /\ UNCHANGED <<arrived, folder, pulls, interrupted>>

DownloadNext ==
  \/ ReportArrives \/ fetch_report_ids \/ FilterReports \/ AbortPull \/ ReturnPull
  \/ \E i \in Report : OpenReport(i) \/ WriteReport(i)

DownloadSpec == DownloadInit /\ [][DownloadNext]_downloadVars

(***************************************************************************)
(* Properties                                                              *)
(***************************************************************************)

\* When a pull returns, every report it listed is in the folder, also those earlier
\* pulls did not come to, and whole but for those an earlier pull ended at while it
\* wrote them: of these the torn file stays, since its name counts for the report
\* (pull_reports.py:14-26, script_utils.py:124-151).
ListedReportsAreThere ==
  pull.phase = "returned" =>
    \A i \in pull.listed : folder[i] = IF i \in interrupted THEN "torn" ELSE "whole"
===============================================================================
