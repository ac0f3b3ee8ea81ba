--------------------------- MODULE Whistleblower ---------------------------
(***************************************************************************)
(* WhistleblowerService: a report is inserted with the hash of its         *)
(* tracking code, its files are stored one after the other, the event is   *)
(* appended, and only then is the code answered: the reporter has nothing  *)
(* else to find the report by.  Investigators take reports and move their  *)
(* status, checked on a read and written by id.                            *)
(*                                                                         *)
(* Storing a file, with its anchor that may fail, is module Evidence's;    *)
(* here it is one step that succeeds or throws.                            *)
(***************************************************************************)
EXTENDS Handlers, Naturals

CONSTANTS
  Reports,        \* ids, and tracking codes, of reports
  Investigators,  \* users with whistleblower:investigate
  MaxFiles        \* most files of one submission

ASSUME WhistleblowerAssumption == MaxFiles \in Nat

VARIABLES
  report,         \* reports.status
  assigned,       \* reports.assigned_to_id
  files,          \* how many report_evidence rows each report has
  sent,           \* how many files the reporter has sent, and was told so
  reported,       \* reports with a WHISTLEBLOWER_REPORT_SUBMITTED event
  trackingCode,   \* reports whose code was answered
  reviewed        \* reports that were ever UNDER_REVIEW

reportVars == <<report, assigned, files, sent, reported, trackingCode, reviewed>>

Outcome == {"SUBSTANTIATED", "UNSUBSTANTIATED"}

\* changeStatus's table of legal moves.
Legal ==
  [from \in {"SUBMITTED", "UNDER_REVIEW"} \cup Outcome |->
     CASE from = "SUBMITTED" -> {"UNDER_REVIEW"}
       [] from = "UNDER_REVIEW" -> Outcome
       [] OTHER -> {}]

ReportRequest ==
  {Idle} \cup
  [at : {"storeEvidence"}, report : Reports, left : 0..MaxFiles] \cup
  [at : {"appendSubmitted", "answerCode", "addEvidence", "assign"},
   report : Reports] \cup
  [at : {"changeStatus"}, report : Reports, to : {"UNDER_REVIEW"} \cup Outcome]

WhistleblowerTypeOK ==
  /\ report \in [Reports -> {"NONE", "SUBMITTED", "UNDER_REVIEW"} \cup Outcome]
  /\ assigned \in [Reports -> Investigators \cup {None}]
  /\ files \in [Reports -> 0..(MaxFiles + 1)]
  /\ sent \in [Reports -> 0..(MaxFiles + 1)]
  /\ trackingCode \cup reported \cup reviewed \subseteq {p \in Reports : report[p] # "NONE"}

WhistleblowerInit ==
  /\ report = [p \in Reports |-> "NONE"]
  /\ assigned = [p \in Reports |-> None]
  /\ files = [p \in Reports |-> 0]
  /\ sent = [p \in Reports |-> 0]
  /\ reported = {}
  /\ trackingCode = {}
  /\ reviewed = {}

-----------------------------------------------------------------------------
(* By tracking code                                                        *)

SubmitReport(r, p, n) ==
  /\ report[p] = "NONE"
  /\ Start(r, [at |-> "storeEvidence", report |-> p, left |-> n])
  /\ report' = [report EXCEPT ![p] = "SUBMITTED"]
  /\ sent' = [sent EXCEPT ![p] = n]
  /\ UNCHANGED <<assigned, files, reported, trackingCode, reviewed>>

\* Mutant: a file that throws is skipped, as an anchor that fails is.
StoreOrSkip(r) ==
  LET p == request[r].report IN
  /\ request[r].at = "storeEvidence"
  /\ IF request[r].left = 0
     THEN /\ request' = [request EXCEPT ![r] = [at |-> "appendSubmitted", report |-> p]]
          /\ UNCHANGED files
     ELSE /\ request' = [request EXCEPT ![r].left = @ - 1]
          /\ files' \in {files, [files EXCEPT ![p] = @ + 1]}
  /\ UNCHANGED <<report, assigned, sent, reported, trackingCode, reviewed>>

StoreEvidence(r) ==
  LET p == request[r].report IN
  /\ request[r].at = "storeEvidence"
  /\ IF request[r].left = 0
     THEN /\ request' = [request EXCEPT ![r] = [at |-> "appendSubmitted", report |-> p]]
          /\ UNCHANGED files
     ELSE /\ request' = [request EXCEPT ![r].left = @ - 1]
          /\ files' = [files EXCEPT ![p] = @ + 1]
  /\ UNCHANGED <<report, assigned, sent, reported, trackingCode, reviewed>>

AppendSubmitted(r) ==
  /\ request[r].at = "appendSubmitted"
  /\ reported' = reported \cup {request[r].report}
  /\ Go(r, "answerCode")
  /\ UNCHANGED <<report, assigned, files, sent, trackingCode, reviewed>>

\* After the notification, whose failure is caught.
AnswerCode(r) ==
  /\ request[r].at = "answerCode"
  /\ trackingCode' = trackingCode \cup {request[r].report}
  /\ Stop(r)
  /\ UNCHANGED <<report, assigned, files, sent, reported, reviewed>>

\* addEvidenceByTrackingCode, by a reporter who has the code.
FindByTrackingCode(r, p) ==
  /\ p \in trackingCode
  /\ Start(r, [at |-> "addEvidence", report |-> p])
  /\ UNCHANGED reportVars

\* The file's row.  The event that is appended after it, and that a failure loses,
\* is not kept here: no code is given out for it, and nothing reads it.
AddEvidence(r) ==
  LET p == request[r].report IN
  /\ request[r].at = "addEvidence"
  /\ files[p] <= MaxFiles                      \* bound
  /\ files' = [files EXCEPT ![p] = @ + 1]
  /\ sent' = [sent EXCEPT ![p] = @ + 1]
  /\ Stop(r)
  /\ UNCHANGED <<report, assigned, reported, trackingCode, reviewed>>

-----------------------------------------------------------------------------
(* Investigators                                                           *)

AssignToSelf(p, actor) ==
  /\ report[p] # "NONE"
  /\ assigned' = [assigned EXCEPT ![p] = actor]
  /\ UNCHANGED <<report, files, sent, reported, trackingCode, reviewed, request>>

ReadReport(r, p, to) ==
  /\ report[p] # "NONE"
  /\ to \in Legal[report[p]]
  /\ Start(r, [at |-> "changeStatus", report |-> p, to |-> to])
  /\ UNCHANGED reportVars

ChangeStatus(r) ==
  LET p == request[r].report IN
  /\ request[r].at = "changeStatus"
  /\ report' = [report EXCEPT ![p] = request[r].to]
  /\ reviewed' = IF request[r].to = "UNDER_REVIEW" THEN reviewed \cup {p} ELSE reviewed
  /\ Stop(r)
  /\ UNCHANGED <<assigned, files, sent, reported, trackingCode>>

WhistleblowerFails(r) == Abandon(r) /\ UNCHANGED reportVars

WhistleblowerNext ==
  \/ \E p \in Reports, actor \in Investigators : AssignToSelf(p, actor)
  \/ \E r \in Requests :
       \/ \E p \in Reports :
            \/ \E n \in 0..MaxFiles : SubmitReport(r, p, n)
            \/ FindByTrackingCode(r, p)
            \/ \E to \in {"UNDER_REVIEW"} \cup Outcome : ReadReport(r, p, to)
       \/ StoreEvidence(r)
       \/ AppendSubmitted(r)
       \/ AnswerCode(r)
       \/ AddEvidence(r)
       \/ ChangeStatus(r)
       \/ WhistleblowerFails(r)

WhistleblowerSpec ==
  WhistleblowerInit /\ HandlersInit /\ [][WhistleblowerNext]_<<reportVars, request>>
-----------------------------------------------------------------------------
(* Who was given a tracking code finds everything that was sent behind it, *)
(* and its event in the trail, whatever failed in other submissions.       *)
CodesFindEverything ==
  \A p \in trackingCode : files[p] = sent[p] /\ p \in reported

(* No report is concluded that nobody reviewed, however stale the status   *)
(* was that an investigator moved it from.                                 *)
ConcludedIsReviewed ==
  \A p \in Reports : report[p] \in Outcome => p \in reviewed

\* Reports are complete when they are answered, and reviewed before they end.
ReportsAreFollowed == CodesFindEverything /\ ConcludedIsReviewed

(* What the code's own table says, and two requests do not obey.           *)

(* SUBSTANTIATED and UNSUBSTANTIATED have no legal move.                   *)
OutcomesAreFinal ==
  [][\A p \in Reports : report[p] \in Outcome => report'[p] = report[p]]_reportVars
=============================================================================
