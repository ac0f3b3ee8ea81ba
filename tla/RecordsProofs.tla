---------------------------- MODULE RecordsProofs ----------------------------
(***************************************************************************)
(* Theorems about the modules of the records that money is spent on:       *)
(* budgets, contracts with their orders and invoices, suppliers, projects  *)
(* with their evidence, and reports, for every number of rows and of       *)
(* requests that run at the same time.                                     *)
(***************************************************************************)
EXTENDS Records, TotalsTheorems, WellFoundedInduction

-----------------------------------------------------------------------------
(* Whistleblower reports.                                                  *)

\* The awaits of a submission: until its code is answered nobody else has it.
Submitting == {"storeEvidence", "appendSubmitted", "answerCode"}

\* What a request relies on when it goes on from where it waits.
ReportPromise(q) ==
  /\ q.at # "idle" => report[q.report] # "NONE"
  /\ q.at \in Submitting => q.report \notin trackingCode
  /\ q.at = "storeEvidence" => sent[q.report] = files[q.report] + q.left
  /\ q.at \in {"appendSubmitted", "answerCode"} => sent[q.report] = files[q.report]
  /\ q.at = "answerCode" => q.report \in reported
  /\ q.at = "addEvidence" => q.report \in trackingCode
  /\ q.at = "changeStatus" /\ q.to \in Outcome => q.report \in reviewed

ReportPromises == \A r \in Requests : ReportPromise(request[r])

\* A report is one submission's.
SubmissionsAreSingle ==
  \A r, s \in Requests :
    request[r].at \in Submitting /\ request[s].at \in Submitting /\ r # s =>
      request[r].report # request[s].report

\* A report starts without files, and is under review once it was reviewed.
ReportsBegin ==
  \A p \in Reports :
    /\ report[p] = "NONE" => files[p] = 0
    /\ report[p] = "UNDER_REVIEW" => p \in reviewed

\* The inductive invariant of WhistleblowerSpec.
ReportsInv ==
  /\ WhistleblowerTypeOK
  /\ request \in [Requests -> ReportRequest]
  /\ ReportPromises
  /\ SubmissionsAreSingle
  /\ ReportsBegin
  /\ ReportsAreFollowed

LEMMA ReportsInitInv == WhistleblowerInit /\ HandlersInit => ReportsInv
<1> SUFFICES ASSUME WhistleblowerInit, HandlersInit PROVE ReportsInv
  OBVIOUS
<1> USE WhistleblowerAssumption DEF WhistleblowerInit, HandlersInit
<1>1. WhistleblowerTypeOK
  BY DEF WhistleblowerTypeOK
<1>2. request \in [Requests -> ReportRequest] /\ \A r \in Requests : request[r].at = "idle"
  BY DEF ReportRequest, Idle
<1>3. ReportPromises /\ SubmissionsAreSingle
  BY <1>2 DEF ReportPromises, ReportPromise, SubmissionsAreSingle, Submitting
<1>4. ReportsBegin /\ ReportsAreFollowed
  BY DEF ReportsBegin, ReportsAreFollowed, CodesFindEverything, ConcludedIsReviewed, Outcome
<1>5. QED
  BY <1>1, <1>2, <1>3, <1>4 DEF ReportsInv

\* What a request carries where it waits.
LEMMA ReportRequests ==
  ASSUME ReportsInv, NEW r \in Requests
  PROVE  /\ request[r] \in ReportRequest
         /\ ReportPromise(request[r])
         /\ Idle \in ReportRequest /\ Idle.at = "idle"
         /\ request[r].at # "idle" => request[r].report \in Reports
         /\ request[r].at = "storeEvidence" => request[r].left \in 0..MaxFiles
         /\ request[r].at = "changeStatus" => request[r].to \in {"UNDER_REVIEW"} \cup Outcome
BY DEF ReportsInv, ReportPromises, ReportRequest, Idle

\* A step that moves one request and writes no row.
LEMMA QuietReportStep ==
  ASSUME ReportsInv, UNCHANGED <<report, files, sent, reported, trackingCode, reviewed>>,
         assigned' \in [Reports -> Investigators \cup {None}],
         NEW r \in Requests, NEW q \in ReportRequest,
         request' = [request EXCEPT ![r] = q],
         ReportPromise(q),
         q.at \in Submitting =>
           request[r].at \in Submitting /\ q.report = request[r].report
  PROVE  ReportsInv'
<1> USE DEF ReportsInv
<1>1. WhistleblowerTypeOK'
  BY DEF WhistleblowerTypeOK
<1>2. /\ request' \in [Requests -> ReportRequest]
      /\ request'[r] = q /\ \A s \in Requests \ {r} : request'[s] = request[s]
  OBVIOUS
<1>3. ReportPromises'
  <2>1. \A s \in Requests : ReportPromise(request'[s])
    BY <1>2 DEF ReportPromises
  <2>2. ASSUME NEW s \in Requests PROVE ReportPromise(request[s])'
    BY <2>1 DEF ReportPromise
  <2>3. QED
    BY <2>2 DEF ReportPromises
<1>4. SubmissionsAreSingle'
  BY <1>2 DEF SubmissionsAreSingle
<1>5. ReportsBegin' /\ ReportsAreFollowed'
  BY DEF ReportsBegin, ReportsAreFollowed, CodesFindEverything, ConcludedIsReviewed
<1>6. QED
  BY <1>1, <1>2, <1>3, <1>4, <1>5

LEMMA SubmitReportStep ==
  ASSUME ReportsInv, NEW r \in Requests, NEW p \in Reports, NEW n \in 0..MaxFiles,
         SubmitReport(r, p, n)
  PROVE  ReportsInv'
<1> USE DEF ReportsInv
<1> PICK q : q = [at |-> "storeEvidence", report |-> p, left |-> n]
  OBVIOUS
<1>1. q \in ReportRequest /\ q.at = "storeEvidence" /\ q.report = p /\ q.left = n
  BY DEF ReportRequest
<1>2. /\ request' \in [Requests -> ReportRequest]
      /\ request[r].at = "idle"
      /\ request'[r] = q /\ \A s \in Requests \ {r} : request'[s] = request[s]
  BY <1>1, ReportRequests DEF SubmitReport, Start
<1>3. /\ report[p] = "NONE" /\ p \notin trackingCode /\ files[p] = 0
      /\ p \notin reported /\ p \notin reviewed
      /\ \A s \in Requests : request[s].at # "idle" => request[s].report # p
  BY ReportRequests DEF SubmitReport, ReportsBegin, WhistleblowerTypeOK, ReportPromise
<1>4. /\ report'[p] = "SUBMITTED" /\ sent'[p] = n
      /\ \A o \in Reports \ {p} : report'[o] = report[o] /\ sent'[o] = sent[o]
      /\ UNCHANGED <<assigned, files, reported, trackingCode, reviewed>>
  BY DEF SubmitReport, WhistleblowerTypeOK
<1>5. WhistleblowerTypeOK'
  BY WhistleblowerAssumption DEF SubmitReport, WhistleblowerTypeOK
<1>6. ReportPromises'
  <2>1. ReportPromise(q)'
    BY <1>1, <1>3, <1>4, WhistleblowerAssumption DEF ReportPromise, Submitting
  <2>2. ASSUME NEW s \in Requests \ {r} PROVE ReportPromise(request[s])'
    <3>1. PICK u : u = request[s]
      OBVIOUS
    <3>2. ReportPromise(u) /\ (u.at # "idle" => u.report \in Reports \ {p})
      BY <1>3, <3>1, ReportRequests
    <3>3. ReportPromise(u)'
      BY <1>4, <3>2 DEF ReportPromise, Submitting
    <3>4. QED
      BY <1>2, <3>1, <3>3 DEF ReportPromise
  <2>3. QED
    BY <1>2, <2>1, <2>2 DEF ReportPromises, ReportPromise
<1>7. SubmissionsAreSingle'
  BY <1>1, <1>2, <1>3 DEF SubmissionsAreSingle, Submitting
<1>8. ReportsBegin' /\ ReportsAreFollowed'
  BY <1>3, <1>4 DEF ReportsBegin, ReportsAreFollowed, CodesFindEverything, ConcludedIsReviewed,
                    WhistleblowerTypeOK, Outcome
<1>9. QED
  BY <1>2, <1>5, <1>6, <1>7, <1>8

LEMMA StoreEvidenceStep ==
  ASSUME ReportsInv, NEW r \in Requests, StoreEvidence(r)
  PROVE  ReportsInv'
<1> USE DEF ReportsInv
<1> PICK p : p = request[r].report
  OBVIOUS
<1>1. /\ request[r].at = "storeEvidence" /\ p \in Reports /\ report[p] # "NONE"
      /\ p \notin trackingCode
      /\ request[r].left \in 0..MaxFiles /\ sent[p] = files[p] + request[r].left
      /\ files[p] \in Nat /\ sent[p] \in 0..(MaxFiles + 1)
  BY ReportRequests DEF StoreEvidence, ReportPromise, Submitting, WhistleblowerTypeOK
<1>2. CASE request[r].left = 0
  <2> PICK q : q = [at |-> "appendSubmitted", report |-> p]
    OBVIOUS
  <2>1. q \in ReportRequest /\ q.at = "appendSubmitted" /\ q.report = p
    BY <1>1 DEF ReportRequest
  <2>2. ReportPromise(q)
    BY <1>1, <1>2, <2>1 DEF ReportPromise, Submitting
  <2>3. QED
    BY <1>1, <1>2, <2>1, <2>2, QuietReportStep
    DEF StoreEvidence, Submitting, WhistleblowerTypeOK
<1>3. CASE request[r].left # 0
  <2> PICK q : q = [request[r] EXCEPT !.left = @ - 1]
    OBVIOUS
  <2>1. /\ q \in ReportRequest /\ q.at = "storeEvidence" /\ q.report = p
        /\ q.left = request[r].left - 1
    <3>1. request[r] \in [at : {"storeEvidence"}, report : Reports, left : 0..MaxFiles]
      BY <1>1, ReportRequests DEF ReportRequest, Idle
    <3>2. request[r].left - 1 \in 0..MaxFiles
      BY <1>1, <1>3, WhistleblowerAssumption
    <3>3. q \in [at : {"storeEvidence"}, report : Reports, left : 0..MaxFiles]
      BY <3>1, <3>2
    <3>4. QED
      BY <3>1, <3>3 DEF ReportRequest
  <2>2. /\ request' \in [Requests -> ReportRequest]
        /\ request'[r] = q /\ \A s \in Requests \ {r} : request'[s] = request[s]
    BY <1>1, <1>3, <2>1 DEF StoreEvidence
  <2>3. /\ files'[p] = files[p] + 1
        /\ \A o \in Reports \ {p} : files'[o] = files[o]
        /\ files' = [files EXCEPT ![p] = files[p] + 1]
        /\ UNCHANGED <<report, assigned, sent, reported, trackingCode, reviewed>>
    BY <1>1, <1>3 DEF StoreEvidence, WhistleblowerTypeOK
  <2>4. WhistleblowerTypeOK'
    <3>1. files[p] + 1 \in 0..(MaxFiles + 1)
      BY <1>1, <1>3, WhistleblowerAssumption
    <3>2. QED
      BY <2>3, <3>1 DEF WhistleblowerTypeOK
  <2>5. ReportPromises'
    <3>1. ReportPromise(q)'
      BY <1>1, <1>3, <2>1, <2>3, WhistleblowerAssumption DEF ReportPromise, Submitting
    <3>2. ASSUME NEW s \in Requests \ {r} PROVE ReportPromise(request[s])'
      <4>1. PICK u : u = request[s]
        OBVIOUS
      <4>2. /\ ReportPromise(u) /\ (u.at # "idle" => u.report \in Reports)
            /\ u.at \in Submitting => u.report # p
        BY <1>1, <4>1, ReportRequests DEF SubmissionsAreSingle, Submitting
      <4>3. ReportPromise(u)'
        BY <2>3, <4>2 DEF ReportPromise, Submitting
      <4>4. QED
        BY <2>2, <4>1, <4>3 DEF ReportPromise
    <3>3. QED
      BY <2>2, <3>1, <3>2 DEF ReportPromises, ReportPromise
  <2>6. SubmissionsAreSingle'
    <3>1. \A s \in Requests :
            request'[s].at \in Submitting =>
              request[s].at \in Submitting /\ request'[s].report = request[s].report
      BY <1>1, <2>1, <2>2 DEF Submitting
    <3>2. QED
      BY <3>1 DEF SubmissionsAreSingle
  <2>7. ReportsBegin' /\ ReportsAreFollowed'
    BY <1>1, <2>3 DEF ReportsBegin, ReportsAreFollowed, CodesFindEverything, ConcludedIsReviewed,
                      WhistleblowerTypeOK
  <2>8. QED
    BY <2>2, <2>4, <2>5, <2>6, <2>7
<1>4. QED
  BY <1>2, <1>3

\* appendSubmitted, answerCode: one request moves, reported or trackingCode grows.
LEMMA AppendSubmittedStep ==
  ASSUME ReportsInv, NEW r \in Requests, AppendSubmitted(r)
  PROVE  ReportsInv'
<1> USE DEF ReportsInv
<1> PICK q : q = [request[r] EXCEPT !.at = "answerCode"]
  OBVIOUS
<1>1. /\ request[r].at = "appendSubmitted" /\ request[r].report \in Reports
      /\ ReportPromise(request[r]) /\ request[r] \in ReportRequest
  BY ReportRequests DEF AppendSubmitted
<1>2. q \in ReportRequest /\ q.at = "answerCode" /\ q.report = request[r].report
  BY <1>1 DEF ReportRequest, Idle
<1>3. /\ request' \in [Requests -> ReportRequest]
      /\ request'[r] = q /\ \A s \in Requests \ {r} : request'[s] = request[s]
  BY <1>2 DEF AppendSubmitted, Go
<1>4. /\ reported' = reported \cup {request[r].report}
      /\ UNCHANGED <<report, assigned, files, sent, trackingCode, reviewed>>
  BY DEF AppendSubmitted
<1>5. WhistleblowerTypeOK'
  BY <1>1, <1>4 DEF WhistleblowerTypeOK, ReportPromise
<1>6. ReportPromises'
  <2>1. ReportPromise(q)'
    BY <1>1, <1>2, <1>4 DEF ReportPromise, Submitting
  <2>2. ASSUME NEW s \in Requests \ {r} PROVE ReportPromise(request[s])'
    <3>1. PICK u : u = request[s]
      OBVIOUS
    <3>2. ReportPromise(u)'
      BY <1>4, <3>1, ReportRequests DEF ReportPromise
    <3>3. QED
      BY <1>3, <3>1, <3>2 DEF ReportPromise
  <2>3. QED
    BY <1>3, <2>1, <2>2 DEF ReportPromises, ReportPromise
<1>7. SubmissionsAreSingle'
  <2>1. \A s \in Requests :
          request'[s].at \in Submitting =>
            request[s].at \in Submitting /\ request'[s].report = request[s].report
    BY <1>1, <1>2, <1>3 DEF Submitting
  <2>2. QED
    BY <2>1 DEF SubmissionsAreSingle
<1>8. ReportsBegin' /\ ReportsAreFollowed'
  BY <1>4 DEF ReportsBegin, ReportsAreFollowed, CodesFindEverything, ConcludedIsReviewed
<1>9. QED
  BY <1>3, <1>5, <1>6, <1>7, <1>8

LEMMA AnswerCodeStep ==
  ASSUME ReportsInv, NEW r \in Requests, AnswerCode(r)
  PROVE  ReportsInv'
<1> USE DEF ReportsInv
<1> PICK p : p = request[r].report
  OBVIOUS
<1>1. /\ request[r].at = "answerCode" /\ p \in Reports /\ report[p] # "NONE"
      /\ sent[p] = files[p] /\ p \in reported
  BY ReportRequests DEF AnswerCode, ReportPromise
<1>2. /\ request' \in [Requests -> ReportRequest]
      /\ request'[r].at = "idle" /\ \A s \in Requests \ {r} : request'[s] = request[s]
  BY ReportRequests DEF AnswerCode, Stop
<1>3. /\ trackingCode' = trackingCode \cup {p}
      /\ UNCHANGED <<report, assigned, files, sent, reported, reviewed>>
  BY DEF AnswerCode
<1>4. WhistleblowerTypeOK'
  BY <1>1, <1>3 DEF WhistleblowerTypeOK
<1>5. ReportPromises'
  <2>1. ASSUME NEW s \in Requests \ {r} PROVE ReportPromise(request[s])'
    <3>1. PICK u : u = request[s]
      OBVIOUS
    <3>2. ReportPromise(u) /\ (u.at \in Submitting => u.report # p)
      BY <1>1, <3>1, ReportRequests DEF SubmissionsAreSingle, Submitting
    <3>3. ReportPromise(u)'
      BY <1>3, <3>2 DEF ReportPromise, Submitting
    <3>4. QED
      BY <1>2, <3>1, <3>3 DEF ReportPromise
  <2>2. QED
    BY <1>2, <2>1 DEF ReportPromises, ReportPromise, Submitting
<1>6. SubmissionsAreSingle'
  BY <1>2 DEF SubmissionsAreSingle, Submitting
<1>7. ReportsBegin' /\ ReportsAreFollowed'
  BY <1>1, <1>3 DEF ReportsBegin, ReportsAreFollowed, CodesFindEverything, ConcludedIsReviewed
<1>8. QED
  BY <1>2, <1>4, <1>5, <1>6, <1>7

LEMMA AddEvidenceStep ==
  ASSUME ReportsInv, NEW r \in Requests, AddEvidence(r)
  PROVE  ReportsInv'
<1> USE DEF ReportsInv
<1> PICK p : p = request[r].report
  OBVIOUS
<1>1. /\ request[r].at = "addEvidence" /\ p \in Reports /\ p \in trackingCode
      /\ report[p] # "NONE" /\ files[p] = sent[p] /\ files[p] \in 0..MaxFiles
  BY ReportRequests DEF AddEvidence, ReportPromise, WhistleblowerTypeOK, ReportsAreFollowed,
                        CodesFindEverything
<1>2. /\ request' \in [Requests -> ReportRequest]
      /\ request'[r].at = "idle" /\ \A s \in Requests \ {r} : request'[s] = request[s]
  BY ReportRequests DEF AddEvidence, Stop
<1>3. /\ files' = [files EXCEPT ![p] = files[p] + 1]
      /\ sent' = [sent EXCEPT ![p] = sent[p] + 1]
      /\ UNCHANGED <<report, assigned, reported, trackingCode, reviewed>>
  BY DEF AddEvidence
<1>4. files'[p] = sent'[p] /\ \A o \in Reports \ {p} : files'[o] = files[o] /\ sent'[o] = sent[o]
  BY <1>1, <1>3 DEF WhistleblowerTypeOK
<1>5. WhistleblowerTypeOK'
  <2>1. files[p] + 1 \in 0..(MaxFiles + 1)
    BY <1>1, WhistleblowerAssumption
  <2>2. QED
    BY <1>1, <1>3, <2>1 DEF WhistleblowerTypeOK
<1>6. ReportPromises'
  <2>1. ASSUME NEW s \in Requests \ {r} PROVE ReportPromise(request[s])'
    <3>1. PICK u : u = request[s]
      OBVIOUS
    <3>2. /\ ReportPromise(u) /\ (u.at # "idle" => u.report \in Reports)
          /\ u.at \in Submitting => u.report # p
      BY <1>1, <3>1, ReportRequests DEF ReportPromise
    <3>3. ReportPromise(u)'
      BY <1>3, <1>4, <3>2 DEF ReportPromise, Submitting
    <3>4. QED
      BY <1>2, <3>1, <3>3 DEF ReportPromise
  <2>2. QED
    BY <1>2, <2>1 DEF ReportPromises, ReportPromise, Submitting
<1>7. SubmissionsAreSingle'
  BY <1>2 DEF SubmissionsAreSingle, Submitting
<1>8. ReportsBegin' /\ ReportsAreFollowed'
  BY <1>1, <1>3, <1>4 DEF ReportsBegin, ReportsAreFollowed, CodesFindEverything,
                          ConcludedIsReviewed, WhistleblowerTypeOK
<1>9. QED
  BY <1>2, <1>5, <1>6, <1>7, <1>8

LEMMA ChangeStatusStep ==
  ASSUME ReportsInv, NEW r \in Requests, ChangeStatus(r)
  PROVE  ReportsInv'
<1> USE DEF ReportsInv
<1> PICK p, to : p = request[r].report /\ to = request[r].to
  OBVIOUS
<1>1. /\ request[r].at = "changeStatus" /\ p \in Reports /\ report[p] # "NONE"
      /\ to \in {"UNDER_REVIEW"} \cup Outcome
      /\ to \in Outcome => p \in reviewed
  BY ReportRequests DEF ChangeStatus, ReportPromise
<1>2. /\ request' \in [Requests -> ReportRequest]
      /\ request'[r].at = "idle" /\ \A s \in Requests \ {r} : request'[s] = request[s]
  BY ReportRequests DEF ChangeStatus, Stop
<1>3. /\ report' = [report EXCEPT ![p] = to]
      /\ UNCHANGED <<assigned, files, sent, reported, trackingCode>>
      /\ reviewed \subseteq reviewed' /\ reviewed' \subseteq reviewed \cup {p}
      /\ p \in reviewed'
  BY <1>1 DEF ChangeStatus
<1>4. report'[p] = to /\ \A o \in Reports \ {p} : report'[o] = report[o]
  BY <1>1, <1>3 DEF WhistleblowerTypeOK
<1>5. WhistleblowerTypeOK' /\ to # "NONE"
  BY <1>1, <1>3, <1>4 DEF WhistleblowerTypeOK, Outcome
<1>6. ReportPromises'
  <2>1. ASSUME NEW s \in Requests \ {r} PROVE ReportPromise(request[s])'
    <3>1. PICK u : u = request[s]
      OBVIOUS
    <3>2. ReportPromise(u) /\ (u.at # "idle" => u.report \in Reports)
      BY <3>1, ReportRequests
    <3>3. ReportPromise(u)'
      BY <1>3, <1>4, <1>5, <3>2 DEF ReportPromise
    <3>4. QED
      BY <1>2, <3>1, <3>3 DEF ReportPromise
  <2>2. QED
    BY <1>2, <2>1 DEF ReportPromises, ReportPromise, Submitting
<1>7. SubmissionsAreSingle'
  BY <1>2 DEF SubmissionsAreSingle, Submitting
<1>8. ReportsBegin' /\ ReportsAreFollowed'
  BY <1>1, <1>3, <1>4, <1>5 DEF ReportsBegin, ReportsAreFollowed, CodesFindEverything,
                                ConcludedIsReviewed
<1>9. QED
  BY <1>2, <1>5, <1>6, <1>7, <1>8

LEMMA ReportsStep == ReportsInv /\ [WhistleblowerNext]_<<reportVars, request>> => ReportsInv'
<1> SUFFICES ASSUME ReportsInv, [WhistleblowerNext]_<<reportVars, request>> PROVE ReportsInv'
  OBVIOUS
<1>1. ASSUME NEW p \in Reports, NEW actor \in Investigators, AssignToSelf(p, actor)
      PROVE  ReportsInv'
  <2>1. /\ assigned' \in [Reports -> Investigators \cup {None}]
        /\ UNCHANGED <<report, files, sent, reported, trackingCode, reviewed, request>>
    BY <1>1 DEF AssignToSelf, ReportsInv, WhistleblowerTypeOK
  <2>2. WhistleblowerTypeOK'
    BY <2>1 DEF ReportsInv, WhistleblowerTypeOK
  <2>3. QED
    BY <2>1, <2>2 DEF ReportsInv, ReportPromises, ReportPromise, SubmissionsAreSingle,
                      ReportsBegin, ReportsAreFollowed, CodesFindEverything, ConcludedIsReviewed
<1>2. ASSUME NEW r \in Requests, NEW p \in Reports, FindByTrackingCode(r, p)
      PROVE  ReportsInv'
  <2> PICK q : q = [at |-> "addEvidence", report |-> p]
    OBVIOUS
  <2>1. q \in ReportRequest /\ ReportPromise(q) /\ q.at = "addEvidence"
    BY <1>2 DEF FindByTrackingCode, ReportRequest, ReportPromise, Submitting, ReportsInv,
                WhistleblowerTypeOK
  <2>2. QED
    BY <1>2, <2>1, QuietReportStep
    DEF FindByTrackingCode, Start, reportVars, Submitting, ReportsInv, WhistleblowerTypeOK
<1>3. ASSUME NEW r \in Requests, NEW p \in Reports, NEW to \in {"UNDER_REVIEW"} \cup Outcome,
             ReadReport(r, p, to)
      PROVE  ReportsInv'
  <2> PICK q : q = [at |-> "changeStatus", report |-> p, to |-> to]
    OBVIOUS
  <2>1. report[p] \in {"SUBMITTED", "UNDER_REVIEW"} \cup Outcome /\ to \in Legal[report[p]]
    BY <1>3 DEF ReadReport, ReportsInv, WhistleblowerTypeOK
  <2>2. to \in Outcome => report[p] = "UNDER_REVIEW"
    BY <2>1 DEF Legal, Outcome
  <2>3. q \in ReportRequest /\ ReportPromise(q) /\ q.at = "changeStatus"
    BY <1>3, <2>2 DEF ReadReport, ReportRequest, ReportPromise, Submitting, ReportsInv,
                      ReportsBegin
  <2>4. QED
    BY <1>3, <2>3, QuietReportStep
    DEF ReadReport, Start, reportVars, Submitting, ReportsInv, WhistleblowerTypeOK
<1>4. ASSUME NEW r \in Requests, WhistleblowerFails(r)
      PROVE  ReportsInv'
  <2>1. Idle \in ReportRequest /\ Idle.at = "idle" /\ ReportPromise(Idle)
    BY DEF ReportRequest, Idle, ReportPromise, Submitting
  <2>2. QED
    BY <1>4, <2>1, QuietReportStep
    DEF WhistleblowerFails, Abandon, Stop, reportVars, Submitting, ReportsInv, WhistleblowerTypeOK
<1>5. CASE UNCHANGED <<reportVars, request>>
  BY <1>5 DEF reportVars, ReportsInv, WhistleblowerTypeOK, ReportPromises, ReportPromise,
              SubmissionsAreSingle, ReportsBegin, ReportsAreFollowed, CodesFindEverything,
              ConcludedIsReviewed
<1>6. QED
  BY <1>1, <1>2, <1>3, <1>4, <1>5, SubmitReportStep, StoreEvidenceStep, AppendSubmittedStep,
     AnswerCodeStep, AddEvidenceStep, ChangeStatusStep
  DEF WhistleblowerNext

\* Whoever was given a tracking code finds every file behind it and the event
\* in the trail, and no report is concluded that nobody reviewed, whatever
\* fails or interleaves in how many submissions.
THEOREM ReportsFollowed == WhistleblowerSpec => []ReportsAreFollowed
<1>1. ReportsInv => ReportsAreFollowed
  BY DEF ReportsInv
<1>2. QED
  BY <1>1, ReportsInitInv, ReportsStep, PTL DEF WhistleblowerSpec

-----------------------------------------------------------------------------
(* Budgets.                                                                *)

\* What a request relies on when it goes on from where it waits: an approver
\* did not draw the budget up, and a budget keeps its creator.
BudgetPromise(q) ==
  /\ q.at \in {"approveBudget", "submitBudget", "rejectBudget"} => budget[q.budget] # "NONE"
  /\ q.at = "approveBudget" => createdBy[q.budget] # q.actor

BudgetPromises == \A r \in Requests : BudgetPromise(request[r])

\* A budget that was approved exists.
ApprovedExist == \A b \in BudgetPlans : approvedBy[b] # None => budget[b] # "NONE"

\* The inductive invariant of BudgetsSpec.
BudgetsInv ==
  /\ BudgetsTypeOK
  /\ request \in [Requests -> BudgetRequest]
  /\ BudgetPromises
  /\ ApprovedExist
  /\ AllocationsAreApproved

LEMMA BudgetsInitInv == BudgetsInit /\ HandlersInit => BudgetsInv
<1> SUFFICES ASSUME BudgetsInit, HandlersInit PROVE BudgetsInv
  OBVIOUS
<1> USE DEF BudgetsInit, HandlersInit
<1>1. BudgetsTypeOK
  BY DEF BudgetsTypeOK
<1>2. request \in [Requests -> BudgetRequest] /\ BudgetPromises
  BY DEF BudgetRequest, Idle, BudgetPromises, BudgetPromise
<1>3. ApprovedExist /\ AllocationsAreApproved
  BY DEF ApprovedExist, AllocationsAreApproved
<1>4. QED
  BY <1>1, <1>2, <1>3 DEF BudgetsInv

\* What a request carries where it waits.
LEMMA BudgetRequests ==
  ASSUME BudgetsInv, NEW r \in Requests
  PROVE  /\ request[r] \in BudgetRequest
         /\ BudgetPromise(request[r])
         /\ Idle \in BudgetRequest /\ Idle.at = "idle" /\ BudgetPromise(Idle)
         /\ request[r].at # "idle" => request[r].budget \in BudgetPlans
         /\ request[r].at \in {"createBudget", "approveBudget"} => request[r].actor \in Creators
BY DEF BudgetsInv, BudgetPromises, BudgetPromise, BudgetRequest, Idle

\* A step that moves one request and writes at most the year.
LEMMA QuietBudgetStep ==
  ASSUME BudgetsInv, UNCHANGED <<budget, createdBy, approvedBy, allocated, afterClose>>,
         year' \in {"PLANNED", "ACTIVE", "CLOSED"},
         NEW r \in Requests, NEW q \in BudgetRequest,
         request' = [request EXCEPT ![r] = q], BudgetPromise(q)
  PROVE  BudgetsInv'
<1> USE DEF BudgetsInv
<1>1. BudgetsTypeOK'
  BY DEF BudgetsTypeOK
<1>2. /\ request' \in [Requests -> BudgetRequest]
      /\ request'[r] = q /\ \A s \in Requests \ {r} : request'[s] = request[s]
  OBVIOUS
<1>3. BudgetPromises'
  <2>1. \A s \in Requests : BudgetPromise(request'[s])
    BY <1>2 DEF BudgetPromises
  <2>2. ASSUME NEW s \in Requests PROVE BudgetPromise(request[s])'
    BY <2>1 DEF BudgetPromise
  <2>3. QED
    BY <2>2 DEF BudgetPromises
<1>4. ApprovedExist' /\ AllocationsAreApproved'
  BY DEF ApprovedExist, AllocationsAreApproved
<1>5. QED
  BY <1>1, <1>2, <1>3, <1>4

\* A statement on one budget, after which its request is idle.
LEMMA BudgetWriteStep ==
  ASSUME BudgetsInv, NEW r \in Requests, NEW b \in BudgetPlans, Stop(r),
         budget' \in [BudgetPlans -> {"NONE", "DRAFT", "PENDING_APPROVAL", "APPROVED",
                                      "REJECTED"}],
         budget'[b] # "NONE", \A c \in BudgetPlans \ {b} : budget'[c] = budget[c],
         createdBy' \in [BudgetPlans -> Creators \cup {None}],
         \A c \in BudgetPlans : budget[c] # "NONE" => createdBy'[c] = createdBy[c],
         \A c \in BudgetPlans : (budget'[c] = "NONE") <=> (createdBy'[c] = None)
  PROVE  /\ BudgetPromises'
         /\ request' \in [Requests -> BudgetRequest]
         /\ \A c \in BudgetPlans : (budget'[c] = "NONE") <=> (createdBy'[c] = None)
<1> USE DEF BudgetsInv
<1>1. /\ request' \in [Requests -> BudgetRequest]
      /\ request'[r] = Idle /\ \A s \in Requests \ {r} : request'[s] = request[s]
  BY BudgetRequests DEF Stop
<1>2. ASSUME NEW s \in Requests \ {r} PROVE BudgetPromise(request[s])'
  <2>1. PICK u : u = request[s]
    OBVIOUS
  <2>2. BudgetPromise(u) /\ (u.at # "idle" => u.budget \in BudgetPlans)
    BY <2>1, BudgetRequests
  <2>3. BudgetPromise(u)'
    BY <2>2 DEF BudgetPromise
  <2>4. QED
    BY <1>1, <2>1, <2>3 DEF BudgetPromise
<1>3. BudgetPromise(Idle)'
  BY DEF BudgetPromise, Idle
<1>4. QED
  BY <1>1, <1>2, <1>3 DEF BudgetPromises, BudgetPromise

LEMMA CreateBudgetStep ==
  ASSUME BudgetsInv, NEW r \in Requests, CreateBudget(r)
  PROVE  BudgetsInv'
<1> USE DEF BudgetsInv
<1> PICK b, actor : b = request[r].budget /\ actor = request[r].actor
  OBVIOUS
<1>1. b \in BudgetPlans /\ actor \in Creators /\ budget[b] = "NONE"
  BY BudgetRequests DEF CreateBudget
<1>2. /\ budget' = [budget EXCEPT ![b] = "DRAFT"]
      /\ createdBy' = [createdBy EXCEPT ![b] = actor]
      /\ afterClose' \subseteq afterClose \cup {b}
      /\ UNCHANGED <<year, approvedBy, allocated>>
      /\ Stop(r)
  BY DEF CreateBudget
<1>3. BudgetsTypeOK'
  BY <1>1, <1>2, BudgetsAssumption DEF BudgetsTypeOK
<1>4. approvedBy[b] = None
  BY <1>1 DEF ApprovedExist
<1>5. BudgetPromises' /\ request' \in [Requests -> BudgetRequest]
  BY <1>1, <1>2, <1>3, BudgetWriteStep DEF BudgetsTypeOK
<1>6. ApprovedExist' /\ AllocationsAreApproved'
  BY <1>1, <1>2, <1>4 DEF ApprovedExist, AllocationsAreApproved, BudgetsTypeOK
<1>7. QED
  BY <1>3, <1>5, <1>6

LEMMA UpdateBudgetStep ==
  ASSUME BudgetsInv, NEW r \in Requests, UpdateBudget(r)
  PROVE  BudgetsInv'
<1> USE DEF BudgetsInv
<1> PICK b : b = request[r].budget
  OBVIOUS
<1>1. b \in BudgetPlans /\ budget[b] # "NONE"
  BY BudgetRequests DEF UpdateBudget, BudgetPromise
<1>2. PICK to \in {"PENDING_APPROVAL", "REJECTED"} :
        /\ budget' = [budget EXCEPT ![b] = to]
        /\ UNCHANGED <<year, createdBy, approvedBy, allocated, afterClose>>
        /\ Stop(r)
  BY DEF UpdateBudget
<1>3. BudgetsTypeOK'
  BY <1>1, <1>2 DEF BudgetsTypeOK
<1>4. BudgetPromises' /\ request' \in [Requests -> BudgetRequest]
  BY <1>1, <1>2, <1>3, BudgetWriteStep DEF BudgetsTypeOK
<1>5. ApprovedExist' /\ AllocationsAreApproved'
  BY <1>1, <1>2 DEF ApprovedExist, AllocationsAreApproved, BudgetsTypeOK
<1>6. QED
  BY <1>3, <1>4, <1>5

\* A transaction that is not rolled back found no allocation of the budget,
\* so that nobody had approved it.
LEMMA ApproveStep ==
  ASSUME BudgetsInv, NEW r \in Requests, Approve(r)
  PROVE  /\ BudgetsInv'
         /\ \A b \in BudgetPlans : approvedBy[b] # None => approvedBy'[b] = approvedBy[b]
<1> USE DEF BudgetsInv
<1> PICK b, actor : b = request[r].budget /\ actor = request[r].actor
  OBVIOUS
<1>1. /\ b \in BudgetPlans /\ actor \in Creators /\ budget[b] # "NONE"
      /\ createdBy[b] # actor
  BY BudgetRequests DEF Approve, BudgetPromise
<1>2. CASE \E l \in Lines : <<b, l>> \in allocated
  <2>1. UNCHANGED <<year, budget, createdBy, approvedBy, allocated, afterClose>> /\ Stop(r)
    BY <1>2 DEF Approve
  <2>2. QED
    BY <2>1, BudgetRequests, QuietBudgetStep DEF Stop, BudgetsTypeOK
<1>3. CASE ~ \E l \in Lines : <<b, l>> \in allocated
  <2>1. /\ budget' = [budget EXCEPT ![b] = "APPROVED"]
        /\ approvedBy' = [approvedBy EXCEPT ![b] = actor]
        /\ allocated' = allocated \cup ({b} \X Lines)
        /\ UNCHANGED <<year, createdBy, afterClose>>
        /\ Stop(r)
    BY <1>3 DEF Approve
  <2>2. approvedBy[b] = None
    <3>1. \A l \in Lines : <<b, l>> \in {b} \X Lines
      OBVIOUS
    <3>2. QED
      BY <1>1, <1>3, <3>1, BudgetsAssumption DEF AllocationsAreApproved
  <2>3. BudgetsTypeOK'
    BY <1>1, <2>1 DEF BudgetsTypeOK
  <2>4. BudgetPromises' /\ request' \in [Requests -> BudgetRequest]
    BY <1>1, <2>1, <2>3, BudgetWriteStep DEF BudgetsTypeOK
  <2>5. /\ approvedBy'[b] = actor /\ actor # None
        /\ \A c \in BudgetPlans \ {b} : approvedBy'[c] = approvedBy[c]
    BY <1>1, <2>1, BudgetsAssumption DEF BudgetsTypeOK
  <2>6. ApprovedExist'
    BY <1>1, <2>1, <2>5 DEF ApprovedExist, BudgetsTypeOK
  <2>7. AllocationsAreApproved'
    <3>1. ASSUME NEW c \in BudgetPlans \ {b}, NEW l \in Lines
          PROVE  <<c, l>> \in allocated' <=> <<c, l>> \in allocated
      BY <2>1
    <3>2. ASSUME NEW c \in BudgetPlans \ {b}
          PROVE  {c} \X Lines \subseteq allocated => {c} \X Lines \subseteq allocated'
      BY <2>1
    <3>3. {b} \X Lines \subseteq allocated'
      BY <2>1
    <3>4. QED
      BY <1>1, <2>1, <2>5, <3>1, <3>2, <3>3 DEF AllocationsAreApproved
  <2>8. QED
    BY <2>2, <2>3, <2>4, <2>5, <2>6, <2>7
<1>4. QED
  BY <1>2, <1>3

LEMMA BudgetsStep ==
  BudgetsInv /\ [BudgetsNext]_<<budgetVars, request>> =>
    /\ BudgetsInv'
    /\ \A b \in BudgetPlans : approvedBy[b] # None => approvedBy'[b] = approvedBy[b]
<1> SUFFICES ASSUME BudgetsInv, [BudgetsNext]_<<budgetVars, request>>
             PROVE  /\ BudgetsInv'
                    /\ \A b \in BudgetPlans :
                         approvedBy[b] # None => approvedBy'[b] = approvedBy[b]
  OBVIOUS
<1>1. ASSUME ActivateYear \/ CloseYear PROVE BudgetsInv' /\ UNCHANGED approvedBy
  <2>1. /\ year' \in {"PLANNED", "ACTIVE", "CLOSED"}
        /\ UNCHANGED <<budget, createdBy, approvedBy, allocated, afterClose, request>>
    BY <1>1 DEF ActivateYear, CloseYear
  <2>2. QED
    BY <2>1 DEF BudgetsInv, BudgetsTypeOK, BudgetPromises, BudgetPromise, ApprovedExist,
                AllocationsAreApproved
<1>2. ASSUME NEW r \in Requests, NEW b \in BudgetPlans, NEW actor \in Creators,
             ReadForBudget(r, b, actor)
      PROVE  BudgetsInv' /\ UNCHANGED approvedBy
  <2> PICK q : q = [at |-> "createBudget", budget |-> b, actor |-> actor]
    OBVIOUS
  <2>1. q \in BudgetRequest /\ BudgetPromise(q)
    BY DEF BudgetRequest, BudgetPromise
  <2>2. QED
    BY <1>2, <2>1, QuietBudgetStep
    DEF ReadForBudget, Start, budgetVars, BudgetsInv, BudgetsTypeOK
<1>3. ASSUME NEW r \in Requests, NEW b \in BudgetPlans, NEW actor \in Creators,
             ReadBudget(r, b, actor)
      PROVE  BudgetsInv' /\ UNCHANGED approvedBy
  <2>1. PICK q : /\ q \in { [at |-> "submitBudget", budget |-> b],
                            [at |-> "rejectBudget", budget |-> b],
                            [at |-> "approveBudget", budget |-> b, actor |-> actor] }
                 /\ q.at = "approveBudget" => createdBy[b] # actor
                 /\ budget[b] # "NONE"
                 /\ request' = [request EXCEPT ![r] = q]
                 /\ UNCHANGED budgetVars
    BY <1>3 DEF ReadBudget, Start
  <2>2. q \in BudgetRequest
    BY <2>1 DEF BudgetRequest
  <2>3. BudgetPromise(q)
    BY <2>1 DEF BudgetPromise
  <2>4. QED
    BY <2>1, <2>2, <2>3, QuietBudgetStep DEF budgetVars, BudgetsInv, BudgetsTypeOK
<1>4. ASSUME NEW r \in Requests, CreateBudget(r) PROVE BudgetsInv' /\ UNCHANGED approvedBy
  BY <1>4, CreateBudgetStep DEF CreateBudget
<1>5. ASSUME NEW r \in Requests, UpdateBudget(r) PROVE BudgetsInv' /\ UNCHANGED approvedBy
  BY <1>5, UpdateBudgetStep DEF UpdateBudget
<1>6. ASSUME NEW r \in Requests, BudgetsFail(r) PROVE BudgetsInv' /\ UNCHANGED approvedBy
  BY <1>6, BudgetRequests, QuietBudgetStep
  DEF BudgetsFail, Abandon, Stop, budgetVars, BudgetsInv, BudgetsTypeOK
<1>7. CASE UNCHANGED <<budgetVars, request>>
  BY <1>7 DEF budgetVars, BudgetsInv, BudgetsTypeOK, BudgetPromises, BudgetPromise,
              ApprovedExist, AllocationsAreApproved
<1>8. QED
  BY <1>1, <1>2, <1>3, <1>4, <1>5, <1>6, <1>7, ApproveStep DEF BudgetsNext

\* Money is only ever allocated by an approval, of all the lines at once and by
\* somebody who did not draw the budget up, and that approval stays on record,
\* however stale the status was that a request had read.
THEOREM BudgetsAllocateOnce == BudgetsSpec => ApprovalsAllocate
<1>1. BudgetsInv => AllocationsAreApproved
  BY DEF BudgetsInv
<1>2. BudgetsInv /\ [BudgetsNext]_<<budgetVars, request>> =>
        [\A b \in BudgetPlans : approvedBy[b] # None => approvedBy'[b] = approvedBy[b]]_budgetVars
  BY BudgetsStep
<1>3. BudgetsInv /\ [BudgetsNext]_<<budgetVars, request>> => BudgetsInv'
  BY BudgetsStep
<1>4. QED
  BY <1>1, <1>2, <1>3, BudgetsInitInv, PTL DEF BudgetsSpec, ApprovalsAllocate, ApprovalsStand
-----------------------------------------------------------------------------
(* Projects.                                                               *)

\* A project that has been activated, or ended, is never PLANNED again.
Begun(p) == project[p] \notin {"NONE", "PLANNED"}

\* What a request relies on when it goes on from where it waits.
ProjectPromise(q) ==
  /\ q.at \in {"activate", "suspend", "resume", "cancel", "maybeMarkCompleted", "markCompleted"}
       => q.project \in Projects /\ project[q.project] # "NONE"
  /\ q.at = "markCompleted" =>
       Begun(q.project) /\ MilestonesOf(q.project) \subseteq passed \cup late
  /\ q.at = "addMilestone" => q.milestone \in Milestones /\ project[ProjectOf[q.milestone]] # "NONE"
  /\ q.at \in {"start", "complete", "createInspection", "applyOutcome"} =>
       q.milestone \in Milestones /\ milestone[q.milestone] # "NONE"
  /\ q.at = "applyOutcome" /\ q.outcome = "PASSED" => q.milestone \in passed

ProjectPromises == \A r \in Requests : ProjectPromise(request[r])

\* A milestone is of a project that exists, and is verified by an inspection.
VerifiedPassed ==
  \A m \in Milestones :
    /\ milestone[m] # "NONE" => project[ProjectOf[m]] # "NONE"
    /\ milestone[m] = "VERIFIED" => m \in passed

\* The inductive invariant of ProjectsSpec.
ProjectsInv ==
  /\ ProjectsTypeOK
  /\ request \in [Requests -> ProjectRequest]
  /\ ProjectPromises
  /\ VerifiedPassed
  /\ CompletionIsEarned

LEMMA ProjectsInitInv == ProjectsInit /\ HandlersInit => ProjectsInv
<1> SUFFICES ASSUME ProjectsInit, HandlersInit PROVE ProjectsInv
  OBVIOUS
<1> USE DEF ProjectsInit, HandlersInit
<1>1. ProjectsTypeOK /\ VerifiedPassed
  BY DEF ProjectsTypeOK, VerifiedPassed
<1>2. request \in [Requests -> ProjectRequest] /\ ProjectPromises
  BY DEF ProjectRequest, Idle, ProjectPromises, ProjectPromise
<1>3. CompletionIsEarned
  BY DEF CompletionIsEarned, CompletedIsInspected, FinishedProjectsAreMarked
<1>4. QED
  BY <1>1, <1>2, <1>3 DEF ProjectsInv

\* What a request carries where it waits.
LEMMA ProjectRequests ==
  ASSUME ProjectsInv, NEW r \in Requests
  PROVE  /\ request[r] \in ProjectRequest
         /\ ProjectPromise(request[r])
         /\ Idle \in ProjectRequest /\ Idle.at = "idle" /\ ProjectPromise(Idle)
         /\ request[r].at \in {"createInspection", "applyOutcome"} =>
              request[r].outcome \in Outcomes
BY DEF ProjectsInv, ProjectPromises, ProjectPromise, ProjectRequest, Idle

\* What requests rely on, other than the one that moves, survives a step in
\* which no milestone and no project disappears, milestones are only added
\* late to a project that began, and passed and late only grow.
LEMMA ProjectPromisesStay ==
  ASSUME ProjectsInv, NEW r \in Requests, NEW q \in ProjectRequest,
         request' = [request EXCEPT ![r] = q], ProjectPromise(q)',
         \A p \in Projects : project[p] # "NONE" => project'[p] # "NONE",
         \A p \in Projects : Begun(p) => Begun(p)',
         \A m \in Milestones : milestone[m] # "NONE" => milestone'[m] # "NONE",
         \A m \in Milestones :
           milestone[m] = "NONE" /\ milestone'[m] # "NONE" /\ Begun(ProjectOf[m]) => m \in late',
         passed \subseteq passed', late \subseteq late'
  PROVE  /\ request' \in [Requests -> ProjectRequest]
         /\ request'[r] = q /\ \A s \in Requests \ {r} : request'[s] = request[s]
         /\ ProjectPromises'
<1>1. /\ request' \in [Requests -> ProjectRequest]
      /\ request'[r] = q /\ \A s \in Requests \ {r} : request'[s] = request[s]
  BY DEF ProjectsInv
<1>2. ASSUME NEW p \in Projects, Begun(p), MilestonesOf(p) \subseteq passed \cup late
      PROVE  MilestonesOf(p)' \subseteq passed' \cup late'
  BY <1>2 DEF MilestonesOf
<1>3. ASSUME NEW s \in Requests \ {r} PROVE ProjectPromise(request[s])'
  <2>1. PICK u : u = request[s]
    OBVIOUS
  <2>2. ProjectPromise(u)
    BY <2>1, ProjectRequests
  <2>3. ProjectPromise(u)'
    BY <1>2, <2>2, ProjectsAssumption DEF ProjectPromise
  <2>4. QED
    BY <1>1, <2>1, <2>3 DEF ProjectPromise
<1>4. QED
  BY <1>1, <1>3 DEF ProjectPromises, ProjectPromise

\* A completed project stays inspected under the same conditions.
LEMMA InspectedStays ==
  ASSUME ProjectsInv,
         \A m \in Milestones :
           milestone[m] = "NONE" /\ milestone'[m] # "NONE" /\ Begun(ProjectOf[m]) => m \in late',
         passed \subseteq passed', late \subseteq late',
         \A p \in Projects : project'[p] = "COMPLETED" /\ project[p] # "COMPLETED" =>
           Begun(p) /\ MilestonesOf(p) \subseteq passed \cup late
  PROVE  CompletedIsInspected'
<1>1. \A p \in Projects : project'[p] = "COMPLETED" =>
        Begun(p) /\ MilestonesOf(p) \subseteq passed \cup late
  BY DEF ProjectsInv, CompletionIsEarned, CompletedIsInspected, Begun
<1>2. QED
  BY <1>1 DEF CompletedIsInspected, MilestonesOf

\* A step that moves one request, which was and is not marking a project.
LEMMA QuietProjectStep ==
  ASSUME ProjectsInv, UNCHANGED projectVars,
         NEW r \in Requests, NEW q \in ProjectRequest,
         request' = [request EXCEPT ![r] = q], ProjectPromise(q),
         request[r].at \in {"maybeMarkCompleted", "markCompleted"} =>
           \/ /\ q.at = "markCompleted"
              /\ q.project = request[r].project
           \/ ~ (project[request[r].project] = "IN_PROGRESS" /\ AllVerified(request[r].project))
  PROVE  ProjectsInv'
<1> USE DEF projectVars
<1>1. /\ request' \in [Requests -> ProjectRequest]
      /\ request'[r] = q /\ \A s \in Requests \ {r} : request'[s] = request[s]
      /\ ProjectPromises'
  <2>1. ProjectPromise(q)'
    BY DEF ProjectPromise, Begun, MilestonesOf
  <2>2. QED
    BY <2>1, ProjectPromisesStay DEF Begun
<1>2. ProjectsTypeOK' /\ VerifiedPassed' /\ CompletedIsInspected'
  BY DEF ProjectsInv, ProjectsTypeOK, VerifiedPassed, CompletionIsEarned, CompletedIsInspected,
         MilestonesOf
<1>3. FinishedProjectsAreMarked'
  <2>1. ASSUME NEW p \in Projects, project[p] = "IN_PROGRESS", AllVerified(p), p \notin missed
        PROVE  \E s \in Requests :
                 /\ request'[s].at \in {"maybeMarkCompleted", "markCompleted"}
                 /\ request'[s].project = p
    <3>1. PICK s \in Requests : /\ request[s].at \in {"maybeMarkCompleted", "markCompleted"}
                                /\ request[s].project = p
      BY <2>1 DEF ProjectsInv, CompletionIsEarned, FinishedProjectsAreMarked
    <3>2. CASE s = r
      BY <1>1, <2>1, <3>1, <3>2
    <3>3. CASE s # r
      BY <1>1, <3>1, <3>3
    <3>4. QED
      BY <3>2, <3>3
  <2>2. \A p \in Projects : AllVerified(p)' <=> AllVerified(p)
    BY DEF AllVerified, MilestonesOf
  <2>3. QED
    BY <2>1, <2>2 DEF FinishedProjectsAreMarked
<1>4. QED
  BY <1>1, <1>2, <1>3 DEF ProjectsInv, CompletionIsEarned

LEMMA CreateProjectStep ==
  ASSUME ProjectsInv, NEW p \in Projects, CreateProject(p)
  PROVE  ProjectsInv'
<1> USE DEF ProjectsInv
<1>1. /\ project[p] = "NONE" /\ project'[p] = "PLANNED"
      /\ \A o \in Projects \ {p} : project'[o] = project[o]
      /\ UNCHANGED <<milestone, passed, late, missed, request>>
  BY DEF CreateProject, ProjectsTypeOK
<1>2. ProjectsTypeOK' /\ VerifiedPassed'
  BY ProjectsAssumption DEF CreateProject, ProjectsTypeOK, VerifiedPassed
<1>3. ProjectPromises'
  <2>1. ASSUME NEW s \in Requests PROVE ProjectPromise(request[s])'
    <3>1. PICK u : u = request[s]
      OBVIOUS
    <3>2. ProjectPromise(u)'
      BY <1>1, <3>1, ProjectRequests, ProjectsAssumption DEF ProjectPromise, Begun, MilestonesOf
    <3>3. QED
      BY <1>1, <3>1, <3>2 DEF ProjectPromise
  <2>2. QED
    BY <2>1 DEF ProjectPromises
<1>4. CompletionIsEarned'
  BY <1>1 DEF CompletionIsEarned, CompletedIsInspected, FinishedProjectsAreMarked, MilestonesOf,
              AllVerified
<1>5. QED
  BY <1>1, <1>2, <1>3, <1>4

LEMMA UpdateProjectStep ==
  ASSUME ProjectsInv, NEW r \in Requests, UpdateProject(r)
  PROVE  ProjectsInv'
<1> USE DEF ProjectsInv
<1> PICK p : p = request[r].project
  OBVIOUS
<1>1. /\ request[r].at \in {"activate", "resume", "suspend", "cancel"} /\ p \in Projects
      /\ project[p] # "NONE"
  BY ProjectRequests DEF UpdateProject, ProjectPromise
<1>2. PICK to \in {"IN_PROGRESS", "SUSPENDED", "CANCELLED"} :
        /\ project' = [project EXCEPT ![p] = to]
        /\ to = "IN_PROGRESS" /\ AllVerified(p) => p \in missed'
        /\ missed \subseteq missed' /\ missed' \subseteq missed \cup {p}
        /\ UNCHANGED <<milestone, passed, late>>
        /\ Stop(r)
  <2>1. CASE request[r].at \in {"activate", "resume"}
    <3>1. /\ project' = [project EXCEPT ![p] = "IN_PROGRESS"]
          /\ missed' = IF AllVerified(p) THEN missed \cup {p} ELSE missed
          /\ UNCHANGED <<milestone, passed, late>>
          /\ Stop(r)
      BY <2>1 DEF UpdateProject
    <3>2. QED
      BY <3>1
  <2>2. CASE request[r].at \in {"suspend", "cancel"}
    BY <2>2 DEF UpdateProject
  <2>3. QED
    BY <1>1, <2>1, <2>2
<1>3. project'[p] = to /\ \A o \in Projects \ {p} : project'[o] = project[o]
  BY <1>1, <1>2 DEF ProjectsTypeOK
<1>4. ProjectsTypeOK' /\ VerifiedPassed'
  BY <1>1, <1>2, <1>3, ProjectsAssumption DEF ProjectsTypeOK, VerifiedPassed
<1>5. /\ request' \in [Requests -> ProjectRequest]
      /\ request'[r] = Idle /\ \A s \in Requests \ {r} : request'[s] = request[s]
      /\ ProjectPromises'
  <2>1. ProjectPromise(Idle)'
    BY DEF ProjectPromise, Idle
  <2>2. QED
    BY <1>2, <1>3, <2>1, ProjectRequests, ProjectPromisesStay DEF Stop, Begun
<1>6. CompletedIsInspected'
  BY <1>2, <1>3, InspectedStays
<1>7. FinishedProjectsAreMarked'
  <2>1. \A o \in Projects : AllVerified(o)' <=> AllVerified(o)
    BY <1>2 DEF AllVerified, MilestonesOf
  <2>2. QED
    BY <1>1, <1>2, <1>3, <1>5, <2>1 DEF CompletionIsEarned, FinishedProjectsAreMarked
<1>8. QED
  BY <1>4, <1>5, <1>6, <1>7 DEF CompletionIsEarned

\* A step that writes one milestone, to anything but VERIFIED, and ends its
\* request: no project becomes complete.
LEMMA MilestoneStep ==
  ASSUME ProjectsInv, NEW r \in Requests, Stop(r),
         request[r].at \notin {"maybeMarkCompleted", "markCompleted"},
         NEW m \in Milestones, NEW to \in {"PENDING", "IN_PROGRESS", "COMPLETED"},
         milestone' = [milestone EXCEPT ![m] = to],
         project[ProjectOf[m]] # "NONE",
         late \subseteq late', late' \subseteq late \cup {m},
         milestone[m] = "NONE" /\ Begun(ProjectOf[m]) => m \in late',
         UNCHANGED <<project, passed, missed>>
  PROVE  ProjectsInv'
<1> USE DEF ProjectsInv
<1>1. milestone'[m] = to /\ \A n \in Milestones \ {m} : milestone'[n] = milestone[n]
  BY DEF ProjectsTypeOK
<1>2. ProjectsTypeOK' /\ VerifiedPassed'
  BY <1>1 DEF ProjectsTypeOK, VerifiedPassed
<1>3. /\ request' \in [Requests -> ProjectRequest]
      /\ request'[r] = Idle /\ \A s \in Requests \ {r} : request'[s] = request[s]
      /\ ProjectPromises'
  <2>1. ProjectPromise(Idle)'
    BY DEF ProjectPromise, Idle
  <2>2. \A n \in Milestones :
          milestone[n] = "NONE" /\ milestone'[n] # "NONE" /\ Begun(ProjectOf[n]) => n \in late'
    BY <1>1
  <2>3. QED
    BY <1>1, <2>1, <2>2, ProjectRequests, ProjectPromisesStay DEF Stop, Begun
<1>4. CompletedIsInspected'
  BY <1>1, InspectedStays
<1>5. FinishedProjectsAreMarked'
  <2>1. ASSUME NEW p \in Projects, AllVerified(p)' PROVE AllVerified(p)
    BY <1>1, <2>1 DEF AllVerified, MilestonesOf
  <2>2. QED
    BY <1>3, <2>1 DEF CompletionIsEarned, FinishedProjectsAreMarked
<1>6. QED
  BY <1>2, <1>3, <1>4, <1>5 DEF CompletionIsEarned

LEMMA CreateInspectionStep ==
  ASSUME ProjectsInv, NEW r \in Requests, CreateInspection(r)
  PROVE  ProjectsInv'
<1> USE DEF ProjectsInv
<1> PICK m, q : m = request[r].milestone /\ q = [request[r] EXCEPT !.at = "applyOutcome"]
  OBVIOUS
<1>1. /\ request[r].at = "createInspection" /\ m \in Milestones /\ milestone[m] # "NONE"
      /\ request[r].outcome \in Outcomes
  BY ProjectRequests DEF CreateInspection, ProjectPromise
<1>2. /\ q \in ProjectRequest /\ q.at = "applyOutcome" /\ q.milestone = m
      /\ q.outcome = request[r].outcome
  <2>1. request[r] \in [at : {"createInspection", "applyOutcome"}, milestone : Milestones,
                        outcome : Outcomes]
    BY <1>1, ProjectRequests DEF ProjectRequest, Idle
  <2>2. q \in [at : {"createInspection", "applyOutcome"}, milestone : Milestones,
               outcome : Outcomes]
    BY <2>1
  <2>3. QED
    BY <2>1, <2>2 DEF ProjectRequest
<1>3. /\ passed \subseteq passed' /\ passed' \subseteq passed \cup {m}
      /\ request[r].outcome = "PASSED" => m \in passed'
      /\ request' = [request EXCEPT ![r] = q]
      /\ UNCHANGED <<project, milestone, late, missed>>
  BY DEF CreateInspection, Go
<1>4. ProjectsTypeOK' /\ VerifiedPassed'
  BY <1>1, <1>3 DEF ProjectsTypeOK, VerifiedPassed
<1>5. /\ request' \in [Requests -> ProjectRequest]
      /\ request'[r] = q /\ \A s \in Requests \ {r} : request'[s] = request[s]
      /\ ProjectPromises'
  <2>1. ProjectPromise(q)'
    BY <1>1, <1>2, <1>3 DEF ProjectPromise
  <2>2. QED
    BY <1>2, <1>3, <2>1, ProjectPromisesStay DEF Begun
<1>6. CompletedIsInspected'
  BY <1>3, InspectedStays
<1>7. FinishedProjectsAreMarked'
  <2>1. \A p \in Projects : AllVerified(p)' <=> AllVerified(p)
    BY <1>3 DEF AllVerified, MilestonesOf
  <2>2. QED
    BY <1>1, <1>3, <1>5, <2>1 DEF CompletionIsEarned, FinishedProjectsAreMarked
<1>8. QED
  BY <1>4, <1>5, <1>6, <1>7 DEF CompletionIsEarned

LEMMA ApplyOutcomeStep ==
  ASSUME ProjectsInv, NEW r \in Requests, ApplyOutcome(r)
  PROVE  ProjectsInv'
<1> USE DEF ProjectsInv
<1> PICK m : m = request[r].milestone
  OBVIOUS
<1>1. /\ request[r].at = "applyOutcome" /\ m \in Milestones /\ milestone[m] # "NONE"
      /\ request[r].outcome = "PASSED" => m \in passed
      /\ project[ProjectOf[m]] # "NONE"
  BY ProjectRequests DEF ApplyOutcome, ProjectPromise, VerifiedPassed
<1>2. CASE request[r].outcome # "PASSED"
  BY <1>1, <1>2, MilestoneStep DEF ApplyOutcome
<1>3. CASE request[r].outcome = "PASSED"
  <2> PICK p, q : p = ProjectOf[m] /\ q = [at |-> "maybeMarkCompleted", project |-> p]
    OBVIOUS
  <2>1. p \in Projects /\ q \in ProjectRequest /\ q.at = "maybeMarkCompleted" /\ q.project = p
    BY <1>1, ProjectsAssumption DEF ProjectRequest
  <2>2. /\ milestone' = [milestone EXCEPT ![m] = "VERIFIED"]
        /\ request' = [request EXCEPT ![r] = q]
        /\ UNCHANGED <<project, passed, late, missed>>
    BY <1>3 DEF ApplyOutcome
  <2>3. milestone'[m] = "VERIFIED" /\ \A n \in Milestones \ {m} : milestone'[n] = milestone[n]
    BY <1>1, <2>2 DEF ProjectsTypeOK
  <2>4. ProjectsTypeOK'
    BY <1>1, <2>2 DEF ProjectsTypeOK
  <2>5. VerifiedPassed'
    BY <1>1, <1>3, <2>2, <2>3 DEF VerifiedPassed
  <2>6. /\ request' \in [Requests -> ProjectRequest]
        /\ request'[r] = q /\ \A s \in Requests \ {r} : request'[s] = request[s]
        /\ ProjectPromises'
    <3>1. ProjectPromise(q)'
      BY <1>1, <2>1, <2>2 DEF ProjectPromise
    <3>2. QED
      BY <1>1, <2>1, <2>2, <2>3, <3>1, ProjectPromisesStay DEF Begun
  <2>7. CompletedIsInspected'
    BY <1>1, <2>2, <2>3, InspectedStays
  <2>8. FinishedProjectsAreMarked'
    <3>1. ASSUME NEW o \in Projects, o # p, AllVerified(o)' PROVE AllVerified(o)
      BY <2>3, <3>1 DEF AllVerified, MilestonesOf
    <3>2. QED
      BY <1>1, <2>1, <2>2, <2>6, <3>1 DEF CompletionIsEarned, FinishedProjectsAreMarked
  <2>9. QED
    BY <2>4, <2>5, <2>6, <2>7, <2>8 DEF CompletionIsEarned
<1>4. QED
  BY <1>2, <1>3
LEMMA MarkCompletedStep ==
  ASSUME ProjectsInv, NEW r \in Requests, MarkCompleted(r)
  PROVE  ProjectsInv'
<1> USE DEF ProjectsInv
<1> PICK p : p = request[r].project
  OBVIOUS
<1>1. /\ request[r].at = "markCompleted" /\ p \in Projects /\ project[p] # "NONE"
      /\ Begun(p) /\ MilestonesOf(p) \subseteq passed \cup late
  BY ProjectRequests DEF MarkCompleted, ProjectPromise
<1>2. /\ project' = [project EXCEPT ![p] = "COMPLETED"]
      /\ UNCHANGED <<milestone, passed, late, missed>>
      /\ Stop(r)
  BY DEF MarkCompleted
<1>3. project'[p] = "COMPLETED" /\ \A o \in Projects \ {p} : project'[o] = project[o]
  BY <1>1, <1>2 DEF ProjectsTypeOK
<1>4. ProjectsTypeOK' /\ VerifiedPassed'
  BY <1>1, <1>2, <1>3, ProjectsAssumption DEF ProjectsTypeOK, VerifiedPassed
<1>5. /\ request' \in [Requests -> ProjectRequest]
      /\ request'[r] = Idle /\ \A s \in Requests \ {r} : request'[s] = request[s]
      /\ ProjectPromises'
  <2>1. ProjectPromise(Idle)'
    BY DEF ProjectPromise, Idle
  <2>2. QED
    BY <1>2, <1>3, <2>1, ProjectRequests, ProjectPromisesStay DEF Stop, Begun
<1>6. CompletedIsInspected'
  BY <1>1, <1>2, <1>3, InspectedStays
<1>7. FinishedProjectsAreMarked'
  <2>1. \A o \in Projects : AllVerified(o)' <=> AllVerified(o)
    BY <1>2 DEF AllVerified, MilestonesOf
  <2>2. QED
    BY <1>1, <1>2, <1>3, <1>5, <2>1 DEF CompletionIsEarned, FinishedProjectsAreMarked
<1>8. QED
  BY <1>4, <1>5, <1>6, <1>7 DEF CompletionIsEarned

LEMMA ProjectsFailStep ==
  ASSUME ProjectsInv, NEW r \in Requests, ProjectsFail(r)
  PROVE  ProjectsInv'
<1> USE DEF ProjectsInv
<1>1. /\ request[r].at \in {"maybeMarkCompleted", "markCompleted"} =>
           request[r].project \in Projects /\ request[r].project \in missed'
      /\ missed \subseteq missed' /\ missed' \subseteq Projects
      /\ UNCHANGED <<project, milestone, passed, late>>
      /\ Stop(r)
  BY ProjectRequests DEF ProjectsFail, Abandon, ProjectPromise, ProjectsTypeOK
<1>2. ProjectsTypeOK' /\ VerifiedPassed'
  BY <1>1 DEF ProjectsTypeOK, VerifiedPassed
<1>3. /\ request' \in [Requests -> ProjectRequest]
      /\ request'[r] = Idle /\ \A s \in Requests \ {r} : request'[s] = request[s]
      /\ ProjectPromises'
  <2>1. ProjectPromise(Idle)'
    BY DEF ProjectPromise, Idle
  <2>2. QED
    BY <1>1, <2>1, ProjectRequests, ProjectPromisesStay DEF Stop, Begun
<1>4. CompletedIsInspected'
  BY <1>1, InspectedStays
<1>5. FinishedProjectsAreMarked'
  <2>1. \A o \in Projects : AllVerified(o)' <=> AllVerified(o)
    BY <1>1 DEF AllVerified, MilestonesOf
  <2>2. QED
    BY <1>1, <1>3, <2>1 DEF CompletionIsEarned, FinishedProjectsAreMarked
<1>6. QED
  BY <1>2, <1>3, <1>4, <1>5 DEF CompletionIsEarned

\* The reads: a request goes on with what it has just read.
LEMMA ReadProjectsStep ==
  ASSUME ProjectsInv, NEW r \in Requests,
         \/ \E p \in Projects : ReadProject(r, p)
         \/ \E m \in Milestones :
              \/ ReadForMilestone(r, m)
              \/ ReadMilestone(r, m)
              \/ \E outcome \in Outcomes : ReadForInspection(r, m, outcome)
         \/ MaybeMarkCompleted(r)
  PROVE  ProjectsInv'
<1> USE DEF ProjectsInv
<1>1. ASSUME NEW p \in Projects, ReadProject(r, p)
      PROVE  ProjectsInv'
  <2>1. PICK at \in {"activate", "suspend", "resume", "cancel"} :
          /\ project[p] # "NONE"
          /\ request[r].at = "idle"
          /\ request' = [request EXCEPT ![r] = [at |-> at, project |-> p]]
          /\ UNCHANGED projectVars
    BY <1>1, ProjectRequests DEF ReadProject, Start
  <2> PICK q : q = [at |-> at, project |-> p]
    OBVIOUS
  <2>2. q \in ProjectRequest
    BY <2>1 DEF ProjectRequest
  <2>3. ProjectPromise(q)
    BY <2>1 DEF ProjectPromise
  <2>4. QED
    BY <2>1, <2>2, <2>3, QuietProjectStep
<1>2. ASSUME NEW m \in Milestones, ReadForMilestone(r, m)
      PROVE  ProjectsInv'
  <2> PICK q : q = [at |-> "addMilestone", milestone |-> m]
    OBVIOUS
  <2>1. q \in ProjectRequest /\ ProjectPromise(q)
    BY <1>2 DEF ProjectRequest, ProjectPromise, ReadForMilestone
  <2>2. QED
    BY <1>2, <2>1, ProjectRequests, QuietProjectStep DEF ReadForMilestone, Start
<1>3. ASSUME NEW m \in Milestones, ReadMilestone(r, m)
      PROVE  ProjectsInv'
  <2>1. PICK at \in {"start", "complete"} :
          /\ milestone[m] # "NONE"
          /\ request[r].at = "idle"
          /\ request' = [request EXCEPT ![r] = [at |-> at, milestone |-> m]]
          /\ UNCHANGED projectVars
    BY <1>3, ProjectRequests DEF ReadMilestone, Start
  <2> PICK q : q = [at |-> at, milestone |-> m]
    OBVIOUS
  <2>2. q \in ProjectRequest /\ ProjectPromise(q)
    BY <2>1 DEF ProjectRequest, ProjectPromise
  <2>3. QED
    BY <2>1, <2>2, QuietProjectStep
<1>4. ASSUME NEW m \in Milestones, NEW outcome \in Outcomes, ReadForInspection(r, m, outcome)
      PROVE  ProjectsInv'
  <2> PICK q : q = [at |-> "createInspection", milestone |-> m, outcome |-> outcome]
    OBVIOUS
  <2>1. q \in ProjectRequest /\ ProjectPromise(q)
    BY <1>4 DEF ProjectRequest, ProjectPromise, ReadForInspection
  <2>2. QED
    BY <1>4, <2>1, ProjectRequests, QuietProjectStep DEF ReadForInspection, Start
<1>5. ASSUME MaybeMarkCompleted(r)
      PROVE  ProjectsInv'
  <2> PICK p, q : p = request[r].project /\ q = [request[r] EXCEPT !.at = "markCompleted"]
    OBVIOUS
  <2>1. /\ request[r].at = "maybeMarkCompleted" /\ p \in Projects /\ project[p] # "NONE"
        /\ UNCHANGED projectVars
    BY <1>5, ProjectRequests DEF MaybeMarkCompleted, ProjectPromise
  <2>2. CASE project[p] = "IN_PROGRESS" /\ AllVerified(p)
    <3>1. q \in ProjectRequest /\ q.at = "markCompleted" /\ q.project = p
      BY <2>1, ProjectRequests DEF ProjectRequest, Idle
    <3>2. Begun(p) /\ MilestonesOf(p) \subseteq passed
      BY <2>2 DEF Begun, AllVerified, MilestonesOf, VerifiedPassed
    <3>3. ProjectPromise(q)
      BY <2>1, <3>1, <3>2 DEF ProjectPromise
    <3>4. QED
      BY <1>5, <2>1, <2>2, <3>1, <3>3, QuietProjectStep DEF MaybeMarkCompleted, Go
  <2>3. CASE ~ (project[p] = "IN_PROGRESS" /\ AllVerified(p))
    BY <1>5, <2>1, <2>3, ProjectRequests, QuietProjectStep DEF MaybeMarkCompleted, Stop
  <2>4. QED
    BY <2>2, <2>3
<1>6. QED
  BY <1>1, <1>2, <1>3, <1>4, <1>5

LEMMA ProjectsStep == ProjectsInv /\ [ProjectsNext]_<<projectVars, request>> => ProjectsInv'
<1> SUFFICES ASSUME ProjectsInv, [ProjectsNext]_<<projectVars, request>> PROVE ProjectsInv'
  OBVIOUS
<1>1. ASSUME NEW r \in Requests, AddMilestone(r) PROVE ProjectsInv'
  <2> PICK m : m = request[r].milestone
    OBVIOUS
  <2>1. /\ request[r].at = "addMilestone" /\ m \in Milestones /\ milestone[m] = "NONE"
        /\ project[ProjectOf[m]] # "NONE"
    BY <1>1, ProjectRequests DEF AddMilestone, ProjectPromise
  <2>2. /\ late \subseteq late' /\ late' \subseteq late \cup {m}
        /\ Begun(ProjectOf[m]) => m \in late'
    BY <1>1 DEF AddMilestone, Begun
  <2>3. QED
    BY <1>1, <2>1, <2>2, MilestoneStep DEF AddMilestone
<1>2. ASSUME NEW r \in Requests, UpdateMilestone(r) PROVE ProjectsInv'
  <2> PICK m : m = request[r].milestone
    OBVIOUS
  <2>1. /\ request[r].at \in {"start", "complete"} /\ m \in Milestones
        /\ milestone[m] # "NONE" /\ project[ProjectOf[m]] # "NONE"
    BY <1>2, ProjectRequests DEF UpdateMilestone, ProjectPromise, ProjectsInv, VerifiedPassed
  <2>2. QED
    BY <1>2, <2>1, MilestoneStep DEF UpdateMilestone
<1>3. CASE UNCHANGED <<projectVars, request>>
  BY <1>3 DEF projectVars, ProjectsInv, ProjectsTypeOK, ProjectPromises, ProjectPromise, Begun,
              MilestonesOf, VerifiedPassed, CompletionIsEarned, CompletedIsInspected,
              FinishedProjectsAreMarked, AllVerified
<1>4. QED
  BY <1>1, <1>2, <1>3, CreateProjectStep, UpdateProjectStep, CreateInspectionStep,
     ApplyOutcomeStep, MarkCompletedStep, ProjectsFailStep, ReadProjectsStep
  DEF ProjectsNext

\* A completed project was inspected, milestone by milestone, and a project
\* whose last milestone is verified is marked, of however many inspections
\* that run at the same time.
THEOREM CompletionsAreEarned == ProjectsSpec => []CompletionIsEarned
<1>1. ProjectsInv => CompletionIsEarned
  BY DEF ProjectsInv
<1>2. QED
  BY <1>1, ProjectsInitInv, ProjectsStep, PTL DEF ProjectsSpec
-----------------------------------------------------------------------------
(* Evidence.                                                               *)

\* The awaits of an upload before its row is inserted: the file is its own.
Uploading == {"putObject", "anchorHash", "createEvidence"}

\* What a request relies on when it goes on from where it waits.
EvidencePromise(q) ==
  /\ q.at # "idle" => q.file \in Files
  /\ q.at \in Uploading => q.content \in Contents /\ evidence[q.file] = None
  /\ q.at \in {"anchorHash", "createEvidence"} => stored[q.file] # None
  /\ q.at = "createEvidence" /\ q.txRef => q.content \in anchored
  /\ q.at \in {"evaluateEvidence", "getObject"} => evidence[q.file] # None

EvidencePromises == \A r \in Requests : EvidencePromise(request[r])

\* A file is one upload's.
UploadsAreSingle ==
  \A r, s \in Requests :
    request[r].at \in Uploading /\ request[s].at \in Uploading /\ r # s =>
      request[r].file # request[s].file

\* Only what has a row is downloaded.
AnswersAreOfRows == answer # None => evidence[answer.file] # None

\* The inductive invariant of EvidenceSpec.
EvidenceInv ==
  /\ EvidenceTypeOK
  /\ request \in [Requests -> EvidenceRequest]
  /\ EvidencePromises
  /\ UploadsAreSingle
  /\ AnswersAreOfRows
  /\ EvidenceIsSound

LEMMA EvidenceInitInv == EvidenceInit /\ HandlersInit => EvidenceInv
<1> SUFFICES ASSUME EvidenceInit, HandlersInit PROVE EvidenceInv
  OBVIOUS
<1> USE DEF EvidenceInit, HandlersInit
<1>1. EvidenceTypeOK
  BY DEF EvidenceTypeOK
<1>2. request \in [Requests -> EvidenceRequest] /\ \A r \in Requests : request[r].at = "idle"
  BY DEF EvidenceRequest, Idle
<1>3. EvidencePromises /\ UploadsAreSingle /\ AnswersAreOfRows
  BY <1>2 DEF EvidencePromises, EvidencePromise, UploadsAreSingle, Uploading, AnswersAreOfRows
<1>4. EvidenceIsSound
  BY DEF EvidenceIsSound, EvidenceIsBacked, DownloadsAreHonest, FarEvidenceIsFlagged
<1>5. QED
  BY <1>1, <1>2, <1>3, <1>4 DEF EvidenceInv

\* What a request carries where it waits.
LEMMA EvidenceRequests ==
  ASSUME EvidenceInv, NEW r \in Requests
  PROVE  /\ request[r] \in EvidenceRequest
         /\ EvidencePromise(request[r])
         /\ Idle \in EvidenceRequest /\ Idle.at = "idle" /\ EvidencePromise(Idle)
         /\ request[r].at \in Uploading => request[r].distance \in Distances
         /\ request[r].at = "createEvidence" => request[r].txRef \in BOOLEAN
BY DEF EvidenceInv, EvidencePromises, EvidencePromise, EvidenceRequest, Idle, Uploading

\* A step that moves one request, on one file if it uploads: what the other
\* requests rely on survives when rows stay, files stay and anchors stay.
LEMMA EvidencePromisesStay ==
  ASSUME EvidenceInv, NEW r \in Requests, NEW q \in EvidenceRequest,
         request' = [request EXCEPT ![r] = q], EvidencePromise(q)',
         \A f \in Files : evidence[f] # None => evidence'[f] # None,
         \A f \in Files : stored[f] # None => stored'[f] # None,
         \A s \in Requests \ {r} :
           request[s].at \in Uploading => evidence'[request[s].file] = evidence[request[s].file],
         anchored \subseteq anchored',
         q.at \in Uploading =>
           \A s \in Requests \ {r} : request[s].at \in Uploading => request[s].file # q.file
  PROVE  /\ request' \in [Requests -> EvidenceRequest]
         /\ request'[r] = q /\ \A s \in Requests \ {r} : request'[s] = request[s]
         /\ EvidencePromises' /\ UploadsAreSingle'
<1>1. /\ request' \in [Requests -> EvidenceRequest]
      /\ request'[r] = q /\ \A s \in Requests \ {r} : request'[s] = request[s]
  BY DEF EvidenceInv
<1>2. ASSUME NEW s \in Requests \ {r} PROVE EvidencePromise(request[s])'
  <2>1. PICK u : u = request[s]
    OBVIOUS
  <2>2. /\ EvidencePromise(u)
        /\ u.at \in Uploading => evidence'[u.file] = evidence[u.file]
    BY <2>1, EvidenceRequests
  <2>3. EvidencePromise(u)'
    BY <2>2 DEF EvidencePromise, Uploading
  <2>4. QED
    BY <1>1, <2>1, <2>3 DEF EvidencePromise
<1>3. EvidencePromises'
  BY <1>1, <1>2 DEF EvidencePromises, EvidencePromise
<1>4. UploadsAreSingle'
  BY <1>1 DEF UploadsAreSingle, EvidenceInv
<1>5. QED
  BY <1>1, <1>3, <1>4

\* Far evidence stays flagged, or about to be, when a request moves that was
\* not to flag it.
LEMMA FlagsStay ==
  ASSUME EvidenceInv, NEW r \in Requests,
         \A s \in Requests \ {r} : request'[s] = request[s],
         UNCHANGED evidence,
         mismatch \subseteq mismatch', unseen \subseteq unseen',
         request[r].at = "evaluateEvidence" =>
           \/ request[r].file \in mismatch' \cup unseen'
           \/ evidence[request[r].file].distance # "far"
  PROVE  FarEvidenceIsFlagged'
<1>1. ASSUME NEW f \in Files, evidence[f] # None, evidence[f].distance = "far",
             f \notin mismatch' \cup unseen'
      PROVE  \E s \in Requests : request'[s].at = "evaluateEvidence" /\ request'[s].file = f
  <2>1. PICK s \in Requests : request[s].at = "evaluateEvidence" /\ request[s].file = f
    BY <1>1 DEF EvidenceInv, EvidenceIsSound, FarEvidenceIsFlagged
  <2>2. s # r
    BY <1>1, <2>1
  <2>3. QED
    BY <2>1, <2>2
<1>2. QED
  BY <1>1 DEF FarEvidenceIsFlagged

\* A step that moves one request and writes no table; files may have been
\* written or damaged, and hashes anchored.
LEMMA QuietEvidenceStep ==
  ASSUME EvidenceInv, UNCHANGED <<evidence, mismatch, unseen, answer>>,
         stored' \in [Files -> Contents \cup {None, "damaged"}],
         \A f \in Files : stored[f] # None => stored'[f] # None,
         anchored \subseteq anchored', anchored' \subseteq Contents,
         NEW r \in Requests, NEW q \in EvidenceRequest,
         request' = [request EXCEPT ![r] = q], EvidencePromise(q)',
         request[r].at # "evaluateEvidence",
         q.at \in Uploading =>
           \A s \in Requests \ {r} : request[s].at \in Uploading => request[s].file # q.file
  PROVE  EvidenceInv'
<1>1. EvidenceTypeOK'
  BY DEF EvidenceInv, EvidenceTypeOK
<1>2. /\ request' \in [Requests -> EvidenceRequest]
      /\ request'[r] = q /\ \A s \in Requests \ {r} : request'[s] = request[s]
      /\ EvidencePromises' /\ UploadsAreSingle'
  BY EvidencePromisesStay
<1>3. AnswersAreOfRows' /\ DownloadsAreHonest'
  BY DEF EvidenceInv, AnswersAreOfRows, EvidenceIsSound, DownloadsAreHonest
<1>4. EvidenceIsBacked'
  BY DEF EvidenceInv, EvidenceIsSound, EvidenceIsBacked
<1>5. FarEvidenceIsFlagged'
  BY <1>2, FlagsStay
<1>6. QED
  BY <1>1, <1>2, <1>3, <1>4, <1>5 DEF EvidenceInv, EvidenceIsSound

LEMMA UploadStep ==
  ASSUME EvidenceInv, NEW r \in Requests, NEW f \in Files, NEW content \in Contents,
         NEW distance \in Distances, Upload(r, f, content, distance)
  PROVE  EvidenceInv'
<1> PICK q : q = [at |-> "putObject", file |-> f, content |-> content, distance |-> distance]
  OBVIOUS
<1>1. q \in EvidenceRequest /\ q.at = "putObject" /\ q.file = f /\ q.content = content
  BY DEF EvidenceRequest
<1>2. UNCHANGED evidenceVars /\ request' = [request EXCEPT ![r] = q] /\ request[r] = Idle
  BY DEF Upload, Start
<1>3. EvidencePromise(q)'
  BY <1>1, <1>2 DEF EvidencePromise, Upload, evidenceVars, Uploading
<1>4. \A s \in Requests \ {r} : request[s].at \in Uploading => request[s].file # q.file
  BY <1>1 DEF Upload, Uploading, Idle
<1>5. request[r].at # "evaluateEvidence"
  BY <1>2 DEF Idle
<1>6. QED
  BY <1>1, <1>2, <1>3, <1>4, <1>5, QuietEvidenceStep DEF evidenceVars, EvidenceInv, EvidenceTypeOK

LEMMA PutObjectStep ==
  ASSUME EvidenceInv, NEW r \in Requests, PutObject(r)
  PROVE  EvidenceInv'
<1> PICK q : q = [request[r] EXCEPT !.at = "anchorHash"]
  OBVIOUS
<1>1. /\ request[r].at = "putObject" /\ EvidencePromise(request[r])
      /\ request[r].file \in Files /\ request[r].content \in Contents
  BY EvidenceRequests DEF PutObject, EvidencePromise, Uploading
<1>2. /\ q \in EvidenceRequest /\ q.at = "anchorHash" /\ q.file = request[r].file
      /\ q.content = request[r].content
  <2>1. request[r] \in [at : {"putObject", "anchorHash"}, file : Files, content : Contents,
                        distance : Distances]
    BY <1>1, EvidenceRequests DEF EvidenceRequest, Idle
  <2>2. q \in [at : {"putObject", "anchorHash"}, file : Files, content : Contents,
               distance : Distances]
    BY <2>1
  <2>3. QED
    BY <2>1, <2>2 DEF EvidenceRequest
<1>3. /\ stored' = [stored EXCEPT ![request[r].file] = request[r].content]
      /\ request' = [request EXCEPT ![r] = q]
      /\ UNCHANGED <<anchored, evidence, mismatch, unseen, answer>>
  BY DEF PutObject, Go
<1>4. /\ stored' \in [Files -> Contents \cup {None, "damaged"}]
      /\ stored'[q.file] # None
      /\ \A f \in Files : stored[f] # None => stored'[f] # None
  BY <1>1, <1>2, <1>3, EvidenceAssumption DEF EvidenceInv, EvidenceTypeOK
<1>5. EvidencePromise(q)'
  BY <1>1, <1>2, <1>3, <1>4 DEF EvidencePromise, Uploading
<1>6. \A s \in Requests \ {r} : request[s].at \in Uploading => request[s].file # q.file
  BY <1>1, <1>2 DEF EvidenceInv, UploadsAreSingle, Uploading
<1>7. QED
  BY <1>1, <1>2, <1>3, <1>4, <1>5, <1>6, QuietEvidenceStep DEF EvidenceInv, EvidenceTypeOK

LEMMA AnchorHashStep ==
  ASSUME EvidenceInv, NEW r \in Requests, AnchorHash(r)
  PROVE  EvidenceInv'
<1>1. /\ request[r].at = "anchorHash" /\ EvidencePromise(request[r])
      /\ request[r].file \in Files /\ request[r].content \in Contents
      /\ request[r].distance \in Distances
  BY EvidenceRequests DEF AnchorHash, EvidencePromise, Uploading
<1>2. PICK committed \in BOOLEAN, txRef \in BOOLEAN :
        /\ txRef => committed
        /\ anchored' = IF committed THEN anchored \cup {request[r].content} ELSE anchored
        /\ request' = [request EXCEPT ![r] =
             [at |-> "createEvidence", file |-> request[r].file, content |-> request[r].content,
              distance |-> request[r].distance, txRef |-> txRef]]
        /\ UNCHANGED <<stored, evidence, mismatch, unseen, answer>>
  BY DEF AnchorHash
<1> PICK q : q = [at |-> "createEvidence", file |-> request[r].file,
                  content |-> request[r].content, distance |-> request[r].distance,
                  txRef |-> txRef]
  OBVIOUS
<1>3. /\ q \in EvidenceRequest /\ q.at = "createEvidence" /\ q.file = request[r].file
      /\ q.content = request[r].content /\ q.txRef = txRef
  BY <1>1 DEF EvidenceRequest
<1>4. anchored \subseteq anchored' /\ anchored' \subseteq Contents
  BY <1>1, <1>2 DEF EvidenceInv, EvidenceTypeOK
<1>5. EvidencePromise(q)'
  BY <1>1, <1>2, <1>3 DEF EvidencePromise, Uploading
<1>6. \A s \in Requests \ {r} : request[s].at \in Uploading => request[s].file # q.file
  BY <1>1, <1>3 DEF EvidenceInv, UploadsAreSingle, Uploading
<1>7. QED
  BY <1>1, <1>2, <1>3, <1>4, <1>5, <1>6, QuietEvidenceStep DEF EvidenceInv, EvidenceTypeOK

LEMMA CreateEvidenceStep ==
  ASSUME EvidenceInv, NEW r \in Requests, CreateEvidence(r)
  PROVE  EvidenceInv'
<1> PICK f, row, q : /\ f = request[r].file
                     /\ row = Uploaded(request[r].content, request[r].txRef, request[r].distance)
                     /\ q = [at |-> "evaluateEvidence", file |-> f]
  OBVIOUS
<1>1. /\ request[r].at = "createEvidence" /\ f \in Files /\ evidence[f] = None
      /\ stored[f] # None /\ row \in EvidenceRow
      /\ row.txRef => row.hash \in anchored
  BY EvidenceRequests DEF CreateEvidence, EvidencePromise, Uploading, Uploaded, EvidenceRow
<1>2. q \in EvidenceRequest /\ q.at = "evaluateEvidence" /\ q.file = f
  BY <1>1 DEF EvidenceRequest
<1>3. /\ evidence' = [evidence EXCEPT ![f] = row]
      /\ request' = [request EXCEPT ![r] = q]
      /\ UNCHANGED <<stored, anchored, mismatch, unseen, answer>>
  BY DEF CreateEvidence
<1>4. row # None
  BY <1>1, EvidenceAssumption DEF EvidenceRow
<1>5. /\ evidence'[f] = row /\ \A g \in Files \ {f} : evidence'[g] = evidence[g]
      /\ evidence' \in [Files -> {None} \cup EvidenceRow]
  BY <1>1, <1>3 DEF EvidenceInv, EvidenceTypeOK, EvidenceRow
<1>6. EvidenceTypeOK'
  BY <1>1, <1>3, <1>4, <1>5 DEF EvidenceInv, EvidenceTypeOK, EvidenceRow
<1>7. /\ request' \in [Requests -> EvidenceRequest]
      /\ request'[r] = q /\ \A s \in Requests \ {r} : request'[s] = request[s]
      /\ EvidencePromises' /\ UploadsAreSingle'
  <2>1. EvidencePromise(q)'
    BY <1>1, <1>2, <1>4, <1>5 DEF EvidencePromise, Uploading
  <2>2. \A s \in Requests \ {r} :
          request[s].at \in Uploading => request[s].file \in Files \ {f}
    BY <1>1, EvidenceRequests DEF EvidenceInv, UploadsAreSingle, Uploading, EvidencePromise
  <2>3. QED
    BY <1>1, <1>2, <1>3, <1>5, <2>1, <2>2, EvidencePromisesStay DEF Uploading
<1>8. AnswersAreOfRows' /\ DownloadsAreHonest'
  BY <1>1, <1>3, <1>5
  DEF EvidenceInv, AnswersAreOfRows, EvidenceIsSound, DownloadsAreHonest, EvidenceTypeOK
<1>9. EvidenceIsBacked'
  BY <1>1, <1>3, <1>5 DEF EvidenceInv, EvidenceIsSound, EvidenceIsBacked
<1>10. FarEvidenceIsFlagged'
  <2>1. ASSUME NEW g \in Files \ {f}, evidence[g] # None, evidence[g].distance = "far",
               g \notin mismatch \cup unseen
        PROVE  \E s \in Requests : request'[s].at = "evaluateEvidence" /\ request'[s].file = g
    <3>1. PICK s \in Requests : request[s].at = "evaluateEvidence" /\ request[s].file = g
      BY <2>1 DEF EvidenceInv, EvidenceIsSound, FarEvidenceIsFlagged
    <3>2. QED
      BY <1>1, <1>7, <3>1
  <2>2. QED
    BY <1>2, <1>3, <1>5, <1>7, <2>1 DEF FarEvidenceIsFlagged
<1>11. QED
  BY <1>6, <1>7, <1>8, <1>9, <1>10 DEF EvidenceInv, EvidenceIsSound

\* A request ends, and writes no row and no file.
LEMMA EvidenceStopStep ==
  ASSUME EvidenceInv, NEW r \in Requests, Stop(r),
         UNCHANGED <<stored, anchored, evidence>>,
         mismatch \subseteq mismatch', unseen \subseteq unseen',
         mismatch' \cup unseen' \subseteq {f \in Files : evidence[f] # None},
         answer' \in {None} \cup [file : Files, content : Contents, hashVerified : BOOLEAN],
         AnswersAreOfRows', DownloadsAreHonest',
         request[r].at = "evaluateEvidence" =>
           \/ request[r].file \in mismatch' \cup unseen'
           \/ evidence[request[r].file].distance # "far"
  PROVE  EvidenceInv'
<1>1. EvidenceTypeOK'
  BY DEF EvidenceInv, EvidenceTypeOK
<1>2. /\ request' \in [Requests -> EvidenceRequest]
      /\ request'[r] = Idle /\ \A s \in Requests \ {r} : request'[s] = request[s]
      /\ EvidencePromises' /\ UploadsAreSingle'
  <2>1. EvidencePromise(Idle)' /\ Idle.at \notin Uploading
    BY DEF EvidencePromise, Idle, Uploading
  <2>2. QED
    BY <2>1, EvidenceRequests, EvidencePromisesStay DEF Stop
<1>3. EvidenceIsBacked'
  BY DEF EvidenceInv, EvidenceIsSound, EvidenceIsBacked
<1>4. FarEvidenceIsFlagged'
  BY <1>2, FlagsStay
<1>5. QED
  BY <1>1, <1>2, <1>3, <1>4 DEF EvidenceInv, EvidenceIsSound

LEMMA EvaluateEvidenceStep ==
  ASSUME EvidenceInv, NEW r \in Requests, EvaluateEvidence(r)
  PROVE  EvidenceInv'
<1> PICK f : f = request[r].file
  OBVIOUS
<1>1. request[r].at = "evaluateEvidence" /\ f \in Files /\ evidence[f] # None
  BY EvidenceRequests DEF EvaluateEvidence, EvidencePromise
<1>2. /\ mismatch \subseteq mismatch' /\ mismatch' \subseteq mismatch \cup {f}
      /\ f \in mismatch' \/ evidence[f].distance # "far"
      /\ UNCHANGED <<stored, anchored, evidence, unseen, answer>>
      /\ Stop(r)
  BY DEF EvaluateEvidence
<1>3. AnswersAreOfRows' /\ DownloadsAreHonest'
  BY <1>2 DEF EvidenceInv, AnswersAreOfRows, EvidenceIsSound, DownloadsAreHonest
<1>4. QED
  BY <1>1, <1>2, <1>3, EvidenceStopStep DEF EvidenceInv, EvidenceTypeOK

LEMMA GetObjectStep ==
  ASSUME EvidenceInv, NEW r \in Requests, GetObject(r)
  PROVE  EvidenceInv'
<1> PICK f : f = request[r].file
  OBVIOUS
<1>1. request[r].at = "getObject" /\ f \in Files /\ evidence[f] # None
  BY EvidenceRequests DEF GetObject, EvidencePromise
<1>2. /\ UNCHANGED <<stored, anchored, evidence, mismatch, unseen>>
      /\ Stop(r)
  BY DEF GetObject
<1>3. CASE stored[f] \in Contents
  <2> PICK a : a = [file |-> f, content |-> stored[f],
                    hashVerified |-> stored[f] = evidence[f].hash]
    OBVIOUS
  <2>1. answer' = a
    BY <1>3 DEF GetObject
  <2>2. /\ a \in [file : Files, content : Contents, hashVerified : BOOLEAN]
        /\ a.file = f
    BY <1>1, <1>3
  <2>3. a.hashVerified => a.content = evidence[f].hash
    BY Zenon
  <2>4. AnswersAreOfRows' /\ DownloadsAreHonest'
    BY <1>1, <1>2, <2>1, <2>2, <2>3 DEF AnswersAreOfRows, DownloadsAreHonest
  <2>5. QED
    BY <1>1, <1>2, <2>1, <2>2, <2>4, EvidenceStopStep DEF EvidenceInv, EvidenceTypeOK
<1>4. CASE stored[f] \notin Contents
  <2>1. answer' = None
    BY <1>4 DEF GetObject
  <2>2. AnswersAreOfRows' /\ DownloadsAreHonest'
    BY <2>1 DEF AnswersAreOfRows, DownloadsAreHonest
  <2>3. QED
    BY <1>1, <1>2, <2>1, <2>2, EvidenceStopStep DEF EvidenceInv, EvidenceTypeOK
<1>5. QED
  BY <1>3, <1>4

LEMMA EvidenceFailsStep ==
  ASSUME EvidenceInv, NEW r \in Requests, EvidenceFails(r)
  PROVE  EvidenceInv'
<1>1. request[r].at = "evaluateEvidence" =>
        request[r].file \in Files /\ evidence[request[r].file] # None
  BY EvidenceRequests DEF EvidencePromise
<1>2. /\ unseen \subseteq unseen'
      /\ unseen' \subseteq unseen \cup {f \in Files : evidence[f] # None}
      /\ request[r].at = "evaluateEvidence" => request[r].file \in unseen'
      /\ UNCHANGED <<stored, anchored, evidence, mismatch, answer>>
      /\ Stop(r)
  BY <1>1 DEF EvidenceFails, Abandon
<1>3. AnswersAreOfRows' /\ DownloadsAreHonest'
  BY <1>2 DEF EvidenceInv, AnswersAreOfRows, EvidenceIsSound, DownloadsAreHonest
<1>4. QED
  BY <1>2, <1>3, EvidenceStopStep DEF EvidenceInv, EvidenceTypeOK

\* The disk: a file that was stored is there, damaged or another's.
LEMMA DiskStep ==
  ASSUME EvidenceInv, NEW f \in Files, NEW g \in Files, Corrupt(f) \/ Swap(f, g)
  PROVE  EvidenceInv'
<1>1. /\ stored' \in [Files -> Contents \cup {None, "damaged"}]
      /\ \A h \in Files : stored[h] # None => stored'[h] # None
      /\ UNCHANGED <<anchored, evidence, mismatch, unseen, answer, request>>
  <2>1. CASE Corrupt(f)
    BY <2>1, EvidenceAssumption DEF Corrupt, EvidenceInv, EvidenceTypeOK
  <2>2. CASE Swap(f, g)
    BY <2>2 DEF Swap, EvidenceInv, EvidenceTypeOK
  <2>3. QED
    BY <2>1, <2>2
<1>2. EvidenceTypeOK'
  BY <1>1 DEF EvidenceInv, EvidenceTypeOK
<1>3. EvidencePromises'
  <2>1. ASSUME NEW s \in Requests PROVE EvidencePromise(request[s])'
    BY <1>1, EvidenceRequests DEF EvidencePromise
  <2>2. QED
    BY <2>1 DEF EvidencePromises
<1>4. EvidenceIsSound'
  BY <1>1 DEF EvidenceInv, EvidenceIsSound, EvidenceIsBacked, DownloadsAreHonest,
              FarEvidenceIsFlagged
<1>5. QED
  BY <1>1, <1>2, <1>3, <1>4 DEF EvidenceInv, UploadsAreSingle, AnswersAreOfRows

LEMMA EvidenceStep == EvidenceInv /\ [EvidenceNext]_<<evidenceVars, request>> => EvidenceInv'
<1> SUFFICES ASSUME EvidenceInv, [EvidenceNext]_<<evidenceVars, request>> PROVE EvidenceInv'
  OBVIOUS
<1>1. ASSUME NEW r \in Requests, NEW f \in Files, ReadForDownload(r, f)
      PROVE  EvidenceInv'
  <2> PICK q : q = [at |-> "getObject", file |-> f]
    OBVIOUS
  <2>1. q \in EvidenceRequest /\ q.at = "getObject" /\ q.file = f
    BY DEF EvidenceRequest
  <2>2. /\ evidence[f] # None /\ UNCHANGED evidenceVars
        /\ request[r] = Idle /\ request' = [request EXCEPT ![r] = q]
    BY <1>1 DEF ReadForDownload, Start
  <2>3. EvidencePromise(q)' /\ q.at \notin Uploading
    BY <2>1, <2>2 DEF EvidencePromise, Uploading, evidenceVars
  <2>4. request[r].at # "evaluateEvidence"
    BY <2>2 DEF Idle
  <2>5. QED
    BY <2>1, <2>2, <2>3, <2>4, QuietEvidenceStep DEF evidenceVars, EvidenceInv, EvidenceTypeOK
<1>2. CASE UNCHANGED <<evidenceVars, request>>
  BY <1>2 DEF evidenceVars, EvidenceInv, EvidenceTypeOK, EvidencePromises, EvidencePromise,
              UploadsAreSingle, AnswersAreOfRows, EvidenceIsSound, EvidenceIsBacked,
              DownloadsAreHonest, FarEvidenceIsFlagged
<1>3. QED
  BY <1>1, <1>2, UploadStep, PutObjectStep, AnchorHashStep, CreateEvidenceStep,
     EvaluateEvidenceStep, GetObjectStep, EvidenceFailsStep, DiskStep
  DEF EvidenceNext

\* Evidence has its file and an anchored hash behind every reference it shows,
\* a download answered as verified is what was uploaded, and evidence from far
\* off is flagged, whatever uploads interleave and whatever becomes of the disk.
THEOREM EvidenceSound == EvidenceSpec => []EvidenceIsSound
<1>1. EvidenceInv => EvidenceIsSound
  BY DEF EvidenceInv
<1>2. QED
  BY <1>1, EvidenceInitInv, EvidenceStep, PTL DEF EvidenceSpec
-----------------------------------------------------------------------------
(* Suppliers.                                                              *)

\* What the requests that have summed the owners are about to add.
InHand == [r \in Requests |-> IF request[r].at = "addOwner" THEN request[r].percentage ELSE 0]

\* Each of them kept to 100 % with the owners that it found, so that owners
\* and requests in hand stay within 100 % a request.
OwnershipInHand ==
  Total(Declared, Owners) + Total(InHand, Requests) <= 100 * Cardinality(Requests)

\* An evaluation is to read the present status, or has read it and is to
\* record it: that others still run is not enough, they may have read another.
StatusIsNoticed ==
  \/ assessed
  \/ unassessed
  \/ \E r \in Requests :
       \/ request[r].at = "evaluateSupplier"
       \/ request[r].at = "createProfile" /\ request[r].status = status

BlacklistIsNoticed ==
  status = "BLACKLISTED" =>
    \/ riskAlert
    \/ unassessed
    \/ \E r \in Requests :
         \/ request[r].at \in {"evaluateSupplier", "raiseAlert"}
         \/ request[r].at = "createProfile" /\ request[r].status = "BLACKLISTED"

\* What was read as blacklisted scores 50 by that alone.
Graded(q) ==
  q.at = "createProfile" /\ q.status = "BLACKLISTED" => q.level \in {"HIGH", "CRITICAL"}

ProfilesAreGraded == \A r \in Requests : Graded(request[r])

\* The inductive invariant of SuppliersSpec.
SuppliersInv ==
  /\ SuppliersTypeOK
  /\ request \in [Requests -> SupplierRequest]
  /\ StatusIsNoticed
  /\ BlacklistIsNoticed
  /\ ProfilesAreGraded
  /\ OwnershipInHand

LEMMA PercentageBounds == \A p \in Percentages : p \in Nat /\ p \in 1..100 /\ p \in 0..100
BY SuppliersAssumption

\* What a request carries where it waits.
LEMMA SupplierRequests ==
  ASSUME SuppliersInv, NEW r \in Requests
  PROVE  /\ request[r] \in SupplierRequest
         /\ Idle \in SupplierRequest /\ Idle.at = "idle" /\ Graded(Idle)
         /\ Graded(request[r])
         /\ request[r].at \in {"verify", "reject"} => request[r].document \in Documents
         /\ request[r].at = "addOwner" =>
              /\ request[r].owner \in Owners
              /\ request[r].percentage \in 1..100 /\ request[r].percentage \in Percentages
              /\ request[r].pep \in BOOLEAN
         /\ request[r].at = "createProfile" => request[r].level \in Levels
<1>1. request[r] \in SupplierRequest /\ Graded(request[r])
  BY DEF SuppliersInv, ProfilesAreGraded
<1>2. Idle \in SupplierRequest /\ Idle.at = "idle" /\ Graded(Idle)
  BY DEF SupplierRequest, Idle, Graded
<1>3. request[r].at = "addOwner" =>
        /\ request[r].owner \in Owners
        /\ request[r].percentage \in Percentages
        /\ request[r].pep \in BOOLEAN
  BY <1>1 DEF SupplierRequest, Idle, StatusWrite
<1>4. /\ request[r].at \in {"verify", "reject"} => request[r].document \in Documents
      /\ request[r].at = "createProfile" => request[r].level \in Levels
  BY <1>1 DEF SupplierRequest, Idle, StatusWrite
<1>5. QED
  BY <1>1, <1>2, <1>3, <1>4, PercentageBounds

\* The amounts that the sums are of.
LEMMA SupplierAmounts ==
  ASSUME SuppliersInv
  PROVE  /\ Declared \in [Owners -> Nat]
         /\ InHand \in [Requests -> Nat]
         /\ \A o \in Owners : Declared[o] <= 100
         /\ \A r \in Requests : InHand[r] <= 100
         /\ Total(Declared, Owners) \in Nat /\ Total(InHand, Requests) \in Nat
         /\ Cardinality(Requests) \in Nat
<1>1. \A o \in Owners : Declared[o] \in 0..100
  <2>1. \A o \in Owners : owner[o] # None => owner[o].percentage \in Percentages
    BY DEF SuppliersInv, SuppliersTypeOK
  <2>2. QED
    BY <2>1, PercentageBounds DEF Declared
<1>2. \A r \in Requests : InHand[r] \in 0..100
  <2>1. \A r \in Requests : request[r].at = "addOwner" => request[r].percentage \in 0..100
    BY SupplierRequests, PercentageBounds
  <2>2. 0 \in 0..100
    OBVIOUS
  <2>3. QED
    BY <2>1, <2>2, Zenon DEF InHand
<1>3. Declared \in [Owners -> Nat] /\ \A o \in Owners : Declared[o] <= 100
  BY <1>1 DEF Declared
<1>4. InHand \in [Requests -> Nat] /\ \A r \in Requests : InHand[r] <= 100
  BY <1>2 DEF InHand
<1>5. Total(Declared, Owners) \in Nat
  BY <1>3, SuppliersAssumption, TotalType
<1>6. Total(InHand, Requests) \in Nat
  BY <1>4, SuppliersAssumption, TotalType
<1>7. QED
  BY <1>3, <1>4, <1>5, <1>6, SuppliersAssumption, FS_CardinalityType

LEMMA SuppliersInitInv == SuppliersInit /\ HandlersInit => SuppliersInv
<1> SUFFICES ASSUME SuppliersInit, HandlersInit PROVE SuppliersInv
  OBVIOUS
<1> USE DEF SuppliersInit, HandlersInit
<1>1. SuppliersTypeOK
  BY DEF SuppliersTypeOK
<1>2. request \in [Requests -> SupplierRequest] /\ \A r \in Requests : request[r].at = "idle"
  BY DEF SupplierRequest, Idle
<1>3. StatusIsNoticed /\ BlacklistIsNoticed /\ ProfilesAreGraded
  BY <1>2 DEF StatusIsNoticed, BlacklistIsNoticed, ProfilesAreGraded, Graded
<1>4. OwnershipInHand
  <2>1. /\ Declared \in [Owners -> Nat] /\ \A o \in Owners : Declared[o] = 0
        /\ InHand \in [Requests -> Nat] /\ \A r \in Requests : InHand[r] = 0
    BY <1>2 DEF Declared, InHand
  <2>2. Total(Declared, Owners) = 0 /\ Total(InHand, Requests) = 0
    BY <2>1, TotalZero
  <2>3. Cardinality(Requests) \in Nat
    BY SuppliersAssumption, FS_CardinalityType
  <2>4. QED
    BY <2>2, <2>3 DEF OwnershipInHand
<1>5. QED
  BY <1>1, <1>2, <1>3, <1>4 DEF SuppliersInv

LEMMA DeclaredType == SuppliersTypeOK' => Declared' \in [Owners -> Nat]
<1>1. SuppliersTypeOK' =>
        \A o \in Owners : owner'[o] # None => owner'[o].percentage \in Percentages
  BY DEF SuppliersTypeOK
<1>2. QED
  BY <1>1, PercentageBounds DEF Declared

\* What one request has in hand moves the sum of all.
LEMMA InHandMoves ==
  ASSUME SuppliersInv, SuppliersTypeOK', NEW r \in Requests, NEW q \in SupplierRequest,
         request' = [request EXCEPT ![r] = q]
  PROVE  /\ request' \in [Requests -> SupplierRequest]
         /\ request'[r] = q /\ \A s \in Requests \ {r} : request'[s] = request[s]
         /\ Declared' \in [Owners -> Nat]
         /\ InHand' \in [Requests -> Nat]
         /\ Total(InHand', Requests) = Total(InHand, Requests) - InHand[r] + InHand'[r]
         /\ Total(InHand', Requests) \in Nat /\ Total(Declared', Owners) \in Nat
<1>1. /\ request' \in [Requests -> SupplierRequest]
      /\ request'[r] = q /\ \A s \in Requests \ {r} : request'[s] = request[s]
  BY DEF SuppliersInv
<1>2. Declared' \in [Owners -> Nat]
  BY DeclaredType
<1>3. q.at = "addOwner" => q.percentage \in Nat
  <2>1. q.at = "addOwner" => q.percentage \in Percentages
    BY DEF SupplierRequest, Idle, StatusWrite
  <2>2. QED
    BY <2>1, PercentageBounds
<1>4. InHand' \in [Requests -> Nat]
  BY <1>1, <1>3, SupplierRequests DEF InHand
<1>5. \A s \in Requests \ {r} : InHand'[s] = InHand[s]
  BY <1>1 DEF InHand
<1>6. Total(InHand', Requests) = Total(InHand, Requests) - InHand[r] + InHand'[r]
  BY <1>4, <1>5, SupplierAmounts, SuppliersAssumption, TotalPost
<1>7. QED
  BY <1>1, <1>2, <1>4, <1>6, SuppliersAssumption, TotalType

\* A step after which owners and the request that moved have no more than
\* they had.
LEMMA OwnershipStays ==
  ASSUME SuppliersInv, SuppliersTypeOK', NEW r \in Requests, NEW q \in SupplierRequest,
         request' = [request EXCEPT ![r] = q], q.at # "addOwner",
         Total(Declared', Owners) <= Total(Declared, Owners) + InHand[r]
  PROVE  OwnershipInHand'
<1>1. InHand'[r] = 0
  BY InHandMoves DEF InHand
<1>2. /\ InHand[r] \in Nat /\ Total(InHand, Requests) \in Nat /\ Total(Declared, Owners) \in Nat
      /\ Cardinality(Requests) \in Nat
  BY SupplierAmounts
<1>3. /\ Total(InHand', Requests) = Total(InHand, Requests) - InHand[r] + InHand'[r]
      /\ Total(InHand', Requests) \in Nat /\ Total(Declared', Owners) \in Nat
  BY InHandMoves
<1>4. Total(Declared, Owners) + Total(InHand, Requests) <= 100 * Cardinality(Requests)
  BY DEF SuppliersInv, OwnershipInHand
<1>5. Total(Declared', Owners) + Total(InHand', Requests) <= 100 * Cardinality(Requests)
  BY <1>1, <1>2, <1>3, <1>4
<1>6. QED
  BY <1>5 DEF OwnershipInHand

\* A step that leaves the status, with what the request that moved leaves to
\* be noticed.
LEMMA NoticesStay ==
  ASSUME SuppliersInv, UNCHANGED status,
         assessed => assessed', unassessed => unassessed', riskAlert => riskAlert',
         NEW r \in Requests, NEW q \in SupplierRequest,
         request' = [request EXCEPT ![r] = q], Graded(q),
         request[r].at = "evaluateSupplier" =>
           unassessed' \/ (q.at = "createProfile" /\ q.status = status),
         request[r].at = "createProfile" =>
           \/ unassessed'
           \/ /\ request[r].status = status => assessed'
              /\ request[r].status = "BLACKLISTED" => q.at = "raiseAlert",
         request[r].at = "raiseAlert" => unassessed' \/ riskAlert'
  PROVE  StatusIsNoticed' /\ BlacklistIsNoticed' /\ ProfilesAreGraded'
<1>1. request'[r] = q /\ \A s \in Requests \ {r} : request'[s] = request[s]
  BY DEF SuppliersInv
<1>2. StatusIsNoticed'
  <2>1. CASE assessed' \/ unassessed'
    BY <2>1 DEF StatusIsNoticed
  <2>2. CASE ~ assessed' /\ ~ unassessed'
    <3>1. PICK s \in Requests :
            \/ request[s].at = "evaluateSupplier"
            \/ request[s].at = "createProfile" /\ request[s].status = status
      BY <2>2 DEF SuppliersInv, StatusIsNoticed
    <3>2. CASE s = r
      BY <1>1, <2>2, <3>1, <3>2 DEF StatusIsNoticed
    <3>3. CASE s # r
      BY <1>1, <3>1, <3>3 DEF StatusIsNoticed
    <3>4. QED
      BY <3>2, <3>3
  <2>3. QED
    BY <2>1, <2>2
<1>3. BlacklistIsNoticed'
  <2>1. CASE status # "BLACKLISTED" \/ riskAlert' \/ unassessed'
    BY <2>1 DEF BlacklistIsNoticed
  <2>2. CASE status = "BLACKLISTED" /\ ~ riskAlert' /\ ~ unassessed'
    <3>1. PICK s \in Requests :
            \/ request[s].at \in {"evaluateSupplier", "raiseAlert"}
            \/ request[s].at = "createProfile" /\ request[s].status = "BLACKLISTED"
      BY <2>2 DEF SuppliersInv, BlacklistIsNoticed
    <3>2. CASE s = r
      BY <1>1, <2>2, <3>1, <3>2 DEF BlacklistIsNoticed
    <3>3. CASE s # r
      BY <1>1, <3>1, <3>3 DEF BlacklistIsNoticed
    <3>4. QED
      BY <3>2, <3>3
  <2>3. QED
    BY <2>1, <2>2
<1>4. ProfilesAreGraded'
  BY <1>1 DEF SuppliersInv, ProfilesAreGraded, Graded
<1>5. QED
  BY <1>2, <1>3, <1>4

\* A step of a request that neither was nor is noticing a status.
LEMMA QuietSupplierStep ==
  ASSUME SuppliersInv, SuppliersTypeOK', UNCHANGED <<status, assessed, unassessed, riskAlert>>,
         NEW r \in Requests, NEW q \in SupplierRequest,
         request' = [request EXCEPT ![r] = q], q.at # "addOwner",
         q.at # "createProfile",
         request[r].at \notin {"evaluateSupplier", "createProfile", "raiseAlert"},
         Total(Declared', Owners) <= Total(Declared, Owners) + InHand[r]
  PROVE  SuppliersInv'
<1>1. StatusIsNoticed' /\ BlacklistIsNoticed' /\ ProfilesAreGraded'
  <2>1. Graded(q)
    BY DEF Graded
  <2>2. QED
    BY <2>1, NoticesStay
<1>2. OwnershipInHand'
  BY OwnershipStays
<1>3. QED
  BY <1>1, <1>2, InHandMoves DEF SuppliersInv

\* Nobody's percentage changed.
LEMMA OwnersKeep ==
  ASSUME SuppliersInv, NEW r \in Requests, UNCHANGED owner
  PROVE  Total(Declared', Owners) <= Total(Declared, Owners) + InHand[r]
<1>1. Declared' = Declared
  BY DEF Declared
<1>2. QED
  BY <1>1, SupplierAmounts

LEMMA UpdateStatusStep ==
  ASSUME SuppliersInv, NEW r \in Requests, UpdateStatus(r)
  PROVE  SuppliersInv'
<1> PICK q : q = [at |-> "evaluateSupplier"]
  OBVIOUS
<1>1. q \in SupplierRequest /\ q.at = "evaluateSupplier" /\ Graded(q)
  BY DEF SupplierRequest, Graded
<1>2. /\ status' \in {"ACTIVE", "SUSPENDED", "BLACKLISTED"}
      /\ request' = [request EXCEPT ![r] = q]
      /\ assessed' = FALSE
      /\ UNCHANGED <<owner, document, expired, riskAlert, unassessed>>
  BY DEF UpdateStatus, StatusWrite
<1>3. SuppliersTypeOK'
  BY <1>2 DEF SuppliersInv, SuppliersTypeOK
<1>4. /\ request' \in [Requests -> SupplierRequest]
      /\ request'[r] = q /\ \A s \in Requests \ {r} : request'[s] = request[s]
  BY <1>1, <1>2 DEF SuppliersInv
<1>5. StatusIsNoticed' /\ BlacklistIsNoticed'
  BY <1>1, <1>4 DEF StatusIsNoticed, BlacklistIsNoticed
<1>6. ProfilesAreGraded'
  BY <1>1, <1>4 DEF SuppliersInv, ProfilesAreGraded, Graded
<1>7. OwnershipInHand'
  BY <1>1, <1>2, <1>3, OwnersKeep, OwnershipStays
<1>8. QED
  BY <1>3, <1>4, <1>5, <1>6, <1>7 DEF SuppliersInv

\* The others have in hand 100 % each at most, and this one and the owners
\* 100 % together.
LEMMA SumOwnershipStep ==
  ASSUME SuppliersInv, NEW r \in Requests, NEW o \in Owners, NEW percentage \in Percentages,
         NEW pep \in BOOLEAN, SumOwnership(r, o, percentage, pep)
  PROVE  SuppliersInv'
<1> PICK q : q = [at |-> "addOwner", owner |-> o, percentage |-> percentage, pep |-> pep]
  OBVIOUS
<1>1. q \in SupplierRequest /\ q.at = "addOwner" /\ q.percentage = percentage /\ Graded(q)
  BY DEF SupplierRequest, Graded
<1>2. /\ request' = [request EXCEPT ![r] = q]
      /\ request[r].at = "idle"
      /\ Total(Declared, Owners) + percentage <= 100
      /\ UNCHANGED supplierVars
  BY DEF SumOwnership, Start, Idle, Owned
<1>3. SuppliersTypeOK'
  BY <1>2 DEF SuppliersInv, SuppliersTypeOK, supplierVars
<1>4. StatusIsNoticed' /\ BlacklistIsNoticed' /\ ProfilesAreGraded'
  BY <1>1, <1>2, NoticesStay DEF supplierVars
<1>5. OwnershipInHand'
  <2>1. Declared' = Declared
    BY <1>2 DEF Declared, supplierVars
  <2>2. /\ InHand' \in [Requests -> Nat]
        /\ InHand'[r] = percentage
        /\ \A s \in Requests \ {r} : InHand'[s] = InHand[s]
    BY <1>1, <1>2, <1>3, InHandMoves DEF InHand
  <2>3. Total(InHand', Requests) = Total(InHand', Requests \ {r}) + percentage
    BY <2>2, TotalSplit, SuppliersAssumption
  <2>4. Total(InHand', Requests \ {r}) <= (Cardinality(Requests) - 1) * 100
    <3> DEFINE Others == Requests \ {r}
               g == [s \in Others |-> InHand'[s]]
    <3>1. IsFiniteSet(Others) /\ Cardinality(Others) = Cardinality(Requests) - 1
      BY SuppliersAssumption, FS_RemoveElement
    <3>2. g \in [Others -> Nat] /\ \A s \in Others : g[s] <= 100
      BY <2>2, SupplierAmounts
    <3>3. Total(g, Others) <= Cardinality(Others) * 100
      <4> HIDE DEF g, Others
      <4>1. QED
        BY <3>1, <3>2, TotalBounded
    <3>4. Cents(g, Others) = Cents(InHand', Others)
      BY DEF Cents
    <3>5. QED
      BY <3>1, <3>3, <3>4 DEF Total
  <2>5. percentage \in Nat /\ Total(InHand', Requests \ {r}) \in Nat
    BY <2>2, TotalSplit, SuppliersAssumption
  <2>6. Total(Declared', Owners) + Total(InHand', Requests) <= 100 * Cardinality(Requests)
    BY <1>2, <2>1, <2>3, <2>4, <2>5, SupplierAmounts
  <2>7. QED
    BY <2>6 DEF OwnershipInHand
<1>6. QED
  BY <1>1, <1>2, <1>3, <1>4, <1>5, InHandMoves DEF SuppliersInv

LEMMA AddOwnerStep ==
  ASSUME SuppliersInv, NEW r \in Requests, AddOwner(r)
  PROVE  SuppliersInv'
<1> PICK o, row : /\ o = request[r].owner
                  /\ row = [percentage |-> request[r].percentage, pep |-> request[r].pep]
  OBVIOUS
<1>1. /\ request[r].at = "addOwner" /\ o \in Owners /\ request[r].percentage \in 1..100
      /\ row \in [percentage : Percentages, pep : BOOLEAN]
      /\ row.percentage = request[r].percentage
  BY SupplierRequests DEF AddOwner
<1>2. /\ owner' = [owner EXCEPT ![o] = row]
      /\ UNCHANGED <<status, document, expired, assessed, riskAlert, unassessed>>
  BY DEF AddOwner
<1>3. PICK q \in SupplierRequest : /\ request' = [request EXCEPT ![r] = q]
                                   /\ q.at \in {"idle", "evaluateSupplier"}
  <2>1. [at |-> "evaluateSupplier"] \in SupplierRequest
    BY DEF SupplierRequest
  <2>2. QED
    BY <2>1, SupplierRequests DEF AddOwner, Stop
<1>4. SuppliersTypeOK'
  BY <1>1, <1>2 DEF SuppliersInv, SuppliersTypeOK
<1>5. Total(Declared', Owners) <= Total(Declared, Owners) + InHand[r]
  <2>1. /\ Declared' \in [Owners -> Nat]
        /\ \A p \in Owners \ {o} : Declared'[p] = Declared[p]
        /\ Declared'[o] \in {0, request[r].percentage}
    BY <1>1, <1>2, <1>3, <1>4, InHandMoves DEF Declared, SuppliersInv, SuppliersTypeOK
  <2>2. Total(Declared', Owners) = Total(Declared, Owners) - Declared[o] + Declared'[o]
    BY <1>1, <2>1, SupplierAmounts, SuppliersAssumption, TotalPost
  <2>3. InHand[r] = request[r].percentage /\ Declared[o] \in Nat
    BY <1>1, SupplierAmounts DEF InHand
  <2>4. QED
    BY <1>1, <2>1, <2>2, <2>3, SupplierAmounts
<1>6. QED
  BY <1>1, <1>2, <1>3, <1>4, <1>5, QuietSupplierStep

\* No request moves.
LEMMA RowsOnlyStep ==
  ASSUME SuppliersInv, SuppliersTypeOK', UNCHANGED <<status, assessed, riskAlert, unassessed, request>>,
         Total(Declared', Owners) <= Total(Declared, Owners)
  PROVE  SuppliersInv'
<1>1. InHand' = InHand
  BY DEF InHand
<1>2. Total(Declared', Owners) \in Nat
  <2>1. Declared' \in [Owners -> Nat]
    BY DeclaredType
  <2>2. QED
    BY <2>1, SuppliersAssumption, TotalType
<1>3. OwnershipInHand'
  <2>1. Total(Declared', Owners) + Total(InHand', Requests) <= 100 * Cardinality(Requests)
    BY <1>1, <1>2, SupplierAmounts DEF SuppliersInv, OwnershipInHand
  <2>2. QED
    BY <2>1 DEF OwnershipInHand
<1>4. QED
  BY <1>3 DEF SuppliersInv, StatusIsNoticed, BlacklistIsNoticed, ProfilesAreGraded, Graded

LEMMA RemoveOwnerStep ==
  ASSUME SuppliersInv, NEW o \in Owners, RemoveOwner(o)
  PROVE  SuppliersInv'
<1>1. /\ owner' = [owner EXCEPT ![o] = None]
      /\ UNCHANGED <<status, document, expired, assessed, riskAlert, unassessed, request>>
  BY DEF RemoveOwner
<1>2. SuppliersTypeOK'
  BY <1>1 DEF SuppliersInv, SuppliersTypeOK
<1>3. /\ Declared' \in [Owners -> Nat]
      /\ \A p \in Owners \ {o} : Declared'[p] = Declared[p]
      /\ Declared'[o] = 0
  BY <1>1, SupplierAmounts DEF Declared, SuppliersInv, SuppliersTypeOK
<1>4. Total(Declared', Owners) = Total(Declared, Owners) - Declared[o] + Declared'[o]
  BY <1>3, SupplierAmounts, SuppliersAssumption, TotalPost
<1>5. Total(Declared', Owners) <= Total(Declared, Owners)
  <2>1. Declared[o] \in Nat
    BY SupplierAmounts
  <2>2. QED
    BY <1>3, <1>4, <2>1, SupplierAmounts
<1>6. QED
  BY <1>1, <1>2, <1>5, RowsOnlyStep

\* A blacklisted supplier scores at least 50.
LEMMA BlacklistedScores ==
  ASSUME SuppliersTypeOK
  PROVE  /\ RiskLevel \in Levels
         /\ status = "BLACKLISTED" => RiskLevel \in {"HIGH", "CRITICAL"}
<1> DEFINE P == {o \in Owners : owner[o] # None /\ owner[o].pep}
           D == {d \in Documents : document[d] = "REJECTED"}
           X == {d \in expired : document[d] = "VERIFIED"}
<1>1. Cardinality(P) \in Nat /\ Cardinality(D) \in Nat /\ Cardinality(X) \in Nat
  <2>1. P \in SUBSET Owners /\ D \in SUBSET Documents /\ X \in SUBSET Documents
    BY DEF SuppliersTypeOK
  <2>2. QED
    BY <2>1, SuppliersAssumption, FS_Subset, FS_CardinalityType
<1> HIDE DEF P, D, X
<1>2. RawScore \in Nat /\ (status = "BLACKLISTED" => RawScore >= 50)
  <2>1. RawScore = 40 * Cardinality(P) + 15 * Cardinality(D) + 10 * Cardinality(X)
                   + IF status = "SUSPENDED" THEN 20 ELSE IF status = "BLACKLISTED" THEN 50 ELSE 0
    BY DEF RawScore, P, D, X
  <2>2. QED
    BY <1>1, <2>1
<1>3. Score \in {100, RawScore}
  <2>1. \E x \in {100, RawScore} : \A y \in {100, RawScore} : x <= y
    BY <1>2
  <2>2. QED
    BY <2>1 DEF Score, Min
<1>4. QED
  BY <1>2, <1>3 DEF RiskLevel, Levels

LEMMA EvaluateSupplierStep ==
  ASSUME SuppliersInv, NEW r \in Requests, EvaluateSupplier(r)
  PROVE  SuppliersInv'
<1> PICK q : q = [at |-> "createProfile", status |-> status, level |-> RiskLevel]
  OBVIOUS
<1>1. /\ q \in SupplierRequest /\ q.at = "createProfile" /\ q.status = status
      /\ q.level = RiskLevel
  BY BlacklistedScores DEF SupplierRequest, SuppliersInv, SuppliersTypeOK
<1>2. Graded(q)
  BY <1>1, BlacklistedScores DEF Graded, SuppliersInv
<1>3. /\ request[r].at = "evaluateSupplier"
      /\ request' = [request EXCEPT ![r] = q]
      /\ UNCHANGED supplierVars
  BY DEF EvaluateSupplier
<1>4. SuppliersTypeOK'
  BY <1>3 DEF SuppliersInv, SuppliersTypeOK, supplierVars
<1>5. StatusIsNoticed' /\ BlacklistIsNoticed' /\ ProfilesAreGraded'
  BY <1>1, <1>2, <1>3, NoticesStay DEF supplierVars
<1>6. OwnershipInHand'
  BY <1>1, <1>3, <1>4, OwnersKeep, OwnershipStays DEF supplierVars
<1>7. QED
  BY <1>1, <1>3, <1>4, <1>5, <1>6, InHandMoves DEF SuppliersInv

LEMMA CreateProfileStep ==
  ASSUME SuppliersInv, NEW r \in Requests, CreateProfile(r)
  PROVE  SuppliersInv'
<1>1. /\ request[r].at = "createProfile"
      /\ assessed' = (assessed \/ request[r].status = status)
      /\ UNCHANGED <<status, owner, document, expired, riskAlert, unassessed>>
  BY DEF CreateProfile
<1>2. PICK q \in SupplierRequest :
        /\ request' = [request EXCEPT ![r] = q]
        /\ q.at \in {"idle", "raiseAlert"}
        /\ request[r].level \in {"HIGH", "CRITICAL"} => q.at = "raiseAlert"
  <2>1. [at |-> "raiseAlert"] \in SupplierRequest
    BY DEF SupplierRequest
  <2>2. QED
    BY <2>1, SupplierRequests DEF CreateProfile, Stop
<1>3. SuppliersTypeOK'
  BY <1>1 DEF SuppliersInv, SuppliersTypeOK
<1>4. request[r].status = "BLACKLISTED" => q.at = "raiseAlert"
  BY <1>1, <1>2, SupplierRequests DEF Graded
<1>5. Graded(q)
  BY <1>2 DEF Graded
<1>6. (assessed => assessed') /\ (request[r].status = status => assessed')
  BY <1>1
<1>7. StatusIsNoticed' /\ BlacklistIsNoticed' /\ ProfilesAreGraded'
  BY <1>1, <1>2, <1>4, <1>5, <1>6, NoticesStay
<1>8. OwnershipInHand'
  BY <1>1, <1>2, <1>3, OwnersKeep, OwnershipStays
<1>9. QED
  BY <1>2, <1>3, <1>7, <1>8, InHandMoves DEF SuppliersInv

\* The last await of an evaluation, and a request that ends early.
LEMMA SupplierStopStep ==
  ASSUME SuppliersInv, NEW r \in Requests, RaiseRiskAlert(r) \/ SuppliersFail(r)
  PROVE  SuppliersInv'
<1>1. /\ request' = [request EXCEPT ![r] = Idle]
      /\ UNCHANGED <<status, owner, document, expired, assessed>>
      /\ riskAlert => riskAlert'
      /\ unassessed => unassessed'
      /\ riskAlert' \in BOOLEAN /\ unassessed' \in BOOLEAN
  BY DEF RaiseRiskAlert, SuppliersFail, Abandon, Stop, SuppliersInv, SuppliersTypeOK
<1>2. /\ request[r].at \in {"evaluateSupplier", "createProfile"} => unassessed'
      /\ request[r].at = "raiseAlert" => unassessed' \/ riskAlert'
  BY DEF RaiseRiskAlert, SuppliersFail
<1>3. SuppliersTypeOK'
  BY <1>1 DEF SuppliersInv, SuppliersTypeOK
<1>4. StatusIsNoticed' /\ BlacklistIsNoticed' /\ ProfilesAreGraded'
  BY <1>1, <1>2, SupplierRequests, NoticesStay
<1>5. OwnershipInHand'
  BY <1>1, <1>3, SupplierRequests, OwnersKeep, OwnershipStays
<1>6. QED
  BY <1>1, <1>3, <1>4, <1>5, SupplierRequests, InHandMoves DEF SuppliersInv

LEMMA UpdateDocumentStep ==
  ASSUME SuppliersInv, NEW r \in Requests, UpdateDocument(r)
  PROVE  SuppliersInv'
<1>1. /\ request[r].at \in {"verify", "reject"} /\ request[r].document \in Documents
      /\ UNCHANGED <<status, owner, expired, assessed, riskAlert, unassessed>>
  BY SupplierRequests DEF UpdateDocument
<1>2. PICK q \in SupplierRequest : /\ request' = [request EXCEPT ![r] = q]
                                   /\ q.at \in {"idle", "evaluateSupplier"}
  <2>1. [at |-> "evaluateSupplier"] \in SupplierRequest
    BY DEF SupplierRequest
  <2>2. QED
    BY <2>1, SupplierRequests DEF UpdateDocument, Stop
<1>3. SuppliersTypeOK'
  BY <1>1 DEF UpdateDocument, SuppliersInv, SuppliersTypeOK
<1>4. QED
  BY <1>1, <1>2, <1>3, OwnersKeep, QuietSupplierStep

\* The reads of a status and of a document.
LEMMA ReadForSupplierStep ==
  ASSUME SuppliersInv, NEW r \in Requests,
         ReadSupplier(r) \/ \E d \in Documents : ReadDocument(r, d)
  PROVE  SuppliersInv'
<1>1. PICK q \in SupplierRequest :
        /\ request' = [request EXCEPT ![r] = q]
        /\ q.at \in StatusWrite \cup {"verify", "reject"}
        /\ request[r] = Idle
        /\ UNCHANGED supplierVars
  <2>1. CASE ReadSupplier(r)
    <3>1. PICK at \in StatusWrite : /\ request' = [request EXCEPT ![r] = [at |-> at]]
                                    /\ request[r] = Idle
                                    /\ UNCHANGED supplierVars
      BY <2>1 DEF ReadSupplier, Start, StatusWrite
    <3>2. [at |-> at] \in SupplierRequest
      BY DEF SupplierRequest
    <3>3. QED
      BY <3>1, <3>2
  <2>2. ASSUME NEW d \in Documents, ReadDocument(r, d)
        PROVE  \E q \in SupplierRequest :
                 /\ request' = [request EXCEPT ![r] = q]
                 /\ q.at \in StatusWrite \cup {"verify", "reject"}
                 /\ request[r] = Idle
                 /\ UNCHANGED supplierVars
    <3>1. PICK at \in {"verify", "reject"} :
            /\ request' = [request EXCEPT ![r] = [at |-> at, document |-> d]]
            /\ request[r] = Idle
            /\ UNCHANGED supplierVars
      BY <2>2 DEF ReadDocument, Start
    <3>2. [at |-> at, document |-> d] \in SupplierRequest
      BY DEF SupplierRequest
    <3>3. QED
      BY <3>1, <3>2
  <2>3. QED
    BY <2>1, <2>2
<1>2. request[r].at = "idle" /\ q.at \notin {"addOwner", "createProfile"}
  BY <1>1 DEF Idle, StatusWrite
<1>3. SuppliersTypeOK'
  BY <1>1 DEF SuppliersInv, SuppliersTypeOK, supplierVars
<1>4. QED
  BY <1>1, <1>2, <1>3, OwnersKeep, QuietSupplierStep DEF supplierVars

LEMMA SuppliersStep == SuppliersInv /\ [SuppliersNext]_<<supplierVars, request>> => SuppliersInv'
<1> SUFFICES ASSUME SuppliersInv, [SuppliersNext]_<<supplierVars, request>> PROVE SuppliersInv'
  OBVIOUS
<1>1. ASSUME NEW d \in Documents, UploadDocument(d) \/ Expire(d) PROVE SuppliersInv'
  <2>1. UNCHANGED <<status, owner, assessed, riskAlert, unassessed, request>>
    BY <1>1 DEF UploadDocument, Expire
  <2>2. SuppliersTypeOK'
    BY <1>1 DEF UploadDocument, Expire, SuppliersInv, SuppliersTypeOK
  <2>3. Declared' = Declared
    BY <2>1 DEF Declared
  <2>4. QED
    BY <2>1, <2>2, <2>3, SupplierAmounts, RowsOnlyStep
<1>2. CASE UNCHANGED <<supplierVars, request>>
  <2>1. SuppliersTypeOK' /\ Declared' = Declared
    BY <1>2 DEF supplierVars, SuppliersInv, SuppliersTypeOK, Declared
  <2>2. QED
    BY <1>2, <2>1, SupplierAmounts, RowsOnlyStep DEF supplierVars
<1>3. QED
  BY <1>1, <1>2, UpdateStatusStep, SumOwnershipStep, AddOwnerStep, RemoveOwnerStep,
     EvaluateSupplierStep, CreateProfileStep, SupplierStopStep, UpdateDocumentStep,
     ReadForSupplierStep
  DEF SuppliersNext

\* Owners that are added at the same time stay within 100 % a request, however
\* many overlap, and the status a supplier ends up with was assessed, with an
\* alert if it is BLACKLISTED.
THEOREM SuppliersVetted == SuppliersSpec => []SuppliersAreVetted
<1>1. SuppliersInv => SuppliersAreVetted
  <2> SUFFICES ASSUME SuppliersInv PROVE SuppliersAreVetted
    OBVIOUS
  <2>1. OwnershipIsBounded
    BY SupplierAmounts DEF SuppliersInv, OwnershipInHand, OwnershipIsBounded, Owned
  <2>2. EveryStatusIsAssessed
    BY DEF SuppliersInv, StatusIsNoticed, EveryStatusIsAssessed, Evaluating
  <2>3. BlacklistedIsAlerted
    BY DEF SuppliersInv, BlacklistIsNoticed, BlacklistedIsAlerted, Evaluating
  <2>4. QED
    BY <2>1, <2>2, <2>3 DEF SuppliersAreVetted
<1>2. QED
  BY <1>1, SuppliersInitInv, SuppliersStep, PTL DEF SuppliersSpec
-----------------------------------------------------------------------------
(* Contracts, orders and invoices.                                         *)

\* Finitely many natural numbers have a largest one.
LEMMA MaxOfFinite ==
  ASSUME NEW S \in SUBSET Nat, IsFiniteSet(S), S # {}
  PROVE  Max(S) \in S /\ \A y \in S : Max(S) >= y
<1>1. \E x \in S : \A y \in S : x >= y
  BY LargestExists
<1>2. QED
  BY <1>1 DEF Max

Largest == Max({Billed[i] : i \in Invoices})

LEMMA LargestBill == Largest \in Nat /\ \A i \in Invoices : Billed[i] \in Nat /\ Billed[i] <= Largest
<1> DEFINE S == {Billed[i] : i \in Invoices}
<1>1. S \in SUBSET Nat /\ S # {}
  BY ContractsAssumption
<1>2. IsFiniteSet(S)
  <2>1. Billed \in Surjection(Invoices, S)
    BY ContractsAssumption DEF Surjection
  <2>2. QED
    BY <2>1, ContractsAssumption, FS_Surjection
<1>3. Max(S) \in S /\ \A y \in S : Max(S) >= y
  <2> HIDE DEF S
  <2>1. QED
    BY <1>1, <1>2, MaxOfFinite
<1>4. QED
  BY <1>1, <1>3, ContractsAssumption DEF Largest

\* What a request relies on when it goes on from where it waits: a contract
\* stays signed, an order issued, and no row disappears.
ContractPromise(q) ==
  /\ q.at \in {"createContract", "activate", "complete", "terminate"} => q.award \in Awards
  /\ q.at \in {"createOrder", "issue", "cancelOrder"} => q.order \in Orders
  /\ q.at = "createOrder" => contract[AwardOf[q.order]].signed
  /\ q.at \in {"issue", "cancelOrder"} => order[q.order].status # "NONE"
  /\ q.at \in {"sumInvoiced", "createInvoice"} =>
       q.invoice \in Invoices /\ order[OrderOf[q.invoice]].issued
  /\ q.at \in {"evaluateInvoice", "raiseAlert", "verify", "reject"} =>
       q.invoice \in Invoices /\ invoice[q.invoice] # "NONE"

ContractPromises == \A r \in Requests : ContractPromise(request[r])

\* An active contract was signed, and an order that is issued now was issued.
ActiveIsSigned ==
  /\ \A a \in Awards : contract[a].status = "ACTIVE" => contract[a].signed
  /\ \A o \in Orders : order[o].status = "ISSUED" => order[o].issued

\* The invoices an order bears, late verifications apart, and those that
\* requests which have summed them are about to insert.
Standing(o) == LiveOn(o) \ revived
Arriving(o) ==
  [r \in Requests |->
     IF request[r].at = "createInvoice" /\ OrderOf[request[r].invoice] = o
     THEN Billed[request[r].invoice] ELSE 0]

\* The last request to have summed found room for its own; the others have no
\* more than an invoice each in hand.
InvoicedInHand ==
  \A o \in Orders :
    Total(Billed, Standing(o)) + Total(Arriving(o), Requests)
      <= Authorized[o] + (Cardinality(Requests) - 1) * Largest

\* The inductive invariant of ContractsSpec.
ContractsInv ==
  /\ ContractsTypeOK
  /\ request \in [Requests -> ContractRequest]
  /\ ContractPromises
  /\ ActiveIsSigned
  /\ InvoicedInHand
  /\ DuplicatesAreFlagged

\* The numbers that the bound is about.
LEMMA ContractAmounts ==
  ASSUME ContractPromises, NEW o \in Orders
  PROVE  /\ Arriving(o) \in [Requests -> Nat]
         /\ \A r \in Requests : Arriving(o)[r] <= Largest
         /\ Total(Arriving(o), Requests) \in Nat
         /\ Total(Billed, Standing(o)) \in Nat
         /\ Authorized[o] \in Nat
         /\ Cardinality(Requests) - 1 \in Nat
         /\ (Cardinality(Requests) - 1) * Largest \in Nat
<1>1. \A r \in Requests : Arriving(o)[r] \in Nat /\ Arriving(o)[r] <= Largest
  <2>1. \A r \in Requests : request[r].at = "createInvoice" => request[r].invoice \in Invoices
    BY DEF ContractPromises, ContractPromise
  <2>2. \A r \in Requests :
          request[r].at = "createInvoice" =>
            Billed[request[r].invoice] \in Nat /\ Billed[request[r].invoice] <= Largest
    BY <2>1, LargestBill
  <2>3. 0 \in Nat /\ 0 <= Largest
    BY LargestBill
  <2>4. QED
    BY <2>2, <2>3 DEF Arriving
<1>2. Arriving(o) \in [Requests -> Nat]
  BY <1>1 DEF Arriving
<1>3. Total(Arriving(o), Requests) \in Nat
  BY <1>2, ContractsAssumption, TotalType
<1>4. Standing(o) \in SUBSET Invoices
  BY DEF Standing, LiveOn
<1>5. Total(Billed, Standing(o)) \in Nat
  BY <1>4, ContractsAssumption, TotalMonotonic
<1>6. Cardinality(Requests) \in Nat /\ Cardinality(Requests) # 0
  BY ContractsAssumption, FS_CardinalityType, FS_EmptySet
<1>7. Cardinality(Requests) - 1 \in Nat
  BY <1>6
<1>8. QED
  BY <1>1, <1>2, <1>3, <1>5, <1>7, ContractsAssumption, LargestBill

LEMMA ArrivingLater ==
  ASSUME ContractPromises', NEW o \in Orders
  PROVE  Arriving(o)' \in [Requests -> Nat] /\ Total(Arriving(o)', Requests) \in Nat
<1>1. \A r \in Requests : request'[r].at = "createInvoice" => request'[r].invoice \in Invoices
  BY DEF ContractPromises, ContractPromise
<1>2. \A r \in Requests :
        request'[r].at = "createInvoice" => Billed[request'[r].invoice] \in Nat
  BY <1>1, LargestBill
<1>3. Arriving(o)' \in [Requests -> Nat]
  BY <1>2 DEF Arriving
<1>4. QED
  BY <1>3, ContractsAssumption, TotalType

LEMMA ContractsInitInv == ContractsInit /\ HandlersInit => ContractsInv
<1> SUFFICES ASSUME ContractsInit, HandlersInit PROVE ContractsInv
  OBVIOUS
<1> USE ContractsAssumption DEF ContractsInit, HandlersInit
<1>1. ContractsTypeOK
  BY DEF ContractsTypeOK
<1>2. request \in [Requests -> ContractRequest] /\ \A r \in Requests : request[r].at = "idle"
  BY DEF ContractRequest, Idle
<1>3. ContractPromises
  BY <1>2 DEF ContractPromises, ContractPromise
<1>4. ActiveIsSigned /\ DuplicatesAreFlagged
  BY DEF ActiveIsSigned, DuplicatesAreFlagged
<1>5. ASSUME NEW o \in Orders
      PROVE  Total(Billed, Standing(o)) + Total(Arriving(o), Requests)
               <= Authorized[o] + (Cardinality(Requests) - 1) * Largest
  <2>1. Standing(o) = {}
    BY DEF Standing, LiveOn
  <2>2. Total(Billed, Standing(o)) = 0
    BY <2>1, FS_EmptySet DEF Total, Cents
  <2>3. \A r \in Requests : Arriving(o)[r] = 0
    BY <1>2 DEF Arriving
  <2>4. Total(Arriving(o), Requests) = 0
    BY <1>3, <2>3, ContractAmounts, TotalZero
  <2>5. Authorized[o] \in Nat /\ (Cardinality(Requests) - 1) * Largest \in Nat
    BY <1>3, ContractAmounts
  <2>6. QED
    BY <2>2, <2>4, <2>5
<1>6. QED
  BY <1>1, <1>2, <1>3, <1>4, <1>5 DEF ContractsInv, InvoicedInHand

\* What a request carries where it waits.
LEMMA ContractRequests ==
  ASSUME ContractsInv, NEW r \in Requests
  PROVE  /\ request[r] \in ContractRequest
         /\ ContractPromise(request[r])
         /\ Idle \in ContractRequest /\ Idle.at = "idle" /\ ContractPromise(Idle)
         /\ request[r].at \in {"sumInvoiced", "createInvoice", "evaluateInvoice", "raiseAlert",
                               "verify", "reject"} =>
              /\ request[r].invoice \in Invoices
              /\ \A at \in {"sumInvoiced", "createInvoice", "evaluateInvoice", "raiseAlert"} :
                   LET q == [request[r] EXCEPT !.at = at] IN
                   q \in ContractRequest /\ q.at = at /\ q.invoice = request[r].invoice
<1>1. request[r] \in ContractRequest /\ ContractPromise(request[r])
  BY DEF ContractsInv, ContractPromises
<1>2. Idle \in ContractRequest /\ Idle.at = "idle" /\ ContractPromise(Idle)
  BY DEF ContractRequest, Idle, ContractPromise
<1>3. ASSUME request[r].at \in {"sumInvoiced", "createInvoice", "evaluateInvoice", "raiseAlert",
                                "verify", "reject"}
      PROVE  request[r] \in [at : {"sumInvoiced", "createInvoice", "evaluateInvoice", "raiseAlert",
                                   "verify", "reject"}, invoice : Invoices]
  BY <1>1, <1>3 DEF ContractRequest, Idle
<1>4. QED
  BY <1>1, <1>2, <1>3 DEF ContractRequest

\* What requests rely on, other than the one that moves, survives a step in
\* which nothing is unsigned, unissued or deleted.
LEMMA ContractPromisesStay ==
  ASSUME ContractsInv, NEW r \in Requests, NEW q \in ContractRequest,
         request' = [request EXCEPT ![r] = q], ContractPromise(q)',
         \A a \in Awards : contract[a].signed => contract'[a].signed,
         \A o \in Orders : order[o].issued => order'[o].issued,
         \A o \in Orders : order[o].status # "NONE" => order'[o].status # "NONE",
         \A i \in Invoices : invoice[i] # "NONE" => invoice'[i] # "NONE"
  PROVE  /\ request' \in [Requests -> ContractRequest]
         /\ request'[r] = q /\ \A s \in Requests \ {r} : request'[s] = request[s]
         /\ ContractPromises'
<1>1. /\ request' \in [Requests -> ContractRequest]
      /\ request'[r] = q /\ \A s \in Requests \ {r} : request'[s] = request[s]
  BY DEF ContractsInv
<1>2. ASSUME NEW s \in Requests \ {r} PROVE ContractPromise(request[s])'
  <2>1. PICK u : u = request[s]
    OBVIOUS
  <2>2. ContractPromise(u)
    BY <2>1, ContractRequests
  <2>3. ContractPromise(u)'
    BY <2>2, ContractsAssumption DEF ContractPromise
  <2>4. QED
    BY <1>1, <2>1, <2>3 DEF ContractPromise
<1>3. QED
  BY <1>1, <1>2 DEF ContractPromises, ContractPromise

\* An order bears no more when no invoice comes to stand and the request that
\* moves is not about to insert one.
LEMMA InvoicedStays ==
  ASSUME ContractsInv, ContractPromises', NEW r \in Requests, NEW q,
         request' = [request EXCEPT ![r] = q], q.at # "createInvoice",
         \A o \in Orders : Standing(o)' \subseteq Standing(o)
  PROVE  InvoicedInHand'
<1>1. request'[r] = q /\ \A s \in Requests \ {r} : request'[s] = request[s]
  BY DEF ContractsInv
<1>2. ASSUME NEW o \in Orders
      PROVE  Total(Billed, Standing(o)') + Total(Arriving(o)', Requests)
               <= Authorized[o] + (Cardinality(Requests) - 1) * Largest
  <2>1. /\ Arriving(o) \in [Requests -> Nat]
        /\ Total(Arriving(o), Requests) \in Nat
        /\ Total(Billed, Standing(o)) \in Nat
        /\ Authorized[o] \in Nat /\ (Cardinality(Requests) - 1) * Largest \in Nat
        /\ Arriving(o)' \in [Requests -> Nat]
        /\ Total(Arriving(o)', Requests) \in Nat
    BY ContractAmounts, ArrivingLater DEF ContractsInv
  <2>2. Arriving(o)'[r] = 0 /\ \A s \in Requests \ {r} : Arriving(o)'[s] = Arriving(o)[s]
    BY <1>1 DEF Arriving
  <2>3. Total(Arriving(o)', Requests) = Total(Arriving(o), Requests) - Arriving(o)[r] + 0
    BY <2>1, <2>2, ContractsAssumption, TotalPost
  <2>4. /\ Total(Billed, Standing(o)') \in Nat
        /\ Total(Billed, Standing(o)') <= Total(Billed, Standing(o))
    <3>1. Standing(o) \in SUBSET Invoices /\ Standing(o)' \in SUBSET Standing(o)
      BY DEF Standing, LiveOn
    <3>2. QED
      BY <3>1, ContractsAssumption, TotalMonotonic
  <2>5. Arriving(o)[r] \in Nat
    BY <2>1
  <2>6. Total(Billed, Standing(o)) + Total(Arriving(o), Requests)
          <= Authorized[o] + (Cardinality(Requests) - 1) * Largest
    BY DEF ContractsInv, InvoicedInHand
  <2>7. QED
    BY <2>1, <2>3, <2>4, <2>5, <2>6
<1>3. QED
  BY <1>2 DEF InvoicedInHand
\* No pair of like invoices comes to be unnoticed when none comes to live that
\* was not late, and the request that moves was not to look at one.
LEMMA DuplicatesStay ==
  ASSUME ContractsInv, NEW r \in Requests, NEW q,
         request' = [request EXCEPT ![r] = q],
         \A i \in Invoices :
           invoice'[i] \in {"SUBMITTED", "VERIFIED"} =>
             invoice[i] \in {"SUBMITTED", "VERIFIED"} \/ i \in revived',
         flagged \subseteq flagged', unchecked \subseteq unchecked', revived \subseteq revived',
         request[r].at \in {"evaluateInvoice", "raiseAlert"} =>
           \/ request[r].invoice \in flagged' \cup unchecked'
           \/ q.at = "raiseAlert" /\ q.invoice = request[r].invoice
           \/ \A j \in Invoices :
                Duplicates(request[r].invoice, j) => invoice[j] \notin {"SUBMITTED", "VERIFIED"}
  PROVE  DuplicatesAreFlagged'
<1>1. request'[r] = q /\ \A s \in Requests \ {r} : request'[s] = request[s]
  BY DEF ContractsInv
<1>2. ASSUME NEW i \in Invoices, NEW j \in Invoices, Duplicates(i, j),
             invoice'[i] \in {"SUBMITTED", "VERIFIED"}, invoice'[j] \in {"SUBMITTED", "VERIFIED"},
             {i, j} \cap (flagged' \cup unchecked' \cup revived') = {}
      PROVE  \E s \in Requests :
               /\ request'[s].at \in {"evaluateInvoice", "raiseAlert"}
               /\ request'[s].invoice \in {i, j}
  <2>1. /\ invoice[i] \in {"SUBMITTED", "VERIFIED"} /\ invoice[j] \in {"SUBMITTED", "VERIFIED"}
        /\ i \notin flagged' \cup unchecked' \cup revived'
        /\ j \notin flagged' \cup unchecked' \cup revived'
    BY <1>2
  <2>2. PICK s \in Requests : /\ request[s].at \in {"evaluateInvoice", "raiseAlert"}
                              /\ request[s].invoice \in {i, j}
    <3>1. {i, j} \cap (flagged \cup unchecked \cup revived) = {}
      BY <2>1
    <3>2. {invoice[i], invoice[j]} \subseteq {"SUBMITTED", "VERIFIED"}
      BY <2>1
    <3>3. QED
      BY <1>2, <3>1, <3>2 DEF ContractsInv, DuplicatesAreFlagged
  <2>3. CASE s # r
    BY <1>1, <2>2, <2>3
  <2>4. CASE s = r
    <3>1. Duplicates(i, j) /\ Duplicates(j, i)
      BY <1>2 DEF Duplicates
    <3>2. q.at = "raiseAlert" /\ q.invoice = request[r].invoice
      BY <2>1, <2>2, <2>4, <3>1
    <3>3. QED
      BY <1>1, <2>2, <2>4, <3>2
  <2>5. QED
    BY <2>3, <2>4
<1>3. QED
  <2>1. ASSUME NEW i \in Invoices, NEW j \in Invoices, Duplicates(i, j),
               {invoice'[i], invoice'[j]} \subseteq {"SUBMITTED", "VERIFIED"}
        PROVE  \/ {i, j} \cap (flagged' \cup unchecked' \cup revived') # {}
               \/ \E s \in Requests :
                    /\ request'[s].at \in {"evaluateInvoice", "raiseAlert"}
                    /\ request'[s].invoice \in {i, j}
    <3>1. invoice'[i] \in {"SUBMITTED", "VERIFIED"} /\ invoice'[j] \in {"SUBMITTED", "VERIFIED"}
      BY <2>1
    <3>2. QED
      BY <1>2, <2>1, <3>1
  <2>2. QED
    BY <2>1 DEF DuplicatesAreFlagged, Duplicates

\* A step that writes no invoice.
LEMMA QuietContractStep ==
  ASSUME ContractsInv, ContractsTypeOK', ActiveIsSigned',
         UNCHANGED <<invoice, requested, revived>>,
         flagged \subseteq flagged', unchecked \subseteq unchecked',
         NEW r \in Requests, NEW q \in ContractRequest,
         request' = [request EXCEPT ![r] = q], q.at # "createInvoice",
         ContractPromise(q)',
         \A a \in Awards : contract[a].signed => contract'[a].signed,
         \A o \in Orders : order[o].issued => order'[o].issued,
         \A o \in Orders : order[o].status # "NONE" => order'[o].status # "NONE",
         request[r].at \in {"evaluateInvoice", "raiseAlert"} =>
           \/ request[r].invoice \in flagged' \cup unchecked'
           \/ q.at = "raiseAlert" /\ q.invoice = request[r].invoice
           \/ \A j \in Invoices :
                Duplicates(request[r].invoice, j) => invoice[j] \notin {"SUBMITTED", "VERIFIED"}
  PROVE  ContractsInv'
<1>1. request' \in [Requests -> ContractRequest] /\ ContractPromises'
  BY ContractPromisesStay
<1>2. \A o \in Orders : Standing(o)' \subseteq Standing(o)
  BY DEF Standing, LiveOn
<1>3. InvoicedInHand'
  BY <1>1, <1>2, InvoicedStays
<1>4. DuplicatesAreFlagged'
  BY DuplicatesStay
<1>5. QED
  BY <1>1, <1>3, <1>4 DEF ContractsInv

\* The reads, and what only moves the request that takes them.
LEMMA ContractReadStep ==
  ASSUME ContractsInv, NEW r \in Requests, NEW q \in ContractRequest,
         request' = [request EXCEPT ![r] = q], q.at # "createInvoice",
         ContractPromise(q), UNCHANGED contractVars,
         request[r].at \notin {"evaluateInvoice", "raiseAlert"}
  PROVE  ContractsInv'
<1>1. ContractsTypeOK' /\ ActiveIsSigned' /\ ContractPromise(q)'
  BY DEF contractVars, ContractsInv, ContractsTypeOK, ActiveIsSigned, ContractPromise
<1>2. QED
  BY <1>1, QuietContractStep DEF contractVars

LEMMA ContractReadsStep ==
  ASSUME ContractsInv, NEW r \in Requests,
         \/ \E a \in Awards : ReadAward(r, a) \/ ReadContract(r, a)
         \/ \E o \in Orders : ReadForOrder(r, o) \/ ReadOrder(r, o)
         \/ \E i \in Invoices : ReadForInvoice(r, i) \/ ReadInvoice(r, i)
  PROVE  ContractsInv'
<1>1. ASSUME NEW a \in Awards, ReadAward(r, a) \/ ReadContract(r, a) PROVE ContractsInv'
  <2>1. PICK at \in {"createContract", "activate", "complete", "terminate"} :
          /\ request[r] = Idle
          /\ request' = [request EXCEPT ![r] = [at |-> at, award |-> a]]
          /\ UNCHANGED contractVars
    BY <1>1 DEF ReadAward, ReadContract, Start
  <2> PICK q : q = [at |-> at, award |-> a]
    OBVIOUS
  <2>2. q \in ContractRequest /\ ContractPromise(q) /\ q.at # "createInvoice"
    BY DEF ContractRequest, ContractPromise
  <2>3. QED
    BY <2>1, <2>2, ContractRequests, ContractReadStep
<1>2. ASSUME NEW o \in Orders, ReadForOrder(r, o) PROVE ContractsInv'
  <2> PICK q : q = [at |-> "createOrder", order |-> o]
    OBVIOUS
  <2>1. contract[AwardOf[o]].signed
    BY <1>2, ContractsAssumption DEF ReadForOrder, ContractsInv, ActiveIsSigned
  <2>2. q \in ContractRequest /\ ContractPromise(q) /\ q.at # "createInvoice"
    BY <2>1 DEF ContractRequest, ContractPromise
  <2>3. QED
    BY <1>2, <2>2, ContractRequests, ContractReadStep DEF ReadForOrder, Start
<1>3. ASSUME NEW o \in Orders, ReadOrder(r, o) PROVE ContractsInv'
  <2>1. PICK at \in {"issue", "cancelOrder"} :
          /\ request[r] = Idle
          /\ order[o].status # "NONE"
          /\ request' = [request EXCEPT ![r] = [at |-> at, order |-> o]]
          /\ UNCHANGED contractVars
    BY <1>3 DEF ReadOrder, Start
  <2> PICK q : q = [at |-> at, order |-> o]
    OBVIOUS
  <2>2. q \in ContractRequest /\ ContractPromise(q) /\ q.at # "createInvoice"
    BY <2>1 DEF ContractRequest, ContractPromise
  <2>3. QED
    BY <2>1, <2>2, ContractRequests, ContractReadStep
<1>4. ASSUME NEW i \in Invoices, ReadForInvoice(r, i) \/ ReadInvoice(r, i) PROVE ContractsInv'
  <2>1. PICK at \in {"sumInvoiced", "verify", "reject"} :
          /\ request[r] = Idle
          /\ at = "sumInvoiced" => order[OrderOf[i]].status = "ISSUED"
          /\ at # "sumInvoiced" => invoice[i] # "NONE"
          /\ request' = [request EXCEPT ![r] = [at |-> at, invoice |-> i]]
          /\ UNCHANGED contractVars
    BY <1>4 DEF ReadForInvoice, ReadInvoice, Start
  <2> PICK q : q = [at |-> at, invoice |-> i]
    OBVIOUS
  <2>2. at = "sumInvoiced" => order[OrderOf[i]].issued
    BY <2>1, ContractsAssumption DEF ContractsInv, ActiveIsSigned
  <2>3. q \in ContractRequest /\ ContractPromise(q) /\ q.at # "createInvoice"
    BY <2>1, <2>2 DEF ContractRequest, ContractPromise
  <2>4. QED
    BY <2>1, <2>3, ContractRequests, ContractReadStep
<1>5. QED
  BY <1>1, <1>2, <1>3, <1>4

\* The writes of a contract or an order, after which the request is idle.
LEMMA ContractWriteStep ==
  ASSUME ContractsInv, NEW r \in Requests,
         CreateContract(r) \/ UpdateContract(r) \/ CreateOrder(r) \/ UpdateOrder(r)
  PROVE  ContractsInv'
<1>1. ASSUME CreateContract(r) \/ UpdateContract(r)
      PROVE  /\ ContractsTypeOK' /\ ActiveIsSigned'
             /\ UNCHANGED order /\ \A a \in Awards : contract[a].signed => contract'[a].signed
  <2> PICK a : a = request[r].award
    OBVIOUS
  <2>1. a \in Awards
    BY <1>1, ContractRequests DEF CreateContract, UpdateContract, ContractPromise
  <2>2. PICK to \in {"DRAFT", "ACTIVE", "COMPLETED", "TERMINATED"}, signed \in BOOLEAN :
          /\ contract' = [contract EXCEPT ![a] = [status |-> to, signed |-> signed]]
          /\ contract[a].signed => signed
          /\ to = "ACTIVE" => signed
          /\ UNCHANGED <<order, invoice, requested, revived, flagged, unchecked>>
    <3>1. contract[a] \in [status : {"NONE", "DRAFT", "ACTIVE", "COMPLETED", "TERMINATED"},
                           signed : BOOLEAN]
      BY <2>1 DEF ContractsInv, ContractsTypeOK
    <3>2. \A to : [contract[a] EXCEPT !.status = to]
                    = [status |-> to, signed |-> contract[a].signed]
      BY <3>1
    <3>3. CASE request[r].at = "activate" /\ UpdateContract(r)
      <4>1. /\ contract' = [contract EXCEPT ![a] = [status |-> "ACTIVE", signed |-> TRUE]]
            /\ UNCHANGED <<order, invoice, requested, revived, flagged, unchecked>>
        BY <3>3 DEF UpdateContract
      <4>2. QED
        BY <4>1
    <3>4. CASE ~ (request[r].at = "activate" /\ UpdateContract(r))
      <4>1. PICK to \in {"DRAFT", "COMPLETED", "TERMINATED"} :
              /\ contract' = [contract EXCEPT ![a].status = to]
              /\ UNCHANGED <<order, invoice, requested, revived, flagged, unchecked>>
        BY <1>1, <3>4 DEF CreateContract, UpdateContract
      <4>2. contract' = [contract EXCEPT ![a] = [status |-> to, signed |-> contract[a].signed]]
        BY <3>2, <4>1
      <4>3. contract[a].signed \in BOOLEAN /\ to # "ACTIVE"
        BY <3>1, <4>1
      <4>4. QED
        BY <4>1, <4>2, <4>3
    <3>5. QED
      BY <3>3, <3>4
  <2>3. /\ contract'[a].status = to /\ contract'[a].signed = signed
        /\ \A b \in Awards \ {a} : contract'[b] = contract[b]
    BY <2>1, <2>2 DEF ContractsInv, ContractsTypeOK
  <2>4. \A b \in Awards : contract[b].signed => contract'[b].signed
    BY <2>2, <2>3
  <2>5. contract' \in [Awards -> [status : {"NONE", "DRAFT", "ACTIVE", "COMPLETED", "TERMINATED"},
                                  signed : BOOLEAN]]
    BY <2>1, <2>2 DEF ContractsInv, ContractsTypeOK
  <2>6. ContractsTypeOK'
    BY <2>2, <2>4, <2>5, ContractsAssumption DEF ContractsInv, ContractsTypeOK
  <2>7. ActiveIsSigned'
    BY <2>2, <2>3 DEF ContractsInv, ActiveIsSigned
  <2>8. QED
    BY <2>2, <2>4, <2>6, <2>7
<1>2. ASSUME CreateOrder(r) \/ UpdateOrder(r)
      PROVE  /\ ContractsTypeOK' /\ ActiveIsSigned' /\ UNCHANGED contract
             /\ \A o \in Orders : order[o].issued => order'[o].issued
             /\ \A o \in Orders : order[o].status # "NONE" => order'[o].status # "NONE"
  <2> PICK o : o = request[r].order
    OBVIOUS
  <2>1. o \in Orders /\ contract[AwardOf[o]].signed
    BY <1>2, ContractRequests
    DEF CreateOrder, UpdateOrder, ContractPromise, ContractsInv, ContractsTypeOK
  <2>2. PICK to \in {"DRAFT", "ISSUED", "CANCELLED"}, issued \in BOOLEAN :
          /\ order' = [order EXCEPT ![o] = [status |-> to, issued |-> issued]]
          /\ order[o].issued => issued
          /\ to = "ISSUED" => issued
          /\ UNCHANGED <<contract, invoice, requested, revived, flagged, unchecked>>
    <3>1. order[o] \in [status : {"NONE", "DRAFT", "ISSUED", "CANCELLED"}, issued : BOOLEAN]
      BY <2>1 DEF ContractsInv, ContractsTypeOK
    <3>2. \A to : [order[o] EXCEPT !.status = to] = [status |-> to, issued |-> order[o].issued]
      BY <3>1
    <3>3. CASE request[r].at = "issue" /\ UpdateOrder(r)
      <4>1. /\ order' = [order EXCEPT ![o] = [status |-> "ISSUED", issued |-> TRUE]]
            /\ UNCHANGED <<contract, invoice, requested, revived, flagged, unchecked>>
        BY <3>3 DEF UpdateOrder
      <4>2. QED
        BY <4>1
    <3>4. CASE ~ (request[r].at = "issue" /\ UpdateOrder(r))
      <4>1. PICK to \in {"DRAFT", "CANCELLED"} :
              /\ order' = [order EXCEPT ![o].status = to]
              /\ UNCHANGED <<contract, invoice, requested, revived, flagged, unchecked>>
        BY <1>2, <3>4 DEF CreateOrder, UpdateOrder
      <4>2. order' = [order EXCEPT ![o] = [status |-> to, issued |-> order[o].issued]]
        BY <3>2, <4>1
      <4>3. order[o].issued \in BOOLEAN /\ to # "ISSUED"
        BY <3>1, <4>1
      <4>4. QED
        BY <4>1, <4>2, <4>3
    <3>5. QED
      BY <3>3, <3>4
  <2>3. /\ order'[o].status = to /\ order'[o].issued = issued
        /\ \A p \in Orders \ {o} : order'[p] = order[p]
    BY <2>1, <2>2 DEF ContractsInv, ContractsTypeOK
  <2>4. /\ \A p \in Orders : order[p].issued => order'[p].issued
        /\ \A p \in Orders : order[p].status # "NONE" => order'[p].status # "NONE"
    BY <2>2, <2>3
  <2>5. order' \in [Orders -> [status : {"NONE", "DRAFT", "ISSUED", "CANCELLED"},
                               issued : BOOLEAN]]
    BY <2>1, <2>2 DEF ContractsInv, ContractsTypeOK
  <2>6. ContractsTypeOK'
    BY <2>1, <2>2, <2>3, <2>4, <2>5, ContractsAssumption DEF ContractsInv, ContractsTypeOK
  <2>7. ActiveIsSigned'
    BY <2>2, <2>3 DEF ContractsInv, ActiveIsSigned
  <2>8. QED
    BY <2>2, <2>4, <2>6, <2>7
<1>3. /\ UNCHANGED <<invoice, requested, revived, flagged, unchecked>>
      /\ request' = [request EXCEPT ![r] = Idle]
      /\ request[r].at \notin {"evaluateInvoice", "raiseAlert"}
  BY DEF CreateContract, UpdateContract, CreateOrder, UpdateOrder, Stop
<1>4. ContractPromise(Idle)'
  BY DEF ContractPromise, Idle
<1>5. /\ ContractsTypeOK' /\ ActiveIsSigned'
      /\ \A a \in Awards : contract[a].signed => contract'[a].signed
      /\ \A o \in Orders : order[o].issued => order'[o].issued
      /\ \A o \in Orders : order[o].status # "NONE" => order'[o].status # "NONE"
  BY <1>1, <1>2
<1>6. QED
  BY <1>3, <1>4, <1>5, ContractRequests, QuietContractStep
\* The order can bear the invoice: the requests but this one have an invoice
\* each in hand at most.
LEMMA SumInvoicedStep ==
  ASSUME ContractsInv, NEW r \in Requests, SumInvoiced(r)
  PROVE  ContractsInv'
<1> PICK i, p, q : /\ i = request[r].invoice /\ p = OrderOf[request[r].invoice]
                   /\ q = [request[r] EXCEPT !.at = "createInvoice"]
  OBVIOUS
<1>1. /\ request[r].at = "sumInvoiced" /\ i \in Invoices /\ p = OrderOf[i] /\ p \in Orders
      /\ ContractPromise(request[r])
      /\ q \in ContractRequest /\ q.at = "createInvoice" /\ q.invoice = i
      /\ request' = [request EXCEPT ![r] = q]
      /\ Total(Billed, LiveOn(p)) + Billed[i] <= Authorized[p]
      /\ UNCHANGED contractVars
  BY ContractRequests, ContractsAssumption DEF SumInvoiced, Go, SumBilled
<1>2. ContractPromise(q)'
  BY <1>1 DEF ContractPromise, contractVars
<1>3. /\ request' \in [Requests -> ContractRequest]
      /\ request'[r] = q /\ \A s \in Requests \ {r} : request'[s] = request[s]
      /\ ContractPromises'
  BY <1>1, <1>2, ContractPromisesStay DEF contractVars
<1>4. ContractsTypeOK' /\ ActiveIsSigned'
  BY <1>1 DEF contractVars, ContractsInv, ContractsTypeOK, ActiveIsSigned
<1>5. DuplicatesAreFlagged'
  BY <1>1, DuplicatesStay DEF contractVars
<1>6. ASSUME NEW o \in Orders
      PROVE  Total(Billed, Standing(o)') + Total(Arriving(o)', Requests)
               <= Authorized[o] + (Cardinality(Requests) - 1) * Largest
  <2>1. Standing(o)' = Standing(o)
    BY <1>1 DEF contractVars, Standing, LiveOn
  <2>2. /\ Total(Billed, Standing(o)) \in Nat
        /\ Total(Arriving(o), Requests) \in Nat /\ Total(Arriving(o)', Requests) \in Nat
        /\ Arriving(o)' \in [Requests -> Nat] /\ Arriving(o) \in [Requests -> Nat]
        /\ Authorized[o] \in Nat /\ (Cardinality(Requests) - 1) * Largest \in Nat
        /\ Cardinality(Requests) - 1 \in Nat
    BY <1>3, ContractAmounts, ArrivingLater DEF ContractsInv
  <2>3. \A s \in Requests \ {r} : Arriving(o)'[s] = Arriving(o)[s]
    BY <1>3 DEF Arriving
  <2>4. CASE o # p
    <3>1. Arriving(o)' = Arriving(o)
      BY <1>1, <1>3, <2>4 DEF Arriving
    <3>2. QED
      BY <2>1, <3>1 DEF ContractsInv, InvoicedInHand
  <2>5. CASE o = p
    <3>1. Arriving(o)'[r] = Billed[i]
      BY <1>1, <1>3, <2>5 DEF Arriving
    <3>2. /\ Total(Arriving(o)', Requests) = Total(Arriving(o)', Requests \ {r}) + Billed[i]
          /\ Total(Arriving(o)', Requests \ {r}) \in Nat
      BY <2>2, <3>1, TotalSplit, ContractsAssumption
    <3>3. Total(Arriving(o)', Requests \ {r}) <= (Cardinality(Requests) - 1) * Largest
      <4> DEFINE Others == Requests \ {r}
                 g == [s \in Others |-> Arriving(o)'[s]]
      <4>1. IsFiniteSet(Others) /\ Cardinality(Others) = Cardinality(Requests) - 1
        BY ContractsAssumption, FS_RemoveElement
      <4>2. \A s \in Others : Arriving(o)'[s] \in Nat /\ Arriving(o)'[s] <= Largest
        BY <2>2, <2>3, ContractAmounts DEF ContractsInv
      <4>3. g \in [Others -> Nat] /\ \A s \in Others : g[s] <= Largest
        BY <4>2
      <4>4. Total(g, Others) <= Cardinality(Others) * Largest
        <5> HIDE DEF g, Others
        <5>1. QED
          BY <4>1, <4>3, LargestBill, TotalBounded
      <4>5. Cents(g, Others) = Cents(Arriving(o)', Others)
        BY DEF Cents
      <4>6. QED
        BY <4>1, <4>4, <4>5 DEF Total
    <3>4. Total(Billed, Standing(o)) <= Total(Billed, LiveOn(o)) /\ Total(Billed, LiveOn(o)) \in Nat
      <4>1. LiveOn(o) \in SUBSET Invoices /\ Standing(o) \in SUBSET LiveOn(o)
        BY DEF LiveOn, Standing
      <4>2. QED
        BY <4>1, TotalMonotonic, ContractsAssumption
    <3>5. Billed[i] \in Nat /\ Total(Billed, LiveOn(o)) + Billed[i] <= Authorized[o]
      BY <1>1, <2>5, ContractsAssumption
    <3>6. QED
      BY <2>1, <2>2, <3>2, <3>3, <3>4, <3>5
  <2>6. QED
    BY <2>4, <2>5
<1>7. InvoicedInHand'
  BY <1>6 DEF InvoicedInHand
<1>8. QED
  BY <1>3, <1>4, <1>5, <1>7 DEF ContractsInv

\* What was in hand comes to stand.
LEMMA CreateInvoiceStep ==
  ASSUME ContractsInv, NEW r \in Requests, CreateInvoice(r)
  PROVE  ContractsInv'
<1> PICK i, p, q : /\ i = request[r].invoice /\ p = OrderOf[request[r].invoice]
                   /\ q = [request[r] EXCEPT !.at = "evaluateInvoice"]
  OBVIOUS
<1>1. /\ request[r].at = "createInvoice" /\ i \in Invoices /\ p = OrderOf[i] /\ p \in Orders
      /\ ContractPromise(request[r]) /\ order[p].issued
      /\ q \in ContractRequest /\ q.at = "evaluateInvoice" /\ q.invoice = i
      /\ request' = [request EXCEPT ![r] = q]
      /\ invoice[i] = "NONE"
      /\ invoice' = [invoice EXCEPT ![i] = "SUBMITTED"]
      /\ UNCHANGED <<contract, order, requested, revived, flagged, unchecked>>
  BY ContractRequests, ContractsAssumption DEF CreateInvoice, Go, ContractPromise
<1>2. invoice'[i] = "SUBMITTED" /\ \A j \in Invoices \ {i} : invoice'[j] = invoice[j]
  BY <1>1 DEF ContractsInv, ContractsTypeOK
<1>3. ContractPromise(q)'
  BY <1>1, <1>2 DEF ContractPromise
<1>4. /\ request' \in [Requests -> ContractRequest]
      /\ request'[r] = q /\ \A s \in Requests \ {r} : request'[s] = request[s]
      /\ ContractPromises'
  BY <1>1, <1>2, <1>3, ContractPromisesStay
<1>5. ContractsTypeOK'
  BY <1>1, <1>2 DEF ContractsInv, ContractsTypeOK
<1>6. ActiveIsSigned'
  BY <1>1 DEF ContractsInv, ActiveIsSigned
<1>7. DuplicatesAreFlagged'
  <2>1. ASSUME NEW j \in Invoices, NEW k \in Invoices, Duplicates(j, k), j # i, k # i,
               {invoice'[j], invoice'[k]} \subseteq {"SUBMITTED", "VERIFIED"}
        PROVE  \/ {j, k} \cap (flagged' \cup unchecked' \cup revived') # {}
               \/ \E s \in Requests :
                    /\ request'[s].at \in {"evaluateInvoice", "raiseAlert"}
                    /\ request'[s].invoice \in {j, k}
    <3>1. invoice'[j] = invoice[j] /\ invoice'[k] = invoice[k]
      BY <1>2, <2>1
    <3>2. CASE {j, k} \cap (flagged \cup unchecked \cup revived) # {}
      BY <1>1, <3>2
    <3>3. CASE \E s \in Requests : /\ request[s].at \in {"evaluateInvoice", "raiseAlert"}
                                   /\ request[s].invoice \in {j, k}
      BY <1>1, <1>4, <3>3
    <3>4. QED
      BY <2>1, <3>1, <3>2, <3>3 DEF ContractsInv, DuplicatesAreFlagged
  <2>2. request'[r].at = "evaluateInvoice" /\ request'[r].invoice = i
    BY <1>1, <1>4
  <2>3. QED
    BY <2>1, <2>2 DEF DuplicatesAreFlagged, Duplicates
<1>8. ASSUME NEW o \in Orders
      PROVE  Total(Billed, Standing(o)') + Total(Arriving(o)', Requests)
               <= Authorized[o] + (Cardinality(Requests) - 1) * Largest
  <2>1. /\ Total(Billed, Standing(o)) \in Nat
        /\ Total(Arriving(o), Requests) \in Nat /\ Total(Arriving(o)', Requests) \in Nat
        /\ Arriving(o)' \in [Requests -> Nat] /\ Arriving(o) \in [Requests -> Nat]
        /\ Authorized[o] \in Nat /\ (Cardinality(Requests) - 1) * Largest \in Nat
    BY <1>4, ContractAmounts, ArrivingLater DEF ContractsInv
  <2>2. Arriving(o)'[r] = 0 /\ \A s \in Requests \ {r} : Arriving(o)'[s] = Arriving(o)[s]
    BY <1>1, <1>4 DEF Arriving
  <2>3. Total(Arriving(o)', Requests) = Total(Arriving(o), Requests) - Arriving(o)[r] + 0
    BY <2>1, <2>2, ContractsAssumption, TotalPost
  <2>4. CASE o # p
    <3>1. Standing(o)' = Standing(o)
      BY <1>1, <1>2, <2>4 DEF Standing, LiveOn
    <3>2. Arriving(o)[r] \in Nat
      BY <2>1
    <3>3. Total(Billed, Standing(o)) + Total(Arriving(o), Requests)
            <= Authorized[o] + (Cardinality(Requests) - 1) * Largest
      BY DEF ContractsInv, InvoicedInHand
    <3>4. QED
      BY <2>1, <2>3, <3>1, <3>2, <3>3
  <2>5. CASE o = p
    <3>1. i \notin revived
      BY <1>1 DEF ContractsInv, ContractsTypeOK
    <3>2. /\ Standing(o)' \in SUBSET Invoices
          /\ i \in Standing(o)' /\ Standing(o)' \ {i} = Standing(o)
      BY <1>1, <1>2, <2>5, <3>1 DEF Standing, LiveOn
    <3>3. Total(Billed, Standing(o)') = Total(Billed, Standing(o)) + Billed[i]
      BY <3>2, TotalAmong, ContractsAssumption
    <3>4. Arriving(o)[r] = Billed[i] /\ Billed[i] \in Nat
      BY <1>1, <2>5, ContractsAssumption DEF Arriving
    <3>5. Total(Billed, Standing(o)) + Total(Arriving(o), Requests)
            <= Authorized[o] + (Cardinality(Requests) - 1) * Largest
      BY DEF ContractsInv, InvoicedInHand
    <3>6. QED
      BY <2>1, <2>3, <3>3, <3>4, <3>5
  <2>6. QED
    BY <2>4, <2>5
<1>9. InvoicedInHand'
  BY <1>8 DEF InvoicedInHand
<1>10. QED
  BY <1>4, <1>5, <1>6, <1>7, <1>9 DEF ContractsInv

\* verify and reject: an invoice that comes to live was submitted, or is late.
LEMMA DecideInvoiceStep ==
  ASSUME ContractsInv, NEW r \in Requests, VerifyInvoice(r) \/ RejectInvoice(r)
  PROVE  ContractsInv'
<1> PICK i : i = request[r].invoice
  OBVIOUS
<1>1. /\ request[r].at \in {"verify", "reject"} /\ i \in Invoices /\ invoice[i] # "NONE"
      /\ request' = [request EXCEPT ![r] = Idle]
      /\ UNCHANGED <<contract, order, flagged, unchecked>>
  BY ContractRequests DEF VerifyInvoice, RejectInvoice, Stop, ContractPromise
<1>2. PICK to \in {"VERIFIED", "REJECTED"} :
        /\ invoice' = [invoice EXCEPT ![i] = to]
        /\ to = "VERIFIED" /\ invoice[i] = "REJECTED" => i \in revived'
        /\ revived \subseteq revived' /\ revived' \subseteq requested'
        /\ requested' \subseteq requested \cup {i}
  <2>1. CASE VerifyInvoice(r)
    BY <2>1 DEF VerifyInvoice, ContractsInv, ContractsTypeOK
  <2>2. CASE RejectInvoice(r)
    BY <2>2 DEF RejectInvoice, ContractsInv, ContractsTypeOK
  <2>3. QED
    BY <2>1, <2>2
<1>3. invoice'[i] = to /\ \A j \in Invoices \ {i} : invoice'[j] = invoice[j]
  BY <1>1, <1>2 DEF ContractsInv, ContractsTypeOK
<1>4. ContractsTypeOK'
  BY <1>1, <1>2, <1>3 DEF ContractsInv, ContractsTypeOK
<1>5. ActiveIsSigned'
  BY <1>1 DEF ContractsInv, ActiveIsSigned
<1>6. request' \in [Requests -> ContractRequest] /\ ContractPromises'
  <2>1. ContractPromise(Idle)'
    BY DEF ContractPromise, Idle
  <2>2. QED
    BY <1>1, <1>2, <1>3, <2>1, ContractRequests, ContractPromisesStay
<1>7. \A j \in Invoices :
        invoice'[j] \in {"SUBMITTED", "VERIFIED"} =>
          invoice[j] \in {"SUBMITTED", "VERIFIED"} \/ j \in revived'
  <2>1. invoice[i] \in {"SUBMITTED", "VERIFIED", "REJECTED"}
    BY <1>1 DEF ContractsInv, ContractsTypeOK
  <2>2. QED
    BY <1>2, <1>3, <2>1
<1>8. InvoicedInHand'
  <2>1. \A o \in Orders : Standing(o)' \subseteq Standing(o)
    BY <1>2, <1>7 DEF Standing, LiveOn
  <2>2. QED
    BY <1>1, <1>6, <2>1, ContractRequests, InvoicedStays
<1>9. DuplicatesAreFlagged'
  BY <1>1, <1>2, <1>7, DuplicatesStay
<1>10. QED
  BY <1>4, <1>5, <1>6, <1>8, <1>9 DEF ContractsInv

\* DuplicatePaymentDetector, and requests that end early.
LEMMA DetectorStep ==
  ASSUME ContractsInv, NEW r \in Requests,
         EvaluateInvoice(r) \/ RaiseDuplicateAlert(r) \/ ContractsFail(r)
  PROVE  ContractsInv'
<1> PICK i : i = request[r].invoice
  OBVIOUS
<1>1. /\ UNCHANGED <<contract, order, invoice, requested, revived>>
      /\ flagged \subseteq flagged' /\ unchecked \subseteq unchecked'
  BY DEF EvaluateInvoice, RaiseDuplicateAlert, ContractsFail, contractVars
<1>2. request[r].at \in {"evaluateInvoice", "raiseAlert"} => i \in Invoices /\ invoice[i] # "NONE"
  BY ContractRequests DEF ContractPromise
<1>3. ContractsTypeOK'
  <2>1. flagged' \cup unchecked' \subseteq {j \in Invoices : invoice[j] # "NONE"}
    BY <1>2 DEF EvaluateInvoice, RaiseDuplicateAlert, ContractsFail, contractVars, ContractsInv,
                ContractsTypeOK
  <2>2. QED
    BY <1>1, <2>1 DEF ContractsInv, ContractsTypeOK
<1>4. ActiveIsSigned'
  BY <1>1 DEF ContractsInv, ActiveIsSigned
<1>5. ContractPromise(Idle)'
  BY DEF ContractPromise, Idle
<1>6. CASE ContractsFail(r) \/ RaiseDuplicateAlert(r)
  <2>1. /\ request' = [request EXCEPT ![r] = Idle]
        /\ request[r].at \in {"evaluateInvoice", "raiseAlert"} => i \in flagged' \cup unchecked'
    BY <1>6 DEF ContractsFail, RaiseDuplicateAlert, Abandon, Stop
  <2>2. QED
    BY <1>1, <1>3, <1>4, <1>5, <2>1, ContractRequests, QuietContractStep
<1>7. CASE EvaluateInvoice(r)
  <2>1. request[r].at = "evaluateInvoice"
    BY <1>7 DEF EvaluateInvoice
  <2>2. CASE \E j \in Invoices : Duplicates(i, j) /\ invoice[j] \in {"SUBMITTED", "VERIFIED"}
    <3> PICK q : q = [request[r] EXCEPT !.at = "raiseAlert"]
      OBVIOUS
    <3>1. q \in ContractRequest /\ q.at = "raiseAlert" /\ q.invoice = i
      BY <2>1, ContractRequests
    <3>2. ContractPromise(q)'
      BY <1>1, <1>2, <2>1, <3>1 DEF ContractPromise
    <3>3. request' = [request EXCEPT ![r] = q]
      BY <1>7, <2>2 DEF EvaluateInvoice, Go
    <3>4. QED
      BY <1>1, <1>3, <1>4, <3>1, <3>2, <3>3, QuietContractStep
  <2>3. CASE ~ \E j \in Invoices : Duplicates(i, j) /\ invoice[j] \in {"SUBMITTED", "VERIFIED"}
    <3>1. request' = [request EXCEPT ![r] = Idle]
      BY <1>7, <2>3 DEF EvaluateInvoice, Stop
    <3>2. QED
      BY <1>1, <1>3, <1>4, <1>5, <2>3, <3>1, ContractRequests, QuietContractStep
  <2>4. QED
    BY <2>2, <2>3
<1>8. QED
  BY <1>6, <1>7

LEMMA ContractsStep == ContractsInv /\ [ContractsNext]_<<contractVars, request>> => ContractsInv'
<1> SUFFICES ASSUME ContractsInv, [ContractsNext]_<<contractVars, request>> PROVE ContractsInv'
  OBVIOUS
<1>1. CASE UNCHANGED <<contractVars, request>>
  <2>1. ContractsTypeOK' /\ ContractPromises' /\ ActiveIsSigned'
    BY <1>1 DEF contractVars, ContractsInv, ContractsTypeOK, ContractPromises, ContractPromise,
                ActiveIsSigned
  <2>2. InvoicedInHand' /\ DuplicatesAreFlagged'
    BY <1>1 DEF contractVars, ContractsInv, InvoicedInHand, Standing, LiveOn, Arriving,
                DuplicatesAreFlagged
  <2>3. QED
    BY <1>1, <2>1, <2>2 DEF ContractsInv
<1>2. QED
  BY <1>1, ContractReadsStep, ContractWriteStep, SumInvoicedStep, CreateInvoiceStep,
     DecideInvoiceStep, DetectorStep
  DEF ContractsNext

\* However many invoices are summed and inserted at the same time, an order is
\* over-invoiced by no more than all requests but one have in hand, and of two
\* invoices of the same amount one is flagged or about to be.
THEOREM InvoicingControlled == ContractsSpec => []InvoicingIsControlled
<1>1. ContractsInv => InvoicingIsControlled
  <2> SUFFICES ASSUME ContractsInv PROVE InvoicingIsControlled
    OBVIOUS
  <2>1. ASSUME NEW o \in Orders
        PROVE  Total(Billed, Standing(o)) <= Authorized[o] + (Cardinality(Requests) - 1) * Largest
    <3>1. /\ Total(Billed, Standing(o)) \in Nat /\ Total(Arriving(o), Requests) \in Nat
          /\ Authorized[o] \in Nat /\ (Cardinality(Requests) - 1) * Largest \in Nat
      BY ContractAmounts DEF ContractsInv
    <3>2. QED
      BY <3>1 DEF ContractsInv, InvoicedInHand
  <2>2. OverInvoicingIsBounded
    BY <2>1 DEF OverInvoicingIsBounded, SumBilled, Standing, Largest
  <2>3. QED
    BY <2>2 DEF ContractsInv, InvoicingIsControlled
<1>2. QED
  BY <1>1, ContractsInitInv, ContractsStep, PTL DEF ContractsSpec

-----------------------------------------------------------------------------
(* The six together: the one that runs keeps its invariant, the others are *)
(* as they were at the beginning.                                          *)

RecordsInv ==
  /\ part \in Parts
  /\ IF part = "contracts" THEN ContractsInv ELSE ContractsInit
  /\ IF part = "projects" THEN ProjectsInv ELSE ProjectsInit
  /\ IF part = "evidence" THEN EvidenceInv ELSE EvidenceInit
  /\ IF part = "budgets" THEN BudgetsInv ELSE BudgetsInit
  /\ IF part = "suppliers" THEN SuppliersInv ELSE SuppliersInit
  /\ IF part = "reports" THEN ReportsInv ELSE WhistleblowerInit

\* The rows at the beginning are of their types.
LEMMA RecordsBeginTyped ==
  /\ ContractsInit => ContractsTypeOK
  /\ ProjectsInit => ProjectsTypeOK
  /\ EvidenceInit => EvidenceTypeOK
  /\ BudgetsInit => BudgetsTypeOK
  /\ SuppliersInit => SuppliersTypeOK
  /\ WhistleblowerInit => WhistleblowerTypeOK
<1>1. ContractsInit => ContractsTypeOK
  BY ContractsAssumption DEF ContractsInit, ContractsTypeOK
<1>2. ProjectsInit => ProjectsTypeOK
  BY DEF ProjectsInit, ProjectsTypeOK
<1>3. EvidenceInit => EvidenceTypeOK
  BY DEF EvidenceInit, EvidenceTypeOK
<1>4. BudgetsInit => BudgetsTypeOK
  BY DEF BudgetsInit, BudgetsTypeOK
<1>5. SuppliersInit => SuppliersTypeOK
  BY DEF SuppliersInit, SuppliersTypeOK
<1>6. WhistleblowerInit => WhistleblowerTypeOK
  BY WhistleblowerAssumption DEF WhistleblowerInit, WhistleblowerTypeOK
<1>7. QED
  BY <1>1, <1>2, <1>3, <1>4, <1>5, <1>6

LEMMA RecordsBegin == RecordsInit => RecordsInv
BY ContractsInitInv, ProjectsInitInv, EvidenceInitInv, BudgetsInitInv, SuppliersInitInv,
   ReportsInitInv
DEF RecordsInit, RecordsInv

LEMMA RecordsStep == RecordsInv /\ [RecordsNext]_recordVars => RecordsInv'
<1> SUFFICES ASSUME RecordsInv, [RecordsNext]_recordVars PROVE RecordsInv'
  OBVIOUS
<1>1. part \in Parts /\ part' = part
  BY DEF RecordsInv, RecordsNext, recordVars
<1>2. ASSUME ContractsInit, UNCHANGED contractVars PROVE ContractsInit'
  BY <1>2 DEF ContractsInit, contractVars
<1>3. ASSUME ProjectsInit, UNCHANGED projectVars PROVE ProjectsInit'
  BY <1>3 DEF ProjectsInit, projectVars
<1>4. ASSUME EvidenceInit, UNCHANGED evidenceVars PROVE EvidenceInit'
  BY <1>4 DEF EvidenceInit, evidenceVars
<1>5. ASSUME BudgetsInit, UNCHANGED budgetVars PROVE BudgetsInit'
  BY <1>5 DEF BudgetsInit, budgetVars
<1>6. ASSUME SuppliersInit, UNCHANGED supplierVars PROVE SuppliersInit'
  BY <1>6 DEF SuppliersInit, supplierVars
<1>7. ASSUME WhistleblowerInit, UNCHANGED reportVars PROVE WhistleblowerInit'
  BY <1>7 DEF WhistleblowerInit, reportVars
<1>8. CASE part = "contracts"
  <2>1. /\ [ContractsNext]_<<contractVars, request>>
        /\ UNCHANGED <<projectVars, evidenceVars, budgetVars, supplierVars, reportVars>>
    BY <1>8 DEF RecordsNext, recordVars
  <2>2. ContractsInv'
    BY <1>8, <2>1, ContractsStep DEF RecordsInv
  <2>3. QED
    BY <1>1, <1>3, <1>4, <1>5, <1>6, <1>7, <1>8, <2>1, <2>2 DEF RecordsInv
<1>9. CASE part = "projects"
  <2>1. /\ [ProjectsNext]_<<projectVars, request>>
        /\ UNCHANGED <<contractVars, evidenceVars, budgetVars, supplierVars, reportVars>>
    BY <1>9 DEF RecordsNext, recordVars
  <2>2. ProjectsInv'
    BY <1>9, <2>1, ProjectsStep DEF RecordsInv
  <2>3. QED
    BY <1>1, <1>2, <1>4, <1>5, <1>6, <1>7, <1>9, <2>1, <2>2 DEF RecordsInv
<1>10. CASE part = "evidence"
  <2>1. /\ [EvidenceNext]_<<evidenceVars, request>>
        /\ UNCHANGED <<contractVars, projectVars, budgetVars, supplierVars, reportVars>>
    BY <1>10 DEF RecordsNext, recordVars
  <2>2. EvidenceInv'
    BY <1>10, <2>1, EvidenceStep DEF RecordsInv
  <2>3. QED
    BY <1>1, <1>2, <1>3, <1>5, <1>6, <1>7, <1>10, <2>1, <2>2 DEF RecordsInv
<1>11. CASE part = "budgets"
  <2>1. /\ [BudgetsNext]_<<budgetVars, request>>
        /\ UNCHANGED <<contractVars, projectVars, evidenceVars, supplierVars, reportVars>>
    BY <1>11 DEF RecordsNext, recordVars
  <2>2. BudgetsInv'
    BY <1>11, <2>1, BudgetsStep DEF RecordsInv
  <2>3. QED
    BY <1>1, <1>2, <1>3, <1>4, <1>6, <1>7, <1>11, <2>1, <2>2 DEF RecordsInv
<1>12. CASE part = "suppliers"
  <2>1. /\ [SuppliersNext]_<<supplierVars, request>>
        /\ UNCHANGED <<contractVars, projectVars, evidenceVars, budgetVars, reportVars>>
    BY <1>12 DEF RecordsNext, recordVars
  <2>2. SuppliersInv'
    BY <1>12, <2>1, SuppliersStep DEF RecordsInv
  <2>3. QED
    BY <1>1, <1>2, <1>3, <1>4, <1>5, <1>7, <1>12, <2>1, <2>2 DEF RecordsInv
<1>13. CASE part = "reports"
  <2>1. /\ [WhistleblowerNext]_<<reportVars, request>>
        /\ UNCHANGED <<contractVars, projectVars, evidenceVars, budgetVars, supplierVars>>
    BY <1>13 DEF RecordsNext, recordVars
  <2>2. ReportsInv'
    BY <1>13, <2>1, ReportsStep DEF RecordsInv
  <2>3. QED
    BY <1>1, <1>2, <1>3, <1>4, <1>5, <1>6, <1>13, <2>1, <2>2 DEF RecordsInv
<1>14. QED
  BY <1>1, <1>8, <1>9, <1>10, <1>11, <1>12, <1>13 DEF Parts

\* Every contract, order, invoice, project, milestone, file, budget, owner and
\* report and every request for them is of its type, whichever of the six runs.
THEOREM RecordsAreTyped == RecordsSpec => []RecordsTypeOK
<1>1. RecordsInv => RecordsTypeOK
  <2> SUFFICES ASSUME RecordsInv PROVE RecordsTypeOK
    OBVIOUS
  <2>1. ContractsInv => ContractsTypeOK /\ request \in [Requests -> ContractRequest]
    BY DEF ContractsInv
  <2>2. ProjectsInv => ProjectsTypeOK /\ request \in [Requests -> ProjectRequest]
    BY DEF ProjectsInv
  <2>3. EvidenceInv => EvidenceTypeOK /\ request \in [Requests -> EvidenceRequest]
    BY DEF EvidenceInv
  <2>4. BudgetsInv => BudgetsTypeOK /\ request \in [Requests -> BudgetRequest]
    BY DEF BudgetsInv
  <2>5. SuppliersInv => SuppliersTypeOK /\ request \in [Requests -> SupplierRequest]
    BY DEF SuppliersInv
  <2>6. ReportsInv => WhistleblowerTypeOK /\ request \in [Requests -> ReportRequest]
    BY DEF ReportsInv
  <2>7. /\ ContractsTypeOK /\ ProjectsTypeOK /\ EvidenceTypeOK
         /\ BudgetsTypeOK /\ SuppliersTypeOK /\ WhistleblowerTypeOK
    BY <2>1, <2>2, <2>3, <2>4, <2>5, <2>6, RecordsBeginTyped DEF RecordsInv
  <2>8. request \in [Requests -> ContractRequest \cup ProjectRequest \cup EvidenceRequest \cup
                                   BudgetRequest \cup SupplierRequest \cup ReportRequest]
    <3>1. CASE part = "contracts"
      BY <2>1, <3>1 DEF RecordsInv
    <3>2. CASE part = "projects"
      BY <2>2, <3>2 DEF RecordsInv
    <3>3. CASE part = "evidence"
      BY <2>3, <3>3 DEF RecordsInv
    <3>4. CASE part = "budgets"
      BY <2>4, <3>4 DEF RecordsInv
    <3>5. CASE part = "suppliers"
      BY <2>5, <3>5 DEF RecordsInv
    <3>6. CASE part = "reports"
      BY <2>6, <3>6 DEF RecordsInv
    <3>7. QED
      BY <3>1, <3>2, <3>3, <3>4, <3>5, <3>6 DEF RecordsInv, Parts
  <2>9. QED
    BY <2>7, <2>8 DEF RecordsInv, RecordsTypeOK
<1>2. QED
  BY <1>1, RecordsBegin, RecordsStep, PTL DEF RecordsSpec

=============================================================================
