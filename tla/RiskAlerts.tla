----------------------------- MODULE RiskAlerts -----------------------------
(***************************************************************************)
(* RiskAlertsService, SplitProcurementDetector and the part of             *)
(* ProcurementRequestsService that they guard: the purchases of one        *)
(* organization are submitted and approved; an approval is refused while a *)
(* HIGH alert that names the purchase is unresolved, and afterwards the    *)
(* purchases are looked at together and an alert may be raised.            *)
(*                                                                         *)
(* What an approval does to the budget is the subject of Procurement; here *)
(* it can only fail.  All purchases are in the detector's time window.     *)
(***************************************************************************)
EXTENDS Handlers, Totals

CONSTANTS
  Batch,          \* procurement requests, numbered as they were created
  Estimated,      \* the estimated amount of each
  Threshold,      \* RISK_SPLIT_PROCUREMENT_THRESHOLD
  MinCount,       \* RISK_SPLIT_PROCUREMENT_MIN_COUNT
  Alerts          \* ids risk_alerts rows can have

ASSUME RiskAlertsAssumption ==
  /\ Batch \subseteq Nat \ {0} /\ IsFiniteSet(Batch)
  /\ Estimated \in [Batch -> Nat]
  /\ Threshold \in Nat \ {0}
  /\ MinCount \in Nat \ {0}

VARIABLES
  batch,          \* the status of each purchase
  alert,          \* the risk_alerts rows of the split detector
  undetected      \* whether some detection did not end, or looked past a split

riskVars == <<batch, alert, undetected>>

\* OPEN and UNDER_REVIEW alerts are unresolved, CONFIRMED and DISMISSED ones
\* are resolved; nothing tells them apart further.
NoAlert == [on |-> 0, names |-> {}, resolved |-> TRUE]
AlertRow == {NoAlert} \cup [on : Batch, names : SUBSET Batch, resolved : BOOLEAN]

RiskRequest ==
  {Idle} \cup
  [at : {"submit", "findBlockingAlert", "approve", "reject", "evaluateOrganization"}, on : Batch] \cup
  [at : {"findExisting", "raiseAlert"}, on : Batch, names : SUBSET Batch] \cup
  [at : {"review"}, alert : Alerts, resolved : BOOLEAN]

RiskTypeOK ==
  /\ batch \in [Batch -> {"DRAFT", "SUBMITTED", "APPROVED", "REJECTED"}]
  /\ alert \in [Alerts -> AlertRow]
  /\ undetected \in BOOLEAN

RiskInit ==
  /\ batch = [q \in Batch |-> "DRAFT"]
  /\ alert = [a \in Alerts |-> NoAlert]
  /\ undetected = FALSE

Unresolved(a) == ~ alert[a].resolved
SumOfEstimates(S) == Total(Estimated, S)

-----------------------------------------------------------------------------
(* SplitProcurementDetector                                                *)

Counted == {q \in Batch : batch[q] \in {"SUBMITTED", "APPROVED"}}

\* Each below the threshold, and together not.
IsSplit(S) ==
  /\ Cardinality(S) >= MinCount
  /\ \A q \in S : Estimated[q] < Threshold
  /\ SumOfEstimates(S) >= Threshold

BelowThreshold(S) == {q \in S : Estimated[q] < Threshold}

IsHigh(S) == SumOfEstimates(S) >= 2 * Threshold

Blocks(a, q) == Unresolved(a) /\ q \in alert[a].names /\ IsHigh(alert[a].names)

\* One purchase that is over the threshold by itself makes the detector look
\* past a split of the others.
EvaluateOrganization(r) ==
  LET q == request[r].on IN
  /\ request[r].at = "evaluateOrganization"
  /\ IF IsSplit(Counted)
     THEN /\ request' = [request EXCEPT ![r] = [at |-> "findExisting", on |-> q, names |-> Counted]]
          /\ UNCHANGED undetected
     ELSE /\ Stop(r)
          /\ undetected' = (undetected \/ IsSplit(BelowThreshold(Counted)))
  /\ UNCHANGED <<batch, alert>>

-----------------------------------------------------------------------------
(* RiskAlertsService                                                       *)

\* raiseAlert looks for an unresolved alert on the same purchase...
FindExisting(r) ==
  /\ request[r].at = "findExisting"
  /\ IF \E a \in Alerts : Unresolved(a) /\ alert[a].on = request[r].on
     THEN Stop(r) ELSE Go(r, "raiseAlert")
  /\ UNCHANGED riskVars

\* ...and inserts its own if there was none.
RaiseAlert(r) ==
  /\ request[r].at = "raiseAlert"
  /\ \E a \in Alerts :
       /\ alert[a] = NoAlert
       /\ alert' = [alert EXCEPT ![a] =
                      [on |-> request[r].on, names |-> request[r].names, resolved |-> FALSE]]
  /\ Stop(r)
  /\ UNCHANGED <<batch, undetected>>

ReadForReview(r, a, resolved) ==
  /\ Unresolved(a)
  /\ Start(r, [at |-> "review", alert |-> a, resolved |-> resolved])
  /\ UNCHANGED riskVars

Review(r) ==
  /\ request[r].at = "review"
  /\ alert' = [alert EXCEPT ![request[r].alert].resolved = request[r].resolved]
  /\ Stop(r)
  /\ UNCHANGED <<batch, undetected>>

\* RiskScansService.scanOrganization: the latest purchase that counts.
ScanOrganization(r) ==
  /\ Counted # {}
  /\ Start(r, [at |-> "evaluateOrganization",
               on |-> CHOOSE q \in Counted : \A p \in Counted : p <= q])
  /\ UNCHANGED riskVars

-----------------------------------------------------------------------------
(* ProcurementRequestsService                                              *)

ReadPurchase(r, q) ==
  /\ \/ batch[q] = "DRAFT" /\ Start(r, [at |-> "submit", on |-> q])
     \/ batch[q] = "SUBMITTED" /\ Start(r, [at |-> "findBlockingAlert", on |-> q])
     \/ batch[q] = "SUBMITTED" /\ Start(r, [at |-> "reject", on |-> q])
  /\ UNCHANGED riskVars

SubmitInBatch(r) ==
  /\ request[r].at = "submit"
  /\ batch' = [batch EXCEPT ![request[r].on] = "SUBMITTED"]
  /\ Stop(r)
  /\ UNCHANGED <<alert, undetected>>

\* Mutant: an alert blocks only the purchase it is filed under.
FindAlertOnItself(r) ==
  /\ request[r].at = "findBlockingAlert"
  /\ ~ \E a \in Alerts : Blocks(a, request[r].on) /\ alert[a].on = request[r].on
  /\ Go(r, "approve")
  /\ UNCHANGED riskVars

FindBlockingAlert(r) ==
  /\ request[r].at = "findBlockingAlert"
  /\ ~ \E a \in Alerts : Blocks(a, request[r].on)
  /\ Go(r, "approve")
  /\ UNCHANGED riskVars

\* The detector runs after the update, in the same request.
ApproveInBatch(r) ==
  /\ request[r].at = "approve"
  /\ batch' = [batch EXCEPT ![request[r].on] = "APPROVED"]
  /\ Go(r, "evaluateOrganization")
  /\ UNCHANGED <<alert, undetected>>

RejectInBatch(r) ==
  /\ request[r].at = "reject"
  /\ batch' = [batch EXCEPT ![request[r].on] = "REJECTED"]
  /\ Stop(r)
  /\ UNCHANGED <<alert, undetected>>

Detecting(r) == request[r].at \in {"evaluateOrganization", "findExisting", "raiseAlert"}

\* The detector swallows its errors: nobody is told.
RiskFail(r) ==
  /\ Abandon(r)
  /\ undetected' = (undetected \/ Detecting(r))
  /\ UNCHANGED <<batch, alert>>

RiskNext ==
  \E r \in Requests :
    \/ \E q \in Batch : ReadPurchase(r, q)
    \/ \E a \in Alerts, resolved \in BOOLEAN : ReadForReview(r, a, resolved)
    \/ ScanOrganization(r)
    \/ SubmitInBatch(r)
    \/ FindBlockingAlert(r)
    \/ ApproveInBatch(r)
    \/ RejectInBatch(r)
    \/ EvaluateOrganization(r)
    \/ FindExisting(r)
    \/ RaiseAlert(r)
    \/ Review(r)
    \/ RiskFail(r)

RiskSpec == RiskInit /\ HandlersInit /\ [][RiskNext]_<<riskVars, request>>
-----------------------------------------------------------------------------
Approved == {q \in Batch : batch[q] = "APPROVED"}

\* Of purchases that are approved and a split together, one was flagged,
\* whatever they were submitted, approved and rejected with: an alert is on
\* it, or a request is still at it, or one did not end or looked past it for a
\* large purchase.  The alert need not name them all: an unresolved one on the
\* same purchase stands for later findings.
SplitsAreFlagged ==
  IsSplit(Approved) =>
    \/ \E a \in Alerts : alert[a].on \in Approved
    \/ \E r \in Requests : Detecting(r)
    \/ undetected

\* While an alert blocks a purchase no request passes the gate with it: only
\* one that was past it when the alert was raised can still approve it.
PastGate(q) == \E r \in Requests : request[r].at = "approve" /\ request[r].on = q

BlockedIsNotApproved ==
  [][\A q \in Batch :
       (\E a \in Alerts : Blocks(a, q)) /\ ~ PastGate(q) /\ batch[q] # "APPROVED" =>
         ~ PastGate(q)' /\ batch'[q] # "APPROVED"]_<<riskVars, request>>

\* A split is seen, and what is seen stops at the gate.
SplitsAreStopped == []SplitsAreFlagged /\ BlockedIsNotApproved
=============================================================================
