------------------------------ MODULE Sourcing ------------------------------
(***************************************************************************)
(* What the organization buys: Procurement, Tendering, RiskAlerts and      *)
(* Detectors.  The four share no row, so a behaviour takes the steps of    *)
(* one of them: together they would only interleave steps that commute.    *)
(***************************************************************************)
EXTENDS Procurement, Tendering, RiskAlerts, Detectors

VARIABLE part       \* which of the four a behaviour is about

Parts == {"procurement", "tendering", "risk alerts", "detectors"}

sourcingVars == <<purchaseVars, tenderVars, riskVars, detectorVars, request, part>>

SourcingTypeOK ==
  /\ part \in Parts
  /\ ProcurementTypeOK
  /\ TenderTypeOK
  /\ RiskTypeOK
  /\ DetectorsTypeOK
  /\ request \in [Requests -> PurchaseRequest \cup TenderRequest \cup RiskRequest]

SourcingInit ==
  /\ ProcurementInit /\ TenderInit /\ RiskInit /\ DetectorsInit /\ HandlersInit
  /\ part \in Parts

SourcingNext ==
  /\ \/ /\ part = "procurement" /\ ProcurementNext
        /\ UNCHANGED <<tenderVars, riskVars, detectorVars>>
     \/ /\ part = "tendering" /\ TenderNext
        /\ UNCHANGED <<purchaseVars, riskVars, detectorVars>>
     \/ /\ part = "risk alerts" /\ RiskNext
        /\ UNCHANGED <<purchaseVars, tenderVars, detectorVars>>
     \/ /\ part = "detectors" /\ DetectorsNext
        /\ UNCHANGED <<purchaseVars, tenderVars, riskVars, request>>
  /\ UNCHANGED part

SourcingSpec == SourcingInit /\ [][SourcingNext]_sourcingVars
=============================================================================
