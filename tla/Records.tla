------------------------------ MODULE Records -------------------------------
(***************************************************************************)
(* What the organization keeps about what it bought: Contracts, Projects,  *)
(* Evidence, Budgets, Suppliers and Whistleblower.  No row belongs to two  *)
(* of them, so a behaviour takes the steps of one.                         *)
(***************************************************************************)
EXTENDS Contracts, Projects, Evidence, Budgets, Suppliers, Whistleblower

VARIABLE part       \* which of the six a behaviour is about

Parts == {"contracts", "projects", "evidence", "budgets", "suppliers", "reports"}

recordVars ==
  <<contractVars, projectVars, evidenceVars, budgetVars, supplierVars, reportVars, request, part>>

RecordsTypeOK ==
  /\ part \in Parts
  /\ ContractsTypeOK
  /\ ProjectsTypeOK
  /\ EvidenceTypeOK
  /\ BudgetsTypeOK
  /\ SuppliersTypeOK
  /\ WhistleblowerTypeOK
  /\ request \in [Requests -> ContractRequest \cup ProjectRequest \cup EvidenceRequest \cup
                              BudgetRequest \cup SupplierRequest \cup ReportRequest]

RecordsInit ==
  /\ ContractsInit /\ ProjectsInit /\ EvidenceInit
  /\ BudgetsInit /\ SuppliersInit /\ WhistleblowerInit /\ HandlersInit
  /\ part \in Parts

RecordsNext ==
  /\ \/ /\ part = "contracts" /\ ContractsNext
        /\ UNCHANGED <<projectVars, evidenceVars, budgetVars, supplierVars, reportVars>>
     \/ /\ part = "projects" /\ ProjectsNext
        /\ UNCHANGED <<contractVars, evidenceVars, budgetVars, supplierVars, reportVars>>
     \/ /\ part = "evidence" /\ EvidenceNext
        /\ UNCHANGED <<contractVars, projectVars, budgetVars, supplierVars, reportVars>>
     \/ /\ part = "budgets" /\ BudgetsNext
        /\ UNCHANGED <<contractVars, projectVars, evidenceVars, supplierVars, reportVars>>
     \/ /\ part = "suppliers" /\ SuppliersNext
        /\ UNCHANGED <<contractVars, projectVars, evidenceVars, budgetVars, reportVars>>
     \/ /\ part = "reports" /\ WhistleblowerNext
        /\ UNCHANGED <<contractVars, projectVars, evidenceVars, budgetVars, supplierVars>>
  /\ UNCHANGED part

RecordsSpec == RecordsInit /\ [][RecordsNext]_recordVars
=============================================================================
