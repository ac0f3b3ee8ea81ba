----------------------------- MODULE Suppliers -----------------------------
(***************************************************************************)
(* SupplierProfileService, SupplierOwnersService, SupplierDocumentsService *)
(* and SupplierRiskDetector.evaluateSupplier, for one supplier: suppliers  *)
(* share no row.  Statuses are checked on a read and written by id, the    *)
(* owners' total is summed without a lock, and a change that bears on risk *)
(* ends with an evaluation, whose failure is swallowed.                    *)
(*                                                                         *)
(* Time is one step: a document's expiry date passes.                      *)
(***************************************************************************)
EXTENDS Handlers, Integers, FiniteSets, FiniteSetsExt, Totals

CONSTANTS
  Owners,         \* ids of supplier_owners
  Documents,      \* ids of supplier_documents
  Percentages     \* what an owner may be declared with

ASSUME SuppliersAssumption ==
  /\ IsFiniteSet(Requests) /\ IsFiniteSet(Owners) /\ IsFiniteSet(Documents)
  /\ Percentages \subseteq 1..100

VARIABLES
  status,         \* suppliers.status
  owner,          \* supplier_owners
  document,       \* supplier_documents.status
  expired,        \* documents past their expiry date
  assessed,       \* a profile was inserted from a read of the present status
  riskAlert,      \* a SUPPLIER_RISK alert was raised
  unassessed      \* a request failed after its update of the status

supplierVars == <<status, owner, document, expired, assessed, riskAlert, unassessed>>

Levels == {"LOW", "MEDIUM", "HIGH", "CRITICAL"}
StatusWrite == {"suspend", "reactivate", "blacklist"}

SupplierRequest ==
  {Idle} \cup
  [at : StatusWrite \cup {"evaluateSupplier"}] \cup
  [at : {"verify", "reject"}, document : Documents] \cup
  [at : {"addOwner"}, owner : Owners, percentage : Percentages, pep : BOOLEAN] \cup
  [at : {"createProfile"}, status : {"ACTIVE", "SUSPENDED", "BLACKLISTED"}, level : Levels] \cup
  [at : {"raiseAlert"}]

SuppliersTypeOK ==
  /\ status \in {"ACTIVE", "SUSPENDED", "BLACKLISTED"}
  /\ owner \in [Owners -> {None} \cup [percentage : Percentages, pep : BOOLEAN]]
  /\ document \in [Documents -> {"NONE", "PENDING", "VERIFIED", "REJECTED"}]
  /\ expired \subseteq Documents
  /\ assessed \in BOOLEAN /\ riskAlert \in BOOLEAN /\ unassessed \in BOOLEAN

SuppliersInit ==
  /\ status = "ACTIVE"
  /\ owner = [o \in Owners |-> None]
  /\ document = [d \in Documents |-> "NONE"]
  /\ expired = {}
  /\ assessed = TRUE            \* of a supplier that never changed status
  /\ riskAlert = FALSE
  /\ unassessed = FALSE

\* The percentages in the rows, and their sum.
Declared == [o \in Owners |-> IF owner[o] = None THEN 0 ELSE owner[o].percentage]
Owned == Total(Declared, Owners)

-----------------------------------------------------------------------------
(* SupplierProfileService                                                  *)

ReadSupplier(r) ==
  /\ \/ status = "ACTIVE" /\ Start(r, [at |-> "suspend"])
     \/ status = "SUSPENDED" /\ Start(r, [at |-> "reactivate"])
     \/ status # "BLACKLISTED" /\ Start(r, [at |-> "blacklist"])
  /\ UNCHANGED supplierVars

UpdateStatus(r) ==
  /\ request[r].at \in StatusWrite
  /\ status' = CASE request[r].at = "suspend" -> "SUSPENDED"
                 [] request[r].at = "reactivate" -> "ACTIVE"
                 [] request[r].at = "blacklist" -> "BLACKLISTED"
  /\ assessed' = FALSE
  /\ request' = [request EXCEPT ![r] = [at |-> "evaluateSupplier"]]
  /\ UNCHANGED <<owner, document, expired, riskAlert, unassessed>>

-----------------------------------------------------------------------------
(* SupplierOwnersService                                                   *)

\* Mutant: the new owner is not counted in.
SumOthers(r, o, percentage, pep) ==
  /\ owner[o] = None
  /\ \A s \in Requests : request[s].at = "addOwner" => request[s].owner # o
  /\ Owned < 100
  /\ Start(r, [at |-> "addOwner", owner |-> o, percentage |-> percentage, pep |-> pep])
  /\ UNCHANGED supplierVars

SumOwnership(r, o, percentage, pep) ==
  /\ owner[o] = None
  /\ \A s \in Requests : request[s].at = "addOwner" => request[s].owner # o
  /\ Owned + percentage <= 100
  /\ Start(r, [at |-> "addOwner", owner |-> o, percentage |-> percentage, pep |-> pep])
  /\ UNCHANGED supplierVars

AddOwner(r) ==
  /\ request[r].at = "addOwner"
  /\ owner' = [owner EXCEPT ![request[r].owner] =
                 [percentage |-> request[r].percentage, pep |-> request[r].pep]]
  /\ IF request[r].pep THEN request' = [request EXCEPT ![r] = [at |-> "evaluateSupplier"]]
     ELSE Stop(r)
  /\ UNCHANGED <<status, document, expired, assessed, riskAlert, unassessed>>

\* remove: the risk is not evaluated again.
RemoveOwner(o) ==
  /\ owner[o] # None
  /\ owner' = [owner EXCEPT ![o] = None]
  /\ UNCHANGED <<status, document, expired, assessed, riskAlert, unassessed, request>>

-----------------------------------------------------------------------------
(* SupplierDocumentsService                                                *)

UploadDocument(d) ==
  /\ document[d] = "NONE"
  /\ document' = [document EXCEPT ![d] = "PENDING"]
  /\ UNCHANGED <<status, owner, expired, assessed, riskAlert, unassessed, request>>

Expire(d) ==
  /\ document[d] # "NONE"
  /\ expired' = expired \cup {d}
  /\ UNCHANGED <<status, owner, document, assessed, riskAlert, unassessed, request>>

ReadDocument(r, d) ==
  /\ document[d] = "PENDING"
  /\ Start(r, [at |-> "verify", document |-> d]) \/ Start(r, [at |-> "reject", document |-> d])
  /\ UNCHANGED supplierVars

UpdateDocument(r) ==
  /\ request[r].at \in {"verify", "reject"}
  /\ document' = [document EXCEPT ![request[r].document] =
                    IF request[r].at = "verify" THEN "VERIFIED" ELSE "REJECTED"]
  /\ IF request[r].at = "reject"
     THEN request' = [request EXCEPT ![r] = [at |-> "evaluateSupplier"]]
     ELSE Stop(r)
  /\ UNCHANGED <<status, owner, expired, assessed, riskAlert, unassessed>>

-----------------------------------------------------------------------------
(* SupplierRiskDetector.evaluateSupplier                                   *)

RawScore ==
    40 * Cardinality({o \in Owners : owner[o] # None /\ owner[o].pep})
  + 15 * Cardinality({d \in Documents : document[d] = "REJECTED"})
  + 10 * Cardinality({d \in expired : document[d] = "VERIFIED"})
  + IF status = "SUSPENDED" THEN 20 ELSE IF status = "BLACKLISTED" THEN 50 ELSE 0

Score == Min({100, RawScore})

RiskLevel ==
  IF Score >= 75 THEN "CRITICAL" ELSE IF Score >= 50 THEN "HIGH"
  ELSE IF Score >= 25 THEN "MEDIUM" ELSE "LOW"

EvaluateSupplier(r) ==
  /\ request[r].at = "evaluateSupplier"
  /\ request' = [request EXCEPT ![r] =
                   [at |-> "createProfile", status |-> status, level |-> RiskLevel]]
  /\ UNCHANGED supplierVars

CreateProfile(r) ==
  /\ request[r].at = "createProfile"
  /\ assessed' = (assessed \/ request[r].status = status)
  /\ IF request[r].level \in {"HIGH", "CRITICAL"}
     THEN request' = [request EXCEPT ![r] = [at |-> "raiseAlert"]] ELSE Stop(r)
  /\ UNCHANGED <<status, owner, document, expired, riskAlert, unassessed>>

\* An alert that is open already stands for this one.
RaiseRiskAlert(r) ==
  /\ request[r].at = "raiseAlert"
  /\ riskAlert' = TRUE
  /\ Stop(r)
  /\ UNCHANGED <<status, owner, document, expired, assessed, unassessed>>

SuppliersFail(r) ==
  /\ Abandon(r)
  /\ unassessed' = (unassessed \/
                      request[r].at \in {"evaluateSupplier", "createProfile", "raiseAlert"})
  /\ UNCHANGED <<status, owner, document, expired, assessed, riskAlert>>

SuppliersNext ==
  \/ \E o \in Owners : RemoveOwner(o)
  \/ \E d \in Documents : UploadDocument(d) \/ Expire(d)
  \/ \E r \in Requests :
       \/ ReadSupplier(r)
       \/ UpdateStatus(r)
       \/ \E o \in Owners, percentage \in Percentages, pep \in BOOLEAN :
            SumOwnership(r, o, percentage, pep)
       \/ AddOwner(r)
       \/ \E d \in Documents : ReadDocument(r, d)
       \/ UpdateDocument(r)
       \/ EvaluateSupplier(r)
       \/ CreateProfile(r)
       \/ RaiseRiskAlert(r)
       \/ SuppliersFail(r)

SuppliersSpec == SuppliersInit /\ HandlersInit /\ [][SuppliersNext]_<<supplierVars, request>>
-----------------------------------------------------------------------------
(* Owners are summed without a lock, so that requests that overlap exceed  *)
(* the 100 % each of them kept to; they exceed it by no more than 100 % a  *)
(* request, and a single one never does.                                   *)
OwnershipIsBounded == Owned <= 100 * Cardinality(Requests)

Evaluating ==
  \E r \in Requests :
    request[r].at \in StatusWrite \cup {"evaluateSupplier", "createProfile", "raiseAlert"}

(* Whatever order statuses are written in, the status that stays was read  *)
(* by an evaluation that was recorded: the last writer evaluates after its *)
(* own write.                                                              *)
EveryStatusIsAssessed == assessed \/ unassessed \/ Evaluating

(* A blacklisted supplier has had its alert, with no other factor.         *)
BlacklistedIsAlerted == status = "BLACKLISTED" => riskAlert \/ unassessed \/ Evaluating

\* Suppliers are owned within bounds and assessed as they stand.
SuppliersAreVetted == OwnershipIsBounded /\ EveryStatusIsAssessed /\ BlacklistedIsAlerted

(* What a comment says, and the code does not do.                          *)

(* blacklist is "a one-way door by design: unlike reactivate(), there is   *)
(* no API path back from BLACKLISTED".                                     *)
BlacklistingStays == [][status = "BLACKLISTED" => status' = "BLACKLISTED"]_supplierVars
=============================================================================
