----------------------------- MODULE Allocations -----------------------------
(***************************************************************************)
(* AllocationsService: commitments, expenditures and adjustments of the    *)
(* budget ledger, as concurrent HTTP requests run them.                    *)
(*                                                                         *)
(* A handler that moves existing money reads its row with no lock, returns *)
(* early unless the row's status allows the move, and only then opens the  *)
(* transaction that locks the allocation - in which the status is not read *)
(* again.  Between the two, other requests run.  After the transaction has *)
(* committed, the handler appends an audit event in a transaction of its   *)
(* own.  A request can end after any of these steps: an error, a timeout   *)
(* or a crash of the API loses what the handler has not done yet.          *)
(***************************************************************************)
EXTENDS Ledger

CONSTANTS
  Requests,       \* handler activations that can run at the same time
  Actors,         \* users
  Scope,          \* <<u, a>>: u is of allocation a's organization, or super admin
  Adjustments,    \* ids budget_adjustments rows can have
  AdjustmentOf,   \* the allocation an id's adjustment changes
  None            \* null

ASSUME AllocationsAssumption ==
  /\ Scope \subseteq Actors \X Allocations
  /\ IsFiniteSet(Adjustments)
  /\ AdjustmentOf \in [Adjustments -> Allocations]
  /\ None \notin Actors \cup Commitments \cup Adjustments

VARIABLES
  adjustment,     \* the budget_adjustments rows
  request,        \* where each request is
  audited         \* the audit events appended, as <<event type, id>>

vars == <<ledgerVars, adjustment, request, audited>>

NoAdjustment ==
  [status |-> "NONE", type |-> None, amount |-> 0, requestedBy |-> None, approvedBy |-> None]

AdjustmentRow ==
  [status : {"NONE", "PENDING", "APPROVED", "REJECTED"},
   type : {None, "INCREASE", "DECREASE"}, amount : Nat,
   requestedBy : Actors \cup {None}, approvedBy : Actors \cup {None}]

\* A request that has read its row and not yet written is at the name of its
\* handler; one that has committed is at the audit event it has to append.
Idle == [at |-> "idle", id |-> None, amount |-> 0, actor |-> None]

Handlers ==
  {"releaseCommitment", "createExpenditure", "approveAdjustment", "rejectAdjustment"}

Events ==
  {"COMMITMENT_CREATED", "COMMITMENT_RELEASED", "EXPENDITURE_RECORDED",
   "BUDGET_ADJUSTMENT_REQUESTED", "BUDGET_ADJUSTMENT_APPROVED",
   "BUDGET_ADJUSTMENT_REJECTED"}

RequestState ==
  [at : {"idle"} \cup Handlers \cup Events,
   id : Commitments \cup Adjustments \cup {None}, amount : Nat,
   actor : Actors \cup {None}]

TypeOK ==
  /\ LedgerTypeOK
  /\ adjustment \in [Adjustments -> AdjustmentRow]
  /\ request \in [Requests -> RequestState]
  /\ audited \subseteq Events \X (Commitments \cup Adjustments)

Init ==
  /\ LedgerInit
  /\ adjustment = [d \in Adjustments |-> NoAdjustment]
  /\ request = [r \in Requests |-> Idle]
  /\ audited = {}

\* assertSameOrganization passes for the request's actor.
ActorInScope(a) == \E u \in Actors : <<u, a>> \in Scope

Go(r, at, id, amount, actor) ==
  request' = [request EXCEPT ![r] =
                [at |-> at, id |-> id, amount |-> amount, actor |-> actor]]

\* A handler's unlocked read of its row lets it go on to its transaction.
ReadThen(r, handler, id, amount, actor) ==
  /\ request[r] = Idle
  /\ Go(r, handler, id, amount, actor)
  /\ UNCHANGED <<ledgerVars, adjustment, audited>>

\* The committing request has an audit event left to append.
ThenAudit(r, event, id) ==
  Go(r, event, id, 0, None) /\ UNCHANGED audited

-----------------------------------------------------------------------------
\* Ahead of its lock createCommitment only reads columns that never change,
\* so it is one step; the balance is read under the lock.
CreateCommitment(r, c, m) ==
  /\ request[r] = Idle
  /\ ActorInScope(AllocationOf[c])
  /\ CommitTx(c, m)
  /\ ThenAudit(r, "COMMITMENT_CREATED", c)
  /\ UNCHANGED adjustment

\* Mutant: the status is not checked.
ReadForReleaseUnchecked(r, c) ==
  /\ ActorInScope(AllocationOf[c])
  /\ commitment[c].status # "NONE"
  /\ ReadThen(r, "releaseCommitment", c, 0, None)

ReadForRelease(r, c) ==
  /\ ActorInScope(AllocationOf[c])
  /\ commitment[c].status = "ACTIVE"
  /\ ReadThen(r, "releaseCommitment", c, 0, None)

\* Mutant: a transaction that rolled back is audited as well.
ReleaseCommitmentOrNot(r) ==
  /\ request[r].at = "releaseCommitment"
  /\ ReleaseTx(request[r].id) \/ UNCHANGED ledgerVars
  /\ ThenAudit(r, "COMMITMENT_RELEASED", request[r].id)
  /\ UNCHANGED adjustment

ReleaseCommitment(r) ==
  /\ request[r].at = "releaseCommitment"
  /\ ReleaseTx(request[r].id)
  /\ ThenAudit(r, "COMMITMENT_RELEASED", request[r].id)
  /\ UNCHANGED adjustment

\* Mutant: the amount is not compared with the commitment's.
ReadForExpenditureUnbounded(r, c, m) ==
  /\ ActorInScope(AllocationOf[c])
  /\ commitment[c].status = "ACTIVE"
  /\ ReadThen(r, "createExpenditure", c, m, None)

ReadForExpenditure(r, c, m) ==
  /\ ActorInScope(AllocationOf[c])
  /\ commitment[c].status = "ACTIVE"
  /\ m <= commitment[c].amount
  /\ ReadThen(r, "createExpenditure", c, m, None)

CreateExpenditure(r) ==
  /\ request[r].at = "createExpenditure"
  /\ SpendTx(request[r].id, request[r].amount)
  /\ ThenAudit(r, "EXPENDITURE_RECORDED", request[r].id)
  /\ UNCHANGED adjustment

CreateAdjustment(r, d, type, m, u) ==
  /\ request[r] = Idle
  /\ adjustment[d] = NoAdjustment
  /\ <<u, AdjustmentOf[d]>> \in Scope
  /\ adjustment' = [adjustment EXCEPT ![d] =
       [status |-> "PENDING", type |-> type, amount |-> m,
        requestedBy |-> u, approvedBy |-> None]]
  /\ ThenAudit(r, "BUDGET_ADJUSTMENT_REQUESTED", d)
  /\ UNCHANGED ledgerVars

\* Mutant: no check that the approver is not the requester.
ReadForOwnApproval(r, d, u) ==
  /\ <<u, AdjustmentOf[d]>> \in Scope
  /\ adjustment[d].status = "PENDING"
  /\ ReadThen(r, "approveAdjustment", d, 0, u)

\* Mutant: an adjustment can be approved in any status.
ReadForAnyApproval(r, d, u) ==
  /\ <<u, AdjustmentOf[d]>> \in Scope
  /\ adjustment[d].requestedBy # u
  /\ adjustment[d].status # "NONE"
  /\ ReadThen(r, "approveAdjustment", d, 0, u)

ReadForApproval(r, d, u) ==
  /\ <<u, AdjustmentOf[d]>> \in Scope
  /\ adjustment[d].requestedBy # u
  /\ adjustment[d].status = "PENDING"
  /\ ReadThen(r, "approveAdjustment", d, 0, u)

\* The new ceiling is computed under the lock; the adjustment is not read again.
ApproveAdjustment(r) ==
  LET d == request[r].id
      a == AdjustmentOf[d]
      newAuthorized == IF adjustment[d].type = "INCREASE"
                       THEN authorized[a] + adjustment[d].amount
                       ELSE authorized[a] - adjustment[d].amount
  IN
  /\ request[r].at = "approveAdjustment"
  /\ adjustment[d].type = "DECREASE" => newAuthorized >= committed[a] + spent[a]
  /\ SetBalance(a, newAuthorized, committed[a], spent[a])
  /\ adjustment' = [adjustment EXCEPT ![d].status = "APPROVED",
                                      ![d].approvedBy = request[r].actor]
  /\ ThenAudit(r, "BUDGET_ADJUSTMENT_APPROVED", d)
  /\ UNCHANGED <<commitment, expenditure>>

ReadForRejection(r, d) ==
  /\ ActorInScope(AdjustmentOf[d])
  /\ adjustment[d].status = "PENDING"
  /\ ReadThen(r, "rejectAdjustment", d, 0, None)

\* One UPDATE, with no lock on the allocation and no condition on the status.
RejectAdjustment(r) ==
  LET d == request[r].id IN
  /\ request[r].at = "rejectAdjustment"
  /\ adjustment' = [adjustment EXCEPT ![d].status = "REJECTED"]
  /\ ThenAudit(r, "BUDGET_ADJUSTMENT_REJECTED", d)
  /\ UNCHANGED ledgerVars

AppendAudit(r) ==
  /\ request[r].at \in Events
  /\ audited' = audited \cup {<<request[r].at, request[r].id>>}
  /\ Go(r, "idle", None, 0, None)
  /\ UNCHANGED <<ledgerVars, adjustment>>

\* The transaction rolls back, the append fails, or the API crashes.
Fail(r) ==
  /\ request[r] # Idle
  /\ Go(r, "idle", None, 0, None)
  /\ UNCHANGED <<ledgerVars, adjustment, audited>>

Next ==
  \E r \in Requests :
    \/ \E c \in Commitments :
         \/ \E m \in Amounts : CreateCommitment(r, c, m) \/ ReadForExpenditure(r, c, m)
         \/ ReadForRelease(r, c)
    \/ \E d \in Adjustments :
         \/ \E type \in {"INCREASE", "DECREASE"}, m \in Amounts, u \in Actors :
              CreateAdjustment(r, d, type, m, u)
         \/ \E u \in Actors : ReadForApproval(r, d, u)
         \/ ReadForRejection(r, d)
    \/ ReleaseCommitment(r)
    \/ CreateExpenditure(r)
    \/ ApproveAdjustment(r)
    \/ RejectAdjustment(r)
    \/ AppendAudit(r)
    \/ Fail(r)

Spec == Init /\ [][Next]_vars

\* The environment the status checks rely on: no two requests are between
\* their read and their write of the same row.
Exclusive ==
  \A r, s \in Requests :
    /\ request[r].at \in Handlers /\ request[s].at \in Handlers
    /\ request[r].id = request[s].id
    => r = s

ExclusiveNext == Next /\ Exclusive'

ExclusiveSpec == Init /\ [][ExclusiveNext]_vars
-----------------------------------------------------------------------------
(* Safety, whatever the requests interleave. *)

\* Nobody approves an adjustment they requested, whoever else decides on it.
FourEyes ==
  \A d \in Adjustments :
    /\ adjustment[d].status = "APPROVED" => adjustment[d].approvedBy # None
    /\ adjustment[d].approvedBy # None =>
         adjustment[d].approvedBy # adjustment[d].requestedBy

\* What happened to the row an event is about, when the event is in the trail.
Happened(event, id) ==
  /\ event = "COMMITMENT_CREATED" => commitment[id].status # "NONE"
  /\ event = "COMMITMENT_RELEASED" => commitment[id].status \in {"RELEASED", "CONSUMED"}
  /\ event = "EXPENDITURE_RECORDED" => expenditure[id] # NoExpenditure
  /\ event = "BUDGET_ADJUSTMENT_REQUESTED" => adjustment[id].status # "NONE"
  /\ event = "BUDGET_ADJUSTMENT_APPROVED" => adjustment[id].approvedBy # None
  /\ event = "BUDGET_ADJUSTMENT_REJECTED" => adjustment[id].status \in {"REJECTED", "APPROVED"}

\* The audit trail never tells of a change that was rolled back.
AuditedHappened ==
  \A e \in audited : Happened(e[1], e[2])

(* What the comments of schema.prisma and the documents say, which holds   *)
(* only when no two requests race on one row.                              *)

ApprovedOn(a, type) ==
  [d \in Adjustments |->
     IF AdjustmentOf[d] = a /\ adjustment[d].status = "APPROVED" /\ adjustment[d].type = type
     THEN adjustment[d].amount ELSE 0]

\* The authorized amount "can only change afterward through an approved
\* BudgetAdjustment": it is the line's amount and the approved adjustments.
CeilingIsAdjusted ==
  \A a \in Allocations :
    authorized[a] = LineAmount[a] + Total(ApprovedOn(a, "INCREASE"), Adjustments)
                                  - Total(ApprovedOn(a, "DECREASE"), Adjustments)

Control == INSTANCE CommitmentControl WITH ceiling <- authorized, paid <- expenditure

\* Without races the running balances are as good as recomputing them: the
\* service implements commitment control.
ImplementsControl == Control!Spec
=============================================================================
