---------------------------- MODULE Procurement ----------------------------
(***************************************************************************)
(* ProcurementRequestsService over the budget ledger: a purchase (the      *)
(* code's procurement request) is drafted, submitted, and approved or      *)
(* rejected; its approval commits its estimate.                            *)
(*                                                                         *)
(* approve checks the status it read first, then - awaits later - commits  *)
(* the budget in AllocationsService's transaction and after that writes    *)
(* the purchase by a statement of its own.  Neither looks at the status    *)
(* again.                                                                  *)
(*                                                                         *)
(* The budget office meanwhile releases commitments and pays them: two     *)
(* handlers of AllocationsService, which check the commitment on a read    *)
(* ahead of their lock and do not read it again under it.                  *)
(*                                                                         *)
(* The plan of the purchases is approved, and all are of one organization. *)
(* The risk alerts that may block an approval are not modelled: a check    *)
(* for them can refuse at any time.                                        *)
(***************************************************************************)
EXTENDS Ledger, Handlers

CONSTANTS
  Purchases,          \* ids procurement_requests rows can have
  DrawsOn,            \* the allocation of each
  EstimatedAmount,    \* procurement_requests."estimatedAmount"
  Actors              \* users of the organization

ASSUME ProcurementAssumption ==
  /\ IsFiniteSet(Purchases)
  /\ DrawsOn \in [Purchases -> Allocations]
  /\ EstimatedAmount \in [Purchases -> Nat]
  /\ None \notin Actors \cup Purchases \cup Commitments

VARIABLES
  purchase,     \* the procurement_requests rows
  overtaken,    \* history: requests whose commitment was written since they checked it
  lateWrites    \* history: how often requests that were overtaken wrote a commitment

history == <<overtaken, lateWrites>>
purchaseVars == <<ledgerVars, purchase, history>>

NoPurchase == [status |-> "NONE", requestedBy |-> None, approvedBy |-> None, commitmentId |-> None]

PurchaseRow ==
  [status : {"NONE", "DRAFT", "SUBMITTED", "APPROVED", "REJECTED"},
   requestedBy : Actors \cup {None}, approvedBy : Actors \cup {None},
   commitmentId : Commitments \cup {None}]

\* The budget office's handlers, between their check and their transaction.
Moves == {"releaseCommitment", "createExpenditure"}

PurchaseRequest ==
  {Idle} \cup
  [at : {"submit", "findBlockingAlert", "createCommitment", "approve", "reject"},
   purchase : Purchases, actor : Actors \cup {None}, commitment : Commitments \cup {None}]
  \cup [at : Moves, commitment : Commitments, amount : Nat]

\* A purchase refers to a commitment that is there.
ProcurementTypeOK ==
  /\ LedgerTypeOK
  /\ purchase \in [Purchases -> PurchaseRow]
  /\ overtaken \subseteq Requests
  /\ lateWrites \in [Commitments -> Nat]
  /\ \A q \in Purchases :
       purchase[q].commitmentId # None => commitment[purchase[q].commitmentId] # NoRow

ProcurementInit ==
  /\ LedgerInit
  /\ purchase = [q \in Purchases |-> NoPurchase]
  /\ overtaken = {}
  /\ lateWrites = [c \in Commitments |-> 0]

\* A handler's read of the purchase lets it go on.
ReadThen(r, at, q, u) ==
  /\ Start(r, [at |-> at, purchase |-> q, actor |-> u, commitment |-> None])
  /\ UNCHANGED purchaseVars

-----------------------------------------------------------------------------
\* Nothing that create reads ahead of its insert ever changes.
CreatePurchase(q, u) ==
  /\ purchase[q] = NoPurchase
  /\ purchase' = [purchase EXCEPT ![q].status = "DRAFT", ![q].requestedBy = u]
  /\ UNCHANGED <<ledgerVars, history, request>>

ReadForSubmit(r, q) ==
  /\ purchase[q].status = "DRAFT"
  /\ ReadThen(r, "submit", q, None)

SubmitPurchase(r) ==
  /\ request[r].at = "submit"
  /\ purchase' = [purchase EXCEPT ![request[r].purchase].status = "SUBMITTED"]
  /\ Stop(r)
  /\ UNCHANGED <<ledgerVars, history>>

ReadForApproval(r, q, u) ==
  /\ purchase[q].requestedBy # u
  /\ purchase[q].status = "SUBMITTED"
  /\ ReadThen(r, "findBlockingAlert", q, u)

PassRiskGate(r) ==
  /\ request[r].at = "findBlockingAlert"
  /\ Go(r, "createCommitment") \/ Stop(r)
  /\ UNCHANGED purchaseVars

\* The id the next commitment on allocation a gets: ids that no row has are
\* alike, so one of them stands for all.
NewIds(a) ==
  LET unused == {c \in Commitments : AllocationOf[c] = a /\ commitment[c] = NoRow}
  IN  IF unused = {} THEN {} ELSE {CHOOSE c \in unused : TRUE}

\* Mutant: createCommitment is not awaited and fails.
CommitBudgetUnawaited(r) ==
  LET q == request[r].purchase IN
  /\ request[r].at = "createCommitment"
  /\ \E c \in NewIds(DrawsOn[q]) :
       /\ request' = [request EXCEPT ![r].at = "approve", ![r].commitment = c]
  /\ UNCHANGED purchaseVars

\* AllocationsService.createCommitment for the estimate; it throws if the
\* allocation does not have it available.
CommitBudget(r) ==
  LET q == request[r].purchase IN
  /\ request[r].at = "createCommitment"
  /\ \E c \in NewIds(DrawsOn[q]) :
       /\ CommitTx(c, EstimatedAmount[q])
       /\ request' = [request EXCEPT ![r].at = "approve", ![r].commitment = c]
  /\ UNCHANGED <<purchase, history>>

ApprovePurchase(r) ==
  LET q == request[r].purchase IN
  /\ request[r].at = "approve"
  /\ purchase' = [purchase EXCEPT ![q].status = "APPROVED",
                                  ![q].approvedBy = request[r].actor,
                                  ![q].commitmentId = request[r].commitment]
  /\ Stop(r)
  /\ UNCHANGED <<ledgerVars, history>>

ReadForReject(r, q) ==
  /\ purchase[q].status = "SUBMITTED"
  /\ ReadThen(r, "reject", q, None)

RejectPurchase(r) ==
  /\ request[r].at = "reject"
  /\ purchase' = [purchase EXCEPT ![request[r].purchase].status = "REJECTED"]
  /\ Stop(r)
  /\ UNCHANGED <<ledgerVars, history>>

-----------------------------------------------------------------------------
(* The budget office.                                                      *)

\* Request s has checked commitment c and is about to write it.
IsMoving(s, c) == request[s].at \in Moves /\ request[s].commitment = c

\* Whoever else is about to write c will do so on a check that is out of date,
\* as r does if another request has written c since r checked it.
Overtake(r, c) ==
  /\ overtaken' = (overtaken \cup {s \in Requests : IsMoving(s, c)}) \ {r}
  /\ lateWrites' = IF r \in overtaken THEN [lateWrites EXCEPT ![c] = @ + 1] ELSE lateWrites

\* Mutant: the status is not checked.
ReadForReleaseUnchecked(r, c) ==
  /\ commitment[c] # NoRow
  /\ Start(r, [at |-> "releaseCommitment", commitment |-> c, amount |-> 0])
  /\ UNCHANGED purchaseVars

ReadForRelease(r, c) ==
  /\ commitment[c].status = "ACTIVE"
  /\ Start(r, [at |-> "releaseCommitment", commitment |-> c, amount |-> 0])
  /\ UNCHANGED purchaseVars

ReleaseCommitment(r) ==
  LET c == request[r].commitment IN
  /\ request[r].at = "releaseCommitment"
  /\ ReleaseTx(c)
  /\ Overtake(r, c)
  /\ Stop(r)
  /\ UNCHANGED purchase

ReadForExpenditure(r, c, m) ==
  /\ commitment[c].status = "ACTIVE"
  /\ m <= commitment[c].amount
  /\ Start(r, [at |-> "createExpenditure", commitment |-> c, amount |-> m])
  /\ UNCHANGED purchaseVars

CreateExpenditure(r) ==
  LET c == request[r].commitment IN
  /\ request[r].at = "createExpenditure"
  /\ SpendTx(c, request[r].amount)
  /\ Overtake(r, c)
  /\ Stop(r)
  /\ UNCHANGED purchase

-----------------------------------------------------------------------------
\* An await throws - no budget is available, say - or the API crashes.
FailPurchaseRequest(r) ==
  /\ Abandon(r)
  /\ overtaken' = overtaken \ {r}
  /\ UNCHANGED <<ledgerVars, purchase, lateWrites>>

ProcurementNext ==
  \/ \E q \in Purchases, u \in Actors : CreatePurchase(q, u)
  \/ \E r \in Requests :
       \/ \E q \in Purchases :
            \/ ReadForSubmit(r, q)
            \/ \E u \in Actors : ReadForApproval(r, q, u)
            \/ ReadForReject(r, q)
       \/ \E c \in Commitments :
            \/ ReadForRelease(r, c)
            \/ \E m \in Amounts : ReadForExpenditure(r, c, m)
       \/ SubmitPurchase(r)
       \/ PassRiskGate(r)
       \/ CommitBudget(r)
       \/ ApprovePurchase(r)
       \/ RejectPurchase(r)
       \/ ReleaseCommitment(r)
       \/ CreateExpenditure(r)
       \/ FailPurchaseRequest(r)

ProcurementSpec ==
  ProcurementInit /\ HandlersInit /\ [][ProcurementNext]_<<purchaseVars, request>>
-----------------------------------------------------------------------------
(* Safety, whatever the requests interleave and wherever they end.         *)

\* An approved purchase has a commitment, of its own, of its estimate and on
\* its allocation, and somebody other than its requester approved it - however
\* often it was approved, submitted again or rejected meanwhile.
ApprovedIsCommitted ==
  \A q \in Purchases :
    LET c == purchase[q].commitmentId IN
    /\ purchase[q].status = "APPROVED" => c # None
    /\ c # None =>
         /\ commitment[c].amount = EstimatedAmount[q]
         /\ AllocationOf[c] = DrawsOn[q]
         /\ purchase[q].approvedBy \notin {None, purchase[q].requestedBy}
         /\ \A p \in Purchases \ {q} : purchase[p].commitmentId # c

\* What the approved purchases of allocation a are about to cost.
EstimatesOn(a) ==
  [q \in Purchases |->
     IF /\ DrawsOn[q] = a
        /\ purchase[q].status = "APPROVED"
        /\ commitment[purchase[q].commitmentId].status = "ACTIVE"
     THEN EstimatedAmount[q] ELSE 0]

\* What late writes gave back to allocation a a second time.
GivenBackAgain(a) ==
  [c \in Commitments |-> IF AllocationOf[c] = a THEN lateWrites[c] * commitment[c].amount ELSE 0]

\* Together with what was paid, the approved purchases go beyond the budget by
\* no more than what requests gave back on a check that was out of date.
ApprovalsFit ==
  \A a \in Allocations :
    Total(EstimatesOn(a), Purchases) + Paid(a)
      <= authorized[a] + Total(GivenBackAgain(a), Commitments)

\* An approval is backed by money, however often a purchase changes hands: it
\* has a commitment of its own, and only a request that another one overtook
\* between its check and its write lets approvals go beyond the budget.
ApprovedIsFunded == ApprovedIsCommitted /\ ApprovalsFit

(* What the documents say, and the code does not do.                       *)

\* Allocations "cannot be over-committed even under concurrent load": what the
\* approved purchases cost and what was paid fit in the budget.
ApprovedFitsBudget ==
  \A a \in Allocations : Total(EstimatesOn(a), Purchases) + Paid(a) <= authorized[a]

\* Approval "atomically creates a budget Commitment": a commitment is some
\* purchase's, or the request that made it is about to say so.
CommitmentsAreOwned ==
  \A c \in Commitments :
    commitment[c] # NoRow =>
      \/ \E q \in Purchases : purchase[q].commitmentId = c
      \/ \E r \in Requests : request[r].at = "approve" /\ request[r].commitment = c
=============================================================================
