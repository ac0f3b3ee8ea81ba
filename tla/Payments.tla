------------------------------ MODULE Payments ------------------------------
(***************************************************************************)
(* InvoicesService.verify and reject, and PaymentsService: the approval of *)
(* a payment by several signatures and its execution, "claim, then work".  *)
(*                                                                         *)
(* A verified invoice has one payment request (invoiceId is unique), and a *)
(* payment request at most one payment (paymentRequestId is unique), so    *)
(* both are kept by the invoice's id.  A payment row whose expenditureId   *)
(* is null is a claim: its owner still has the budget to spend.            *)
(*                                                                         *)
(* Every await of a handler is a step, so that other requests run between  *)
(* its reads and its writes, and it can throw or be cut off by a crash.    *)
(***************************************************************************)
EXTENDS Ledger

CONSTANTS
  Invoices,           \* ids of SUBMITTED invoices
  CommitmentOf,       \* the commitment of the contract an invoice bills
  InvoiceAmount,      \* invoices.amount
  CommitmentAmount,   \* what the procurement approval committed
  SubmittedBy,        \* who recorded each invoice
  RequiredApprovals,  \* payment_requests."requiredApprovals"
  Actors,             \* users
  Keys,               \* idempotency keys clients send
  Requests,           \* handler activations that can run at the same time
  Faults,             \* what can go wrong: "throw", "crash"
  None                \* null

ASSUME PaymentsAssumption ==
  /\ CommitmentOf \in [Invoices -> Commitments]
  /\ InvoiceAmount \in [Invoices -> Nat]
  /\ CommitmentAmount \in [Commitments -> Nat]
  /\ SubmittedBy \in [Invoices -> Actors]
  /\ IsFiniteSet(Actors)
  /\ RequiredApprovals \in Nat \ {0}
  /\ Faults \subseteq {"throw", "crash"}
  /\ None \notin Actors \cup Keys \cup Invoices \cup Commitments

VARIABLES
  invoice,          \* the invoice rows: status and verifiedById
  paymentRequest,   \* the status of the payment request of each invoice
  approval,         \* the decision of each user on each payment request
  payment,          \* the payment row of each payment request
  reconciled,       \* the payments that payment_reconciliations rows refer to
  described,        \* the invoice each expenditure's description names
  request,          \* where each request is
  audited           \* invoices whose PAYMENT_EXECUTED event is in the audit trail

rows == <<invoice, paymentRequest, approval, payment, reconciled, described>>
vars == <<ledgerVars, rows, request, audited>>

NoPayment == [key |-> None, expenditureId |-> None]

\* The awaits of execute at which it owns the claim.
Working ==
  {"readCommitment", "createExpenditure", "EXPENDITURE_RECORDED", "finalize",
   "PAYMENT_EXECUTED"}

Steps ==
  {"verify", "reject", "readRequest", "claim", "lostClaim", "deleteClaim",
   "INVOICE_VERIFIED", "INVOICE_REJECTED", "PAYMENT_APPROVAL_RECORDED",
   "PAYMENT_RECONCILED"} \cup Working

Events ==
  {"INVOICE_VERIFIED", "INVOICE_REJECTED", "PAYMENT_APPROVAL_RECORDED",
   "PAYMENT_RECONCILED", "EXPENDITURE_RECORDED", "PAYMENT_EXECUTED"}

Idle == [at |-> "idle", invoice |-> None, key |-> None, actor |-> None]

RequestState ==
  [at : {"idle"} \cup Steps, invoice : Invoices \cup {None}, key : Keys \cup {None},
   actor : Actors \cup {None}]

TypeOK ==
  /\ LedgerTypeOK
  /\ invoice \in [Invoices -> [status : {"SUBMITTED", "VERIFIED", "REJECTED", "PAID"},
                               verifiedBy : Actors \cup {None}]]
  /\ paymentRequest \in
       [Invoices -> {"NONE", "PENDING", "APPROVED", "REJECTED", "EXECUTED"}]
  /\ approval \in [Invoices -> [Actors -> {"NONE", "APPROVE", "REJECT"}]]
  /\ payment \in [Invoices -> [key : Keys \cup {None}, expenditureId : Commitments \cup {None}]]
  /\ reconciled \subseteq Invoices
  /\ described \in [Commitments -> Invoices \cup {None}]
  /\ request \in [Requests -> RequestState]
  /\ audited \subseteq Invoices

\* Contracts are signed and their invoices recorded; nothing is verified yet.
Init ==
  /\ authorized = LineAmount
  /\ commitment = [c \in Commitments |-> [status |-> "ACTIVE", amount |-> CommitmentAmount[c]]]
  /\ committed = [a \in Allocations |-> Earmarked(a)]
  /\ \A a \in Allocations : committed[a] <= authorized[a]
  /\ spent = [a \in Allocations |-> 0]
  /\ expenditure = [c \in Commitments |-> NoExpenditure]
  /\ invoice = [i \in Invoices |-> [status |-> "SUBMITTED", verifiedBy |-> None]]
  /\ paymentRequest = [i \in Invoices |-> "NONE"]
  /\ approval = [i \in Invoices |-> [u \in Actors |-> "NONE"]]
  /\ payment = [i \in Invoices |-> NoPayment]
  /\ reconciled = {}
  /\ described = [c \in Commitments |-> None]
  /\ request = [r \in Requests |-> Idle]
  /\ audited = {}

Start(r, at, i, k, u) ==
  /\ request[r] = Idle
  /\ request' = [request EXCEPT ![r] = [at |-> at, invoice |-> i, key |-> k, actor |-> u]]

Go(r, at) == request' = [request EXCEPT ![r].at = at]
Stop(r) == request' = [request EXCEPT ![r] = Idle]

-----------------------------------------------------------------------------
(* InvoicesService: read the invoice, check it, then write.                *)

ReadForVerify(r, i, u) ==
  /\ u # SubmittedBy[i]
  /\ invoice[i].status = "SUBMITTED"
  /\ Start(r, "verify", i, None, u)
  /\ UNCHANGED <<ledgerVars, rows, audited>>

\* The invoice and its payment request are written together; the second of two
\* verifications violates the unique invoiceId and writes neither.
Verify(r) ==
  LET i == request[r].invoice IN
  /\ request[r].at = "verify"
  /\ IF paymentRequest[i] = "NONE"
     THEN /\ invoice' = [invoice EXCEPT ![i] =
                           [status |-> "VERIFIED", verifiedBy |-> request[r].actor]]
          /\ paymentRequest' = [paymentRequest EXCEPT ![i] = "PENDING"]
          /\ Go(r, "INVOICE_VERIFIED")
     ELSE Stop(r) /\ UNCHANGED <<invoice, paymentRequest>>
  /\ UNCHANGED <<ledgerVars, approval, payment, reconciled, described, audited>>

ReadForReject(r, i) ==
  /\ invoice[i].status = "SUBMITTED"
  /\ Start(r, "reject", i, None, None)
  /\ UNCHANGED <<ledgerVars, rows, audited>>

\* Nothing is checked again: a verification, even a payment, may have come in between.
Reject(r) ==
  LET i == request[r].invoice IN
  /\ request[r].at = "reject"
  /\ invoice' = [invoice EXCEPT ![i].status = "REJECTED"]
  /\ Go(r, "INVOICE_REJECTED")
  /\ UNCHANGED <<ledgerVars, paymentRequest, approval, payment, reconciled, described,
                 audited>>

-----------------------------------------------------------------------------
(* PaymentsService.castApproval                                            *)

Deciders(i, decision) == {u \in Actors : approval[i][u] = decision}

\* Mutant: the status is not checked under the lock.
CastLateApproval(r, i, u, decision) ==
  /\ request[r] = Idle
  /\ u # invoice[i].verifiedBy
  /\ paymentRequest[i] # "NONE"
  /\ approval[i][u] = "NONE"
  /\ approval' = [approval EXCEPT ![i][u] = decision]
  /\ paymentRequest' = [paymentRequest EXCEPT ![i] =
       IF decision = "REJECT" THEN "REJECTED"
       ELSE IF Cardinality(Deciders(i, "APPROVE")') >= RequiredApprovals THEN "APPROVED"
       ELSE @]
  /\ Start(r, "PAYMENT_APPROVAL_RECORDED", i, None, u)
  /\ UNCHANGED <<ledgerVars, invoice, payment, reconciled, described, audited>>

\* The verifier was written with the payment request, for good, so reading it
\* before the lock is as good as after; the status and the count are read
\* under the lock on the payment request.
CastApproval(r, i, u, decision) ==
  /\ request[r] = Idle
  /\ u # invoice[i].verifiedBy
  /\ paymentRequest[i] = "PENDING"
  /\ approval[i][u] = "NONE"
  /\ approval' = [approval EXCEPT ![i][u] = decision]
  /\ paymentRequest' = [paymentRequest EXCEPT ![i] =
       IF decision = "REJECT" THEN "REJECTED"
       ELSE IF Cardinality(Deciders(i, "APPROVE")') >= RequiredApprovals THEN "APPROVED"
       ELSE @]
  /\ Start(r, "PAYMENT_APPROVAL_RECORDED", i, None, u)
  /\ UNCHANGED <<ledgerVars, invoice, payment, reconciled, described, audited>>

-----------------------------------------------------------------------------
(* PaymentsService.execute                                                 *)

\* The payment of whatever request has this key.
KeyOwners(k) == {j \in Invoices : payment[j].key = k}

\* A key that is known is answered with its payment, whatever request was named,
\* and changes nothing.
LookUpKey(r, i, k) ==
  /\ KeyOwners(k) = {}
  /\ Start(r, "readRequest", i, k, None)
  /\ UNCHANGED <<ledgerVars, rows, audited>>

ReadRequest(r) ==
  /\ request[r].at = "readRequest"
  /\ IF paymentRequest[request[r].invoice] = "APPROVED" THEN Go(r, "claim") ELSE Stop(r)
  /\ UNCHANGED <<ledgerVars, rows, audited>>

\* Mutant: the insert is an upsert, unique in its key only.
ClaimByUpsert(r) ==
  LET i == request[r].invoice
      k == request[r].key
  IN
  /\ request[r].at = "claim"
  /\ IF KeyOwners(k) = {}
     THEN /\ payment' = [payment EXCEPT ![i] = [key |-> k, expenditureId |-> None]]
          /\ Go(r, "readCommitment")
     ELSE Go(r, "lostClaim") /\ UNCHANGED payment
  /\ UNCHANGED <<ledgerVars, invoice, paymentRequest, approval, reconciled, described,
                 audited>>

Claim(r) ==
  LET i == request[r].invoice
      k == request[r].key
  IN
  /\ request[r].at = "claim"
  /\ IF payment[i] = NoPayment /\ KeyOwners(k) = {}
     THEN /\ payment' = [payment EXCEPT ![i].key = k]
          /\ Go(r, "readCommitment")
     ELSE Go(r, "lostClaim") /\ UNCHANGED payment
  /\ UNCHANGED <<ledgerVars, invoice, paymentRequest, approval, reconciled, described,
                 audited>>

\* The loser looks its key up again and answers with the row it lost to, or 409.
LostClaim(r) ==
  /\ request[r].at = "lostClaim"
  /\ Stop(r)
  /\ UNCHANGED <<ledgerVars, rows, audited>>

\* createExpenditure's checks, on a read with no lock.
ReadCommitment(r) ==
  LET i == request[r].invoice
      c == CommitmentOf[i]
  IN
  /\ request[r].at = "readCommitment"
  /\ IF commitment[c].status = "ACTIVE" /\ InvoiceAmount[i] <= commitment[c].amount
     THEN Go(r, "createExpenditure")
     ELSE Go(r, "deleteClaim")
  /\ UNCHANGED <<ledgerVars, rows, audited>>

\* createExpenditure's transaction, or what the tables' constraints make of it.
CreateExpenditure(r) ==
  LET i == request[r].invoice
      c == CommitmentOf[i]
      a == AllocationOf[c]
      refused ==
        \/ expenditure[c] # NoExpenditure
        \/ ~ Balanced(authorized[a], committed[a] - commitment[c].amount,
                      spent[a] + InvoiceAmount[i])
  IN
  /\ request[r].at = "createExpenditure"
  /\ \/ /\ SpendTx(c, InvoiceAmount[i])
        /\ described' = [described EXCEPT ![c] = i]
        /\ Go(r, "EXPENDITURE_RECORDED")
     \/ /\ refused
        /\ Go(r, "deleteClaim")
        /\ UNCHANGED <<ledgerVars, described>>
  /\ UNCHANGED <<invoice, paymentRequest, approval, payment, reconciled, audited>>

Finalize(r) ==
  LET i == request[r].invoice IN
  /\ request[r].at = "finalize"
  /\ payment' = [payment EXCEPT ![i].expenditureId = CommitmentOf[i]]
  /\ invoice' = [invoice EXCEPT ![i].status = "PAID"]
  /\ paymentRequest' = [paymentRequest EXCEPT ![i] = "EXECUTED"]
  /\ Go(r, "PAYMENT_EXECUTED")
  /\ UNCHANGED <<ledgerVars, approval, reconciled, described, audited>>

\* Mutant: the catch of execute does not delete the claim.
KeepClaim(r) ==
  /\ request[r].at = "deleteClaim"
  /\ Stop(r)
  /\ UNCHANGED <<ledgerVars, rows, audited>>

\* A reconciliation row that refers to the claim makes the delete throw.
DeleteClaim(r) ==
  LET i == request[r].invoice IN
  /\ request[r].at = "deleteClaim"
  /\ payment' = IF i \in reconciled THEN payment ELSE [payment EXCEPT ![i] = NoPayment]
  /\ Stop(r)
  /\ UNCHANGED <<ledgerVars, invoice, paymentRequest, approval, reconciled, described,
                 audited>>

RecordReconciliation(r, i) ==
  /\ payment[i] # NoPayment
  /\ reconciled' = reconciled \cup {i}
  /\ Start(r, "PAYMENT_RECONCILED", i, None, None)
  /\ UNCHANGED <<ledgerVars, invoice, paymentRequest, approval, payment, described,
                 audited>>

-----------------------------------------------------------------------------
\* Every handler appends its event, of which the model keeps PAYMENT_EXECUTED;
\* execute goes on or ends.
AppendAudit(r) ==
  LET event == request[r].at
      i == request[r].invoice
  IN
  /\ event \in Events
  /\ audited' = IF event = "PAYMENT_EXECUTED" THEN audited \cup {i} ELSE audited
  /\ IF event = "EXPENDITURE_RECORDED" THEN Go(r, "finalize") ELSE Stop(r)
  /\ UNCHANGED <<ledgerVars, rows>>

\* An await throws and its write is rolled back.  execute's catch is around the
\* work only; a delete that throws leaves the claim.
Throw(r) ==
  /\ "throw" \in Faults
  /\ request[r] # Idle
  /\ IF request[r].at \in Working THEN Go(r, "deleteClaim") ELSE Stop(r)
  /\ UNCHANGED <<ledgerVars, rows, audited>>

\* The API process is gone, and what its handlers had not done yet.
Crash(r) ==
  /\ "crash" \in Faults
  /\ request[r] # Idle
  /\ Stop(r)
  /\ UNCHANGED <<ledgerVars, rows, audited>>

\* Requests to the budget's own endpoints.  They check a status that was read
\* before: every commitment was ACTIVE once, so what they checked is no guard.
BudgetRelease(c) ==
  /\ ReleaseTx(c)
  /\ UNCHANGED <<rows, request, audited>>

BudgetSpend(c, m) ==
  /\ m <= commitment[c].amount
  /\ SpendTx(c, m)
  /\ UNCHANGED <<rows, request, audited>>

Call(r) ==
  \E i \in Invoices :
    \/ \E u \in Actors :
         \/ ReadForVerify(r, i, u)
         \/ \E decision \in {"APPROVE", "REJECT"} : CastApproval(r, i, u, decision)
    \/ \E k \in Keys : LookUpKey(r, i, k)
    \/ ReadForReject(r, i)
    \/ RecordReconciliation(r, i)

\* What a request that is under way does next.
Continue(r) ==
  \/ Verify(r)
  \/ Reject(r)
  \/ ReadRequest(r)
  \/ Claim(r)
  \/ LostClaim(r)
  \/ ReadCommitment(r)
  \/ CreateExpenditure(r)
  \/ Finalize(r)
  \/ DeleteClaim(r)
  \/ AppendAudit(r)

Next ==
  \/ \E r \in Requests : Call(r) \/ Continue(r) \/ Throw(r) \/ Crash(r)
  \/ \E c \in Commitments : BudgetRelease(c) \/ (\E m \in Amounts : BudgetSpend(c, m))

Spec == Init /\ [][Next]_vars
-----------------------------------------------------------------------------
(* Safety, whatever the requests interleave and whatever fails.            *)

Undisputed(i) == Deciders(i, "REJECT") = {}
Enough(i) == Cardinality(Deciders(i, "APPROVE")) >= RequiredApprovals

\* A payment request is what its signatures say: nothing is approved or
\* executed without enough distinct APPROVEs and no REJECT, and no signature
\* is added once it is decided.
DecidedByQuorum ==
  \A i \in Invoices :
    /\ paymentRequest[i] \in {"NONE", "PENDING"} => Undisputed(i) /\ ~ Enough(i)
    /\ paymentRequest[i] \in {"APPROVED", "EXECUTED"} => Undisputed(i) /\ Enough(i)
    /\ paymentRequest[i] = "REJECTED" => ~ Undisputed(i)

\* The submitter of an invoice, its verifier and the approvers of its payment:
\* nobody checks their own work, also when two verifications race.
SeparateDuties ==
  \A i \in Invoices :
    /\ invoice[i].verifiedBy # SubmittedBy[i]
    /\ \A u \in Actors : approval[i][u] # "NONE" => u # invoice[i].verifiedBy

\* One request at most works for a payment request, and the row it claimed is
\* there, with its key, until it is done.
ClaimsAreExclusive ==
  \A r \in Requests :
    request[r].at \in Working \cup {"deleteClaim"} =>
      /\ payment[request[r].invoice].key = request[r].key
      /\ \A s \in Requests \ {r} :
           request[s].at \in Working \cup {"deleteClaim"} =>
             request[s].invoice # request[r].invoice

\* An EXECUTED payment request was paid: its commitment's one expenditure is
\* the one recorded for this invoice, of this invoice's amount, whatever the
\* budget's own endpoints did to the commitment; and only then does a payment
\* name an expenditure.
ExecutedIsPaid ==
  \A i \in Invoices :
    /\ paymentRequest[i] = "EXECUTED" =>
         /\ described[CommitmentOf[i]] = i
         /\ expenditure[CommitmentOf[i]] = InvoiceAmount[i]
    /\ payment[i].expenditureId # None => paymentRequest[i] = "EXECUTED"

\* A payment that the audit trail tells of is there for ever.
AuditedPaymentStays ==
  \A i \in Invoices :
    i \in audited => payment[i].expenditureId = CommitmentOf[i]

\* What the rows tell of a payment, without requests, keys and claims.
Payout == INSTANCE Disbursement WITH
  verifier <- [i \in Invoices |-> invoice[i].verifiedBy],
  signers <- [i \in Invoices |-> Deciders(i, "APPROVE")],
  decision <- paymentRequest,
  outlay <- expenditure,
  payee <- described

\* Money leaves once: a claim is one request's, what is executed was paid by
\* its own expenditure, and what the trail tells of as paid stays so; and to
\* who sees the rows only, an invoice is verified, approved, paid and executed
\* in this order, each at most once.
PaidOnce == [](ClaimsAreExclusive /\ ExecutedIsPaid /\ AuditedPaymentStays) /\ Payout!Spec

\* A rejected or executed payment request never changes again, though
\* execute writes its status without reading it again.
DecisionsAreFinal ==
  [][\A i \in Invoices :
       paymentRequest[i] \in {"REJECTED", "EXECUTED"} =>
         paymentRequest'[i] = paymentRequest[i]]_vars

\* Payment is decided by as many others as the policy asks for, once.
ApprovalsDecide == [](DecidedByQuorum /\ SeparateDuties) /\ DecisionsAreFinal

\* The row of a payment that is claimed and not paid.
Claimed(i) == payment[i].key # None /\ payment[i].expenditureId = None

(* What the documents say, and the code does not do.                       *)

\* "A client can retry with a new key": budget spent for an invoice is of an
\* executed request, or a request is at work to finish it.
SpentIsExecuted ==
  \A c \in Commitments :
    described[c] # None =>
      \/ paymentRequest[described[c]] = "EXECUTED"
      \/ \E r \in Requests :
           request[r].at \in Working /\ request[r].invoice = described[c]
=============================================================================
