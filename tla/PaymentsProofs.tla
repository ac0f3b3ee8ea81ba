--------------------------- MODULE PaymentsProofs ---------------------------
(***************************************************************************)
(* Theorems about Payments, for every set of invoices, users, keys and     *)
(* concurrent requests, every quorum and every fault.                      *)
(***************************************************************************)
EXTENDS Payments, LedgerProofs

\* The awaits of execute at which a request owns the claim on its invoice.
Owning == Working \cup {"deleteClaim"}

\* Those that come after the expenditure.
Paying == {"EXPENDITURE_RECORDED", "finalize", "PAYMENT_EXECUTED"}

Approved(i) == paymentRequest[i] \in {"APPROVED", "EXECUTED"}

\* The one expenditure of the invoice's commitment pays this invoice.
PaidFor(i) ==
  /\ described[CommitmentOf[i]] = i
  /\ expenditure[CommitmentOf[i]] = InvoiceAmount[i]

\* What a request relies on when it goes on from where it waits.
Promise(q) ==
  LET i == q.invoice IN
  /\ q.at # "idle" => i \in Invoices
  /\ q.at = "verify" => q.actor \in Actors /\ q.actor # SubmittedBy[i]
  /\ q.at \in {"readRequest", "claim"} \cup Owning => q.key \in Keys
  /\ q.at \in {"claim"} \cup Owning => Approved(i)
  /\ q.at = "createExpenditure" => InvoiceAmount[i] <= commitment[CommitmentOf[i]].amount
  /\ q.at \in Paying => PaidFor(i)
  /\ q.at \in Owning => payment[i].key = q.key /\ i \notin audited
  /\ q.at = "PAYMENT_EXECUTED" => payment[i].expenditureId = CommitmentOf[i]

PromisesInv == \A r \in Requests : Promise(request[r])

\* A claim has one owner.
OwnersInv ==
  \A r, s \in Requests :
    request[r].at \in Owning /\ request[s].at \in Owning /\ r # s =>
      request[r].invoice # request[s].invoice

\* Nobody signs for an invoice that has no payment request yet.
UnsignedInv ==
  \A i \in Invoices :
    paymentRequest[i] = "NONE" => \A u \in Actors : approval[i][u] = "NONE"

\* The inductive invariant of Spec.
IInv ==
  /\ TypeOK
  /\ PromisesInv
  /\ OwnersInv
  /\ UnsignedInv
  /\ DecidedByQuorum
  /\ SeparateDuties
  /\ ExecutedIsPaid
  /\ AuditedPaymentStays
  /\ LedgerInv

-----------------------------------------------------------------------------
\* Counting signatures gives a number.
LEMMA DecidersType ==
  ASSUME NEW i, NEW decision
  PROVE  Cardinality(Deciders(i, decision)) \in Nat
BY PaymentsAssumption, FS_Subset, FS_CardinalityType DEF Deciders

LEMMA InitInv == Init => IInv
<1> SUFFICES ASSUME Init PROVE IInv
  OBVIOUS
<1> USE DEF Init
<1>1. commitment \in [Commitments -> CommitmentRow]
  BY PaymentsAssumption DEF CommitmentRow
<1>2. expenditure \in [Commitments -> Nat \cup {NoExpenditure}]
  OBVIOUS
<1>3. ASSUME NEW a \in Allocations
      PROVE  Earmarked(a) \in Nat /\ Paid(a) = 0
  <2>1. EarmarkedOn(a) \in [Commitments -> Nat]
    BY <1>1 DEF EarmarkedOn, CommitmentRow
  <2>2. PaidOn(a) \in [Commitments -> Nat] /\ \A c \in Commitments : PaidOn(a)[c] = 0
    BY DEF PaidOn
  <2>3. QED
    BY <2>1, <2>2, TotalType, TotalZero, LedgerAssumption DEF Earmarked, Paid
<1>4. LedgerTypeOK
  BY <1>1, <1>2, <1>3, LedgerAssumption DEF LedgerTypeOK
<1>5. TypeOK
  BY <1>4, PaymentsAssumption DEF TypeOK, NoPayment, RequestState, Idle
<1>6. PromisesInv /\ OwnersInv
  BY DEF PromisesInv, Promise, OwnersInv, Idle, Owning, Working, Paying
<1>7. UnsignedInv
  BY DEF UnsignedInv
<1>8. DecidedByQuorum
  <2>1. ASSUME NEW i \in Invoices
        PROVE  paymentRequest[i] = "NONE" /\ Undisputed(i) /\ ~ Enough(i)
    <3>1. Deciders(i, "APPROVE") = {} /\ Deciders(i, "REJECT") = {}
      BY DEF Deciders
    <3>2. Cardinality({}) = 0
      BY FS_EmptySet
    <3>3. ~ (0 >= RequiredApprovals)
      BY PaymentsAssumption
    <3>4. Undisputed(i) /\ ~ Enough(i)
      BY <3>1, <3>2, <3>3 DEF Undisputed, Enough
    <3>5. QED
      BY <3>4
  <2>2. QED
    BY <2>1 DEF DecidedByQuorum
<1>9. SeparateDuties
  BY PaymentsAssumption DEF SeparateDuties
<1>10. ExecutedIsPaid /\ AuditedPaymentStays
  BY DEF ExecutedIsPaid, AuditedPaymentStays, NoPayment
<1>11. LedgerInv
  <2>1. WithinAuthorization
    BY <1>3, LedgerAssumption DEF WithinAuthorization, Balanced
  <2>2. SpentIsPaid /\ CommittedAtMostEarmarked
    BY <1>3 DEF SpentIsPaid, CommittedAtMostEarmarked
  <2>3. ExpenditureSettles
    BY DEF ExpenditureSettles
  <2>4. QED
    BY <2>1, <2>2, <2>3 DEF LedgerInv
<1>12. QED
  BY <1>5, <1>6, <1>7, <1>8, <1>9, <1>10, <1>11 DEF IInv

-----------------------------------------------------------------------------
\* What no step takes back: approvals, amounts and expenditures.
Aged ==
  /\ \A i \in Invoices : Approved(i) => Approved(i)'
  /\ \A c \in Commitments : commitment'[c].amount = commitment[c].amount
  /\ \A i \in Invoices : PaidFor(i) => PaidFor(i)'

\* The payment of invoice i is as it was.
SamePayment(i) == payment'[i] = payment[i] /\ (i \in audited' <=> i \in audited)

\* A step of request r, to q, that ages the rows and touches no payment but
\* that of i, which no other request owns, keeps all promises.
LEMMA RequestStep ==
  ASSUME TypeOK, PromisesInv, OwnersInv, Aged,
         NEW r \in Requests, NEW q \in RequestState,
         request' = [request EXCEPT ![r] = q],
         Promise(q)',
         \A i \in Invoices :
           \/ SamePayment(i)
           \/ \A s \in Requests \ {r} : request[s].at \in Owning => request[s].invoice # i,
         q.at \in Owning =>
           \A s \in Requests \ {r} : request[s].at \in Owning => request[s].invoice # q.invoice
  PROVE  request' \in [Requests -> RequestState] /\ PromisesInv' /\ OwnersInv'
<1>1. request' \in [Requests -> RequestState]
  BY DEF TypeOK
<1>2. request'[r] = q /\ \A s \in Requests \ {r} : request'[s] = request[s]
  BY DEF TypeOK
<1>3. ASSUME NEW s \in Requests
      PROVE  Promise(request[s])'
  <2>1. CASE s = r
    <3>1. request'[s] = q
      BY <1>2, <2>1
    <3>2. QED
      BY <3>1 DEF Promise, Approved, PaidFor
  <2>2. CASE s # r
    <3>1. PICK p : p = request[s]
      OBVIOUS
    <3>2. request'[s] = p /\ Promise(p)
      BY <1>2, <2>2, <3>1 DEF PromisesInv
    <3>3. p.at \in Owning => SamePayment(p.invoice)
      BY <2>2, <3>1, <3>2 DEF Promise, Owning, Working
    <3>4. p.at # "idle" => p.invoice \in Invoices /\ CommitmentOf[p.invoice] \in Commitments
      BY <3>2, PaymentsAssumption DEF Promise
    <3>5. Promise(p)'
      BY <3>2, <3>3, <3>4 DEF Promise, Aged, SamePayment, Owning, Working, Paying
    <3>6. QED
      BY <3>2, <3>5 DEF Promise, Approved, PaidFor
  <2>3. QED
    BY <2>1, <2>2
<1>4. PromisesInv'
  BY <1>3 DEF PromisesInv
<1>5. OwnersInv'
  BY <1>2 DEF OwnersInv
<1>6. QED
  BY <1>1, <1>4, <1>5

\* A step that touches neither approvals nor decisions keeps what they mean.
Decisions == <<paymentRequest, approval>>

LEMMA DecisionsKept ==
  ASSUME UNCHANGED Decisions, UnsignedInv, DecidedByQuorum
  PROVE  UnsignedInv' /\ DecidedByQuorum'
<1>1. UnsignedInv'
  BY DEF Decisions, UnsignedInv
<1>2. \A i \in Invoices : Undisputed(i)' = Undisputed(i) /\ Enough(i)' = Enough(i)
  BY DEF Decisions, Deciders, Undisputed, Enough
<1>3. DecidedByQuorum'
  BY <1>2 DEF Decisions, DecidedByQuorum
<1>4. QED
  BY <1>1, <1>3

\* A step that only moves its request.
LEMMA QuietStep ==
  ASSUME IInv, NEW r \in Requests, NEW q \in RequestState,
         request' = [request EXCEPT ![r] = q],
         UNCHANGED <<ledgerVars, rows, audited>>,
         Promise(q),
         q.at \in Owning => request[r].at \in Owning /\ q.invoice = request[r].invoice
  PROVE  IInv'
<1> USE DEF IInv
<1>1. Aged
  BY DEF Aged, Approved, PaidFor, rows, ledgerVars
<1>2. \A i \in Invoices : SamePayment(i)
  BY DEF SamePayment, rows
<1>3. Promise(q)'
  BY DEF Promise, Approved, PaidFor, rows, ledgerVars
<1>4. request' \in [Requests -> RequestState] /\ PromisesInv' /\ OwnersInv'
  <2>1. q.at \in Owning =>
          \A s \in Requests \ {r} : request[s].at \in Owning => request[s].invoice # q.invoice
    BY DEF OwnersInv
  <2>2. QED
    BY <1>1, <1>2, <1>3, <2>1, RequestStep
<1>5. LedgerTypeOK' /\ LedgerInv'
  BY LedgerUnchanged DEF TypeOK
<1>6. TypeOK'
  BY <1>4, <1>5 DEF TypeOK, rows
<1>7. UnsignedInv' /\ DecidedByQuorum'
  BY DecisionsKept DEF Decisions, rows
<1>8. SeparateDuties'
  BY DEF SeparateDuties, rows
<1>9. ExecutedIsPaid' /\ AuditedPaymentStays'
  BY DEF ExecutedIsPaid, AuditedPaymentStays, rows, ledgerVars
<1>10. QED
  BY <1>4, <1>5, <1>6, <1>7, <1>8, <1>9

\* Where a request may stand, and what it carries.
LEMMA RequestTyped ==
  ASSUME TypeOK, NEW r \in Requests
  PROVE  /\ request[r] \in RequestState
         /\ \A at \in {"idle"} \cup Steps : [request[r] EXCEPT !.at = at] \in RequestState
         /\ Idle \in RequestState
BY DEF TypeOK, RequestState, Idle

\* A request ends.
LEMMA StopStep ==
  ASSUME IInv, NEW r \in Requests, Stop(r), UNCHANGED <<ledgerVars, rows, audited>>
  PROVE  IInv'
<1>1. Promise(Idle) /\ Idle.at \notin Owning
  BY DEF Promise, Idle, Owning, Working, Paying
<1>2. QED
  BY <1>1, QuietStep, RequestTyped DEF IInv, Stop

\* A request begins at a place that owns nothing.
LEMMA StartStep ==
  ASSUME IInv, NEW r \in Requests, NEW at \in Steps \ Owning, NEW i \in Invoices,
         NEW k \in Keys \cup {None}, NEW u \in Actors \cup {None},
         Start(r, at, i, k, u), UNCHANGED <<ledgerVars, rows, audited>>,
         Promise([at |-> at, invoice |-> i, key |-> k, actor |-> u])
  PROVE  IInv'
<1> DEFINE q == [at |-> at, invoice |-> i, key |-> k, actor |-> u]
<1>1. q \in RequestState
  BY DEF RequestState
<1>2. request' = [request EXCEPT ![r] = q]
  BY DEF Start
<1>3. q.at \notin Owning
  OBVIOUS
<1> HIDE DEF q
<1>4. QED
  BY <1>1, <1>2, <1>3, QuietStep DEF q

\* A request goes on to a place that it may own its invoice at only if it did.
LEMMA GoStep ==
  ASSUME IInv, NEW r \in Requests, NEW at \in Steps, Go(r, at),
         UNCHANGED <<ledgerVars, rows, audited>>,
         at \in Owning => request[r].at \in Owning,
         Promise([request[r] EXCEPT !.at = at])
  PROVE  IInv'
<1> DEFINE q == [request[r] EXCEPT !.at = at]
<1>1. q \in RequestState
  BY RequestTyped DEF IInv
<1>2. request' = [request EXCEPT ![r] = q]
  BY DEF Go
<1>3. q.at = at /\ q.invoice = request[r].invoice
  BY RequestTyped DEF IInv, RequestState
<1> HIDE DEF q
<1>4. QED
  BY <1>1, <1>2, <1>3, QuietStep DEF q

-----------------------------------------------------------------------------
(* The reads, which change nothing but their request.                      *)

LEMMA ReadForVerifyStep ==
  ASSUME IInv, NEW r \in Requests, NEW i \in Invoices, NEW u \in Actors, ReadForVerify(r, i, u)
  PROVE  IInv'
<1>1. Promise([at |-> "verify", invoice |-> i, key |-> None, actor |-> u])
  BY DEF ReadForVerify, Promise, Owning, Working, Paying
<1>2. "verify" \in Steps \ Owning
  BY DEF Steps, Owning, Working
<1>3. QED
  BY <1>1, <1>2, StartStep DEF ReadForVerify

LEMMA ReadForRejectStep ==
  ASSUME IInv, NEW r \in Requests, NEW i \in Invoices, ReadForReject(r, i)
  PROVE  IInv'
<1>1. Promise([at |-> "reject", invoice |-> i, key |-> None, actor |-> None])
  BY DEF Promise, Owning, Working, Paying
<1>2. "reject" \in Steps \ Owning
  BY DEF Steps, Owning, Working
<1>3. QED
  BY <1>1, <1>2, StartStep DEF ReadForReject

LEMMA LookUpKeyStep ==
  ASSUME IInv, NEW r \in Requests, NEW i \in Invoices, NEW k \in Keys, LookUpKey(r, i, k)
  PROVE  IInv'
<1>1. Promise([at |-> "readRequest", invoice |-> i, key |-> k, actor |-> None])
  BY DEF Promise, Owning, Working, Paying
<1>2. "readRequest" \in Steps \ Owning
  BY DEF Steps, Owning, Working
<1>3. QED
  BY <1>1, <1>2, StartStep DEF LookUpKey

LEMMA ReadRequestStep ==
  ASSUME IInv, NEW r \in Requests, ReadRequest(r)
  PROVE  IInv'
<1>1. CASE paymentRequest[request[r].invoice] = "APPROVED" /\ Go(r, "claim")
  <2>1. Promise([request[r] EXCEPT !.at = "claim"])
    BY <1>1, RequestTyped
    DEF IInv, PromisesInv, Promise, ReadRequest, Approved, RequestState, Owning, Working, Paying
  <2>2. "claim" \in Steps /\ "claim" \notin Owning
    BY DEF Steps, Owning, Working
  <2>3. QED
    BY <1>1, <2>1, <2>2, GoStep DEF ReadRequest
<1>2. CASE Stop(r)
  BY <1>2, StopStep DEF ReadRequest
<1>3. QED
  BY <1>1, <1>2 DEF ReadRequest

LEMMA ReadCommitmentStep ==
  ASSUME IInv, NEW r \in Requests, ReadCommitment(r)
  PROVE  IInv'
<1> DEFINE c == CommitmentOf[request[r].invoice]
<1>1. CASE InvoiceAmount[request[r].invoice] <= commitment[c].amount /\ Go(r, "createExpenditure")
  <2>1. Promise([request[r] EXCEPT !.at = "createExpenditure"])
    BY <1>1, RequestTyped
    DEF IInv, PromisesInv, Promise, ReadCommitment, RequestState, Owning, Working, Paying
  <2>2. "createExpenditure" \in Steps /\ request[r].at \in Owning
    BY DEF Steps, ReadCommitment, Owning, Working
  <2>3. QED
    BY <1>1, <2>1, <2>2, GoStep DEF ReadCommitment
<1>2. CASE Go(r, "deleteClaim")
  <2>1. Promise([request[r] EXCEPT !.at = "deleteClaim"])
    BY RequestTyped
    DEF IInv, PromisesInv, Promise, ReadCommitment, RequestState, Owning, Working, Paying
  <2>2. "deleteClaim" \in Steps /\ request[r].at \in Owning
    BY DEF Steps, ReadCommitment, Owning, Working
  <2>3. QED
    BY <1>2, <2>1, <2>2, GoStep DEF ReadCommitment
<1>3. QED
  BY <1>1, <1>2 DEF ReadCommitment

-----------------------------------------------------------------------------
(* Failures.                                                               *)

LEMMA ThrowStep ==
  ASSUME IInv, NEW r \in Requests, Throw(r)
  PROVE  IInv'
<1>1. CASE request[r].at \in Working /\ Go(r, "deleteClaim")
  <2>1. Promise([request[r] EXCEPT !.at = "deleteClaim"])
    BY <1>1, RequestTyped
    DEF IInv, PromisesInv, Promise, RequestState, Owning, Working, Paying
  <2>2. "deleteClaim" \in Steps /\ request[r].at \in Owning
    BY <1>1 DEF Steps, Owning
  <2>3. QED
    BY <1>1, <2>1, <2>2, GoStep DEF Throw
<1>2. CASE Stop(r)
  BY <1>2, StopStep DEF Throw
<1>3. QED
  BY <1>1, <1>2 DEF Throw

LEMMA CrashStep ==
  ASSUME IInv, NEW r \in Requests, Crash(r)
  PROVE  IInv'
BY StopStep DEF Crash

LEMMA LostClaimStep ==
  ASSUME IInv, NEW r \in Requests, LostClaim(r)
  PROVE  IInv'
BY StopStep DEF LostClaim

-----------------------------------------------------------------------------
(* InvoicesService.                                                        *)

LEMMA VerifyStep ==
  ASSUME IInv, NEW r \in Requests, Verify(r)
  PROVE  IInv'
<1> DEFINE i == request[r].invoice
<1>0. PICK q : q = [request[r] EXCEPT !.at = "INVOICE_VERIFIED"]
  OBVIOUS
<1> USE DEF IInv
<1>1. CASE Stop(r) /\ UNCHANGED <<invoice, paymentRequest>>
  BY <1>1, StopStep DEF Verify, rows
<1>2. CASE /\ paymentRequest[i] = "NONE"
           /\ invoice' = [invoice EXCEPT ![i] =
                            [status |-> "VERIFIED", verifiedBy |-> request[r].actor]]
           /\ paymentRequest' = [paymentRequest EXCEPT ![i] = "PENDING"]
           /\ Go(r, "INVOICE_VERIFIED")
  <2>1. /\ i \in Invoices
        /\ request[r].actor \in Actors
        /\ request[r].actor # SubmittedBy[i]
    BY DEF Verify, PromisesInv, Promise
  <2>2. UNCHANGED <<ledgerVars, approval, payment, reconciled, described, audited>>
    BY DEF Verify
  <2>3. Aged
    BY <1>2, <2>2 DEF Aged, Approved, PaidFor, TypeOK, ledgerVars
  <2>4. q \in RequestState /\ q.at = "INVOICE_VERIFIED" /\ q.invoice = i
    BY <1>0, RequestTyped DEF RequestState, Steps
  <2>5. Promise(q)'
    BY <2>1, <2>4 DEF Promise, Owning, Working, Paying
  <2>6. request' = [request EXCEPT ![r] = q]
    BY <1>0, <1>2 DEF Go
  <2>7. q.at \notin Owning /\ \A j \in Invoices : SamePayment(j)
    BY <2>2, <2>4 DEF SamePayment, Owning, Working
  <2>8. request' \in [Requests -> RequestState] /\ PromisesInv' /\ OwnersInv'
    BY <2>3, <2>4, <2>5, <2>6, <2>7, RequestStep
  <2>9. LedgerTypeOK' /\ LedgerInv'
    BY <2>2, LedgerUnchanged DEF TypeOK
  <2>10. TypeOK'
    BY <1>2, <2>1, <2>2, <2>8, <2>9 DEF TypeOK
  <2>11. UnsignedInv'
    BY <1>2, <2>2 DEF UnsignedInv, TypeOK
  <2>12. \A j \in Invoices : Undisputed(j)' = Undisputed(j) /\ Enough(j)' = Enough(j)
    BY <2>2 DEF Undisputed, Enough, Deciders
  <2>13. DecidedByQuorum'
    BY <1>2, <2>12 DEF DecidedByQuorum, TypeOK
  <2>14. SeparateDuties'
    BY <1>2, <2>1, <2>2 DEF SeparateDuties, UnsignedInv, TypeOK
  <2>15. ExecutedIsPaid' /\ AuditedPaymentStays'
    BY <1>2, <2>2 DEF ExecutedIsPaid, AuditedPaymentStays, TypeOK, ledgerVars
  <2>16. QED
    BY <2>8, <2>9, <2>10, <2>11, <2>13, <2>14, <2>15
<1>3. QED
  BY <1>1, <1>2 DEF Verify

LEMMA RejectStep ==
  ASSUME IInv, NEW r \in Requests, Reject(r)
  PROVE  IInv'
<1> DEFINE i == request[r].invoice
<1>0. PICK q : q = [request[r] EXCEPT !.at = "INVOICE_REJECTED"]
  OBVIOUS
<1> USE DEF IInv
<1>1. i \in Invoices
  BY DEF Reject, PromisesInv, Promise
<1>2. UNCHANGED <<ledgerVars, paymentRequest, approval, payment, reconciled, described, audited>>
  BY DEF Reject
<1>3. Aged
  BY <1>2 DEF Aged, Approved, PaidFor, ledgerVars
<1>4. q \in RequestState /\ q.at = "INVOICE_REJECTED" /\ q.invoice = i
  BY <1>0, RequestTyped DEF RequestState, Steps
<1>5. Promise(q)'
  BY <1>1, <1>4 DEF Promise, Owning, Working, Paying
<1>6. request' = [request EXCEPT ![r] = q]
  BY <1>0 DEF Reject, Go
<1>7. q.at \notin Owning /\ \A j \in Invoices : SamePayment(j)
  BY <1>2, <1>4 DEF SamePayment, Owning, Working
<1>8. /\ invoice' \in [Invoices -> [status : {"SUBMITTED", "VERIFIED", "REJECTED", "PAID"},
                                    verifiedBy : Actors \cup {None}]]
      /\ \A j \in Invoices : invoice'[j].verifiedBy = invoice[j].verifiedBy
  BY DEF Reject, TypeOK
<1>9. request' \in [Requests -> RequestState] /\ PromisesInv' /\ OwnersInv'
  BY <1>3, <1>4, <1>5, <1>6, <1>7, RequestStep
<1>10. LedgerTypeOK' /\ LedgerInv'
  BY <1>2, LedgerUnchanged DEF TypeOK
<1>11. TypeOK'
  BY <1>2, <1>8, <1>9, <1>10 DEF TypeOK
<1>12. UnsignedInv' /\ DecidedByQuorum'
  BY <1>2, DecisionsKept DEF Decisions
<1>13. SeparateDuties'
  BY <1>2, <1>8 DEF SeparateDuties
<1>14. ExecutedIsPaid' /\ AuditedPaymentStays'
  BY <1>2 DEF ExecutedIsPaid, AuditedPaymentStays, ledgerVars
<1>15. QED
  BY <1>9, <1>10, <1>11, <1>12, <1>13, <1>14

-----------------------------------------------------------------------------
(* PaymentsService.                                                        *)

LEMMA CastApprovalStep ==
  ASSUME IInv, NEW r \in Requests, NEW i \in Invoices, NEW u \in Actors,
         NEW decision \in {"APPROVE", "REJECT"}, CastApproval(r, i, u, decision)
  PROVE  IInv'
<1> DEFINE q == [at |-> "PAYMENT_APPROVAL_RECORDED", invoice |-> i, key |-> None, actor |-> u]
<1> USE DEF IInv
<1>1. UNCHANGED <<ledgerVars, invoice, payment, reconciled, described, audited>>
  BY DEF CastApproval
<1>2. /\ paymentRequest[i] = "PENDING"
      /\ approval' = [approval EXCEPT ![i][u] = decision]
      /\ paymentRequest' = [paymentRequest EXCEPT ![i] =
           IF decision = "REJECT" THEN "REJECTED"
           ELSE IF Enough(i)' THEN "APPROVED" ELSE "PENDING"]
      /\ u # invoice[i].verifiedBy
  BY DEF CastApproval, Enough
<1>3. Aged
  BY <1>1, <1>2 DEF Aged, Approved, PaidFor, TypeOK, ledgerVars
<1>4. q \in RequestState /\ q.at \notin Owning
  BY DEF RequestState, Steps, Owning, Working
<1>5. Promise(q)'
  BY DEF Promise, Owning, Working, Paying
<1>6. request' = [request EXCEPT ![r] = q]
  BY DEF CastApproval, Start
<1>7. \A j \in Invoices : SamePayment(j)
  BY <1>1 DEF SamePayment
<1> HIDE DEF q
<1>8. request' \in [Requests -> RequestState] /\ PromisesInv' /\ OwnersInv'
  BY <1>3, <1>4, <1>5, <1>6, <1>7, RequestStep
<1>9. LedgerTypeOK' /\ LedgerInv'
  BY <1>1, LedgerUnchanged DEF TypeOK
<1>10. TypeOK'
  BY <1>1, <1>2, <1>8, <1>9 DEF TypeOK
<1>11. UnsignedInv'
  BY <1>2 DEF UnsignedInv, TypeOK
<1>12. \A j \in Invoices \ {i} :
         /\ paymentRequest'[j] = paymentRequest[j]
         /\ Undisputed(j)' = Undisputed(j)
         /\ Enough(j)' = Enough(j)
  BY <1>2 DEF TypeOK, Undisputed, Enough, Deciders
<1>13. Undisputed(i)' <=> decision = "APPROVE"
  <2>1. Undisputed(i)
    BY <1>2 DEF DecidedByQuorum
  <2>2. approval'[i][u] = decision /\ \A v \in Actors \ {u} : approval'[i][v] = approval[i][v]
    BY <1>2 DEF TypeOK
  <2>3. QED
    BY <2>1, <2>2 DEF Undisputed, Deciders
<1>14. DecidedByQuorum'
  <2>1. \A j \in Invoices \ {i} :
          /\ paymentRequest'[j] \in {"NONE", "PENDING"} => Undisputed(j)' /\ ~ Enough(j)'
          /\ paymentRequest'[j] \in {"APPROVED", "EXECUTED"} => Undisputed(j)' /\ Enough(j)'
          /\ paymentRequest'[j] = "REJECTED" => ~ Undisputed(j)'
    BY <1>12 DEF DecidedByQuorum
  <2>2. CASE decision = "REJECT"
    <3>1. paymentRequest'[i] = "REJECTED" /\ ~ Undisputed(i)'
      BY <1>2, <1>13, <2>2 DEF TypeOK
    <3>2. QED
      BY <2>1, <3>1 DEF DecidedByQuorum
  <2>3. CASE decision = "APPROVE"
    <3>1. /\ paymentRequest'[i] = IF Enough(i)' THEN "APPROVED" ELSE "PENDING"
          /\ Undisputed(i)'
      BY <1>2, <1>13, <2>3 DEF TypeOK
    <3>2. QED
      BY <2>1, <3>1 DEF DecidedByQuorum
  <2>4. QED
    BY <2>2, <2>3
<1>15. SeparateDuties'
  BY <1>1, <1>2 DEF SeparateDuties, TypeOK
<1>16. ExecutedIsPaid' /\ AuditedPaymentStays'
  BY <1>1, <1>2 DEF ExecutedIsPaid, AuditedPaymentStays, TypeOK, ledgerVars
<1>17. QED
  BY <1>8, <1>9, <1>10, <1>11, <1>14, <1>15, <1>16

\* A step that only touches payments, their reconciliations and their events.
LEMMA PaymentStep ==
  ASSUME IInv, UNCHANGED <<ledgerVars, invoice, paymentRequest, approval, described>>,
         request' \in [Requests -> RequestState], PromisesInv', OwnersInv',
         payment' \in [Invoices -> [key : Keys \cup {None}, expenditureId : Commitments \cup {None}]],
         \A i \in Invoices : payment'[i].expenditureId \in {None, payment[i].expenditureId},
         reconciled' \subseteq Invoices, audited' \subseteq Invoices,
         AuditedPaymentStays'
  PROVE  IInv'
<1> USE DEF IInv
<1>1. LedgerTypeOK' /\ LedgerInv'
  BY LedgerUnchanged DEF TypeOK
<1>2. TypeOK'
  BY <1>1 DEF TypeOK
<1>3. UnsignedInv' /\ DecidedByQuorum'
  BY DecisionsKept DEF Decisions
<1>4. SeparateDuties'
  BY DEF SeparateDuties
<1>5. ExecutedIsPaid'
  BY DEF ExecutedIsPaid, ledgerVars
<1>6. QED
  BY <1>1, <1>2, <1>3, <1>4, <1>5

LEMMA ClaimStep ==
  ASSUME IInv, NEW r \in Requests, Claim(r)
  PROVE  IInv'
<1> DEFINE i == request[r].invoice
           k == request[r].key
<1> USE DEF IInv
<1>1. i \in Invoices /\ k \in Keys /\ Approved(i)
  BY DEF Claim, PromisesInv, Promise
<1>2. CASE /\ payment[i] = NoPayment
           /\ payment' = [payment EXCEPT ![i].key = k]
           /\ Go(r, "readCommitment")
  <2>1. PICK q : q = [request[r] EXCEPT !.at = "readCommitment"]
    OBVIOUS
  <2>2. q \in RequestState /\ q.at = "readCommitment" /\ q.invoice = i /\ q.key = k
    <3>1. "readCommitment" \in Steps
      BY DEF Steps, Working
    <3>2. QED
      BY <2>1, <3>1, RequestTyped DEF RequestState
  <2>3. UNCHANGED <<ledgerVars, invoice, paymentRequest, approval, reconciled, described, audited>>
    BY DEF Claim
  <2>4. \A s \in Requests \ {r} : request[s].at \in Owning => request[s].invoice # i
    BY <1>1, <1>2, PaymentsAssumption DEF PromisesInv, Promise, NoPayment, Owning
  <2>5. Aged
    BY <2>3 DEF Aged, Approved, PaidFor, ledgerVars
  <2>6. /\ payment' \in [Invoices -> [key : Keys \cup {None},
                                      expenditureId : Commitments \cup {None}]]
        /\ payment'[i].key = k
        /\ \A j \in Invoices : payment'[j].expenditureId = payment[j].expenditureId
        /\ \A j \in Invoices \ {i} : payment'[j] = payment[j]
    BY <1>1, <1>2 DEF TypeOK
  <2>7. i \notin audited
    BY <1>1, <1>2, PaymentsAssumption DEF AuditedPaymentStays, NoPayment
  <2>8. Promise(q)'
    BY <1>1, <2>2, <2>3, <2>6, <2>7 DEF Promise, Approved, Owning, Working, Paying
  <2>9. request' = [request EXCEPT ![r] = q]
    BY <1>2, <2>1 DEF Go
  <2>10. \A j \in Invoices : SamePayment(j) \/ j = i
    BY <2>3, <2>6 DEF SamePayment
  <2>11. request' \in [Requests -> RequestState] /\ PromisesInv' /\ OwnersInv'
    BY <2>2, <2>4, <2>5, <2>8, <2>9, <2>10, RequestStep
  <2>12. AuditedPaymentStays'
    BY <2>3, <2>6 DEF AuditedPaymentStays
  <2>13. QED
    BY <2>3, <2>6, <2>11, <2>12, PaymentStep DEF TypeOK
<1>3. CASE Go(r, "lostClaim") /\ UNCHANGED payment
  <2>1. Promise([request[r] EXCEPT !.at = "lostClaim"])
    BY <1>1, RequestTyped DEF Promise, RequestState, Owning, Working, Paying
  <2>2. "lostClaim" \in Steps /\ "lostClaim" \notin Owning
    BY DEF Steps, Owning, Working
  <2>3. QED
    BY <1>3, <2>1, <2>2, GoStep DEF Claim, rows
<1>4. QED
  BY <1>2, <1>3 DEF Claim

LEMMA DeleteClaimStep ==
  ASSUME IInv, NEW r \in Requests, DeleteClaim(r)
  PROVE  IInv'
<1> DEFINE i == request[r].invoice
<1> USE DEF IInv
<1>1. request[r].at \in Owning /\ i \in Invoices /\ i \notin audited
  BY DEF DeleteClaim, PromisesInv, Promise, Owning
<1>2. UNCHANGED <<ledgerVars, invoice, paymentRequest, approval, reconciled, described, audited>>
  BY DEF DeleteClaim
<1>3. \A s \in Requests \ {r} : request[s].at \in Owning => request[s].invoice # i
  BY <1>1 DEF OwnersInv
<1>4. Aged
  BY <1>2 DEF Aged, Approved, PaidFor, ledgerVars
<1>5. /\ payment' \in [Invoices -> [key : Keys \cup {None},
                                    expenditureId : Commitments \cup {None}]]
      /\ \A j \in Invoices : payment'[j].expenditureId \in {None, payment[j].expenditureId}
      /\ \A j \in Invoices \ {i} : payment'[j] = payment[j]
  BY <1>1 DEF DeleteClaim, TypeOK, NoPayment
<1>6. Idle.at \notin Owning /\ Promise(Idle)'
  BY DEF Promise, Idle, Owning, Working, Paying
<1>7. \A j \in Invoices : SamePayment(j) \/ j = i
  BY <1>2, <1>5 DEF SamePayment
<1>8. request' = [request EXCEPT ![r] = Idle] /\ Idle \in RequestState
  BY RequestTyped DEF DeleteClaim, Stop
<1>9. request' \in [Requests -> RequestState] /\ PromisesInv' /\ OwnersInv'
  BY <1>3, <1>4, <1>6, <1>7, <1>8, RequestStep
<1>10. AuditedPaymentStays'
  BY <1>1, <1>2, <1>5 DEF AuditedPaymentStays
<1>11. QED
  BY <1>2, <1>5, <1>9, <1>10, PaymentStep DEF TypeOK

LEMMA RecordReconciliationStep ==
  ASSUME IInv, NEW r \in Requests, NEW i \in Invoices, RecordReconciliation(r, i)
  PROVE  IInv'
<1> DEFINE q == [at |-> "PAYMENT_RECONCILED", invoice |-> i, key |-> None, actor |-> None]
<1> USE DEF IInv
<1>1. UNCHANGED <<ledgerVars, invoice, paymentRequest, approval, payment, described, audited>>
  BY DEF RecordReconciliation
<1>2. Aged /\ \A j \in Invoices : SamePayment(j)
  BY <1>1 DEF Aged, Approved, PaidFor, SamePayment, ledgerVars
<1>3. q \in RequestState /\ q.at \notin Owning
  BY DEF RequestState, Steps, Owning, Working
<1>4. Promise(q)'
  BY DEF Promise, Owning, Working, Paying
<1>5. request' = [request EXCEPT ![r] = q]
  BY DEF RecordReconciliation, Start
<1> HIDE DEF q
<1>6. request' \in [Requests -> RequestState] /\ PromisesInv' /\ OwnersInv'
  BY <1>2, <1>3, <1>4, <1>5, RequestStep
<1>7. reconciled' \subseteq Invoices
  BY DEF RecordReconciliation, TypeOK
<1>8. AuditedPaymentStays'
  BY <1>1 DEF AuditedPaymentStays
<1>9. QED
  BY <1>1, <1>6, <1>7, <1>8, PaymentStep DEF TypeOK

LEMMA AppendAuditStep ==
  ASSUME IInv, NEW r \in Requests, AppendAudit(r)
  PROVE  IInv'
<1> DEFINE i == request[r].invoice
<1> USE DEF IInv
<1>1. request[r].at \in Events /\ UNCHANGED <<ledgerVars, rows>>
  BY DEF AppendAudit
<1>2. CASE request[r].at = "EXPENDITURE_RECORDED"
  <2>1. Promise([request[r] EXCEPT !.at = "finalize"])
    BY <1>2, RequestTyped DEF PromisesInv, Promise, RequestState, Owning, Working, Paying
  <2>2. "finalize" \in Steps /\ request[r].at \in Owning
    BY <1>2 DEF Steps, Owning, Working
  <2>3. Go(r, "finalize") /\ UNCHANGED audited
    BY <1>2 DEF AppendAudit
  <2>4. QED
    BY <1>1, <2>1, <2>2, <2>3, GoStep
<1>3. CASE request[r].at = "PAYMENT_EXECUTED"
  <2>1. /\ i \in Invoices /\ request[r].at \in Owning
        /\ payment[i].expenditureId = CommitmentOf[i]
    BY <1>3 DEF PromisesInv, Promise, Owning, Working
  <2>2. audited' = audited \cup {i} /\ Stop(r)
    BY <1>3 DEF AppendAudit
  <2>3. \A s \in Requests \ {r} : request[s].at \in Owning => request[s].invoice # i
    BY <2>1 DEF OwnersInv
  <2>4. Aged
    BY <1>1 DEF Aged, Approved, PaidFor, ledgerVars, rows
  <2>5. Idle.at \notin Owning /\ Promise(Idle)'
    BY DEF Promise, Idle, Owning, Working, Paying
  <2>6. \A j \in Invoices : SamePayment(j) \/ j = i
    BY <1>1, <2>2 DEF SamePayment, rows
  <2>7. request' = [request EXCEPT ![r] = Idle] /\ Idle \in RequestState
    BY <2>2, RequestTyped DEF Stop
  <2>8. request' \in [Requests -> RequestState] /\ PromisesInv' /\ OwnersInv'
    BY <2>3, <2>4, <2>5, <2>6, <2>7, RequestStep
  <2>9. AuditedPaymentStays'
    BY <1>1, <2>1, <2>2 DEF AuditedPaymentStays, rows
  <2>10. audited' \subseteq Invoices
    BY <2>1, <2>2 DEF TypeOK
  <2>11. QED
    BY <1>1, <2>8, <2>9, <2>10, PaymentStep DEF rows, TypeOK
<1>4. CASE request[r].at \notin {"EXPENDITURE_RECORDED", "PAYMENT_EXECUTED"}
  BY <1>1, <1>4, StopStep DEF AppendAudit
<1>5. QED
  BY <1>2, <1>3, <1>4

-----------------------------------------------------------------------------
(* The money.                                                              *)

\* Expenditures are never overwritten and amounts never change.
LEMMA SpendAges ==
  ASSUME TypeOK, NEW c \in Commitments, NEW m, SpendTx(c, m)
  PROVE  /\ expenditure[c] = NoExpenditure
         /\ \A d \in Commitments : commitment'[d].amount = commitment[d].amount
         /\ \A d \in Commitments \ {c} : expenditure'[d] = expenditure[d]
         /\ expenditure'[c] = m
BY DEF SpendTx, TypeOK, LedgerTypeOK, CommitmentRow

\* Whoever is paid for is not paid for by a commitment that is still unspent.
LEMMA UnspentPaysNobody ==
  ASSUME NEW c \in Commitments, expenditure[c] = NoExpenditure,
         NEW i \in Invoices, PaidFor(i)
  PROVE  CommitmentOf[i] # c
BY PaymentsAssumption DEF PaidFor, NoExpenditure

\* A step that only touches the ledger and what its expenditures are for.
LEMMA MoneyStep ==
  ASSUME IInv, Aged, LedgerTypeOK', LedgerInv',
         UNCHANGED <<invoice, paymentRequest, approval, payment, reconciled, audited>>,
         described' \in [Commitments -> Invoices \cup {None}],
         request' \in [Requests -> RequestState], PromisesInv', OwnersInv'
  PROVE  IInv'
<1> USE DEF IInv
<1>1. TypeOK'
  BY DEF TypeOK
<1>2. UnsignedInv' /\ DecidedByQuorum'
  BY DecisionsKept DEF Decisions
<1>3. SeparateDuties' /\ AuditedPaymentStays'
  BY DEF SeparateDuties, AuditedPaymentStays
<1>4. ExecutedIsPaid'
  BY DEF ExecutedIsPaid, Aged, PaidFor
<1>5. QED
  BY <1>1, <1>2, <1>3, <1>4

LEMMA CreateExpenditureStep ==
  ASSUME IInv, NEW r \in Requests, CreateExpenditure(r)
  PROVE  IInv'
<1> DEFINE i == request[r].invoice
           c == CommitmentOf[i]
<1> USE DEF IInv
<1>1. /\ i \in Invoices /\ c \in Commitments /\ InvoiceAmount[i] \in Nat
      /\ request[r].at \in Owning
  BY PaymentsAssumption DEF CreateExpenditure, PromisesInv, Promise, Owning, Working
<1>2. CASE /\ SpendTx(c, InvoiceAmount[i])
           /\ described' = [described EXCEPT ![c] = i]
           /\ Go(r, "EXPENDITURE_RECORDED")
  <2>1. PICK q : q = [request[r] EXCEPT !.at = "EXPENDITURE_RECORDED"]
    OBVIOUS
  <2>2. q \in RequestState /\ q.at = "EXPENDITURE_RECORDED" /\ q.invoice = i /\ q.key = request[r].key
    <3>1. "EXPENDITURE_RECORDED" \in Steps
      BY DEF Steps, Working
    <3>2. QED
      BY <2>1, <3>1, RequestTyped DEF RequestState
  <2>3. UNCHANGED <<invoice, paymentRequest, approval, payment, reconciled, audited>>
    BY DEF CreateExpenditure
  <2>4. LedgerTypeOK' /\ LedgerInv'
    <3>1. InvoiceAmount[i] <= commitment[c].amount
      BY DEF CreateExpenditure, PromisesInv, Promise
    <3>2. QED
      BY <1>1, <1>2, <3>1, SpendKeepsLedger DEF TypeOK
  <2>5. /\ described' \in [Commitments -> Invoices \cup {None}]
        /\ described'[c] = i
        /\ \A d \in Commitments \ {c} : described'[d] = described[d]
    BY <1>1, <1>2 DEF TypeOK
  <2>6. /\ expenditure[c] = NoExpenditure
        /\ \A d \in Commitments : commitment'[d].amount = commitment[d].amount
        /\ \A d \in Commitments \ {c} : expenditure'[d] = expenditure[d]
        /\ expenditure'[c] = InvoiceAmount[i]
    BY <1>1, <1>2, SpendAges
  <2>7. Aged
    <3>1. ASSUME NEW j \in Invoices, PaidFor(j)
          PROVE  PaidFor(j)'
      BY <1>1, <2>5, <2>6, <3>1, UnspentPaysNobody, PaymentsAssumption DEF PaidFor
    <3>2. QED
      BY <2>3, <2>6, <3>1 DEF Aged, Approved
  <2>8. Promise(q)'
    <3>1. Promise(request[r])
      BY DEF PromisesInv
    <3>2. PaidFor(q.invoice)'
      BY <2>2, <2>5, <2>6 DEF PaidFor
    <3>3. QED
      BY <1>1, <2>2, <2>3, <3>1, <3>2 DEF Promise, Approved, Owning, Working
  <2>9. request' = [request EXCEPT ![r] = q]
    BY <1>2, <2>1 DEF Go
  <2>10. \A j \in Invoices : SamePayment(j)
    BY <2>3 DEF SamePayment
  <2>11. \A s \in Requests \ {r} : request[s].at \in Owning => request[s].invoice # q.invoice
    BY <1>1, <2>2 DEF OwnersInv
  <2>12. request' \in [Requests -> RequestState] /\ PromisesInv' /\ OwnersInv'
    BY <2>2, <2>7, <2>8, <2>9, <2>10, <2>11, RequestStep
  <2>13. QED
    BY <2>3, <2>4, <2>5, <2>7, <2>12, MoneyStep
<1>3. CASE Go(r, "deleteClaim") /\ UNCHANGED <<ledgerVars, described>>
  <2>1. Promise([request[r] EXCEPT !.at = "deleteClaim"])
    BY <1>1, RequestTyped DEF PromisesInv, Promise, RequestState, Owning, Working, Paying
  <2>2. "deleteClaim" \in Steps
    BY DEF Steps
  <2>3. QED
    BY <1>1, <1>3, <2>1, <2>2, GoStep DEF CreateExpenditure, rows
<1>4. QED
  BY <1>2, <1>3 DEF CreateExpenditure

LEMMA FinalizeStep ==
  ASSUME IInv, NEW r \in Requests, Finalize(r)
  PROVE  IInv'
<1> DEFINE i == request[r].invoice
<1> USE DEF IInv
<1>1. /\ i \in Invoices /\ CommitmentOf[i] \in Commitments /\ request[r].at \in Owning
      /\ Approved(i) /\ PaidFor(i) /\ i \notin audited
  BY PaymentsAssumption DEF Finalize, PromisesInv, Promise, Owning, Working, Paying
<1>2. /\ payment' = [payment EXCEPT ![i].expenditureId = CommitmentOf[i]]
      /\ invoice' = [invoice EXCEPT ![i].status = "PAID"]
      /\ paymentRequest' = [paymentRequest EXCEPT ![i] = "EXECUTED"]
      /\ UNCHANGED <<ledgerVars, approval, reconciled, described, audited>>
  BY DEF Finalize
<1>3. PICK q : q = [request[r] EXCEPT !.at = "PAYMENT_EXECUTED"]
  OBVIOUS
<1>4. q \in RequestState /\ q.at = "PAYMENT_EXECUTED" /\ q.invoice = i /\ q.key = request[r].key
  <2>1. "PAYMENT_EXECUTED" \in Steps
    BY DEF Steps, Working
  <2>2. QED
    BY <1>3, <2>1, RequestTyped DEF RequestState
<1>5. /\ payment' \in [Invoices -> [key : Keys \cup {None}, expenditureId : Commitments \cup {None}]]
      /\ payment'[i].key = payment[i].key /\ payment'[i].expenditureId = CommitmentOf[i]
      /\ \A j \in Invoices \ {i} : payment'[j] = payment[j]
  BY <1>1, <1>2 DEF TypeOK
<1>6. /\ paymentRequest' \in [Invoices -> {"NONE", "PENDING", "APPROVED", "REJECTED", "EXECUTED"}]
      /\ paymentRequest'[i] = "EXECUTED"
      /\ \A j \in Invoices \ {i} : paymentRequest'[j] = paymentRequest[j]
  BY <1>1, <1>2 DEF TypeOK
<1>7. /\ invoice' \in [Invoices -> [status : {"SUBMITTED", "VERIFIED", "REJECTED", "PAID"},
                                    verifiedBy : Actors \cup {None}]]
      /\ \A j \in Invoices : invoice'[j].verifiedBy = invoice[j].verifiedBy
  BY <1>2 DEF TypeOK
<1>8. Aged
  BY <1>1, <1>2, <1>6 DEF Aged, Approved, PaidFor, ledgerVars
<1>9. Promise(q)'
  <2>1. Promise(request[r])
    BY DEF PromisesInv
  <2>2. PaidFor(q.invoice)'
    BY <1>1, <1>2, <1>4 DEF PaidFor, ledgerVars
  <2>3. QED
    BY <1>1, <1>2, <1>4, <1>5, <1>6, <2>1, <2>2 DEF Promise, Approved, Owning, Working
<1>10. request' = [request EXCEPT ![r] = q]
  BY <1>3 DEF Finalize, Go
<1>11. \A j \in Invoices : SamePayment(j) \/ j = i
  BY <1>2, <1>5 DEF SamePayment
<1>12. \A s \in Requests \ {r} : request[s].at \in Owning => request[s].invoice # i
  BY <1>1 DEF OwnersInv
<1>13. request' \in [Requests -> RequestState] /\ PromisesInv' /\ OwnersInv'
  BY <1>4, <1>8, <1>9, <1>10, <1>11, <1>12, RequestStep
<1>14. LedgerTypeOK' /\ LedgerInv'
  BY <1>2, LedgerUnchanged DEF TypeOK
<1>15. TypeOK'
  BY <1>2, <1>5, <1>6, <1>7, <1>13, <1>14 DEF TypeOK
<1>16. UnsignedInv'
  BY <1>2, <1>6 DEF UnsignedInv
<1>17. DecidedByQuorum'
  <2>1. \A j \in Invoices : Undisputed(j)' = Undisputed(j) /\ Enough(j)' = Enough(j)
    BY <1>2 DEF Undisputed, Enough, Deciders
  <2>2. QED
    BY <1>1, <1>6, <2>1 DEF DecidedByQuorum, Approved
<1>18. SeparateDuties'
  BY <1>2, <1>7 DEF SeparateDuties
<1>19. ExecutedIsPaid' /\ AuditedPaymentStays'
  <2>1. UNCHANGED <<described, expenditure, audited>>
    BY <1>2 DEF ledgerVars
  <2>2. ExecutedIsPaid'
    BY <1>1, <1>5, <1>6, <2>1 DEF ExecutedIsPaid, PaidFor
  <2>3. AuditedPaymentStays'
    BY <1>1, <1>5, <2>1 DEF AuditedPaymentStays
  <2>4. QED
    BY <2>2, <2>3
<1>20. QED
  BY <1>13, <1>14, <1>15, <1>16, <1>17, <1>18, <1>19

\* The budget's own endpoints move no request; what a request relies on stays.
LEMMA BudgetStep ==
  ASSUME IInv, LedgerTypeOK', LedgerInv', UNCHANGED <<rows, request, audited>>,
         \A d \in Commitments : commitment'[d].amount = commitment[d].amount,
         \A d \in Commitments :
           expenditure[d] # NoExpenditure => expenditure'[d] = expenditure[d]
  PROVE  IInv'
<1> USE DEF IInv
<1>1. UNCHANGED <<invoice, paymentRequest, approval, payment, reconciled, described, request, audited>>
  BY DEF rows
<1>2. ASSUME NEW i \in Invoices, PaidFor(i)
      PROVE  PaidFor(i)'
  BY <1>1, <1>2, PaymentsAssumption DEF PaidFor, NoExpenditure
<1>3. Aged
  BY <1>1, <1>2 DEF Aged, Approved
<1>4. PromisesInv'
  <2>1. ASSUME NEW r \in Requests
        PROVE  Promise(request[r])'
    <3>1. PICK p : p = request[r]
      OBVIOUS
    <3>2. Promise(p) /\ request'[r] = p
      BY <1>1, <3>1 DEF PromisesInv
    <3>3. p.at # "idle" => p.invoice \in Invoices /\ CommitmentOf[p.invoice] \in Commitments
      BY <3>2, PaymentsAssumption DEF Promise
    <3>4. Promise(p)'
      BY <1>1, <1>3, <3>2, <3>3 DEF Promise, Aged, Owning, Working, Paying
    <3>5. QED
      BY <3>2, <3>4 DEF Promise, Approved, PaidFor
  <2>2. QED
    BY <2>1 DEF PromisesInv
<1>5. OwnersInv' /\ request' \in [Requests -> RequestState]
  BY <1>1 DEF OwnersInv, TypeOK
<1>6. described' \in [Commitments -> Invoices \cup {None}]
  BY <1>1 DEF TypeOK
<1>7. QED
  BY <1>1, <1>3, <1>4, <1>5, <1>6, MoneyStep

LEMMA BudgetReleaseStep ==
  ASSUME IInv, NEW c \in Commitments, BudgetRelease(c)
  PROVE  IInv'
<1>1. LedgerTypeOK' /\ LedgerInv'
  BY ReleaseKeepsLedger DEF BudgetRelease, IInv, TypeOK
<1>2. /\ \A d \in Commitments : commitment'[d].amount = commitment[d].amount
      /\ UNCHANGED expenditure
  BY DEF BudgetRelease, ReleaseTx, IInv, TypeOK, LedgerTypeOK, CommitmentRow
<1>3. QED
  BY <1>1, <1>2, BudgetStep DEF BudgetRelease

LEMMA BudgetSpendStep ==
  ASSUME IInv, NEW c \in Commitments, NEW m \in Amounts, BudgetSpend(c, m)
  PROVE  IInv'
<1>1. LedgerTypeOK' /\ LedgerInv'
  BY SpendKeepsLedger, LedgerAssumption DEF BudgetSpend, IInv, TypeOK
<1>2. /\ expenditure[c] = NoExpenditure
      /\ \A d \in Commitments : commitment'[d].amount = commitment[d].amount
      /\ \A d \in Commitments \ {c} : expenditure'[d] = expenditure[d]
  BY SpendAges DEF BudgetSpend, IInv
<1>3. QED
  BY <1>1, <1>2, BudgetStep DEF BudgetSpend

-----------------------------------------------------------------------------
LEMMA NextInv == IInv /\ [Next]_vars => IInv'
<1> SUFFICES ASSUME IInv, [Next]_vars PROVE IInv'
  OBVIOUS
<1>1. ASSUME NEW r \in Requests, Call(r) PROVE IInv'
  BY <1>1, ReadForVerifyStep, ReadForRejectStep, CastApprovalStep, LookUpKeyStep,
     RecordReconciliationStep DEF Call
<1>2. ASSUME NEW r \in Requests, Continue(r) PROVE IInv'
  BY <1>2, VerifyStep, RejectStep, ReadRequestStep, ClaimStep, LostClaimStep,
     ReadCommitmentStep, CreateExpenditureStep, FinalizeStep, DeleteClaimStep,
     AppendAuditStep DEF Continue
<1>3. ASSUME NEW c \in Commitments,
             BudgetRelease(c) \/ \E m \in Amounts : BudgetSpend(c, m)
      PROVE  IInv'
  BY <1>3, BudgetReleaseStep, BudgetSpendStep
<1>4. CASE UNCHANGED vars
  <2>1. UNCHANGED ledgerVars /\ UNCHANGED <<rows, request, audited>>
    BY <1>4 DEF vars
  <2>2. LedgerTypeOK' /\ LedgerInv'
    BY <2>1, LedgerUnchanged DEF IInv, TypeOK
  <2>3. QED
    BY <2>1, <2>2, BudgetStep DEF ledgerVars
<1>5. QED
  BY <1>1, <1>2, <1>3, <1>4, ThrowStep, CrashStep DEF Next

\* Only a verification, a signature or an execution changes what was decided.
LEMMA DecisionsFinalStep ==
  ASSUME IInv, [Next]_vars, NEW i \in Invoices, paymentRequest[i] \in {"REJECTED", "EXECUTED"}
  PROVE  paymentRequest'[i] = paymentRequest[i]
<1> USE DEF IInv
<1>1. ASSUME NEW r \in Requests, Verify(r) PROVE paymentRequest'[i] = paymentRequest[i]
  BY <1>1 DEF Verify, TypeOK
<1>2. ASSUME NEW r \in Requests, Finalize(r) PROVE paymentRequest'[i] = paymentRequest[i]
  <2>1. Approved(request[r].invoice)
    BY <1>2 DEF Finalize, PromisesInv, Promise, Owning, Working
  <2>2. Approved(i) => paymentRequest[i] = "EXECUTED"
    BY DEF Approved
  <2>3. QED
    BY <1>2, <2>1, <2>2 DEF Finalize, TypeOK
<1>3. ASSUME NEW r \in Requests, NEW j \in Invoices, NEW u \in Actors,
             NEW decision \in {"APPROVE", "REJECT"}, CastApproval(r, j, u, decision)
      PROVE  paymentRequest'[i] = paymentRequest[i]
  BY <1>3 DEF CastApproval, TypeOK
<1>4. ASSUME UNCHANGED paymentRequest PROVE paymentRequest'[i] = paymentRequest[i]
  BY <1>4
<1>5. ASSUME NEW r \in Requests, Call(r) PROVE paymentRequest'[i] = paymentRequest[i]
  BY <1>3, <1>4, <1>5
  DEF Call, ReadForVerify, ReadForReject, LookUpKey, RecordReconciliation, rows
<1>6. ASSUME NEW r \in Requests, Continue(r) PROVE paymentRequest'[i] = paymentRequest[i]
  BY <1>1, <1>2, <1>4, <1>6
  DEF Continue, Reject, ReadRequest, Claim, LostClaim, ReadCommitment, CreateExpenditure,
      DeleteClaim, AppendAudit, rows
<1>7. QED
  BY <1>4, <1>5, <1>6 DEF Next, Throw, Crash, BudgetRelease, BudgetSpend, rows, vars

LEMMA Inductive == Spec => []IInv
<1>1. Init => IInv
  BY InitInv
<1>2. IInv /\ [Next]_vars => IInv'
  BY NextInv
<1>3. QED
  BY <1>1, <1>2, PTL DEF Spec

-----------------------------------------------------------------------------
(* The payment flow implements Disbursement.                               *)

\* A step that leaves verifiers, signatures, decisions and expenditures alone.
LEMMA PayoutStutters ==
  ASSUME UNCHANGED <<paymentRequest, approval, expenditure, described>>,
         \A i \in Invoices : invoice'[i].verifiedBy = invoice[i].verifiedBy
  PROVE  UNCHANGED Payout!vars
<1>1. \A i \in Invoices : Deciders(i, "APPROVE")' = Deciders(i, "APPROVE")
  BY DEF Deciders
<1>2. [i \in Invoices |-> Deciders(i, "APPROVE")]' = [i \in Invoices |-> Deciders(i, "APPROVE")]
  BY <1>1
<1>3. [i \in Invoices |-> invoice[i].verifiedBy]' = [i \in Invoices |-> invoice[i].verifiedBy]
  OBVIOUS
<1>4. QED
  BY <1>2, <1>3 DEF Payout!vars

LEMMA PayoutBegins == Init => Payout!Init
<1> SUFFICES ASSUME Init PROVE Payout!Init
  OBVIOUS
<1>1. [i \in Invoices |-> invoice[i].verifiedBy] = [i \in Invoices |-> None]
  BY DEF Init
<1>2. [i \in Invoices |-> Deciders(i, "APPROVE")] = [i \in Invoices |-> {}]
  BY DEF Init, Deciders
<1>3. QED
  BY <1>1, <1>2 DEF Init, Payout!Init, NoExpenditure

LEMMA VerifyPayout ==
  ASSUME IInv, NEW r \in Requests, Verify(r)
  PROVE  [Payout!Next]_(Payout!vars)
<1>1. PICK i \in Invoices, u \in Actors :
        i = request[r].invoice /\ u = request[r].actor /\ u # SubmittedBy[i]
  BY DEF IInv, PromisesInv, Promise, Verify
<1>2. UNCHANGED <<expenditure, approval, described>>
  BY DEF Verify, ledgerVars
<1>3. CASE UNCHANGED <<invoice, paymentRequest>>
  BY <1>2, <1>3, PayoutStutters
<1>4. CASE /\ paymentRequest[i] = "NONE"
           /\ invoice' = [invoice EXCEPT ![i] = [status |-> "VERIFIED", verifiedBy |-> u]]
           /\ paymentRequest' = [paymentRequest EXCEPT ![i] = "PENDING"]
  <2>1. [j \in Invoices |-> invoice[j].verifiedBy]'
          = [[j \in Invoices |-> invoice[j].verifiedBy] EXCEPT ![i] = u]
    BY <1>4 DEF IInv, TypeOK
  <2>2. [j \in Invoices |-> Deciders(j, "APPROVE")]' = [j \in Invoices |-> Deciders(j, "APPROVE")]
    BY <1>2 DEF Deciders
  <2>3. Payout!Verify(i, u)
    BY <1>1, <1>2, <1>4, <2>1, <2>2 DEF Payout!Verify
  <2>4. QED
    BY <2>3 DEF Payout!Next
<1>5. QED
  BY <1>1, <1>3, <1>4 DEF Verify

LEMMA CastApprovalPayout ==
  ASSUME IInv, NEW r \in Requests, NEW i \in Invoices, NEW u \in Actors,
         NEW d \in {"APPROVE", "REJECT"}, CastApproval(r, i, u, d)
  PROVE  [Payout!Next]_(Payout!vars)
<1> DEFINE signers == [j \in Invoices |-> Deciders(j, "APPROVE")]
<1>1. /\ u # invoice[i].verifiedBy
      /\ paymentRequest[i] = "PENDING"
      /\ approval[i][u] = "NONE"
      /\ approval' = [approval EXCEPT ![i][u] = d]
      /\ paymentRequest' = [paymentRequest EXCEPT ![i] =
           IF d = "REJECT" THEN "REJECTED"
           ELSE IF Cardinality(Deciders(i, "APPROVE")') >= RequiredApprovals THEN "APPROVED"
           ELSE "PENDING"]
      /\ UNCHANGED <<expenditure, invoice, described>>
  BY DEF CastApproval, ledgerVars
<1>2. approval \in [Invoices -> [Actors -> {"NONE", "APPROVE", "REJECT"}]]
  BY DEF IInv, TypeOK
<1>3. \A j \in Invoices \ {i} : Deciders(j, "APPROVE")' = Deciders(j, "APPROVE")
  BY <1>1, <1>2 DEF Deciders
<1>4. [j \in Invoices |-> invoice[j].verifiedBy]' = [j \in Invoices |-> invoice[j].verifiedBy]
  BY <1>1
<1>5. CASE d = "REJECT"
  <2>1. Deciders(i, "APPROVE")' = Deciders(i, "APPROVE")
    BY <1>1, <1>2, <1>5 DEF Deciders
  <2>2. signers' = signers
    BY <1>3, <2>1
  <2>3. Payout!Refuse(i)
    BY <1>1, <1>4, <1>5, <2>2 DEF Payout!Refuse
  <2>4. QED
    BY <2>3 DEF Payout!Next
<1>6. CASE d = "APPROVE"
  <2>1. Deciders(i, "APPROVE")' = Deciders(i, "APPROVE") \cup {u} /\ u \notin Deciders(i, "APPROVE")
    BY <1>1, <1>2, <1>6 DEF Deciders
  <2>2. signers' = [signers EXCEPT ![i] = signers[i] \cup {u}]
    BY <1>3, <2>1
  <2>3. paymentRequest' = [paymentRequest EXCEPT ![i] =
          IF Cardinality(signers[i] \cup {u}) >= RequiredApprovals THEN "APPROVED" ELSE "PENDING"]
    BY <1>1, <1>6, <2>1
  <2>4. [j \in Invoices |-> invoice[j].verifiedBy][i] = invoice[i].verifiedBy
    OBVIOUS
  <2>5. \A S : Payout!Cardinality(S) = Cardinality(S)
    BY DEF Payout!Cardinality, Cardinality
  <2>6. Payout!Approve(i, u)
    BY <1>1, <1>4, <2>1, <2>2, <2>3, <2>4, <2>5 DEF Payout!Approve
  <2>7. QED
    BY <2>6 DEF Payout!Next
<1>7. QED
  BY <1>5, <1>6

\* The expenditure of a claim is the abstract payment: the promise that its
\* request was approved still holds, and it was not executed yet, as then the
\* commitment would have its expenditure.
LEMMA CreateExpenditurePayout ==
  ASSUME IInv, NEW r \in Requests, CreateExpenditure(r)
  PROVE  [Payout!Next]_(Payout!vars)
<1> DEFINE i == request[r].invoice
           c == CommitmentOf[i]
<1>1. i \in Invoices /\ c \in Commitments /\ Approved(i) /\ InvoiceAmount[i] \in Nat
  BY PaymentsAssumption
  DEF IInv, PromisesInv, Promise, CreateExpenditure, Owning, Working
<1>2. UNCHANGED <<invoice, paymentRequest, approval>>
  BY DEF CreateExpenditure
<1>3. CASE UNCHANGED <<ledgerVars, described>>
  BY <1>2, <1>3, PayoutStutters DEF ledgerVars
<1>4. CASE SpendTx(c, InvoiceAmount[i]) /\ described' = [described EXCEPT ![c] = i]
  <2>1. expenditure[c] = -1 /\ expenditure' = [expenditure EXCEPT ![c] = InvoiceAmount[i]]
    BY <1>4 DEF SpendTx, NoExpenditure
  <2>2. paymentRequest[i] = "APPROVED"
    BY <1>1, <2>1 DEF IInv, ExecutedIsPaid, Approved
  <2>3. [j \in Invoices |-> Deciders(j, "APPROVE")]' = [j \in Invoices |-> Deciders(j, "APPROVE")]
    BY <1>2 DEF Deciders
  <2>4. Payout!Pay(i)
    BY <1>2, <1>4, <2>1, <2>2, <2>3 DEF Payout!Pay
  <2>5. QED
    BY <1>1, <2>4 DEF Payout!Next
<1>5. QED
  BY <1>3, <1>4 DEF CreateExpenditure

LEMMA FinalizePayout ==
  ASSUME IInv, NEW r \in Requests, Finalize(r)
  PROVE  [Payout!Next]_(Payout!vars)
<1> DEFINE i == request[r].invoice
<1>1. i \in Invoices /\ Approved(i) /\ PaidFor(i)
  BY DEF IInv, PromisesInv, Promise, Finalize, Owning, Working, Paying
<1>2. /\ invoice' = [invoice EXCEPT ![i].status = "PAID"]
      /\ paymentRequest' = [paymentRequest EXCEPT ![i] = "EXECUTED"]
      /\ UNCHANGED <<expenditure, approval, described>>
  BY DEF Finalize, ledgerVars
<1>3. \A j \in Invoices : invoice'[j].verifiedBy = invoice[j].verifiedBy
  BY <1>2 DEF IInv, TypeOK
<1>4. CASE paymentRequest[i] = "EXECUTED"
  <2>1. paymentRequest' = paymentRequest
    BY <1>1, <1>2, <1>4 DEF IInv, TypeOK
  <2>2. QED
    BY <1>2, <1>3, <2>1, PayoutStutters
<1>5. CASE paymentRequest[i] = "APPROVED"
  <2>1. [j \in Invoices |-> invoice[j].verifiedBy]' = [j \in Invoices |-> invoice[j].verifiedBy]
    BY <1>3
  <2>2. [j \in Invoices |-> Deciders(j, "APPROVE")]' = [j \in Invoices |-> Deciders(j, "APPROVE")]
    BY <1>2 DEF Deciders
  <2>3. Payout!Execute(i)
    BY <1>1, <1>2, <1>5, <2>1, <2>2 DEF Payout!Execute, PaidFor
  <2>4. QED
    BY <1>1, <2>3 DEF Payout!Next
<1>6. QED
  BY <1>1, <1>4, <1>5 DEF Approved

\* No request that is cut off, replayed or refused shows, and no other step of
\* one: these change neither a decision nor an expenditure.
LEMMA OtherStepsPayout ==
  ASSUME IInv, UNCHANGED <<ledgerVars, paymentRequest, approval, described>>,
         \/ UNCHANGED invoice
         \/ \E r \in Requests : Reject(r)
  PROVE  [Payout!Next]_(Payout!vars)
<1>1. \A i \in Invoices : invoice'[i].verifiedBy = invoice[i].verifiedBy
  <2>1. ASSUME NEW r \in Requests, Reject(r)
        PROVE  \A i \in Invoices : invoice'[i].verifiedBy = invoice[i].verifiedBy
    <3>1. invoice' = [invoice EXCEPT ![request[r].invoice].status = "REJECTED"]
      BY <2>1 DEF Reject
    <3>2. QED
      BY <3>1 DEF IInv, TypeOK
  <2>2. QED
    BY <2>1
<1>2. QED
  BY <1>1, PayoutStutters DEF ledgerVars

LEMMA BudgetPayout ==
  ASSUME IInv, NEW c \in Commitments,
         BudgetRelease(c) \/ \E m \in Amounts : BudgetSpend(c, m)
  PROVE  [Payout!Next]_(Payout!vars)
<1>1. UNCHANGED <<invoice, paymentRequest, approval, described>>
  BY DEF BudgetRelease, BudgetSpend, rows
<1>2. CASE BudgetRelease(c)
  BY <1>1, <1>2, PayoutStutters DEF BudgetRelease, ReleaseTx
<1>3. ASSUME NEW m \in Amounts, BudgetSpend(c, m)
      PROVE  [Payout!Next]_(Payout!vars)
  <2>1. expenditure[c] = -1 /\ expenditure' = [expenditure EXCEPT ![c] = m]
    BY <1>3 DEF BudgetSpend, SpendTx, NoExpenditure
  <2>2. [j \in Invoices |-> Deciders(j, "APPROVE")]' = [j \in Invoices |-> Deciders(j, "APPROVE")]
    BY <1>1 DEF Deciders
  <2>3. Payout!PayDirectly(c, m)
    BY <1>1, <2>1, <2>2 DEF Payout!PayDirectly
  <2>4. QED
    BY <2>3 DEF Payout!Next
<1>4. QED
  BY <1>2, <1>3

LEMMA PayoutStep == IInv /\ [Next]_vars => [Payout!Next]_(Payout!vars)
<1> SUFFICES ASSUME IInv, [Next]_vars PROVE [Payout!Next]_(Payout!vars)
  OBVIOUS
<1>1. ASSUME NEW r \in Requests, Call(r) PROVE [Payout!Next]_(Payout!vars)
  BY <1>1, CastApprovalPayout, OtherStepsPayout
  DEF Call, ReadForVerify, ReadForReject, LookUpKey, RecordReconciliation, rows
<1>2. ASSUME NEW r \in Requests, Continue(r) PROVE [Payout!Next]_(Payout!vars)
  <2>1. CASE Verify(r) \/ CreateExpenditure(r) \/ Finalize(r)
    BY <2>1, VerifyPayout, CreateExpenditurePayout, FinalizePayout
  <2>2. CASE Reject(r)
    BY <2>2, OtherStepsPayout DEF Reject
  <2>3. CASE \/ ReadRequest(r) \/ Claim(r) \/ LostClaim(r) \/ ReadCommitment(r)
             \/ DeleteClaim(r) \/ AppendAudit(r)
    BY <2>3, OtherStepsPayout
    DEF ReadRequest, Claim, LostClaim, ReadCommitment, DeleteClaim, AppendAudit, rows
  <2>4. QED
    BY <1>2, <2>1, <2>2, <2>3 DEF Continue
<1>3. ASSUME NEW r \in Requests, Throw(r) \/ Crash(r) PROVE [Payout!Next]_(Payout!vars)
  BY <1>3, OtherStepsPayout DEF Throw, Crash, rows
<1>4. CASE UNCHANGED vars
  BY <1>4, OtherStepsPayout DEF vars, rows
<1>5. QED
  BY <1>1, <1>2, <1>3, <1>4, BudgetPayout DEF Next

-----------------------------------------------------------------------------
\* Every row and every request of the payment flow is well formed, and every
\* signature, claim and audit entry is of an invoice there is.
THEOREM PaymentsTypeCorrect == Spec => []TypeOK
BY Inductive, PTL DEF IInv

\* Money leaves once, however requests interleave and wherever one throws or
\* dies: PaymentsService.execute's claim has one owner, an EXECUTED request was
\* paid by its commitment's one expenditure, a payment that the audit trail
\* tells of stays; and verify, castApproval, createExpenditure and finalize,
\* with all that comes between them, implement Disbursement.
THEOREM PaymentsPayOnce == Spec => PaidOnce
<1>1. IInv => ClaimsAreExclusive /\ ExecutedIsPaid /\ AuditedPaymentStays
  <2>1. ASSUME IInv, NEW r \in Requests, request[r].at \in Owning
        PROVE  /\ payment[request[r].invoice].key = request[r].key
               /\ \A s \in Requests \ {r} :
                    request[s].at \in Owning => request[s].invoice # request[r].invoice
    BY <2>1 DEF IInv, PromisesInv, Promise, OwnersInv
  <2>2. IInv => ClaimsAreExclusive
    BY <2>1 DEF ClaimsAreExclusive, Owning
  <2>3. QED
    BY <2>2 DEF IInv
<1>2. Init => Payout!Init
  BY PayoutBegins
<1>3. IInv /\ [Next]_vars => [Payout!Next]_(Payout!vars)
  BY PayoutStep
<1>4. QED
  BY <1>1, <1>2, <1>3, Inductive, PTL DEF Spec, PaidOnce, Payout!Spec

\* PaymentsService.castApproval: a payment is decided by as many distinct people
\* as the policy asks for, none of whom verified the invoice, which its
\* submitter did not verify either; and a final decision never changes, though
\* execute writes the status without reading it again.
THEOREM PaymentsAreDecided == Spec => ApprovalsDecide
<1> DEFINE Final == \A i \in Invoices :
             paymentRequest[i] \in {"REJECTED", "EXECUTED"} =>
               paymentRequest'[i] = paymentRequest[i]
<1>1. IInv /\ [Next]_vars => [Final]_vars
  BY DecisionsFinalStep
<1>2. IInv => DecidedByQuorum /\ SeparateDuties
  BY DEF IInv
<1>3. DecisionsAreFinal <=> [][Final]_vars
  BY DEF DecisionsAreFinal
<1> HIDE DEF Final
<1>4. QED
  BY <1>1, <1>2, <1>3, Inductive, PTL DEF Spec, ApprovalsDecide

\* The budget's books stay in order under the payment flow too: an allocation is
\* never over its ceiling, its running totals are those of its rows, and an
\* expenditure settles its commitment, whatever requests race to spend it.
THEOREM PaymentsKeepTheLedger == Spec => []LedgerInv
BY Inductive, PTL DEF IInv
=============================================================================
