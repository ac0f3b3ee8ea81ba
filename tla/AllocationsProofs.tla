-------------------------- MODULE AllocationsProofs --------------------------
(***************************************************************************)
(* Theorems about Allocations, for every set of allocations, commitments,  *)
(* adjustments, actors, amounts and concurrent requests.                   *)
(***************************************************************************)
EXTENDS Allocations, LedgerProofs

CommitmentHandlers == {"releaseCommitment", "createExpenditure"}
AdjustmentHandlers == {"approveAdjustment", "rejectAdjustment"}
CommitmentEvents == {"COMMITMENT_CREATED", "COMMITMENT_RELEASED", "EXPENDITURE_RECORDED"}

\* What a request's unlocked read leaves true for ever: the row it acts on
\* exists, the amount it will spend fits, and its actor is not the requester.
ReadStillTrue(q) ==
  /\ q.at \in CommitmentHandlers =>
       q.id \in Commitments /\ commitment[q.id].status # "NONE"
  /\ q.at = "createExpenditure" => q.amount <= commitment[q.id].amount
  /\ q.at \in AdjustmentHandlers =>
       q.id \in Adjustments /\ adjustment[q.id].status # "NONE"
  /\ q.at = "approveAdjustment" =>
       q.actor \in Actors /\ q.actor # adjustment[q.id].requestedBy

\* An event names a row of its own kind, and what it tells happened.
TellsTruth(event, id) ==
  /\ event \in CommitmentEvents => id \in Commitments
  /\ event \in Events \ CommitmentEvents => id \in Adjustments
  /\ Happened(event, id)

RequestInv ==
  \A r \in Requests :
    /\ ReadStillTrue(request[r])
    /\ request[r].at \in Events => TellsTruth(request[r].at, request[r].id)

AuditInv == \A e \in audited : TellsTruth(e[1], e[2])

\* The inductive invariant of Spec.
IInv ==
  /\ TypeOK
  /\ RequestInv
  /\ AuditInv
  /\ LedgerInv
  /\ FourEyes

\* The names of the steps are different strings, so no request is at two.
LEMMA InitInv == Init => IInv
<1> SUFFICES ASSUME Init PROVE IInv
  OBVIOUS
<1> USE DEF Init, LedgerInit
<1>1. LedgerTypeOK
  BY LedgerAssumption DEF LedgerTypeOK, CommitmentRow, NoRow, NoExpenditure
<1>2. TypeOK
  BY <1>1, AllocationsAssumption
  DEF TypeOK, AdjustmentRow, NoAdjustment, RequestState, Idle
<1>3. RequestInv /\ AuditInv
  BY DEF RequestInv, AuditInv, ReadStillTrue, CommitmentHandlers, AdjustmentHandlers,
         Events, Idle
<1>4. ASSUME NEW a \in Allocations
      PROVE  Earmarked(a) = 0 /\ Paid(a) = 0
  <2>1. EarmarkedOn(a) \in [Commitments -> Nat] /\ PaidOn(a) \in [Commitments -> Nat]
    BY <1>1, TotalsOfRows
  <2>2. \A c \in Commitments : EarmarkedOn(a)[c] = 0 /\ PaidOn(a)[c] = 0
    BY DEF EarmarkedOn, PaidOn, NoRow
  <2>3. QED
    BY <2>1, <2>2, TotalZero DEF Earmarked, Paid
<1>5. WithinAuthorization
  BY LedgerAssumption DEF WithinAuthorization, Balanced
<1>6. SpentIsPaid /\ CommittedAtMostEarmarked
  BY <1>4 DEF SpentIsPaid, CommittedAtMostEarmarked
<1>7. ExpenditureSettles
  BY DEF ExpenditureSettles, NoRow
<1>8. FourEyes
  BY DEF FourEyes, NoAdjustment
<1>9. QED
  BY <1>2, <1>3, <1>5, <1>6, <1>7, <1>8 DEF IInv, LedgerInv

-----------------------------------------------------------------------------
\* No step takes back what a request or an event relies on.
Aged ==
  /\ \A c \in Commitments :
       /\ commitment[c].status # "NONE" =>
            commitment'[c].status # "NONE" /\ commitment'[c].amount = commitment[c].amount
       /\ commitment[c].status \in {"RELEASED", "CONSUMED"} =>
            commitment'[c].status \in {"RELEASED", "CONSUMED"}
       /\ expenditure[c] # NoExpenditure => expenditure'[c] # NoExpenditure
  /\ \A d \in Adjustments :
       /\ adjustment[d].status # "NONE" =>
            /\ adjustment'[d].status # "NONE"
            /\ adjustment'[d].requestedBy = adjustment[d].requestedBy
       /\ adjustment[d].status \in {"REJECTED", "APPROVED"} =>
            adjustment'[d].status \in {"REJECTED", "APPROVED"}
       /\ adjustment[d].approvedBy # None => adjustment'[d].approvedBy # None

LEMMA AgedRead ==
  ASSUME Aged, NEW q, ReadStillTrue(q)
  PROVE  ReadStillTrue(q)'
BY DEF Aged, ReadStillTrue, CommitmentHandlers, AdjustmentHandlers

LEMMA AgedTruth ==
  ASSUME Aged, NEW event \in Events, NEW id, TellsTruth(event, id)
  PROVE  TellsTruth(event, id)'
BY DEF Aged, TellsTruth, Happened, CommitmentEvents, Events

\* A request's own step leaves the others where they are.
LEMMA OneRequestMoves ==
  ASSUME TypeOK, RequestInv, Aged, NEW r \in Requests, NEW q \in RequestState,
         request' = [request EXCEPT ![r] = q],
         ReadStillTrue(q)', q.at \in Events => TellsTruth(q.at, q.id)'
  PROVE  request' \in [Requests -> RequestState] /\ RequestInv'
<1>1. request' \in [Requests -> RequestState]
  BY DEF TypeOK
<1>2. ASSUME NEW s \in Requests
      PROVE  /\ ReadStillTrue(request[s])'
             /\ request'[s].at \in Events => TellsTruth(request[s].at, request[s].id)'
  <2>1. PICK p : p = request'[s]
    OBVIOUS
  <2>2. ReadStillTrue(p)' /\ (p.at \in Events => TellsTruth(p.at, p.id)')
    <3>1. CASE s = r
      BY <2>1, <3>1 DEF TypeOK
    <3>2. CASE s # r
      <4>1. p = request[s]
        BY <2>1, <3>2 DEF TypeOK
      <4>2. ReadStillTrue(p) /\ (p.at \in Events => TellsTruth(p.at, p.id))
        BY <4>1 DEF RequestInv
      <4>3. QED
        BY <4>2, AgedRead, AgedTruth
    <3>3. QED
      BY <3>1, <3>2
  <2>3. QED
    BY <2>1, <2>2 DEF ReadStillTrue, TellsTruth, Happened
<1>3. QED
  BY <1>1, <1>2 DEF RequestInv

LEMMA AuditKept ==
  ASSUME TypeOK, AuditInv, Aged, audited' = audited
  PROVE  AuditInv'
<1>1. ASSUME NEW e \in audited
      PROVE  TellsTruth(e[1], e[2])'
  <2>1. e[1] \in Events /\ TellsTruth(e[1], e[2])
    BY DEF TypeOK, AuditInv
  <2>2. QED
    BY <2>1, AgedTruth
<1>2. QED
  BY <1>1 DEF AuditInv

-----------------------------------------------------------------------------
\* A step of one request keeps IInv if it ages the rows, keeps the ledger and
\* the adjustments, and goes to a place whose promises hold.
LEMMA RequestStep ==
  ASSUME IInv, Aged, NEW r \in Requests, NEW q \in RequestState,
         request' = [request EXCEPT ![r] = q],
         ReadStillTrue(q)', q.at \in Events => TellsTruth(q.at, q.id)',
         LedgerTypeOK', LedgerInv',
         adjustment' \in [Adjustments -> AdjustmentRow], FourEyes',
         audited' = audited
  PROVE  IInv'
<1>1. TypeOK /\ RequestInv /\ AuditInv
  BY DEF IInv
<1>2. request' \in [Requests -> RequestState] /\ RequestInv'
  BY <1>1, OneRequestMoves
<1>3. AuditInv'
  BY <1>1, AuditKept
<1>4. TypeOK'
  BY <1>1, <1>2 DEF TypeOK
<1>5. QED
  BY <1>2, <1>3, <1>4 DEF IInv

\* A read leaves everything but its request alone.
LEMMA ReadStep ==
  ASSUME IInv, NEW r \in Requests, NEW q \in RequestState,
         request' = [request EXCEPT ![r] = q],
         ReadStillTrue(q), q.at \notin Events,
         UNCHANGED <<ledgerVars, adjustment, audited>>
  PROVE  IInv'
<1>1. Aged
  BY DEF Aged, ledgerVars
<1>2. LedgerTypeOK' /\ LedgerInv'
  BY LedgerUnchanged DEF IInv, TypeOK
<1>3. ReadStillTrue(q)'
  BY <1>1, AgedRead
<1>4. adjustment' \in [Adjustments -> AdjustmentRow] /\ FourEyes'
  BY DEF IInv, TypeOK, FourEyes
<1>5. QED
  BY <1>1, <1>2, <1>3, <1>4, RequestStep

LEMMA CreateCommitmentStep ==
  ASSUME IInv, NEW r \in Requests, NEW c \in Commitments, NEW m \in Amounts,
         CreateCommitment(r, c, m)
  PROVE  IInv'
<1>1. m \in Nat
  BY LedgerAssumption
<1>2. LedgerTypeOK' /\ LedgerInv'
  BY <1>1, CommitKeepsLedger DEF IInv, TypeOK, CreateCommitment
<1>3. Aged
  BY DEF Aged, CreateCommitment, CommitTx, NoRow, IInv, TypeOK, LedgerTypeOK
<1>4. PICK q : q = [at |-> "COMMITMENT_CREATED", id |-> c, amount |-> 0, actor |-> None]
  OBVIOUS
<1>5. q \in RequestState /\ request' = [request EXCEPT ![r] = q]
  BY <1>4 DEF CreateCommitment, ThenAudit, Go, RequestState, Events
<1>6. ReadStillTrue(q)'
  BY <1>4 DEF ReadStillTrue, CommitmentHandlers, AdjustmentHandlers
<1>7. TellsTruth(q.at, q.id)'
  <2>1. commitment'[c].status # "NONE"
    BY DEF CreateCommitment, CommitTx, IInv, TypeOK, LedgerTypeOK
  <2>2. QED
    BY <1>4, <2>1 DEF TellsTruth, Happened, CommitmentEvents, Events
<1>8. adjustment' \in [Adjustments -> AdjustmentRow] /\ FourEyes' /\ audited' = audited
  BY DEF CreateCommitment, ThenAudit, IInv, TypeOK, FourEyes
<1>9. QED
  BY <1>2, <1>3, <1>5, <1>6, <1>7, <1>8, RequestStep

LEMMA ReleaseCommitmentStep ==
  ASSUME IInv, NEW r \in Requests, ReleaseCommitment(r)
  PROVE  IInv'
<1>1. PICK c \in Commitments : c = request[r].id
  BY DEF IInv, RequestInv, ReadStillTrue, CommitmentHandlers, ReleaseCommitment
<1>2. ReleaseTx(c)
  BY <1>1 DEF ReleaseCommitment
<1>3. LedgerTypeOK' /\ LedgerInv'
  BY <1>2, ReleaseKeepsLedger DEF IInv, TypeOK
<1>4. Aged
  BY <1>2 DEF Aged, ReleaseTx, ReleaseCommitment, IInv, TypeOK, LedgerTypeOK, CommitmentRow
<1>5. PICK q : q = [at |-> "COMMITMENT_RELEASED", id |-> c, amount |-> 0, actor |-> None]
  OBVIOUS
<1>6. q \in RequestState /\ request' = [request EXCEPT ![r] = q]
  BY <1>1, <1>5 DEF ReleaseCommitment, ThenAudit, Go, RequestState, Events
<1>7. ReadStillTrue(q)'
  BY <1>5 DEF ReadStillTrue, CommitmentHandlers, AdjustmentHandlers
<1>8. TellsTruth(q.at, q.id)'
  <2>1. commitment'[c].status = "RELEASED"
    BY <1>2 DEF ReleaseTx, IInv, TypeOK, LedgerTypeOK, CommitmentRow
  <2>2. QED
    BY <1>5, <2>1 DEF TellsTruth, Happened, CommitmentEvents, Events
<1>9. adjustment' \in [Adjustments -> AdjustmentRow] /\ FourEyes' /\ audited' = audited
  BY DEF ReleaseCommitment, ThenAudit, IInv, TypeOK, FourEyes
<1>10. QED
  BY <1>3, <1>4, <1>6, <1>7, <1>8, <1>9, RequestStep

LEMMA CreateExpenditureStep ==
  ASSUME IInv, NEW r \in Requests, CreateExpenditure(r)
  PROVE  IInv'
<1>1. PICK c \in Commitments : c = request[r].id
  BY DEF IInv, RequestInv, ReadStillTrue, CommitmentHandlers, CreateExpenditure
<1>2. PICK m \in Nat : m = request[r].amount /\ m <= commitment[c].amount
  BY <1>1 DEF IInv, TypeOK, RequestState, RequestInv, ReadStillTrue, CreateExpenditure
<1>3. SpendTx(c, m)
  BY <1>1, <1>2 DEF CreateExpenditure
<1>4. LedgerTypeOK' /\ LedgerInv'
  BY <1>2, <1>3, SpendKeepsLedger DEF IInv, TypeOK
<1>5. Aged
  BY <1>3 DEF Aged, SpendTx, CreateExpenditure, IInv, TypeOK, LedgerTypeOK, CommitmentRow, NoExpenditure
<1>6. PICK q : q = [at |-> "EXPENDITURE_RECORDED", id |-> c, amount |-> 0, actor |-> None]
  OBVIOUS
<1>7. q \in RequestState /\ request' = [request EXCEPT ![r] = q]
  BY <1>1, <1>6 DEF CreateExpenditure, ThenAudit, Go, RequestState, Events
<1>8. ReadStillTrue(q)'
  BY <1>6 DEF ReadStillTrue, CommitmentHandlers, AdjustmentHandlers
<1>9. TellsTruth(q.at, q.id)'
  <2>1. expenditure'[c] # NoExpenditure
    BY <1>3 DEF SpendTx, IInv, TypeOK, LedgerTypeOK, NoExpenditure
  <2>2. QED
    BY <1>6, <2>1 DEF TellsTruth, Happened, CommitmentEvents, Events
<1>10. adjustment' \in [Adjustments -> AdjustmentRow] /\ FourEyes' /\ audited' = audited
  BY DEF CreateExpenditure, ThenAudit, IInv, TypeOK, FourEyes
<1>11. QED
  BY <1>4, <1>5, <1>7, <1>8, <1>9, <1>10, RequestStep

LEMMA CreateAdjustmentStep ==
  ASSUME IInv, NEW r \in Requests, NEW d \in Adjustments, NEW type \in {"INCREASE", "DECREASE"},
         NEW m \in Amounts, NEW u \in Actors, CreateAdjustment(r, d, type, m, u)
  PROVE  IInv'
<1>1. LedgerTypeOK' /\ LedgerInv'
  BY LedgerUnchanged DEF IInv, TypeOK, CreateAdjustment
<1>2. /\ adjustment[d] = NoAdjustment
      /\ adjustment' = [adjustment EXCEPT ![d] =
           [status |-> "PENDING", type |-> type, amount |-> m,
            requestedBy |-> u, approvedBy |-> None]]
      /\ adjustment \in [Adjustments -> AdjustmentRow]
  BY DEF CreateAdjustment, IInv, TypeOK
<1>3. Aged
  BY <1>2 DEF Aged, NoAdjustment, CreateAdjustment, ledgerVars
<1>4. adjustment' \in [Adjustments -> AdjustmentRow]
  BY <1>2, LedgerAssumption DEF AdjustmentRow
<1>5. FourEyes'
  BY <1>2 DEF FourEyes, IInv
<1>6. PICK q : q = [at |-> "BUDGET_ADJUSTMENT_REQUESTED", id |-> d, amount |-> 0, actor |-> None]
  OBVIOUS
<1>7. q \in RequestState /\ request' = [request EXCEPT ![r] = q] /\ audited' = audited
  BY <1>6 DEF CreateAdjustment, ThenAudit, Go, RequestState, Events
<1>8. ReadStillTrue(q)'
  BY <1>6 DEF ReadStillTrue, CommitmentHandlers, AdjustmentHandlers
<1>9. TellsTruth(q.at, q.id)'
  BY <1>2, <1>6 DEF TellsTruth, Happened, CommitmentEvents, Events
<1>10. QED
  BY <1>1, <1>3, <1>4, <1>5, <1>7, <1>8, <1>9, RequestStep

LEMMA ApproveAdjustmentStep ==
  ASSUME IInv, NEW r \in Requests, ApproveAdjustment(r)
  PROVE  IInv'
<1>1. PICK d \in Adjustments : d = request[r].id
  BY DEF IInv, RequestInv, ReadStillTrue, AdjustmentHandlers, ApproveAdjustment
<1>2. PICK u \in Actors : u = request[r].actor /\ u # adjustment[d].requestedBy
  BY <1>1 DEF IInv, RequestInv, ReadStillTrue, AdjustmentHandlers, ApproveAdjustment
<1> DEFINE a == AdjustmentOf[d]
<1>3. a \in Allocations /\ u # None
  BY AllocationsAssumption
<1>4. PICK n \in Int : SetBalance(a, n, committed[a], spent[a])
  <2>1. authorized[a] \in Nat /\ adjustment[d].amount \in Nat
    BY <1>3 DEF IInv, TypeOK, LedgerTypeOK, AdjustmentRow
  <2>2. QED
    BY <1>1, <2>1 DEF ApproveAdjustment
<1>5. /\ adjustment' = [adjustment EXCEPT ![d].status = "APPROVED", ![d].approvedBy = u]
      /\ adjustment \in [Adjustments -> AdjustmentRow]
      /\ commitment' = commitment /\ expenditure' = expenditure /\ audited' = audited
  BY <1>1, <1>2 DEF ApproveAdjustment, ThenAudit, IInv, TypeOK
<1>6. LedgerTypeOK' /\ LedgerInv'
  <2>1. committed[a] \in Int /\ spent[a] \in Int
    BY <1>3 DEF IInv, TypeOK, LedgerTypeOK
  <2>2. /\ authorized' \in [Allocations -> Nat]
        /\ committed' \in [Allocations -> Nat]
        /\ spent' \in [Allocations -> Nat]
        /\ Balanced(authorized'[a], committed'[a], spent'[a])
        /\ committed'[a] = committed[a] /\ spent'[a] = spent[a]
        /\ \A b \in Allocations \ {a} :
             /\ authorized'[b] = authorized[b]
             /\ committed'[b] = committed[b]
             /\ spent'[b] = spent[b]
    BY <1>3, <1>4, <2>1, SetBalanceEffect DEF IInv, TypeOK
  <2>3. LedgerTypeOK'
    BY <1>5, <2>2 DEF IInv, TypeOK, LedgerTypeOK
  <2>4. WithinAuthorization'
    BY <2>2 DEF IInv, LedgerInv, WithinAuthorization, Balanced
  <2>5. \A b \in Allocations : Earmarked(b)' = Earmarked(b) /\ Paid(b)' = Paid(b)
    BY <1>5 DEF Earmarked, Paid, EarmarkedOn, PaidOn
  <2>6. \A b \in Allocations : committed'[b] = committed[b] /\ spent'[b] = spent[b]
    BY <2>2
  <2>7. SpentIsPaid' /\ CommittedAtMostEarmarked'
    BY <2>5, <2>6 DEF IInv, LedgerInv, SpentIsPaid, CommittedAtMostEarmarked
  <2>8. ExpenditureSettles'
    BY <1>5 DEF IInv, LedgerInv, ExpenditureSettles
  <2>9. QED
    BY <2>3, <2>4, <2>7, <2>8 DEF LedgerInv
<1>7. adjustment' \in [Adjustments -> AdjustmentRow]
  BY <1>5 DEF AdjustmentRow
<1>8. FourEyes'
  BY <1>2, <1>3, <1>5 DEF FourEyes, IInv, AdjustmentRow
<1>9. Aged
  BY <1>3, <1>5 DEF Aged, AdjustmentRow
<1>10. PICK q : q = [at |-> "BUDGET_ADJUSTMENT_APPROVED", id |-> d, amount |-> 0, actor |-> None]
  OBVIOUS
<1>11. q \in RequestState /\ request' = [request EXCEPT ![r] = q]
  BY <1>1, <1>10 DEF ApproveAdjustment, ThenAudit, Go, RequestState, Events
<1>12. ReadStillTrue(q)'
  BY <1>10 DEF ReadStillTrue, CommitmentHandlers, AdjustmentHandlers
<1>13. TellsTruth(q.at, q.id)'
  <2>1. adjustment'[d].approvedBy # None
    BY <1>3, <1>5 DEF AdjustmentRow
  <2>2. QED
    BY <1>10, <2>1 DEF TellsTruth, Happened, CommitmentEvents, Events
<1>14. QED
  BY <1>5, <1>6, <1>7, <1>8, <1>9, <1>11, <1>12, <1>13, RequestStep

LEMMA RejectAdjustmentStep ==
  ASSUME IInv, NEW r \in Requests, RejectAdjustment(r)
  PROVE  IInv'
<1>1. PICK d \in Adjustments : d = request[r].id
  BY DEF IInv, RequestInv, ReadStillTrue, AdjustmentHandlers, RejectAdjustment
<1>2. LedgerTypeOK' /\ LedgerInv'
  BY LedgerUnchanged DEF IInv, TypeOK, RejectAdjustment
<1>3. /\ adjustment' = [adjustment EXCEPT ![d].status = "REJECTED"]
      /\ adjustment \in [Adjustments -> AdjustmentRow]
      /\ audited' = audited
  BY <1>1 DEF RejectAdjustment, ThenAudit, IInv, TypeOK
<1>4. adjustment' \in [Adjustments -> AdjustmentRow]
  BY <1>3 DEF AdjustmentRow
<1>5. FourEyes'
  BY <1>3 DEF FourEyes, IInv, AdjustmentRow
<1>6. Aged
  BY <1>3 DEF Aged, AdjustmentRow, RejectAdjustment, ledgerVars
<1>7. PICK q : q = [at |-> "BUDGET_ADJUSTMENT_REJECTED", id |-> d, amount |-> 0, actor |-> None]
  OBVIOUS
<1>8. q \in RequestState /\ request' = [request EXCEPT ![r] = q]
  BY <1>1, <1>7 DEF RejectAdjustment, ThenAudit, Go, RequestState, Events
<1>9. ReadStillTrue(q)'
  BY <1>7 DEF ReadStillTrue, CommitmentHandlers, AdjustmentHandlers
<1>10. TellsTruth(q.at, q.id)'
  <2>1. adjustment'[d].status = "REJECTED"
    BY <1>3 DEF AdjustmentRow
  <2>2. QED
    BY <1>7, <2>1 DEF TellsTruth, Happened, CommitmentEvents, Events
<1>11. QED
  BY <1>2, <1>3, <1>4, <1>5, <1>6, <1>8, <1>9, <1>10, RequestStep

LEMMA ReadForReleaseStep ==
  ASSUME IInv, NEW r \in Requests, NEW c \in Commitments, ReadForRelease(r, c)
  PROVE  IInv'
<1>1. PICK q : q = [at |-> "releaseCommitment", id |-> c, amount |-> 0, actor |-> None]
  OBVIOUS
<1>2. /\ q \in RequestState /\ request' = [request EXCEPT ![r] = q]
      /\ UNCHANGED <<ledgerVars, adjustment, audited>>
  BY <1>1 DEF ReadForRelease, ReadThen, Go, RequestState, Handlers
<1>3. ReadStillTrue(q) /\ q.at \notin Events
  BY <1>1 DEF ReadForRelease, ReadStillTrue, CommitmentHandlers, AdjustmentHandlers, Events
<1>4. QED
  BY <1>2, <1>3, ReadStep

LEMMA ReadForExpenditureStep ==
  ASSUME IInv, NEW r \in Requests, NEW c \in Commitments, NEW m \in Amounts,
         ReadForExpenditure(r, c, m)
  PROVE  IInv'
<1>1. PICK q : q = [at |-> "createExpenditure", id |-> c, amount |-> m, actor |-> None]
  OBVIOUS
<1>2. /\ q \in RequestState /\ request' = [request EXCEPT ![r] = q]
      /\ UNCHANGED <<ledgerVars, adjustment, audited>>
  BY <1>1, LedgerAssumption DEF ReadForExpenditure, ReadThen, Go, RequestState, Handlers
<1>3. ReadStillTrue(q) /\ q.at \notin Events
  BY <1>1 DEF ReadForExpenditure, ReadStillTrue, CommitmentHandlers, AdjustmentHandlers, Events
<1>4. QED
  BY <1>2, <1>3, ReadStep

LEMMA ReadForApprovalStep ==
  ASSUME IInv, NEW r \in Requests, NEW d \in Adjustments, NEW u \in Actors,
         ReadForApproval(r, d, u)
  PROVE  IInv'
<1>1. PICK q : q = [at |-> "approveAdjustment", id |-> d, amount |-> 0, actor |-> u]
  OBVIOUS
<1>2. /\ q \in RequestState /\ request' = [request EXCEPT ![r] = q]
      /\ UNCHANGED <<ledgerVars, adjustment, audited>>
  BY <1>1 DEF ReadForApproval, ReadThen, Go, RequestState, Handlers
<1>3. ReadStillTrue(q) /\ q.at \notin Events
  BY <1>1 DEF ReadForApproval, ReadStillTrue, CommitmentHandlers, AdjustmentHandlers, Events
<1>4. QED
  BY <1>2, <1>3, ReadStep

LEMMA ReadForRejectionStep ==
  ASSUME IInv, NEW r \in Requests, NEW d \in Adjustments, ReadForRejection(r, d)
  PROVE  IInv'
<1>1. PICK q : q = [at |-> "rejectAdjustment", id |-> d, amount |-> 0, actor |-> None]
  OBVIOUS
<1>2. /\ q \in RequestState /\ request' = [request EXCEPT ![r] = q]
      /\ UNCHANGED <<ledgerVars, adjustment, audited>>
  BY <1>1 DEF ReadForRejection, ReadThen, Go, RequestState, Handlers
<1>3. ReadStillTrue(q) /\ q.at \notin Events
  BY <1>1 DEF ReadForRejection, ReadStillTrue, CommitmentHandlers, AdjustmentHandlers, Events
<1>4. QED
  BY <1>2, <1>3, ReadStep

LEMMA FailStep ==
  ASSUME IInv, NEW r \in Requests, Fail(r)
  PROVE  IInv'
<1>1. Idle \in RequestState /\ ReadStillTrue(Idle) /\ Idle.at \notin Events
  BY DEF Idle, RequestState, ReadStillTrue, CommitmentHandlers, AdjustmentHandlers, Events
<1>2. /\ request' = [request EXCEPT ![r] = Idle]
      /\ UNCHANGED <<ledgerVars, adjustment, audited>>
  BY DEF Fail, Go, Idle
<1>3. QED
  BY <1>1, <1>2, ReadStep

LEMMA AppendAuditStep ==
  ASSUME IInv, NEW r \in Requests, AppendAudit(r)
  PROVE  IInv'
<1>1. PICK e : e = <<request[r].at, request[r].id>>
  OBVIOUS
<1>2. /\ e[1] \in Events /\ TellsTruth(e[1], e[2])
      /\ e \in Events \X (Commitments \cup Adjustments)
  BY <1>1 DEF AppendAudit, IInv, RequestInv, TellsTruth, Events, CommitmentEvents
<1>3. /\ request' = [request EXCEPT ![r] = Idle]
      /\ audited' = audited \cup {e}
      /\ UNCHANGED <<ledgerVars, adjustment>>
  BY <1>1 DEF AppendAudit, Go, Idle
<1>4. Aged
  BY <1>3 DEF Aged, ledgerVars
<1>5. LedgerTypeOK' /\ LedgerInv'
  BY <1>3, LedgerUnchanged DEF IInv, TypeOK
<1>6. request' \in [Requests -> RequestState] /\ RequestInv'
  <2>1. Idle \in RequestState /\ ReadStillTrue(Idle)' /\ Idle.at \notin Events
    BY DEF Idle, RequestState, ReadStillTrue, CommitmentHandlers, AdjustmentHandlers, Events
  <2>2. QED
    BY <1>3, <1>4, <2>1, OneRequestMoves DEF IInv
<1>7. AuditInv'
  <2>1. ASSUME NEW f \in audited'
        PROVE  TellsTruth(f[1], f[2])'
    <3>1. f[1] \in Events /\ TellsTruth(f[1], f[2])
      BY <1>2, <1>3 DEF IInv, TypeOK, AuditInv
    <3>2. QED
      BY <1>4, <3>1, AgedTruth
  <2>2. QED
    BY <2>1 DEF AuditInv
<1>8. TypeOK' /\ FourEyes'
  BY <1>2, <1>3, <1>5, <1>6 DEF IInv, TypeOK, FourEyes
<1>9. QED
  BY <1>5, <1>6, <1>7, <1>8 DEF IInv

\* Every step of every request keeps the invariant.
LEMMA NextInv == IInv /\ [Next]_vars => IInv'
<1> SUFFICES ASSUME IInv, [Next]_vars PROVE IInv'
  OBVIOUS
<1>1. CASE UNCHANGED vars
  <2>1. LedgerTypeOK' /\ LedgerInv'
    BY <1>1, LedgerUnchanged DEF IInv, TypeOK, vars
  <2>2. QED
    BY <1>1, <2>1
    DEF vars, ledgerVars, IInv, TypeOK, RequestInv, AuditInv, ReadStillTrue, TellsTruth,
        Happened, FourEyes
<1>2. CASE Next
  <2>1. PICK r \in Requests :
          \/ \E c \in Commitments :
               \/ \E m \in Amounts : CreateCommitment(r, c, m) \/ ReadForExpenditure(r, c, m)
               \/ ReadForRelease(r, c)
          \/ \E d \in Adjustments :
               \/ \E type \in {"INCREASE", "DECREASE"}, m \in Amounts, u \in Actors :
                    CreateAdjustment(r, d, type, m, u)
               \/ \E u \in Actors : ReadForApproval(r, d, u)
               \/ ReadForRejection(r, d)
          \/ ReleaseCommitment(r)
          \/ CreateExpenditure(r)
          \/ ApproveAdjustment(r)
          \/ RejectAdjustment(r)
          \/ AppendAudit(r)
          \/ Fail(r)
    BY <1>2 DEF Next
  <2>2. QED
    BY <2>1, CreateCommitmentStep, ReadForExpenditureStep, ReadForReleaseStep,
       CreateAdjustmentStep, ReadForApprovalStep, ReadForRejectionStep, ReleaseCommitmentStep,
       CreateExpenditureStep, ApproveAdjustmentStep, RejectAdjustmentStep, AppendAuditStep,
       FailStep
<1>3. QED
  BY <1>1, <1>2

LEMMA Inductive == Spec => []IInv
BY InitInv, NextInv, PTL DEF Spec

\* Every column and every request stays in its type.
THEOREM TypeCorrect == Spec => []TypeOK
BY Inductive, PTL DEF IInv

\* No interleaving of handlers, failures and retries takes what an allocation
\* row says is committed and spent beyond what it says is authorized.
THEOREM NeverBeyondAuthorization == Spec => []WithinAuthorization
BY Inductive, PTL DEF IInv, LedgerInv

\* spentAmount is the sum of the expenditures recorded, always.
THEOREM SpendingIsExact == Spec => []SpentIsPaid
BY Inductive, PTL DEF IInv, LedgerInv

\* committedAmount never exceeds what the ACTIVE commitments ask for.
THEOREM DriftIsOneSided == Spec => []CommittedAtMostEarmarked
BY Inductive, PTL DEF IInv, LedgerInv

\* A CONSUMED commitment has its expenditure, within its amount.
THEOREM ExpendituresSettle == Spec => []ExpenditureSettles
BY Inductive, PTL DEF IInv, LedgerInv

\* Nobody approves their own adjustment, though the check is made on a read
\* that is stale when the approval is written.
THEOREM SeparationOfDuties == Spec => []FourEyes
BY Inductive, PTL DEF IInv

\* An audit event only tells of what happened.
THEOREM AuditIsTruthful == Spec => []AuditedHappened
<1>1. IInv => AuditedHappened
  BY DEF IInv, AuditInv, TellsTruth, AuditedHappened
<1>2. QED
  BY <1>1, Inductive, PTL
-----------------------------------------------------------------------------
(* What Allocations promises when no two requests are between their read   *)
(* and their write of the same row: the running balances are exact, and    *)
(* the service implements CommitmentControl.                               *)


\* The status a handler read is still the row's status.
ReadHolds(q) ==
  /\ q.at \in CommitmentHandlers => commitment[q.id].status = "ACTIVE"
  /\ q.at = "createExpenditure" => q.amount \in Amounts
  /\ q.at \in AdjustmentHandlers => adjustment[q.id].status = "PENDING"

ReadsHold == \A r \in Requests : ReadHolds(request[r])

TypedAdjustments ==
  \A d \in Adjustments :
    adjustment[d].status # "NONE" => adjustment[d].type \in {"INCREASE", "DECREASE"}

\* The inductive invariant of ExclusiveSpec.
XInv ==
  /\ IInv
  /\ Exclusive
  /\ ReadsHold
  /\ TypedAdjustments
  /\ CommittedIsEarmarked
  /\ ReleasedIsUnspent
  /\ CeilingIsAdjusted

\* What is left to show of XInv after a step that keeps IInv and Exclusive.
Exact == TypedAdjustments /\ CommittedIsEarmarked /\ ReleasedIsUnspent /\ CeilingIsAdjusted

LEMMA ApprovedType ==
  ASSUME TypeOK, NEW a \in Allocations, NEW type
  PROVE  /\ ApprovedOn(a, type) \in [Adjustments -> Nat]
         /\ Total(ApprovedOn(a, type), Adjustments) \in Nat
<1>1. ApprovedOn(a, type) \in [Adjustments -> Nat]
  BY DEF TypeOK, ApprovedOn, AdjustmentRow
<1>2. QED
  BY <1>1, TotalType, AllocationsAssumption

\* Approvals move by what the one adjustment a step changes contributes.
LEMMA ApprovedPost ==
  ASSUME TypeOK, TypeOK', NEW d \in Adjustments,
         \A b \in Adjustments \ {d} : adjustment'[b] = adjustment[b],
         NEW a \in Allocations, NEW type
  PROVE  Total(ApprovedOn(a, type)', Adjustments)
           = Total(ApprovedOn(a, type), Adjustments)
               - ApprovedOn(a, type)[d] + ApprovedOn(a, type)'[d]
<1>1. ApprovedOn(a, type) \in [Adjustments -> Nat]
  BY ApprovedType
<1>2. ApprovedOn(a, type)' \in [Adjustments -> Nat]
  BY DEF TypeOK, ApprovedOn, AdjustmentRow
<1>3. \A b \in Adjustments \ {d} : ApprovedOn(a, type)'[b] = ApprovedOn(a, type)[b]
  BY DEF ApprovedOn
<1>4. QED
  BY <1>1, <1>2, <1>3, TotalPost, AllocationsAssumption

\* What the abstract ledger finds in use is what the running balances say.
LEMMA InUseIsBalance ==
  ASSUME IInv, CommittedIsEarmarked, NEW a \in Allocations
  PROVE  Control!InUse(a) = committed[a] + spent[a]
<1>1. Control!EarmarkedBy(a) = EarmarkedOn(a)
  BY DEF Control!EarmarkedBy, Control!EarmarkOf, EarmarkedOn
<1>2. Control!PaidBy(a) = PaidOn(a)
  BY DEF Control!PaidBy, Control!PaymentOf, PaidOn, NoExpenditure
<1>3. \A f, S : Control!Total(f, S) = Total(f, S)
  BY DEF Control!Total, Control!Cents, Control!Cardinality, Total, Cents, Cardinality
<1>4. QED
  BY <1>1, <1>2, <1>3
  DEF Control!InUse, IInv, LedgerInv, CommittedIsEarmarked, SpentIsPaid, Earmarked, Paid

LEMMA XInit == Init => XInv /\ Control!Init
<1> SUFFICES ASSUME Init PROVE XInv /\ Control!Init
  OBVIOUS
<1> USE DEF Init, LedgerInit
<1>1. IInv
  BY InitInv
<1>2. Exclusive /\ ReadsHold
  BY DEF Exclusive, ReadsHold, ReadHolds, Handlers, CommitmentHandlers, AdjustmentHandlers, Idle
<1>3. TypedAdjustments /\ ReleasedIsUnspent
  BY DEF TypedAdjustments, ReleasedIsUnspent, NoAdjustment, NoRow
<1>4. CommittedIsEarmarked
  <2>1. ASSUME NEW a \in Allocations
        PROVE  Earmarked(a) = 0
    <3>1. EarmarkedOn(a) \in [Commitments -> Nat]
      BY <1>1, TotalsOfRows DEF IInv, TypeOK
    <3>2. \A c \in Commitments : EarmarkedOn(a)[c] = 0
      BY DEF EarmarkedOn, NoRow
    <3>3. QED
      BY <3>1, <3>2, TotalZero DEF Earmarked
  <2>2. QED
    BY <2>1 DEF CommittedIsEarmarked
<1>5. CeilingIsAdjusted
  <2>1. ASSUME NEW a \in Allocations, NEW type
        PROVE  Total(ApprovedOn(a, type), Adjustments) = 0
    <3>1. ApprovedOn(a, type) \in [Adjustments -> Nat]
      BY <1>1, ApprovedType DEF IInv
    <3>2. \A d \in Adjustments : ApprovedOn(a, type)[d] = 0
      BY DEF ApprovedOn, NoAdjustment
    <3>3. QED
      BY <3>1, <3>2, TotalZero
  <2>2. QED
    BY <2>1, LedgerAssumption DEF CeilingIsAdjusted
<1>6. Control!Init
  BY DEF Control!Init, NoRow, NoExpenditure
<1>7. QED
  BY <1>1, <1>2, <1>3, <1>4, <1>5, <1>6 DEF XInv

\* A step that leaves the ledger and the adjustments alone is a stutter of the
\* abstract ledger.
LEMMA QuietStep ==
  ASSUME XInv, UNCHANGED <<ledgerVars, adjustment>>
  PROVE  Exact' /\ [Control!Next]_(Control!vars)
<1> USE DEF ledgerVars
<1>1. \A a \in Allocations : Earmarked(a)' = Earmarked(a)
  BY DEF Earmarked, EarmarkedOn
<1>2. CommittedIsEarmarked'
  BY <1>1 DEF XInv, CommittedIsEarmarked
<1>3. CeilingIsAdjusted'
  BY DEF XInv, CeilingIsAdjusted, ApprovedOn
<1>4. TypedAdjustments' /\ ReleasedIsUnspent'
  BY DEF XInv, TypedAdjustments, ReleasedIsUnspent
<1>5. QED
  BY <1>2, <1>3, <1>4 DEF Exact, Control!vars

\* The three transactions on a commitment are the three abstract actions.
LEMMA CommitStep ==
  ASSUME XInv, NEW c \in Commitments, NEW m \in Amounts, CommitTx(c, m), UNCHANGED adjustment
  PROVE  Exact' /\ [Control!Next]_(Control!vars)
<1>1. m \in Nat /\ AllocationOf[c] \in Allocations /\ LedgerTypeOK
  BY LedgerAssumption DEF XInv, IInv, TypeOK
<1>2. \A a \in Allocations :
        /\ committed'[a] = committed[a] + Share(a, AllocationOf[c], m)
        /\ authorized'[a] = authorized[a]
        /\ Earmarked(a)' = Earmarked(a) + Share(a, AllocationOf[c], m)
  BY <1>1, CommitEffect
<1>3. CommittedIsEarmarked'
  BY <1>2 DEF XInv, CommittedIsEarmarked
<1>4. TypedAdjustments' /\ CeilingIsAdjusted'
  BY <1>2 DEF XInv, TypedAdjustments, CeilingIsAdjusted, ApprovedOn
<1>5. ReleasedIsUnspent'
  BY <1>1 DEF XInv, ReleasedIsUnspent, CommitTx, LedgerTypeOK
<1>6. Control!Earmark(c, m)
  <2>1. commitment[c].status = "NONE"
    BY DEF CommitTx, NoRow
  <2>2. authorized' = authorized
    BY <1>1, <1>2 DEF CommitTx, SetBalance, LedgerTypeOK
  <2>3. Control!InUse(AllocationOf[c]) + m <= authorized[AllocationOf[c]]
    BY <1>1, InUseIsBalance DEF XInv, CommitTx, AvailableOf, LedgerTypeOK
  <2>4. QED
    BY <2>1, <2>2, <2>3 DEF Control!Earmark, CommitTx
<1>7. QED
  BY <1>3, <1>4, <1>5, <1>6 DEF Exact, Control!Next

LEMMA ReleaseStep ==
  ASSUME XInv, NEW c \in Commitments, commitment[c].status = "ACTIVE", ReleaseTx(c),
         UNCHANGED adjustment
  PROVE  Exact' /\ [Control!Next]_(Control!vars)
<1>1. AllocationOf[c] \in Allocations /\ LedgerTypeOK
  BY LedgerAssumption DEF XInv, IInv, TypeOK
<1>2. \A a \in Allocations :
        /\ committed'[a] = committed[a] - Share(a, AllocationOf[c], commitment[c].amount)
        /\ authorized'[a] = authorized[a]
        /\ Earmarked(a)' = Earmarked(a) - EarmarkedOn(a)[c]
  BY <1>1, ReleaseEffect
<1>3. CommittedIsEarmarked'
  BY <1>2 DEF XInv, CommittedIsEarmarked, EarmarkedOn, Share
<1>4. TypedAdjustments' /\ CeilingIsAdjusted'
  BY <1>2 DEF XInv, TypedAdjustments, CeilingIsAdjusted, ApprovedOn
<1>5. ReleasedIsUnspent'
  <2>1. expenditure[c] = NoExpenditure
    BY DEF XInv, IInv, LedgerInv, ExpenditureSettles
  <2>2. QED
    BY <1>1, <2>1 DEF XInv, ReleasedIsUnspent, ReleaseTx, LedgerTypeOK
<1>6. Control!Free(c)
  <2>1. authorized' = authorized
    BY <1>1 DEF ReleaseTx, SetBalance, LedgerTypeOK
  <2>2. QED
    BY <2>1 DEF Control!Free, ReleaseTx
<1>7. QED
  BY <1>3, <1>4, <1>5, <1>6 DEF Exact, Control!Next

LEMMA SpendStep ==
  ASSUME XInv, NEW c \in Commitments, NEW m \in Amounts, commitment[c].status = "ACTIVE",
         m <= commitment[c].amount, SpendTx(c, m), UNCHANGED adjustment
  PROVE  Exact' /\ [Control!Next]_(Control!vars)
<1>1. m \in Nat /\ AllocationOf[c] \in Allocations /\ LedgerTypeOK
  BY LedgerAssumption DEF XInv, IInv, TypeOK
<1>2. \A a \in Allocations :
        /\ committed'[a] = committed[a] - Share(a, AllocationOf[c], commitment[c].amount)
        /\ authorized'[a] = authorized[a]
        /\ Earmarked(a)' = Earmarked(a) - EarmarkedOn(a)[c]
  BY <1>1, SpendEffect
<1>3. CommittedIsEarmarked'
  BY <1>2 DEF XInv, CommittedIsEarmarked, EarmarkedOn, Share
<1>4. TypedAdjustments' /\ CeilingIsAdjusted'
  BY <1>2 DEF XInv, TypedAdjustments, CeilingIsAdjusted, ApprovedOn
<1>5. ReleasedIsUnspent'
  BY <1>1 DEF XInv, ReleasedIsUnspent, SpendTx, LedgerTypeOK, CommitmentRow
<1>6. Control!Spend(c, m)
  <2>1. authorized' = authorized
    BY <1>1 DEF SpendTx, SetBalance, LedgerTypeOK
  <2>2. QED
    BY <2>1 DEF Control!Spend, SpendTx
<1>7. QED
  BY <1>3, <1>4, <1>5, <1>6 DEF Exact, Control!Next

\* An approved adjustment moves the ceiling, to no less than what is in use.
LEMMA ApproveStep ==
  ASSUME XInv, TypeOK', NEW r \in Requests, ApproveAdjustment(r)
  PROVE  Exact' /\ [Control!Next]_(Control!vars)
<1>1. PICK d \in Adjustments : d = request[r].id
  BY DEF XInv, IInv, RequestInv, ReadStillTrue, AdjustmentHandlers, ApproveAdjustment
<1>2. adjustment[d].status = "PENDING" /\ adjustment[d].type \in {"INCREASE", "DECREASE"}
  BY <1>1 DEF XInv, ReadsHold, ReadHolds, AdjustmentHandlers, TypedAdjustments, ApproveAdjustment
<1> DEFINE a == AdjustmentOf[d]
           m == adjustment[d].amount
           n == IF adjustment[d].type = "INCREASE" THEN authorized[a] + m ELSE authorized[a] - m
<1>3. a \in Allocations /\ m \in Nat /\ LedgerTypeOK /\ TypeOK
  BY AllocationsAssumption DEF XInv, IInv, TypeOK, AdjustmentRow
<1>4. n \in Int
  BY <1>3 DEF LedgerTypeOK
<1>5. SetBalance(a, n, committed[a], spent[a])
  BY <1>1 DEF ApproveAdjustment
<1>6. /\ adjustment' = [adjustment EXCEPT ![d].status = "APPROVED",
                                          ![d].approvedBy = request[r].actor]
      /\ commitment' = commitment /\ expenditure' = expenditure
  BY <1>1 DEF ApproveAdjustment
<1>7. /\ authorized' = [authorized EXCEPT ![a] = n]
      /\ committed' = committed /\ spent' = spent
      /\ committed[a] + spent[a] <= n
  BY <1>3, <1>5 DEF SetBalance, Balanced, LedgerTypeOK
<1>8. adjustment'[d].status = "APPROVED" /\ adjustment'[d].type = adjustment[d].type
        /\ adjustment'[d].amount = m
  BY <1>3, <1>6 DEF TypeOK, AdjustmentRow
<1>9. \A e \in Adjustments \ {d} : adjustment'[e] = adjustment[e]
  BY <1>3, <1>6 DEF TypeOK
<1>10. CommittedIsEarmarked'
  <2>1. \A b \in Allocations : Earmarked(b)' = Earmarked(b)
    BY <1>6 DEF Earmarked, EarmarkedOn
  <2>2. QED
    BY <1>7, <2>1 DEF XInv, CommittedIsEarmarked
<1>11. TypedAdjustments' /\ ReleasedIsUnspent'
  BY <1>2, <1>6, <1>8, <1>9 DEF XInv, TypedAdjustments, ReleasedIsUnspent
<1>12. CeilingIsAdjusted'
  <2>1. ASSUME NEW b \in Allocations, NEW type \in {"INCREASE", "DECREASE"}
        PROVE  /\ Total(ApprovedOn(b, type), Adjustments) \in Nat
               /\ Total(ApprovedOn(b, type), Adjustments)'
                    = Total(ApprovedOn(b, type), Adjustments)
                        + (IF b = a /\ type = adjustment[d].type THEN m ELSE 0)
    <3>1. Total(ApprovedOn(b, type)', Adjustments)
            = Total(ApprovedOn(b, type), Adjustments)
                - ApprovedOn(b, type)[d] + ApprovedOn(b, type)'[d]
      BY <1>3, <1>9, ApprovedPost
    <3>2. Total(ApprovedOn(b, type), Adjustments) \in Nat
      BY <1>3, ApprovedType
    <3>3. ApprovedOn(b, type)[d] = 0
      BY <1>2 DEF ApprovedOn
    <3>4. ApprovedOn(b, type)'[d] = IF b = a /\ type = adjustment[d].type THEN m ELSE 0
      BY <1>8 DEF ApprovedOn
    <3>5. QED
      BY <1>3, <3>1, <3>2, <3>3, <3>4
  <2>2. ASSUME NEW b \in Allocations
        PROVE  authorized'[b] = LineAmount[b] + Total(ApprovedOn(b, "INCREASE"), Adjustments)'
                                  - Total(ApprovedOn(b, "DECREASE"), Adjustments)'
    <3>1. authorized[b] = LineAmount[b] + Total(ApprovedOn(b, "INCREASE"), Adjustments)
                            - Total(ApprovedOn(b, "DECREASE"), Adjustments)
      BY DEF XInv, CeilingIsAdjusted
    <3>2. authorized'[b] = IF b = a THEN n ELSE authorized[b]
      BY <1>3, <1>7 DEF LedgerTypeOK
    <3>3. LineAmount[b] \in Nat /\ authorized[b] \in Nat
      BY <1>3, LedgerAssumption DEF LedgerTypeOK
    <3>4. CASE adjustment[d].type = "INCREASE"
      BY <1>3, <2>1, <3>1, <3>2, <3>3, <3>4
    <3>5. CASE adjustment[d].type = "DECREASE"
      BY <1>3, <2>1, <3>1, <3>2, <3>3, <3>5
    <3>6. QED
      BY <1>2, <3>4, <3>5
  <2>3. QED
    BY <2>2 DEF CeilingIsAdjusted
<1>13. Control!MoveCeiling(a) \/ UNCHANGED Control!vars
  <2>1. Control!InUse(a) <= n /\ n \in Nat
    BY <1>3, <1>4, <1>7, InUseIsBalance DEF XInv, LedgerTypeOK
  <2>2. CASE n = authorized[a]
    BY <1>3, <1>6, <1>7, <2>2 DEF Control!vars, LedgerTypeOK
  <2>3. CASE n # authorized[a]
    BY <1>3, <1>6, <1>7, <2>1, <2>3 DEF Control!MoveCeiling, LedgerTypeOK
  <2>4. QED
    BY <2>2, <2>3
<1>14. QED
  BY <1>3, <1>10, <1>11, <1>12, <1>13 DEF Exact, Control!Next

\* A new or a rejected adjustment approves nothing.
LEMMA UnapprovedStep ==
  ASSUME XInv, NEW d \in Adjustments, UNCHANGED ledgerVars,
         adjustment[d].status # "APPROVED", adjustment'[d].status # "APPROVED",
         adjustment'[d].type \in {"INCREASE", "DECREASE"},
         \A e \in Adjustments \ {d} : adjustment'[e] = adjustment[e]
  PROVE  Exact' /\ [Control!Next]_(Control!vars)
<1> USE DEF ledgerVars
<1>1. \A a \in Allocations : Earmarked(a)' = Earmarked(a)
  BY DEF Earmarked, EarmarkedOn
<1>2. CommittedIsEarmarked'
  BY <1>1 DEF XInv, CommittedIsEarmarked
<1>3. ASSUME NEW a \in Allocations, NEW type
      PROVE  ApprovedOn(a, type)' = ApprovedOn(a, type)
  BY DEF ApprovedOn
<1>4. CeilingIsAdjusted'
  BY <1>3 DEF XInv, CeilingIsAdjusted
<1>5. TypedAdjustments' /\ ReleasedIsUnspent'
  BY DEF XInv, TypedAdjustments, ReleasedIsUnspent
<1>6. QED
  BY <1>2, <1>4, <1>5 DEF Exact, Control!vars

-----------------------------------------------------------------------------
\* Only the request that read a row moves it, so the others' reads still hold.
LEMMA ReadsKept ==
  ASSUME XInv, NEW r \in Requests, NEW q, request' = [request EXCEPT ![r] = q],
         ReadHolds(q)',
         \A c \in Commitments :
           \/ commitment[c].status = "ACTIVE" => commitment'[c].status = "ACTIVE"
           \/ request[r].at \in CommitmentHandlers /\ request[r].id = c,
         \A d \in Adjustments :
           \/ adjustment[d].status = "PENDING" => adjustment'[d].status = "PENDING"
           \/ request[r].at \in AdjustmentHandlers /\ request[r].id = d
  PROVE  ReadsHold'
<1>1. SUFFICES ASSUME NEW s \in Requests PROVE ReadHolds(request[s])'
  BY DEF ReadsHold
<1>2. PICK p : p = request'[s]
  OBVIOUS
<1>3. ReadHolds(p)'
  <2>1. CASE s = r
    BY <1>2, <2>1 DEF XInv, IInv, TypeOK
  <2>2. CASE s # r
    <3>1. p = request[s] /\ ReadHolds(p)
      BY <1>2, <2>2 DEF XInv, IInv, TypeOK, ReadsHold
    <3>2. /\ p.at \in CommitmentHandlers => p.id \in Commitments
          /\ p.at \in AdjustmentHandlers => p.id \in Adjustments
      BY <3>1 DEF XInv, IInv, RequestInv, ReadStillTrue
    <3>3. p.at \in Handlers /\ request[r].at \in Handlers => p.id # request[r].id
      BY <2>2, <3>1 DEF XInv, Exclusive
    <3>4. QED
      BY <3>1, <3>2, <3>3 DEF ReadHolds, Handlers, CommitmentHandlers, AdjustmentHandlers
  <2>3. QED
    BY <2>1, <2>2
<1>4. QED
  BY <1>2, <1>3 DEF ReadHolds

\* A step after which the request holds no read.
LEMMA HoldsNothing ==
  ASSUME NEW q, q.at \notin Handlers
  PROVE  ReadHolds(q) /\ ReadHolds(q)'
BY DEF ReadHolds, Handlers, CommitmentHandlers, AdjustmentHandlers

\* What each action has to show.
Good == Exact' /\ ReadsHold' /\ [Control!Next]_(Control!vars)

\* A handler's read, the append of its event, and a failure.
LEMMA QuietGood ==
  ASSUME XInv, NEW r \in Requests, NEW q, request' = [request EXCEPT ![r] = q],
         ReadHolds(q), UNCHANGED <<ledgerVars, adjustment>>
  PROVE  Good
<1>1. ReadHolds(q)'
  BY DEF ReadHolds, ledgerVars
<1>2. ReadsHold'
  BY <1>1, ReadsKept DEF ledgerVars
<1>3. QED
  BY <1>2, QuietStep DEF Good

LEMMA CreateCommitmentGood ==
  ASSUME XInv, NEW r \in Requests, NEW c \in Commitments, NEW m \in Amounts,
         CreateCommitment(r, c, m)
  PROVE  Good
<1>1. CommitTx(c, m) /\ UNCHANGED adjustment
  BY DEF CreateCommitment
<1>2. PICK q : q = [at |-> "COMMITMENT_CREATED", id |-> c, amount |-> 0, actor |-> None]
  OBVIOUS
<1>3. request' = [request EXCEPT ![r] = q] /\ ReadHolds(q)'
  BY <1>2, HoldsNothing DEF CreateCommitment, ThenAudit, Go, Handlers
<1>4. \A b \in Commitments : commitment[b].status = "ACTIVE" => commitment'[b].status = "ACTIVE"
  BY <1>1 DEF CommitTx, NoRow
<1>5. ReadsHold'
  BY <1>1, <1>3, <1>4, ReadsKept
<1>6. QED
  BY <1>1, <1>5, CommitStep DEF Good

LEMMA ReleaseCommitmentGood ==
  ASSUME XInv, NEW r \in Requests, ReleaseCommitment(r)
  PROVE  Good
<1>1. PICK c \in Commitments : c = request[r].id
  BY DEF XInv, IInv, RequestInv, ReadStillTrue, CommitmentHandlers, ReleaseCommitment
<1>2. ReleaseTx(c) /\ UNCHANGED adjustment /\ commitment[c].status = "ACTIVE"
  BY <1>1 DEF ReleaseCommitment, XInv, ReadsHold, ReadHolds, CommitmentHandlers
<1>3. PICK q : q = [at |-> "COMMITMENT_RELEASED", id |-> c, amount |-> 0, actor |-> None]
  OBVIOUS
<1>4. request' = [request EXCEPT ![r] = q] /\ ReadHolds(q)'
  BY <1>1, <1>3, HoldsNothing DEF ReleaseCommitment, ThenAudit, Go, Handlers
<1>5. \A b \in Commitments \ {c} : commitment'[b] = commitment[b]
  BY <1>2 DEF ReleaseTx
<1>6. ReadsHold'
  BY <1>1, <1>2, <1>4, <1>5, ReadsKept DEF ReleaseCommitment, CommitmentHandlers
<1>7. QED
  BY <1>2, <1>6, ReleaseStep DEF Good

LEMMA CreateExpenditureGood ==
  ASSUME XInv, NEW r \in Requests, CreateExpenditure(r)
  PROVE  Good
<1>1. PICK c \in Commitments : c = request[r].id
  BY DEF XInv, IInv, RequestInv, ReadStillTrue, CommitmentHandlers, CreateExpenditure
<1>2. PICK m \in Amounts : m = request[r].amount /\ m <= commitment[c].amount
  BY <1>1 DEF XInv, IInv, RequestInv, ReadStillTrue, ReadsHold, ReadHolds, CreateExpenditure
<1>3. SpendTx(c, m) /\ UNCHANGED adjustment /\ commitment[c].status = "ACTIVE"
  BY <1>1, <1>2 DEF CreateExpenditure, XInv, ReadsHold, ReadHolds, CommitmentHandlers
<1>4. PICK q : q = [at |-> "EXPENDITURE_RECORDED", id |-> c, amount |-> 0, actor |-> None]
  OBVIOUS
<1>5. request' = [request EXCEPT ![r] = q] /\ ReadHolds(q)'
  BY <1>1, <1>4, HoldsNothing DEF CreateExpenditure, ThenAudit, Go, Handlers
<1>6. \A b \in Commitments \ {c} : commitment'[b] = commitment[b]
  BY <1>3 DEF SpendTx
<1>7. ReadsHold'
  BY <1>1, <1>3, <1>5, <1>6, ReadsKept DEF CreateExpenditure, CommitmentHandlers
<1>8. QED
  BY <1>2, <1>3, <1>7, SpendStep DEF Good

LEMMA CreateAdjustmentGood ==
  ASSUME XInv, NEW r \in Requests, NEW d \in Adjustments, NEW type \in {"INCREASE", "DECREASE"},
         NEW m \in Amounts, NEW u \in Actors, CreateAdjustment(r, d, type, m, u)
  PROVE  Good
<1>1. /\ adjustment[d].status = "NONE"
      /\ adjustment'[d].status = "PENDING" /\ adjustment'[d].type = type
      /\ \A e \in Adjustments \ {d} : adjustment'[e] = adjustment[e]
      /\ UNCHANGED ledgerVars
  BY DEF CreateAdjustment, NoAdjustment, XInv, IInv, TypeOK
<1>2. PICK q : q = [at |-> "BUDGET_ADJUSTMENT_REQUESTED", id |-> d, amount |-> 0, actor |-> None]
  OBVIOUS
<1>3. request' = [request EXCEPT ![r] = q] /\ ReadHolds(q)'
  BY <1>2, HoldsNothing DEF CreateAdjustment, ThenAudit, Go, Handlers
<1>4. ReadsHold'
  BY <1>1, <1>3, ReadsKept DEF ledgerVars
<1>5. QED
  BY <1>1, <1>4, UnapprovedStep DEF Good

LEMMA ApproveAdjustmentGood ==
  ASSUME XInv, TypeOK', NEW r \in Requests, ApproveAdjustment(r)
  PROVE  Good
<1>1. PICK d \in Adjustments : d = request[r].id
  BY DEF XInv, IInv, RequestInv, ReadStillTrue, AdjustmentHandlers, ApproveAdjustment
<1>2. PICK q : q = [at |-> "BUDGET_ADJUSTMENT_APPROVED", id |-> d, amount |-> 0, actor |-> None]
  OBVIOUS
<1>3. request' = [request EXCEPT ![r] = q] /\ ReadHolds(q)'
  BY <1>1, <1>2, HoldsNothing DEF ApproveAdjustment, ThenAudit, Go, Handlers
<1>4. \A e \in Adjustments \ {d} : adjustment'[e] = adjustment[e]
  BY <1>1 DEF ApproveAdjustment, XInv, IInv, TypeOK
<1>5. commitment' = commitment
  BY DEF ApproveAdjustment
<1>6. ReadsHold'
  BY <1>1, <1>3, <1>4, <1>5, ReadsKept DEF ApproveAdjustment, AdjustmentHandlers
<1>7. QED
  BY <1>6, ApproveStep DEF Good

LEMMA RejectAdjustmentGood ==
  ASSUME XInv, NEW r \in Requests, RejectAdjustment(r)
  PROVE  Good
<1>1. PICK d \in Adjustments : d = request[r].id
  BY DEF XInv, IInv, RequestInv, ReadStillTrue, AdjustmentHandlers, RejectAdjustment
<1>2. adjustment[d].status = "PENDING" /\ adjustment[d].type \in {"INCREASE", "DECREASE"}
  BY <1>1 DEF XInv, ReadsHold, ReadHolds, AdjustmentHandlers, TypedAdjustments, RejectAdjustment
<1>3. /\ adjustment'[d].status = "REJECTED" /\ adjustment'[d].type = adjustment[d].type
      /\ \A e \in Adjustments \ {d} : adjustment'[e] = adjustment[e]
      /\ UNCHANGED ledgerVars
  BY <1>1 DEF RejectAdjustment, XInv, IInv, TypeOK, AdjustmentRow
<1>4. PICK q : q = [at |-> "BUDGET_ADJUSTMENT_REJECTED", id |-> d, amount |-> 0, actor |-> None]
  OBVIOUS
<1>5. request' = [request EXCEPT ![r] = q] /\ ReadHolds(q)'
  BY <1>1, <1>4, HoldsNothing DEF RejectAdjustment, ThenAudit, Go, Handlers
<1>6. ReadsHold'
  BY <1>1, <1>3, <1>5, ReadsKept DEF RejectAdjustment, AdjustmentHandlers, ledgerVars
<1>7. QED
  BY <1>2, <1>3, <1>6, UnapprovedStep DEF Good

\* The four reads, the append and the failure.
LEMMA ReadsGood ==
  ASSUME XInv, NEW r \in Requests,
         \/ \E c \in Commitments :
              \/ \E m \in Amounts : ReadForExpenditure(r, c, m)
              \/ ReadForRelease(r, c)
         \/ \E d \in Adjustments :
              (\E u \in Actors : ReadForApproval(r, d, u)) \/ ReadForRejection(r, d)
         \/ AppendAudit(r)
         \/ Fail(r)
  PROVE  Good
<1>1. ASSUME NEW c \in Commitments, NEW m \in Amounts, ReadForExpenditure(r, c, m)
      PROVE  Good
  <2>1. PICK q : q = [at |-> "createExpenditure", id |-> c, amount |-> m, actor |-> None]
    OBVIOUS
  <2>2. /\ request' = [request EXCEPT ![r] = q] /\ ReadHolds(q)
        /\ UNCHANGED <<ledgerVars, adjustment>>
    BY <1>1, <2>1
    DEF ReadForExpenditure, ReadThen, Go, ReadHolds, AdjustmentHandlers
  <2>3. QED
    BY <2>2, QuietGood
<1>2. ASSUME NEW c \in Commitments, ReadForRelease(r, c)
      PROVE  Good
  <2>1. PICK q : q = [at |-> "releaseCommitment", id |-> c, amount |-> 0, actor |-> None]
    OBVIOUS
  <2>2. /\ request' = [request EXCEPT ![r] = q] /\ ReadHolds(q)
        /\ UNCHANGED <<ledgerVars, adjustment>>
    BY <1>2, <2>1 DEF ReadForRelease, ReadThen, Go, ReadHolds, AdjustmentHandlers
  <2>3. QED
    BY <2>2, QuietGood
<1>3. ASSUME NEW d \in Adjustments, NEW u \in Actors, ReadForApproval(r, d, u)
      PROVE  Good
  <2>1. PICK q : q = [at |-> "approveAdjustment", id |-> d, amount |-> 0, actor |-> u]
    OBVIOUS
  <2>2. /\ request' = [request EXCEPT ![r] = q] /\ ReadHolds(q)
        /\ UNCHANGED <<ledgerVars, adjustment>>
    BY <1>3, <2>1 DEF ReadForApproval, ReadThen, Go, ReadHolds, CommitmentHandlers
  <2>3. QED
    BY <2>2, QuietGood
<1>4. ASSUME NEW d \in Adjustments, ReadForRejection(r, d)
      PROVE  Good
  <2>1. PICK q : q = [at |-> "rejectAdjustment", id |-> d, amount |-> 0, actor |-> None]
    OBVIOUS
  <2>2. /\ request' = [request EXCEPT ![r] = q] /\ ReadHolds(q)
        /\ UNCHANGED <<ledgerVars, adjustment>>
    BY <1>4, <2>1 DEF ReadForRejection, ReadThen, Go, ReadHolds, CommitmentHandlers
  <2>3. QED
    BY <2>2, QuietGood
<1>5. CASE AppendAudit(r) \/ Fail(r)
  <2>1. PICK q : q = Idle
    OBVIOUS
  <2>2. /\ request' = [request EXCEPT ![r] = q] /\ ReadHolds(q)
        /\ UNCHANGED <<ledgerVars, adjustment>>
    BY <1>5, <2>1, HoldsNothing DEF AppendAudit, Fail, Go, Idle, Handlers
  <2>3. QED
    BY <2>2, QuietGood
<1>6. QED
  BY <1>1, <1>2, <1>3, <1>4, <1>5

LEMMA XNext ==
  ASSUME XInv, [ExclusiveNext]_vars
  PROVE  XInv' /\ [Control!Next]_(Control!vars)
<1>1. IInv'
  BY NextInv DEF XInv, ExclusiveNext
<1>2. CASE UNCHANGED vars
  <2>1. Exact' /\ [Control!Next]_(Control!vars)
    BY <1>2, QuietStep DEF vars
  <2>2. Exclusive' /\ ReadsHold'
    BY <1>2 DEF vars, ledgerVars, XInv, Exclusive, ReadsHold, ReadHolds
  <2>3. QED
    BY <1>1, <2>1, <2>2 DEF XInv, Exact
<1>3. CASE ExclusiveNext
  <2>1. Next /\ Exclusive' /\ TypeOK'
    BY <1>1, <1>3 DEF ExclusiveNext, IInv
  <2>2. PICK r \in Requests :
          \/ \E c \in Commitments :
               \/ \E m \in Amounts : CreateCommitment(r, c, m) \/ ReadForExpenditure(r, c, m)
               \/ ReadForRelease(r, c)
          \/ \E d \in Adjustments :
               \/ \E type \in {"INCREASE", "DECREASE"}, m \in Amounts, u \in Actors :
                    CreateAdjustment(r, d, type, m, u)
               \/ \E u \in Actors : ReadForApproval(r, d, u)
               \/ ReadForRejection(r, d)
          \/ ReleaseCommitment(r)
          \/ CreateExpenditure(r)
          \/ ApproveAdjustment(r)
          \/ RejectAdjustment(r)
          \/ AppendAudit(r)
          \/ Fail(r)
    BY <2>1 DEF Next
  <2>3. Good
    BY <2>1, <2>2, CreateCommitmentGood, ReleaseCommitmentGood, CreateExpenditureGood,
       CreateAdjustmentGood, ApproveAdjustmentGood, RejectAdjustmentGood, ReadsGood
  <2>4. QED
    BY <1>1, <2>1, <2>3 DEF XInv, Exact, Good
<1>4. QED
  BY <1>2, <1>3

LEMMA XInductive == ExclusiveSpec => []XInv
<1>1. XInv /\ [ExclusiveNext]_vars => XInv'
  BY XNext
<1>2. QED
  BY <1>1, XInit, PTL DEF ExclusiveSpec

\* Without races on one row, committedAmount is exactly what the ACTIVE
\* commitments earmark, as the schema says.
THEOREM CommitmentsAreExact == ExclusiveSpec => []CommittedIsEarmarked
BY XInductive, PTL DEF XInv

\* Without races on one row, the ceiling is the line and its approved adjustments.
THEOREM CeilingIsExact == ExclusiveSpec => []CeilingIsAdjusted
BY XInductive, PTL DEF XInv

\* Without races on one row, money that was released was not spent as well.
THEOREM OneBucket == ExclusiveSpec => []ReleasedIsUnspent
BY XInductive, PTL DEF XInv

\* Without races on one row, the service with its running balances implements
\* commitment control, which recomputes them.
THEOREM Implementation == ExclusiveSpec => ImplementsControl
<1>1. XInv /\ [ExclusiveNext]_vars => [Control!Next]_(Control!vars)
  BY XNext
<1>2. QED
  BY <1>1, XInit, XInductive, PTL DEF ExclusiveSpec, ImplementsControl, Control!Spec
=============================================================================
