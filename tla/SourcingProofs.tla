--------------------------- MODULE SourcingProofs ---------------------------
(***************************************************************************)
(* Theorems about what the organization buys: purchases and their budget,  *)
(* tenders and their awards, and the alerts on split purchases, for every  *)
(* number of rows and of requests that run at the same time.               *)
(***************************************************************************)
EXTENDS Sourcing, LedgerProofs, SequenceTheorems

-----------------------------------------------------------------------------
(* Purchases and the budget office.  A write on a check that is out of date *)
(* takes an amount off the balance that no earmark stands for any more;    *)
(* lateWrites counts these, so the earmarks are always what the balance    *)
(* says and what late writes took off it.                                  *)

GivenBack(a) == Total(GivenBackAgain(a), Commitments)

DriftIsLate == \A a \in Allocations : Earmarked(a) = committed[a] + GivenBack(a)

\* Only a commitment that was written once can be written late, and no money
\* comes back to the status that a check asks for.
LateIsSettled ==
  \A c \in Commitments : lateWrites[c] > 0 => commitment[c].status \notin {"NONE", "ACTIVE"}

BooksAreKept ==
  /\ LedgerTypeOK
  /\ LedgerInv
  /\ lateWrites \in [Commitments -> Nat]
  /\ DriftIsLate
  /\ LateIsSettled

LEMMA GivenBackType ==
  ASSUME LedgerTypeOK, lateWrites \in [Commitments -> Nat], NEW a \in Allocations
  PROVE  GivenBackAgain(a) \in [Commitments -> Nat] /\ GivenBack(a) \in Nat
<1>1. \A c \in Commitments : lateWrites[c] \in Nat /\ commitment[c].amount \in Nat
  BY DEF LedgerTypeOK, CommitmentRow
<1>2. GivenBackAgain(a) \in [Commitments -> Nat]
  BY <1>1 DEF GivenBackAgain
<1>3. QED
  BY <1>2, TotalType, LedgerAssumption DEF GivenBack

\* What late writes gave back moves with the one commitment a step writes.
LEMMA GivenBackPost ==
  ASSUME LedgerTypeOK, LedgerTypeOK',
         lateWrites \in [Commitments -> Nat], lateWrites' \in [Commitments -> Nat],
         NEW c \in Commitments,
         \A d \in Commitments \ {c} : commitment'[d] = commitment[d] /\ lateWrites'[d] = lateWrites[d],
         NEW a \in Allocations
  PROVE  GivenBack(a)' = GivenBack(a) - GivenBackAgain(a)[c] + GivenBackAgain(a)'[c]
<1>1. GivenBackAgain(a) \in [Commitments -> Nat]
  BY GivenBackType
<1>2. GivenBackAgain(a)' \in [Commitments -> Nat]
  <2>1. \A d \in Commitments : lateWrites'[d] \in Nat /\ commitment'[d].amount \in Nat
    BY DEF LedgerTypeOK, CommitmentRow
  <2>2. QED
    BY <2>1 DEF GivenBackAgain
<1>3. \A d \in Commitments \ {c} : GivenBackAgain(a)'[d] = GivenBackAgain(a)[d]
  BY DEF GivenBackAgain
<1>4. QED
  BY <1>1, <1>2, <1>3, TotalPost, LedgerAssumption DEF GivenBack

LEMMA BooksUnchanged ==
  ASSUME BooksAreKept, UNCHANGED <<ledgerVars, lateWrites>>
  PROVE  BooksAreKept'
<1>1. LedgerTypeOK' /\ LedgerInv' /\ lateWrites' = lateWrites
  BY LedgerUnchanged DEF BooksAreKept
<1>2. commitment' = commitment /\ committed' = committed
  BY DEF ledgerVars
<1>3. \A a \in Allocations : Earmarked(a)' = Earmarked(a) /\ GivenBack(a)' = GivenBack(a)
  BY <1>1, <1>2 DEF Earmarked, EarmarkedOn, GivenBack, GivenBackAgain
<1>4. QED
  BY <1>1, <1>2, <1>3 DEF BooksAreKept, DriftIsLate, LateIsSettled

LEMMA CommitKeepsBooks ==
  ASSUME BooksAreKept, NEW c \in Commitments, NEW m \in Nat, CommitTx(c, m),
         lateWrites' = lateWrites
  PROVE  BooksAreKept'
<1> USE DEF BooksAreKept
<1>1. LedgerTypeOK' /\ LedgerInv'
  BY CommitKeepsLedger
<1>2. /\ commitment[c] = NoRow
      /\ commitment' = [commitment EXCEPT ![c] = [status |-> "ACTIVE", amount |-> m]]
      /\ commitment \in [Commitments -> CommitmentRow]
  BY DEF CommitTx, LedgerTypeOK
<1>3. lateWrites[c] = 0
  BY <1>2 DEF LateIsSettled, NoRow
<1>4. \A d \in Commitments \ {c} : commitment'[d] = commitment[d]
  BY <1>2
<1>5. ASSUME NEW a \in Allocations PROVE GivenBack(a)' = GivenBack(a)
  <2>1. GivenBack(a)' = GivenBack(a) - GivenBackAgain(a)[c] + GivenBackAgain(a)'[c]
    BY <1>1, <1>4, GivenBackPost
  <2>2. commitment[c].amount \in Nat /\ commitment'[c].amount \in Nat
    BY <1>1 DEF LedgerTypeOK, CommitmentRow
  <2>3. GivenBackAgain(a)[c] = 0 /\ GivenBackAgain(a)'[c] = 0
    BY <1>3, <2>2 DEF GivenBackAgain
  <2>4. QED
    BY <2>1, <2>3, GivenBackType
<1>6. DriftIsLate'
  <2>1. \A a \in Allocations :
          /\ committed'[a] = committed[a] + Share(a, AllocationOf[c], m)
          /\ Earmarked(a)' = Earmarked(a) + Share(a, AllocationOf[c], m)
    BY CommitEffect
  <2>2. \A a \in Allocations : committed[a] \in Nat /\ GivenBack(a) \in Nat /\ Share(a, AllocationOf[c], m) \in Nat
    BY GivenBackType DEF LedgerTypeOK, Share
  <2>3. QED
    BY <1>5, <2>1, <2>2 DEF DriftIsLate
<1>7. LateIsSettled'
  BY <1>2, <1>3 DEF LateIsSettled
<1>8. QED
  BY <1>1, <1>6, <1>7

\* A handler of the budget office writes commitment c: for the first time, or
\* late.  Either way it takes the amount off the balance; the earmark goes, or
\* has gone already.
LEMMA MoveKeepsBooks ==
  ASSUME BooksAreKept, NEW c \in Commitments, NEW late \in BOOLEAN,
         LedgerTypeOK', LedgerInv', commitment[c].status # "NONE",
         late <=> commitment[c].status # "ACTIVE",
         lateWrites' = IF late THEN [lateWrites EXCEPT ![c] = @ + 1] ELSE lateWrites,
         commitment'[c].amount = commitment[c].amount,
         commitment'[c].status \in {"RELEASED", "CONSUMED"},
         \A d \in Commitments \ {c} : commitment'[d] = commitment[d],
         \A a \in Allocations :
           /\ committed'[a] = committed[a] - Share(a, AllocationOf[c], commitment[c].amount)
           /\ Earmarked(a)' = Earmarked(a) - EarmarkedOn(a)[c]
  PROVE  BooksAreKept'
<1> USE DEF BooksAreKept
<1>1. lateWrites' \in [Commitments -> Nat] /\ \A d \in Commitments \ {c} : lateWrites'[d] = lateWrites[d]
  OBVIOUS
<1>2. commitment[c].amount \in Nat /\ lateWrites[c] \in Nat
  BY DEF LedgerTypeOK, CommitmentRow
<1> DEFINE m == commitment[c].amount
           n == lateWrites[c]
<1>3. DriftIsLate'
  <2> SUFFICES ASSUME NEW a \in Allocations
               PROVE  Earmarked(a)' = committed'[a] + GivenBack(a)'
    BY DEF DriftIsLate
  <2>1. GivenBack(a)' = GivenBack(a) - GivenBackAgain(a)[c] + GivenBackAgain(a)'[c]
    BY <1>1, GivenBackPost
  <2>2. /\ Earmarked(a) = committed[a] + GivenBack(a)
        /\ committed[a] \in Nat /\ GivenBack(a) \in Nat
    BY GivenBackType DEF DriftIsLate, LedgerTypeOK
  <2>3. /\ committed'[a] = committed[a] - Share(a, AllocationOf[c], m)
        /\ Earmarked(a)' = Earmarked(a) - EarmarkedOn(a)[c]
    OBVIOUS
  <2>4. CASE AllocationOf[c] # a
    <3>1. EarmarkedOn(a)[c] = 0 /\ Share(a, AllocationOf[c], m) = 0
      BY <2>4 DEF EarmarkedOn, Share
    <3>2. GivenBackAgain(a)[c] = 0 /\ GivenBackAgain(a)'[c] = 0
      BY <2>4 DEF GivenBackAgain
    <3>3. QED
      BY <2>1, <2>2, <2>3, <3>1, <3>2
  <2>5. CASE AllocationOf[c] = a
    <3>1. /\ GivenBackAgain(a)[c] = n * m
          /\ GivenBackAgain(a)'[c] = lateWrites'[c] * m
          /\ Share(a, AllocationOf[c], m) = m
      BY <2>5 DEF GivenBackAgain, Share
    <3>2. CASE late
      <4>1. EarmarkedOn(a)[c] = 0
        BY <3>2 DEF EarmarkedOn
      <4>2. lateWrites'[c] * m = n * m + m
        <5>1. lateWrites'[c] = n + 1
          BY <3>2
        <5>2. (n + 1) * m = n * m + m
          BY <1>2
        <5>3. QED
          BY <5>1, <5>2
      <4>3. n * m \in Nat
        BY <1>2
      <4>4. QED
        BY <1>2, <2>1, <2>2, <2>3, <3>1, <4>1, <4>2, <4>3
    <3>3. CASE ~ late
      <4>1. EarmarkedOn(a)[c] = m
        BY <2>5, <3>3 DEF EarmarkedOn
      <4>2. lateWrites'[c] = n
        BY <3>3
      <4>3. n * m \in Nat
        BY <1>2
      <4>4. QED
        BY <1>2, <2>1, <2>2, <2>3, <3>1, <4>1, <4>2, <4>3
    <3>4. QED
      BY <3>2, <3>3
  <2>6. QED
    BY <2>4, <2>5
<1>4. LateIsSettled'
  BY <1>1 DEF LateIsSettled
<1>5. QED
  BY <1>1, <1>3, <1>4

-----------------------------------------------------------------------------
(* The inductive invariant of Procurement.                                 *)

\* Commitment c is for purchase q.
Backs(c, q) ==
  /\ commitment[c] # NoRow
  /\ commitment[c].amount = EstimatedAmount[q]
  /\ AllocationOf[c] = DrawsOn[q]

Approving == {"findBlockingAlert", "createCommitment", "approve"}

\* What a request still knows of its purchase: that it was made, by another
\* than who approves it, and that the commitment in hand is nobody else's.
PurchasePromise(q) ==
  /\ q.at \notin {"idle"} \cup Moves => q.purchase \in Purchases /\ purchase[q.purchase].status # "NONE"
  /\ q.at \in Approving =>
       q.actor \in Actors /\ q.actor # purchase[q.purchase].requestedBy
  /\ q.at = "approve" =>
       /\ q.commitment \in Commitments
       /\ Backs(q.commitment, q.purchase)
       /\ \A p \in Purchases : purchase[p].commitmentId # q.commitment

PurchasePromises == \A r \in Requests : PurchasePromise(request[r])

\* Two approvals have two commitments in hand.
CommitmentsInHand ==
  \A r, s \in Requests :
    request[r].at = "approve" /\ request[s].at = "approve" /\ r # s =>
      request[r].commitment # request[s].commitment

PurchaseIsBacked(q) ==
  LET c == purchase[q].commitmentId IN
  /\ purchase[q].status = "APPROVED" => c # None
  /\ c # None =>
       /\ purchase[q].status # "NONE"
       /\ Backs(c, q)
       /\ purchase[q].approvedBy \notin {None, purchase[q].requestedBy}
       /\ \A p \in Purchases \ {q} : purchase[p].commitmentId # c

PurchasesAreBacked == \A q \in Purchases : PurchaseIsBacked(q)

PurchasesAreTyped ==
  /\ purchase \in [Purchases -> PurchaseRow]
  /\ request \in [Requests -> PurchaseRequest]
  /\ overtaken \subseteq Requests

\* A request that is about to write a commitment has seen it ACTIVE, and with
\* enough in it: if it is not any more, another one was faster.
MoveIsChecked(r) ==
  LET c == request[r].commitment IN
  request[r].at \in Moves =>
    /\ commitment[c].status # "NONE"
    /\ request[r].amount <= commitment[c].amount
    /\ r \in overtaken <=> commitment[c].status # "ACTIVE"

MovesAreChecked ==
  \A r \in Requests :
    /\ MoveIsChecked(r)
    /\ r \in overtaken => request[r].at \in Moves

ProcurementInv ==
  /\ BooksAreKept
  /\ PurchasesAreTyped
  /\ PurchasesAreBacked
  /\ PurchasePromises
  /\ CommitmentsInHand
  /\ MovesAreChecked

LEMMA ProcurementInitInv == ProcurementInit /\ HandlersInit => ProcurementInv
<1> SUFFICES ASSUME ProcurementInit, HandlersInit PROVE ProcurementInv
  OBVIOUS
<1> USE DEF ProcurementInit, HandlersInit
<1>1. BooksAreKept
  <2>1. LedgerTypeOK /\ lateWrites \in [Commitments -> Nat]
    BY LedgerAssumption DEF LedgerInit, LedgerTypeOK, NoRow, CommitmentRow, NoExpenditure
  <2>2. ASSUME NEW a \in Allocations PROVE Earmarked(a) = 0 /\ Paid(a) = 0 /\ GivenBack(a) = 0
    <3>1. EarmarkedOn(a) \in [Commitments -> Nat] /\ PaidOn(a) \in [Commitments -> Nat]
      BY <2>1, TotalsOfRows
    <3>2. GivenBackAgain(a) \in [Commitments -> Nat]
      BY <2>1, GivenBackType
    <3>3. \A c \in Commitments : EarmarkedOn(a)[c] = 0 /\ PaidOn(a)[c] = 0 /\ GivenBackAgain(a)[c] = 0
      BY DEF LedgerInit, EarmarkedOn, PaidOn, GivenBackAgain, NoRow, NoExpenditure
    <3>4. QED
      BY <3>1, <3>2, <3>3, TotalZero DEF Earmarked, Paid, GivenBack
  <2>3. LedgerInv
    BY <2>1, <2>2, LedgerAssumption
    DEF LedgerInit, LedgerInv, WithinAuthorization, Balanced, SpentIsPaid,
        CommittedAtMostEarmarked, ExpenditureSettles, NoRow, NoExpenditure
  <2>4. DriftIsLate /\ LateIsSettled
    BY <2>1, <2>2 DEF LedgerInit, DriftIsLate, LateIsSettled
  <2>5. QED
    BY <2>1, <2>3, <2>4 DEF BooksAreKept
<1>2. PurchasesAreTyped
  BY DEF PurchasesAreTyped, PurchaseRow, NoPurchase, PurchaseRequest, Idle
<1>3. PurchasesAreBacked
  BY DEF PurchasesAreBacked, PurchaseIsBacked, NoPurchase
<1>4. PurchasePromises /\ CommitmentsInHand /\ MovesAreChecked
  BY DEF PurchasePromises, PurchasePromise, CommitmentsInHand, Approving, Idle,
         MovesAreChecked, MoveIsChecked, Moves
<1>5. QED
  BY <1>1, <1>2, <1>3, <1>4 DEF ProcurementInv

-----------------------------------------------------------------------------
(* The steps of Procurement.                                               *)

\* What a request sees when it sets out to write a commitment.
MayMove(t) ==
  /\ commitment[t.commitment].status = "ACTIVE"
  /\ t.amount <= commitment[t.commitment].amount

\* A request that is not about to write a commitment was not overtaken.
LEMMA NotOvertaken ==
  ASSUME ProcurementInv, NEW r \in Requests, request[r].at \notin Moves
  PROVE  overtaken \ {r} = overtaken
BY DEF ProcurementInv, MovesAreChecked

\* A step of one request that writes no row.
LEMMA PurchaseLocalStep ==
  ASSUME ProcurementInv, NEW r \in Requests, NEW t \in PurchaseRequest,
         request' = [request EXCEPT ![r] = t],
         UNCHANGED <<ledgerVars, purchase, lateWrites>>, overtaken' = overtaken \ {r},
         PurchasePromise(t), t.at # "approve", t.at \in Moves => MayMove(t)
  PROVE  ProcurementInv'
<1> USE DEF ProcurementInv
<1>1. purchase' = purchase /\ commitment' = commitment
  BY DEF ledgerVars
<1>2. BooksAreKept'
  BY BooksUnchanged
<1>3. PurchasesAreTyped'
  BY <1>1 DEF PurchasesAreTyped
<1>4. PurchasesAreBacked'
  BY <1>1 DEF PurchasesAreBacked, PurchaseIsBacked, Backs
<1>5. \A s \in Requests : (s = r /\ request'[s] = t) \/ (s # r /\ request'[s] = request[s])
  BY DEF PurchasesAreTyped
<1>6. PurchasePromises'
  <2> SUFFICES ASSUME NEW s \in Requests PROVE PurchasePromise(request[s])'
    BY DEF PurchasePromises
  <2> PICK u : u = request'[s]
    OBVIOUS
  <2>1. PurchasePromise(u)
    BY <1>5 DEF PurchasePromises
  <2>2. QED
    BY <1>1, <2>1 DEF PurchasePromise, Backs
<1>7. CommitmentsInHand'
  BY <1>5 DEF CommitmentsInHand
<1>8. MovesAreChecked'
  <2> SUFFICES ASSUME NEW s \in Requests
               PROVE  MoveIsChecked(s)' /\ (s \in overtaken' => request'[s].at \in Moves)
    BY DEF MovesAreChecked
  <2>1. CASE s = r
    <3>1. request'[s] = t /\ s \notin overtaken'
      BY <1>5, <2>1
    <3>2. QED
      BY <1>1, <3>1 DEF MoveIsChecked, MayMove
  <2>2. CASE s # r
    <3>1. request'[s] = request[s] /\ (s \in overtaken' <=> s \in overtaken)
      BY <1>5, <2>2
    <3>2. QED
      BY <1>1, <3>1 DEF MovesAreChecked, MoveIsChecked
  <2>3. QED
    BY <2>1, <2>2
<1>9. QED
  BY <1>2, <1>3, <1>4, <1>6, <1>7, <1>8

LEMMA PurchaseReadStep ==
  ASSUME ProcurementInv, NEW r \in Requests, NEW q \in Purchases,
         \/ ReadForSubmit(r, q)
         \/ \E u \in Actors : ReadForApproval(r, q, u)
         \/ ReadForReject(r, q)
  PROVE  ProcurementInv'
<1>1. ASSUME NEW at \in {"submit", "reject", "findBlockingAlert"}, NEW u \in Actors \cup {None},
             purchase[q].status # "NONE", ReadThen(r, at, q, u),
             at = "findBlockingAlert" => u \in Actors /\ u # purchase[q].requestedBy
      PROVE  ProcurementInv'
  <2> DEFINE t == [at |-> at, purchase |-> q, actor |-> u, commitment |-> None]
  <2>1. t \in PurchaseRequest /\ t.at # "approve" /\ t.at \notin Moves
    BY DEF PurchaseRequest, Moves
  <2>2. PurchasePromise(t)
    BY <1>1 DEF PurchasePromise, Approving
  <2>3. /\ request' = [request EXCEPT ![r] = t] /\ request[r] = Idle
        /\ UNCHANGED purchaseVars
    BY <1>1 DEF ReadThen, Start
  <2>4. UNCHANGED <<ledgerVars, purchase, lateWrites>> /\ overtaken' = overtaken
    BY <2>3 DEF purchaseVars, history
  <2>5. overtaken \ {r} = overtaken
    BY <2>3, NotOvertaken DEF Idle, Moves
  <2> HIDE DEF t
  <2>6. QED
    BY <2>1, <2>2, <2>3, <2>4, <2>5, PurchaseLocalStep
<1>2. QED
  BY <1>1 DEF ReadForSubmit, ReadForReject, ReadForApproval

LEMMA IdleIsFree ==
  Idle \in PurchaseRequest /\ PurchasePromise(Idle) /\ Idle.at # "approve" /\ Idle.at \notin Moves
BY DEF PurchaseRequest, PurchasePromise, Approving, Idle, Moves

\* The budget office finds a commitment that it may release or pay.
LEMMA MoveReadStep ==
  ASSUME ProcurementInv, NEW r \in Requests, NEW c \in Commitments,
         ReadForRelease(r, c) \/ \E m \in Amounts : ReadForExpenditure(r, c, m)
  PROVE  ProcurementInv'
<1>1. commitment[c].amount \in Nat /\ Amounts \subseteq Nat
  BY LedgerAssumption DEF ProcurementInv, BooksAreKept, LedgerTypeOK, CommitmentRow
<1>2. PICK at \in Moves, m \in Nat :
        /\ commitment[c].status = "ACTIVE" /\ m <= commitment[c].amount
        /\ Start(r, [at |-> at, commitment |-> c, amount |-> m])
        /\ UNCHANGED purchaseVars
  <2>1. CASE ReadForRelease(r, c)
    BY <1>1, <2>1 DEF ReadForRelease, Moves
  <2>2. CASE \E m \in Amounts : ReadForExpenditure(r, c, m)
    BY <1>1, <2>2 DEF ReadForExpenditure, Moves
  <2>3. QED
    BY <2>1, <2>2
<1> DEFINE t == [at |-> at, commitment |-> c, amount |-> m]
<1>3. t \in PurchaseRequest /\ t.at \in Moves /\ t.commitment = c /\ t.amount = m
  BY DEF PurchaseRequest
<1>4. request' = [request EXCEPT ![r] = t] /\ request[r] = Idle
  BY <1>2 DEF Start
<1>5. UNCHANGED <<ledgerVars, purchase, lateWrites>> /\ overtaken' = overtaken
  BY <1>2 DEF purchaseVars, history
<1>6. overtaken \ {r} = overtaken
  BY <1>4, NotOvertaken DEF Idle, Moves
<1> HIDE DEF t
<1>7. PurchasePromise(t) /\ t.at # "approve"
  BY <1>3 DEF PurchasePromise, Approving, Moves
<1>8. MayMove(t)
  BY <1>2, <1>3 DEF MayMove
<1>9. QED
  BY <1>3, <1>4, <1>5, <1>6, <1>7, <1>8, PurchaseLocalStep

LEMMA PassRiskGateStep ==
  ASSUME ProcurementInv, NEW r \in Requests, PassRiskGate(r) \/ FailPurchaseRequest(r)
  PROVE  ProcurementInv'
<1> PICK u : u = request[r]
  OBVIOUS
<1>1. UNCHANGED <<ledgerVars, purchase, lateWrites>> /\ overtaken' = overtaken \ {r}
  <2>1. CASE FailPurchaseRequest(r)
    BY <2>1 DEF FailPurchaseRequest
  <2>2. CASE PassRiskGate(r)
    <3>1. overtaken \ {r} = overtaken
      BY <2>2, NotOvertaken DEF PassRiskGate, Moves
    <3>2. QED
      BY <2>2, <3>1 DEF PassRiskGate, purchaseVars, history
  <2>3. QED
    BY <2>1, <2>2
<1>2. CASE Stop(r)
  BY <1>1, <1>2, IdleIsFree, PurchaseLocalStep DEF Stop
<1>3. CASE u.at = "findBlockingAlert" /\ Go(r, "createCommitment")
  <2> DEFINE t == [u EXCEPT !.at = "createCommitment"]
  <2>1. u \in PurchaseRequest /\ PurchasePromise(u)
    BY DEF ProcurementInv, PurchasesAreTyped, PurchasePromises
  <2>2. t \in PurchaseRequest /\ t.at # "approve" /\ t.at = "createCommitment"
        /\ t.purchase = u.purchase /\ t.actor = u.actor
    BY <1>3, <2>1 DEF PurchaseRequest, Idle, Moves
  <2>3. request' = [request EXCEPT ![r] = t]
    BY <1>3 DEF Go
  <2> HIDE DEF t
  <2>4. PurchasePromise(t) /\ t.at \notin Moves
    BY <1>3, <2>1, <2>2 DEF PurchasePromise, Approving, Moves
  <2>5. QED
    BY <1>1, <2>2, <2>3, <2>4, PurchaseLocalStep
<1>4. QED
  BY <1>2, <1>3 DEF PassRiskGate, FailPurchaseRequest, Abandon

\* No transaction on the ledger takes a commitment away, or changes its amount.
RowsStay ==
  \A c \in Commitments :
    commitment[c] # NoRow =>
      commitment'[c] # NoRow /\ commitment'[c].amount = commitment[c].amount

\* A step that leaves the purchases and what the requests know of them.
LEMMA PurchaseLedgerStep ==
  ASSUME ProcurementInv, BooksAreKept', MovesAreChecked', RowsStay, purchase' = purchase,
         overtaken' \subseteq Requests, request' \in [Requests -> PurchaseRequest],
         \A s \in Requests : request'[s] = Idle \/ request'[s] = request[s]
  PROVE  ProcurementInv'
<1> USE DEF ProcurementInv
<1>1. \A c \in Commitments, q \in Purchases : Backs(c, q) => Backs(c, q)'
  BY DEF RowsStay, Backs
<1>2. PurchasesAreTyped' /\ CommitmentsInHand'
  BY DEF PurchasesAreTyped, CommitmentsInHand, Idle
<1>3. PurchasesAreBacked'
  <2> SUFFICES ASSUME NEW q \in Purchases PROVE PurchaseIsBacked(q)'
    BY DEF PurchasesAreBacked
  <2>1. PurchaseIsBacked(q) /\ purchase[q].commitmentId \in Commitments \cup {None}
    BY DEF PurchasesAreBacked, PurchasesAreTyped, PurchaseRow
  <2>2. QED
    BY <1>1, <2>1 DEF PurchaseIsBacked
<1>4. PurchasePromises'
  <2> SUFFICES ASSUME NEW s \in Requests PROVE PurchasePromise(request[s])'
    BY DEF PurchasePromises
  <2> PICK u : u = request'[s]
    OBVIOUS
  <2>1. PurchasePromise(u)
    BY IdleIsFree DEF PurchasePromises
  <2>2. PurchasePromise(u)'
    BY <1>1, <2>1 DEF PurchasePromise, Approving, Moves
  <2>3. QED
    BY <2>2
<1>5. QED
  BY <1>2, <1>3, <1>4

\* The budget office writes a commitment, in time or late; whoever else is at
\* it is late from now on.
LEMMA MoveStep ==
  ASSUME ProcurementInv, NEW r \in Requests, ReleaseCommitment(r) \/ CreateExpenditure(r)
  PROVE  ProcurementInv'
<1> USE DEF ProcurementInv
<1> PICK u : u = request[r]
  OBVIOUS
<1> PICK c : c = u.commitment
  OBVIOUS
<1>1. /\ u.at \in Moves /\ Overtake(r, c) /\ Stop(r) /\ purchase' = purchase
      /\ ReleaseTx(c) \/ SpendTx(c, u.amount)
  BY DEF ReleaseCommitment, CreateExpenditure, Moves
<1>2. c \in Commitments /\ u.amount \in Nat
  BY <1>1 DEF PurchasesAreTyped, PurchaseRequest, Idle, Moves
<1>3. /\ commitment[c].status # "NONE" /\ u.amount <= commitment[c].amount
      /\ r \in overtaken <=> commitment[c].status # "ACTIVE"
  BY <1>1 DEF MovesAreChecked, MoveIsChecked
<1>4. LedgerTypeOK /\ LedgerInv /\ commitment \in [Commitments -> CommitmentRow]
  BY DEF BooksAreKept, LedgerTypeOK
<1>5. LedgerTypeOK' /\ LedgerInv'
  BY <1>1, <1>2, <1>3, <1>4, ReleaseKeepsLedger, SpendKeepsLedger
<1>6. PICK to \in {"RELEASED", "CONSUMED"} : commitment' = [commitment EXCEPT ![c].status = to]
  BY <1>1 DEF ReleaseTx, SpendTx
<1>7. /\ commitment'[c].amount = commitment[c].amount
      /\ commitment'[c].status \in {"RELEASED", "CONSUMED"}
      /\ \A d \in Commitments \ {c} : commitment'[d] = commitment[d]
  BY <1>2, <1>4, <1>6 DEF CommitmentRow
<1>8. \A a \in Allocations :
        /\ committed'[a] = committed[a] - Share(a, AllocationOf[c], commitment[c].amount)
        /\ Earmarked(a)' = Earmarked(a) - EarmarkedOn(a)[c]
  <2>1. CASE ReleaseTx(c)
    BY <1>2, <1>4, <2>1, ReleaseEffect
  <2>2. CASE SpendTx(c, u.amount)
    BY <1>2, <1>4, <2>2, SpendEffect
  <2>3. QED
    BY <1>1, <2>1, <2>2
<1>9. BooksAreKept'
  <2>1. PICK late \in BOOLEAN : late <=> r \in overtaken
    OBVIOUS
  <2>2. lateWrites' = IF late THEN [lateWrites EXCEPT ![c] = @ + 1] ELSE lateWrites
    BY <1>1, <2>1 DEF Overtake
  <2>3. QED
    BY <1>2, <1>3, <1>5, <1>7, <1>8, <2>1, <2>2, MoveKeepsBooks
<1>10. \A s \in Requests : request'[s] = IF s = r THEN Idle ELSE request[s]
  BY <1>1 DEF Stop, PurchasesAreTyped
<1>11. /\ overtaken' \subseteq Requests
       /\ \A s \in Requests : s \in overtaken' <=> s # r /\ (s \in overtaken \/ IsMoving(s, c))
  BY <1>1 DEF Overtake, PurchasesAreTyped
<1>12. MovesAreChecked'
  <2> SUFFICES ASSUME NEW s \in Requests
               PROVE  MoveIsChecked(s)' /\ (s \in overtaken' => request'[s].at \in Moves)
    BY DEF MovesAreChecked
  <2>1. CASE s = r
    BY <1>10, <1>11, <2>1, IdleIsFree DEF MoveIsChecked
  <2>2. CASE s # r
    <3>1. request'[s] = request[s] /\ (s \in overtaken' <=> s \in overtaken \/ IsMoving(s, c))
      BY <1>10, <1>11, <2>2
    <3>2. MoveIsChecked(s) /\ (s \in overtaken => request[s].at \in Moves)
      BY DEF MovesAreChecked
    <3>3. s \in overtaken' => request'[s].at \in Moves
      BY <3>1, <3>2 DEF IsMoving
    <3>4. ASSUME request[s].at \in Moves, request[s].commitment = c PROVE MoveIsChecked(s)'
      BY <1>7, <3>1, <3>2, <3>4 DEF MoveIsChecked, IsMoving
    <3>5. ASSUME request[s].at \in Moves, request[s].commitment # c PROVE MoveIsChecked(s)'
      <4>1. request[s].commitment \in Commitments \ {c}
        BY <3>5 DEF PurchasesAreTyped, PurchaseRequest, Idle, Moves
      <4>2. commitment'[request[s].commitment] = commitment[request[s].commitment]
        BY <1>7, <4>1
      <4>3. QED
        BY <3>1, <3>2, <3>5, <4>2 DEF MoveIsChecked, IsMoving
    <3>6. request[s].at \notin Moves => MoveIsChecked(s)'
      BY <3>1 DEF MoveIsChecked
    <3>7. QED
      BY <3>3, <3>4, <3>5, <3>6
  <2>3. QED
    BY <2>1, <2>2
<1>13. RowsStay
  <2>1. commitment'[c] # NoRow
    BY <1>7 DEF NoRow
  <2>2. QED
    BY <1>7, <2>1 DEF RowsStay
<1>14. request' \in [Requests -> PurchaseRequest]
  BY <1>1, IdleIsFree DEF Stop, PurchasesAreTyped
<1>15. QED
  BY <1>1, <1>9, <1>10, <1>11, <1>12, <1>13, <1>14, PurchaseLedgerStep

\* A step that has nothing to do with the commitments requests are about to write.
LEMMA MovesStay ==
  ASSUME MovesAreChecked, request \in [Requests -> PurchaseRequest], overtaken' = overtaken,
         \A s \in Requests : request[s].at \in Moves \/ request'[s].at \in Moves =>
                               request'[s] = request[s],
         \A c \in Commitments : commitment[c].status # "NONE" => commitment'[c] = commitment[c]
  PROVE  MovesAreChecked'
<1> SUFFICES ASSUME NEW s \in Requests
             PROVE  MoveIsChecked(s)' /\ (s \in overtaken' => request'[s].at \in Moves)
  BY DEF MovesAreChecked
<1>1. MoveIsChecked(s) /\ (s \in overtaken => request[s].at \in Moves)
  BY DEF MovesAreChecked
<1>2. CASE request[s].at \in Moves \/ request'[s].at \in Moves
  <2>1. request'[s] = request[s] /\ request[s].at \in Moves
    BY <1>2
  <2>2. request[s].commitment \in Commitments
    BY <2>1 DEF PurchaseRequest, Idle, Moves
  <2>3. commitment'[request[s].commitment] = commitment[request[s].commitment]
    BY <1>1, <2>1, <2>2 DEF MoveIsChecked
  <2>4. QED
    BY <1>1, <2>1, <2>3 DEF MoveIsChecked
<1>3. CASE request[s].at \notin Moves /\ request'[s].at \notin Moves
  BY <1>1, <1>3 DEF MoveIsChecked
<1>4. QED
  BY <1>2, <1>3

\* A step that writes one purchase, but not who asked for it nor its commitment,
\* and gives no request anything to know.
LEMMA PurchaseStatusStep ==
  ASSUME ProcurementInv, UNCHANGED <<ledgerVars, history>>, NEW q \in Purchases, NEW row \in PurchaseRow,
         purchase' = [purchase EXCEPT ![q] = row],
         row.commitmentId = purchase[q].commitmentId, row.approvedBy = purchase[q].approvedBy,
         row.status \in {"DRAFT", "SUBMITTED", "REJECTED"},
         purchase[q].status = "NONE" \/ row.requestedBy = purchase[q].requestedBy,
         request' \in [Requests -> PurchaseRequest],
         \A s \in Requests : \/ request'[s] = Idle /\ request[s].at \notin Moves
                             \/ request'[s] = request[s]
  PROVE  ProcurementInv'
<1> USE DEF ProcurementInv
<1>1. commitment' = commitment /\ overtaken' = overtaken
  BY DEF ledgerVars, history
<1>2. BooksAreKept'
  BY BooksUnchanged DEF history
<1>3. PurchasesAreTyped'
  BY <1>1 DEF PurchasesAreTyped
<1>4. /\ purchase'[q] = row
      /\ \A p \in Purchases \ {q} : purchase'[p] = purchase[p]
      /\ \A p \in Purchases : purchase'[p].commitmentId = purchase[p].commitmentId
  BY DEF PurchasesAreTyped
<1>5. PurchasesAreBacked'
  <2> SUFFICES ASSUME NEW p \in Purchases PROVE PurchaseIsBacked(p)'
    BY DEF PurchasesAreBacked
  <2>1. PurchaseIsBacked(p)
    BY DEF PurchasesAreBacked
  <2>2. CASE p = q
    BY <1>1, <1>4, <2>1, <2>2 DEF PurchaseIsBacked, Backs
  <2>3. CASE p # q
    BY <1>1, <1>4, <2>1, <2>3 DEF PurchaseIsBacked, Backs
  <2>4. QED
    BY <2>2, <2>3
<1>6. PurchasePromises'
  <2> SUFFICES ASSUME NEW s \in Requests PROVE PurchasePromise(request[s])'
    BY DEF PurchasePromises
  <2> PICK u : u = request'[s]
    OBVIOUS
  <2>1. PurchasePromise(u)
    BY IdleIsFree DEF PurchasePromises
  <2>2. CASE u.at \in {"idle"} \cup Moves
    BY <2>2 DEF PurchasePromise, Approving, Moves
  <2>3. CASE u.at \notin {"idle"} \cup Moves
    <3>1. u.purchase \in Purchases /\ purchase[u.purchase].status # "NONE"
      BY <2>1, <2>3 DEF PurchasePromise
    <3>2. purchase'[u.purchase].requestedBy = purchase[u.purchase].requestedBy
      BY <1>4, <3>1
    <3>3. purchase'[u.purchase].status # "NONE"
      BY <1>4, <3>1
    <3>4. QED
      BY <1>1, <1>4, <2>1, <3>1, <3>2, <3>3 DEF PurchasePromise, Backs
  <2>4. QED
    BY <2>2, <2>3
<1>7. CommitmentsInHand'
  BY DEF CommitmentsInHand, Idle
<1>8. MovesAreChecked'
  BY <1>1, IdleIsFree, MovesStay DEF PurchasesAreTyped
<1>9. QED
  BY <1>2, <1>3, <1>5, <1>6, <1>7, <1>8

LEMMA CreatePurchaseStep ==
  ASSUME ProcurementInv, NEW q \in Purchases, NEW u \in Actors, CreatePurchase(q, u)
  PROVE  ProcurementInv'
<1> DEFINE row == [purchase[q] EXCEPT !.status = "DRAFT", !.requestedBy = u]
<1>1. purchase[q] = NoPurchase /\ purchase[q] \in PurchaseRow
  BY DEF CreatePurchase, ProcurementInv, PurchasesAreTyped
<1>2. row \in PurchaseRow /\ row.commitmentId = purchase[q].commitmentId
      /\ row.approvedBy = purchase[q].approvedBy /\ row.status = "DRAFT"
  BY <1>1 DEF PurchaseRow
<1>3. purchase' = [purchase EXCEPT ![q] = row]
  BY DEF CreatePurchase
<1>4. purchase[q].status = "NONE"
  BY <1>1 DEF NoPurchase
<1>5. request' = request /\ UNCHANGED <<ledgerVars, history>>
  BY DEF CreatePurchase
<1>6. request' \in [Requests -> PurchaseRequest]
  BY <1>5 DEF ProcurementInv, PurchasesAreTyped
<1> HIDE DEF row
<1>7. QED
  BY <1>2, <1>3, <1>4, <1>5, <1>6, PurchaseStatusStep

LEMMA DecidePurchaseStep ==
  ASSUME ProcurementInv, NEW r \in Requests, SubmitPurchase(r) \/ RejectPurchase(r)
  PROVE  ProcurementInv'
<1> PICK q : q = request[r].purchase
  OBVIOUS
<1> PICK to \in {"SUBMITTED", "REJECTED"} :
      purchase' = [purchase EXCEPT ![q].status = to]
  BY DEF SubmitPurchase, RejectPurchase
<1> DEFINE row == [purchase[q] EXCEPT !.status = to]
<1>1. request[r].at \notin {"idle"} \cup Moves /\ Stop(r) /\ UNCHANGED <<ledgerVars, history>>
  BY DEF SubmitPurchase, RejectPurchase, Moves
<1>2. q \in Purchases
  BY <1>1 DEF ProcurementInv, PurchasePromises, PurchasePromise
<1>3. row \in PurchaseRow /\ row.commitmentId = purchase[q].commitmentId
      /\ row.approvedBy = purchase[q].approvedBy /\ row.requestedBy = purchase[q].requestedBy
      /\ row.status \in {"DRAFT", "SUBMITTED", "REJECTED"}
  <2>1. purchase[q] \in PurchaseRow
    BY <1>2 DEF ProcurementInv, PurchasesAreTyped
  <2>2. QED
    BY <2>1 DEF PurchaseRow
<1>4. purchase' = [purchase EXCEPT ![q] = row]
  OBVIOUS
<1>5. request' \in [Requests -> PurchaseRequest]
  BY <1>1, IdleIsFree DEF Stop, ProcurementInv, PurchasesAreTyped
<1>6. \A s \in Requests : \/ request'[s] = Idle /\ request[s].at \notin Moves
                          \/ request'[s] = request[s]
  BY <1>1 DEF Stop, ProcurementInv, PurchasesAreTyped
<1> HIDE DEF row
<1>7. QED
  BY <1>1, <1>2, <1>3, <1>4, <1>5, <1>6, PurchaseStatusStep

LEMMA NewIdsAreUnused ==
  ASSUME NEW a, NEW c \in NewIds(a)
  PROVE  c \in Commitments /\ AllocationOf[c] = a /\ commitment[c] = NoRow
BY DEF NewIds

\* approve has committed its budget and has it in hand.
LEMMA CommitBudgetStep ==
  ASSUME ProcurementInv, NEW r \in Requests, CommitBudget(r)
  PROVE  ProcurementInv'
<1> USE DEF ProcurementInv
<1> PICK u : u = request[r]
  OBVIOUS
<1> PICK q : q = u.purchase
  OBVIOUS
<1>1. PICK c \in Commitments :
        /\ AllocationOf[c] = DrawsOn[q]
        /\ CommitTx(c, EstimatedAmount[q])
        /\ request' = [request EXCEPT ![r].at = "approve", ![r].commitment = c]
  BY NewIdsAreUnused DEF CommitBudget
<1> DEFINE t == [u EXCEPT !.at = "approve", !.commitment = c]
<1>2. u.at = "createCommitment" /\ purchase' = purchase /\ UNCHANGED history
  BY DEF CommitBudget
<1>3. u \in PurchaseRequest /\ PurchasePromise(u) /\ q \in Purchases
  BY <1>2 DEF PurchasesAreTyped, PurchasePromises, PurchasePromise, Moves
<1>4. t \in PurchaseRequest /\ t.at = "approve" /\ t.purchase = q
      /\ t.actor = u.actor /\ t.commitment = c
  <2>1. u \in [at : {"submit", "findBlockingAlert", "createCommitment", "approve", "reject"},
                purchase : Purchases, actor : Actors \cup {None},
                commitment : Commitments \cup {None}]
    BY <1>2, <1>3 DEF PurchaseRequest, Idle, Moves
  <2>2. QED
    BY <2>1 DEF PurchaseRequest
<1>5. request' = [request EXCEPT ![r] = t]
  BY <1>1
<1> HIDE DEF t
<1>6. \A s \in Requests : request'[s] = IF s = r THEN t ELSE request[s]
  BY <1>5 DEF PurchasesAreTyped
<1>7. commitment \in [Commitments -> CommitmentRow] /\ EstimatedAmount[q] \in Nat
  BY <1>3, ProcurementAssumption DEF BooksAreKept, LedgerTypeOK
<1>8. /\ commitment[c] = NoRow
      /\ commitment' = [commitment EXCEPT ![c] = [status |-> "ACTIVE", amount |-> EstimatedAmount[q]]]
  BY <1>1 DEF CommitTx
<1>9. BooksAreKept'
  BY <1>1, <1>2, <1>7, CommitKeepsBooks DEF history
<1>10. \A d \in Commitments, p \in Purchases : Backs(d, p) => d # c /\ Backs(d, p)'
  BY <1>7, <1>8 DEF Backs
<1>11. Backs(c, q)'
  BY <1>1, <1>7, <1>8 DEF Backs, NoRow
<1>12. PurchasesAreTyped'
  BY <1>2, <1>4, <1>5 DEF PurchasesAreTyped, history
<1>13. PurchasesAreBacked'
  <2> SUFFICES ASSUME NEW p \in Purchases PROVE PurchaseIsBacked(p)'
    BY DEF PurchasesAreBacked
  <2>1. PurchaseIsBacked(p) /\ purchase[p].commitmentId \in Commitments \cup {None}
    BY DEF PurchasesAreBacked, PurchasesAreTyped, PurchaseRow
  <2>2. QED
    BY <1>2, <1>10, <2>1 DEF PurchaseIsBacked
<1>14. \A p \in Purchases : purchase[p].commitmentId # c
  <2> SUFFICES ASSUME NEW p \in Purchases, purchase[p].commitmentId = c PROVE FALSE
    OBVIOUS
  <2>1. c # None
    BY ProcurementAssumption
  <2>2. QED
    BY <1>10, <2>1 DEF PurchasesAreBacked, PurchaseIsBacked
<1>15. PurchasePromises'
  <2> SUFFICES ASSUME NEW s \in Requests PROVE PurchasePromise(request[s])'
    BY DEF PurchasePromises
  <2>1. CASE s = r
    <3>1. PurchasePromise(t)'
      BY <1>2, <1>3, <1>4, <1>11, <1>14 DEF PurchasePromise, Approving, Moves
    <3>2. QED
      BY <1>6, <2>1, <3>1
  <2>2. CASE s # r
    <3> PICK v : v = request[s]
      OBVIOUS
    <3>1. PurchasePromise(v)
      BY DEF PurchasePromises
    <3>2. PurchasePromise(v)'
      BY <1>2, <1>10, <3>1 DEF PurchasePromise, Approving, Moves
    <3>3. QED
      BY <1>6, <2>2, <3>2
  <2>3. QED
    BY <2>1, <2>2
<1>16. CommitmentsInHand'
  <2>1. \A s \in Requests : request[s].at = "approve" => request[s].commitment # c
    <3> SUFFICES ASSUME NEW s \in Requests, request[s].at = "approve"
                 PROVE  request[s].commitment # c
      OBVIOUS
    <3>1. PurchasePromise(request[s])
      BY DEF PurchasePromises
    <3>2. QED
      BY <1>10, <3>1 DEF PurchasePromise, Moves
  <2>2. QED
    BY <1>4, <1>6, <2>1 DEF CommitmentsInHand
<1>17. MovesAreChecked'
  <2>1. \A d \in Commitments : commitment[d].status # "NONE" => commitment'[d] = commitment[d]
    BY <1>7, <1>8 DEF NoRow
  <2>2. \A s \in Requests : request[s].at \in Moves \/ request'[s].at \in Moves =>
                             request'[s] = request[s]
    BY <1>2, <1>4, <1>6 DEF Moves
  <2>3. QED
    BY <1>2, <2>1, <2>2, MovesStay DEF PurchasesAreTyped, history
<1>18. QED
  BY <1>9, <1>12, <1>13, <1>15, <1>16, <1>17

\* approve writes the purchase: nobody else has this commitment.
LEMMA ApprovePurchaseStep ==
  ASSUME ProcurementInv, NEW r \in Requests, ApprovePurchase(r)
  PROVE  ProcurementInv'
<1> USE DEF ProcurementInv
<1> PICK u : u = request[r]
  OBVIOUS
<1> PICK q : q = u.purchase
  OBVIOUS
<1> PICK c : c = u.commitment
  OBVIOUS
<1> DEFINE row == [purchase[q] EXCEPT !.status = "APPROVED", !.approvedBy = u.actor,
                                      !.commitmentId = c]
<1>1. u.at = "approve" /\ commitment' = commitment /\ UNCHANGED <<ledgerVars, history>>
  BY DEF ApprovePurchase, ledgerVars
<1>2. PurchasePromise(u) /\ q \in Purchases
  BY <1>1 DEF PurchasePromises, PurchasePromise, Moves
<1>3. /\ u.actor \in Actors /\ u.actor # purchase[q].requestedBy
      /\ c \in Commitments /\ Backs(c, q)
      /\ \A p \in Purchases : purchase[p].commitmentId # c
  BY <1>1, <1>2 DEF PurchasePromise, Approving
<1>4. purchase[q] \in PurchaseRow
  BY <1>2 DEF PurchasesAreTyped
<1>5. /\ row \in PurchaseRow /\ row.status = "APPROVED" /\ row.approvedBy = u.actor
      /\ row.commitmentId = c /\ row.requestedBy = purchase[q].requestedBy
  BY <1>3, <1>4 DEF PurchaseRow
<1>6. purchase' = [purchase EXCEPT ![q] = row]
  BY DEF ApprovePurchase
<1> HIDE DEF row
<1>7. \A p \in Purchases : purchase'[p] = IF p = q THEN row ELSE purchase[p]
  BY <1>6 DEF PurchasesAreTyped
<1>8. \A s \in Requests : request'[s] = IF s = r THEN Idle ELSE request[s]
  BY DEF ApprovePurchase, Stop, PurchasesAreTyped
<1>9. BooksAreKept'
  BY <1>1, BooksUnchanged DEF history
<1>10. PurchasesAreTyped'
  <2>1. purchase' \in [Purchases -> PurchaseRow]
    BY <1>5, <1>6 DEF PurchasesAreTyped
  <2>2. request' \in [Requests -> PurchaseRequest]
    BY IdleIsFree DEF ApprovePurchase, Stop, PurchasesAreTyped
  <2>3. QED
    BY <1>1, <2>1, <2>2 DEF PurchasesAreTyped, history
<1>11. PurchasesAreBacked'
  <2> SUFFICES ASSUME NEW p \in Purchases PROVE PurchaseIsBacked(p)'
    BY DEF PurchasesAreBacked
  <2>1. CASE p = q
    <3>1. u.actor # None /\ c # None
      BY <1>3, ProcurementAssumption
    <3>2. Backs(c, q)'
      BY <1>1, <1>3 DEF Backs
    <3>3. purchase'[q] = row /\ \A o \in Purchases \ {q} : purchase'[o].commitmentId # c
      BY <1>2, <1>3, <1>7
    <3>4. QED
      BY <1>3, <1>5, <2>1, <3>1, <3>2, <3>3 DEF PurchaseIsBacked
  <2>2. CASE p # q
    <3>1. PurchaseIsBacked(p)
      BY DEF PurchasesAreBacked
    <3>2. QED
      BY <1>1, <1>2, <1>3, <1>5, <1>7, <2>2, <3>1 DEF PurchaseIsBacked, Backs
  <2>3. QED
    BY <2>1, <2>2
<1>12. PurchasePromises'
  <2> SUFFICES ASSUME NEW s \in Requests PROVE PurchasePromise(request[s])'
    BY DEF PurchasePromises
  <2>1. CASE s = r
    BY <1>8, <2>1 DEF PurchasePromise, Approving, Idle
  <2>2. CASE s # r
    <3> PICK v : v = request[s]
      OBVIOUS
    <3>1. PurchasePromise(v) /\ (v.at = "approve" => v.commitment # c)
      BY <1>1, <2>2 DEF PurchasePromises, CommitmentsInHand
    <3>2. PurchasePromise(v)'
      BY <1>1, <1>5, <1>7, <3>1 DEF PurchasePromise, Approving, Backs, Moves
    <3>3. QED
      BY <1>8, <2>2, <3>2
  <2>3. QED
    BY <2>1, <2>2
<1>13. CommitmentsInHand'
  BY <1>8 DEF CommitmentsInHand, Idle
<1>14. MovesAreChecked'
  <2>1. \A s \in Requests : request[s].at \in Moves \/ request'[s].at \in Moves =>
                             request'[s] = request[s]
    BY <1>1, <1>8, IdleIsFree DEF Moves
  <2>2. QED
    BY <1>1, <2>1, MovesStay DEF PurchasesAreTyped, history
<1>15. QED
  BY <1>9, <1>10, <1>11, <1>12, <1>13, <1>14

LEMMA ProcurementStutter ==
  ASSUME ProcurementInv, UNCHANGED <<purchaseVars, request>>
  PROVE  ProcurementInv'
<1>1. UNCHANGED <<ledgerVars, lateWrites>> /\ UNCHANGED <<purchase, request, overtaken>>
  BY DEF purchaseVars, history
<1>2. BooksAreKept'
  BY <1>1, BooksUnchanged DEF ProcurementInv
<1>3. commitment' = commitment
  BY <1>1 DEF ledgerVars
<1>4. RowsStay /\ MovesAreChecked'
  BY <1>1, <1>3, MovesStay DEF RowsStay, ProcurementInv, PurchasesAreTyped
<1>5. QED
  BY <1>1, <1>2, <1>4, PurchaseLedgerStep DEF ProcurementInv, PurchasesAreTyped

LEMMA ProcurementStep == ProcurementInv /\ [ProcurementNext]_<<purchaseVars, request>> => ProcurementInv'
<1> SUFFICES ASSUME ProcurementInv, [ProcurementNext]_<<purchaseVars, request>>
             PROVE  ProcurementInv'
  OBVIOUS
<1>1. CASE \E q \in Purchases, u \in Actors : CreatePurchase(q, u)
  BY <1>1, CreatePurchaseStep
<1>2. ASSUME NEW r \in Requests,
             \E q \in Purchases :
               \/ ReadForSubmit(r, q)
               \/ \E u \in Actors : ReadForApproval(r, q, u)
               \/ ReadForReject(r, q)
      PROVE  ProcurementInv'
  BY <1>2, PurchaseReadStep
<1>3. ASSUME NEW r \in Requests, SubmitPurchase(r) \/ RejectPurchase(r)
      PROVE  ProcurementInv'
  BY <1>3, DecidePurchaseStep
<1>4. ASSUME NEW r \in Requests, PassRiskGate(r) \/ FailPurchaseRequest(r)
      PROVE  ProcurementInv'
  BY <1>4, PassRiskGateStep
<1>5. ASSUME NEW r \in Requests, CommitBudget(r)
      PROVE  ProcurementInv'
  BY <1>5, CommitBudgetStep
<1>6. ASSUME NEW r \in Requests, ApprovePurchase(r)
      PROVE  ProcurementInv'
  BY <1>6, ApprovePurchaseStep
<1>7. ASSUME NEW r \in Requests, NEW c \in Commitments,
             ReadForRelease(r, c) \/ \E m \in Amounts : ReadForExpenditure(r, c, m)
      PROVE  ProcurementInv'
  BY <1>7, MoveReadStep
<1>8. ASSUME NEW r \in Requests, ReleaseCommitment(r) \/ CreateExpenditure(r)
      PROVE  ProcurementInv'
  BY <1>8, MoveStep
<1>9. CASE UNCHANGED <<purchaseVars, request>>
  BY <1>9, ProcurementStutter
<1>10. QED
  BY <1>1, <1>2, <1>3, <1>4, <1>5, <1>6, <1>7, <1>8, <1>9 DEF ProcurementNext

\* The purchases that are approved and not yet paid are among the commitments
\* that earmark money, each with its own.
LEMMA ApprovedAreEarmarked ==
  ASSUME ProcurementInv, NEW a \in Allocations
  PROVE  Total(EstimatesOn(a), Purchases) <= Earmarked(a)
<1> DEFINE f == EstimatesOn(a)
           g == EarmarkedOn(a)
           h == [q \in Purchases |-> purchase[q].commitmentId]
<1>1. IsFiniteSet(Commitments) /\ g \in [Commitments -> Nat]
  BY LedgerAssumption, TotalsOfRows DEF ProcurementInv, BooksAreKept
<1>2. f \in [Purchases -> Nat]
  BY ProcurementAssumption DEF EstimatesOn
<1>3. ASSUME NEW q \in Purchases, f[q] > 0
      PROVE  /\ h[q] \in Commitments /\ f[q] <= g[h[q]]
             /\ \A p \in Purchases \ {q} : h[p] # h[q]
  <2>1. /\ DrawsOn[q] = a /\ purchase[q].status = "APPROVED"
        /\ commitment[h[q]].status = "ACTIVE" /\ f[q] = EstimatedAmount[q]
    BY <1>3 DEF EstimatesOn
  <2>2. PurchaseIsBacked(q) /\ h[q] \in Commitments \cup {None}
    BY DEF ProcurementInv, PurchasesAreBacked, PurchasesAreTyped, PurchaseRow
  <2>3. h[q] \in Commitments /\ Backs(h[q], q) /\ \A p \in Purchases \ {q} : h[p] # h[q]
    BY <2>1, <2>2 DEF PurchaseIsBacked
  <2>4. g[h[q]] = EstimatedAmount[q]
    BY <2>1, <2>3 DEF Backs, EarmarkedOn
  <2>5. QED
    BY <1>2, <2>1, <2>3, <2>4
<1>4. /\ \A q \in Purchases : f[q] > 0 => h[q] \in Commitments /\ f[q] <= g[h[q]]
      /\ \A p, q \in Purchases : f[p] > 0 /\ f[q] > 0 /\ h[p] = h[q] => p = q
  BY <1>3
<1> HIDE DEF f, g, h
<1>5. Total(f, Purchases) <= Total(g, Commitments)
  BY <1>1, <1>2, <1>4, TotalInjected
<1>6. QED
  BY <1>5 DEF f, g, Earmarked

\* An approval is backed by money: an approved purchase has a commitment of its
\* own for its estimate, by somebody else than who asked for it, and what is
\* approved and what was paid go beyond the budget by no more than what the
\* budget office gave back on checks that were out of date
\* (ProcurementRequestsService.approve, which looks at the status long before it
\* writes, and AllocationsService.releaseCommitment and .createExpenditure).
THEOREM ApprovalsAreFunded == ProcurementSpec => []ApprovedIsFunded
<1>1. ProcurementInv => ApprovedIsFunded
  <2> SUFFICES ASSUME ProcurementInv PROVE ApprovedIsCommitted /\ ApprovalsFit
    BY DEF ApprovedIsFunded
  <2>1. ApprovedIsCommitted
    BY DEF ProcurementInv, PurchasesAreBacked, PurchaseIsBacked, Backs, ApprovedIsCommitted
  <2>2. ASSUME NEW a \in Allocations
        PROVE  Total(EstimatesOn(a), Purchases) + Paid(a) <= authorized[a] + GivenBack(a)
    <3>1. /\ Earmarked(a) = committed[a] + GivenBack(a) /\ Paid(a) = spent[a]
          /\ committed[a] + spent[a] <= authorized[a]
      BY DEF ProcurementInv, BooksAreKept, DriftIsLate, LedgerInv, SpentIsPaid,
             WithinAuthorization, Balanced
    <3>2. committed[a] \in Nat /\ spent[a] \in Nat /\ authorized[a] \in Nat /\ GivenBack(a) \in Nat
      BY GivenBackType DEF ProcurementInv, BooksAreKept, LedgerTypeOK
    <3>3. Total(EstimatesOn(a), Purchases) \in Nat
      <4>1. EstimatesOn(a) \in [Purchases -> Nat]
        BY ProcurementAssumption DEF EstimatesOn
      <4>2. QED
        BY <4>1, ProcurementAssumption, TotalType
    <3>4. QED
      BY <3>1, <3>2, <3>3, ApprovedAreEarmarked
  <2>3. QED
    BY <2>1, <2>2 DEF ApprovalsFit, GivenBack
<1>2. QED
  BY <1>1, ProcurementInitInv, ProcurementStep, PTL DEF ProcurementSpec

-----------------------------------------------------------------------------
(* The inductive invariant of Tendering.                                   *)

\* The bidding on a tender is over: it was closed, at least, or it has a
\* status that a late write gave it.
PastBidding(t) == t \in disturbed \/ tender[t] \notin {"NONE", "DRAFT", "PUBLISHED"}

Marks == {"maybeMarkAwarded", "markAwarded"}
Marking(t) == \E r \in Requests : request[r].at \in Marks /\ request[r].tender = t

\* What a request still knows of its bid or its tender.
TenderPromise(q) ==
  /\ q.at \in {"checkClosed", "evaluate"} => bid[q.bid] # "NONE"
  /\ q.at \in {"checkAwardable", "award"} => q.bid \in evaluated
  /\ q.at = "award" => PastBidding(TenderOfBid(q.bid))
  /\ q.at = "markAwarded" => AllAwarded(q.tender)

TenderPromises == \A r \in Requests : TenderPromise(request[r])

TendersAreTyped == TenderTypeOK /\ request \in [Requests -> TenderRequest]

EvaluationsStay == \A b \in Bids : bid[b] = "EVALUATED" => b \in evaluated

AwardsComeLate == \A l \in Lots : award[l] # None => PastBidding(TenderOf[l])

TendersAreMarked ==
  \A t \in Tenders :
    /\ tender[t] = "AWARDED" => AllAwarded(t)
    /\ tender[t] = "CLOSED" /\ AllAwarded(t) /\ t \notin disturbed => Marking(t)

TenderInv ==
  /\ TendersAreTyped
  /\ TenderPromises
  /\ EvaluationsStay
  /\ AwardsComeLate
  /\ AwardsAreEvaluated
  /\ TendersAreMarked

LEMMA BidFacts ==
  \A b \in Bids : b = <<b[1], b[2]>> /\ b[1] \in Lots /\ b[2] \in Suppliers
                  /\ TenderOfBid(b) \in Tenders
BY TenderingAssumption DEF Bids, TenderOfBid

LEMMA TenderRequestFields ==
  ASSUME NEW q \in TenderRequest
  PROVE  /\ q.at \in {"publish", "close", "cancel", "maybeMarkAwarded", "markAwarded"} =>
              q \in [at : {"publish", "close", "cancel", "maybeMarkAwarded", "markAwarded"},
                     tender : Tenders]
         /\ q.at \in {"submit", "checkClosed", "evaluate", "checkAwardable", "award"} =>
              q \in [at : {"submit", "checkClosed", "evaluate", "checkAwardable", "award"},
                     bid : Bids]
         /\ q.at = "evaluateLots" => q \in [at : {"evaluateLots"}, lots : SUBSET Lots]
BY DEF TenderRequest, Idle

LEMMA TenderInitInv == TenderInit /\ HandlersInit => TenderInv
<1> SUFFICES ASSUME TenderInit, HandlersInit PROVE TenderInv
  OBVIOUS
<1> USE DEF TenderInit, HandlersInit
<1>1. TendersAreTyped
  BY DEF TendersAreTyped, TenderTypeOK, TenderRequest
<1>2. TenderPromises /\ EvaluationsStay /\ AwardsComeLate
  BY DEF TenderPromises, TenderPromise, EvaluationsStay, AwardsComeLate, Idle
<1>3. AwardsAreEvaluated
  BY BidFacts, TenderingAssumption DEF AwardsAreEvaluated
<1>4. TendersAreMarked
  BY DEF TendersAreMarked
<1>5. QED
  BY <1>1, <1>2, <1>3, <1>4 DEF TenderInv

-----------------------------------------------------------------------------
(* The steps of Tendering.                                                 *)

\* Nothing of what a request may know is taken back.
TenderGrows ==
  /\ evaluated \subseteq evaluated'
  /\ \A b \in Bids : bid[b] # "NONE" => bid'[b] # "NONE"
  /\ \A l \in Lots : award[l] # None => award'[l] # None
  /\ \A t \in Tenders : PastBidding(t) => PastBidding(t)'

LEMMA TenderPromiseStays ==
  ASSUME TenderGrows, NEW q \in TenderRequest, TenderPromise(q)
  PROVE  TenderPromise(q)'
<1>1. q.at \in {"checkClosed", "evaluate", "checkAwardable", "award"} =>
        q.bid \in Bids /\ TenderOfBid(q.bid) \in Tenders
  BY TenderRequestFields, BidFacts
<1>2. (q.at = "award" => PastBidding(TenderOfBid(q.bid)))'
  <2> PICK t : t = TenderOfBid(q.bid)
    OBVIOUS
  <2>1. q.at = "award" => t \in Tenders /\ PastBidding(t)'
    BY <1>1 DEF TenderGrows, TenderPromise
  <2>2. QED
    BY <2>1 DEF PastBidding
<1>3. (q.at = "markAwarded" => AllAwarded(q.tender))'
  BY DEF TenderGrows, TenderPromise, AllAwarded, LotsOf
<1>4. QED
  BY <1>1, <1>2, <1>3 DEF TenderGrows, TenderPromise

\* Requests know what they know when one of them goes on, or none.
LEMMA TenderPromisesStay ==
  ASSUME TenderInv, TenderGrows,
         \/ request' = request
         \/ \E r \in Requests, q \in TenderRequest :
              request' = [request EXCEPT ![r] = q] /\ TenderPromise(q)'
  PROVE  TenderPromises' /\ request' \in [Requests -> TenderRequest]
<1> USE DEF TenderInv, TendersAreTyped, TenderPromises
<1>1. ASSUME NEW s \in Requests, request'[s] = request[s]
      PROVE  TenderPromise(request[s])'
  <2> PICK u : u = request[s]
    OBVIOUS
  <2>1. u \in TenderRequest /\ TenderPromise(u)
    OBVIOUS
  <2>2. TenderPromise(u)'
    BY <2>1, TenderPromiseStays
  <2>3. QED
    BY <1>1, <2>2
<1>2. CASE request' = request
  BY <1>1, <1>2
<1>3. ASSUME NEW r \in Requests, NEW q \in TenderRequest,
             request' = [request EXCEPT ![r] = q], TenderPromise(q)'
      PROVE  TenderPromises' /\ request' \in [Requests -> TenderRequest]
  <2>1. request' \in [Requests -> TenderRequest]
    BY <1>3
  <2>2. ASSUME NEW s \in Requests PROVE TenderPromise(request[s])'
    <3>1. CASE s = r
      <4>1. request'[s] = q
        BY <1>3, <3>1
      <4>2. QED
        BY <1>3, <4>1
    <3>2. CASE s # r
      <4>1. request'[s] = request[s]
        BY <1>3, <3>2
      <4>2. QED
        BY <1>1, <4>1
    <3>3. QED
      BY <3>1, <3>2
  <2>3. QED
    BY <2>1, <2>2
<1>4. QED
  BY <1>2, <1>3

\* A step that writes no bid and no award: it may give a tender a status, as
\* long as the tender stays past the bidding and is not left without anybody
\* who would mark it.
LEMMA TenderStatusStep ==
  ASSUME TenderInv, UNCHANGED <<bid, evaluated, award>>, TendersAreTyped', TenderPromises',
         disturbed \subseteq disturbed',
         \A t \in Tenders : PastBidding(t) => PastBidding(t)',
         \A t \in Tenders :
           tender'[t] # tender[t] =>
             /\ tender'[t] = "AWARDED" => AllAwarded(t)
             /\ tender'[t] = "CLOSED" => t \in disturbed' \/ ~ AllAwarded(t),
         \A t \in Tenders :
           tender'[t] = "CLOSED" /\ AllAwarded(t) /\ t \notin disturbed' /\ Marking(t) =>
             Marking(t)'
  PROVE  TenderInv'
<1> USE DEF TenderInv
<1>1. EvaluationsStay' /\ AwardsAreEvaluated'
  BY DEF EvaluationsStay, AwardsAreEvaluated
<1>2. AwardsComeLate'
  <2> SUFFICES ASSUME NEW l \in Lots, award[l] # None PROVE PastBidding(TenderOf[l])'
    BY DEF AwardsComeLate
  <2>1. TenderOf[l] \in Tenders /\ PastBidding(TenderOf[l])
    BY TenderingAssumption DEF AwardsComeLate
  <2>2. QED
    BY <2>1
<1>3. TendersAreMarked'
  <2> SUFFICES ASSUME NEW t \in Tenders
               PROVE  /\ tender'[t] = "AWARDED" => AllAwarded(t)'
                      /\ tender'[t] = "CLOSED" /\ AllAwarded(t)' /\ t \notin disturbed' => Marking(t)'
    BY DEF TendersAreMarked
  <2>1. AllAwarded(t)' <=> AllAwarded(t)
    BY DEF AllAwarded
  <2>2. QED
    BY <2>1 DEF TendersAreMarked
<1>4. QED
  BY <1>1, <1>2, <1>3

\* A request that marks no tender goes on without writing a row.
LEMMA TenderLocalStep ==
  ASSUME TenderInv, NEW r \in Requests, NEW q \in TenderRequest,
         request' = [request EXCEPT ![r] = q], UNCHANGED <<tender, bid, evaluated, award, disturbed>>,
         scanned' \subseteq {b \in Bids : bid[b] # "NONE"},
         TenderPromise(q),
         request[r].at \in Marks =>
           LET t == request[r].tender IN
           \/ q.at \in Marks /\ q.tender = t
           \/ tender[t] # "CLOSED"
           \/ ~ AllAwarded(t)
  PROVE  TenderInv'
<1>1. TenderGrows
  BY DEF TenderGrows, PastBidding
<1>2. TenderPromise(q)'
  BY <1>1, TenderPromiseStays
<1>3. TenderPromises' /\ request' \in [Requests -> TenderRequest]
  BY <1>1, <1>2, TenderPromisesStay
<1>4. TendersAreTyped'
  BY <1>3 DEF TenderInv, TendersAreTyped, TenderTypeOK
<1>5. request \in [Requests -> TenderRequest]
  BY DEF TenderInv, TendersAreTyped
<1>6. ASSUME NEW t \in Tenders, tender'[t] = "CLOSED", AllAwarded(t), Marking(t)
      PROVE  Marking(t)'
  <2>1. PICK s \in Requests : request[s].at \in Marks /\ request[s].tender = t
    BY <1>6 DEF Marking
  <2>2. request'[s].at \in Marks /\ request'[s].tender = t
    BY <1>5, <1>6, <2>1
  <2>3. QED
    BY <2>2 DEF Marking
<1>7. \A t \in Tenders : PastBidding(t) => PastBidding(t)'
  BY DEF PastBidding
<1>8. QED
  BY <1>3, <1>4, <1>6, <1>7, TenderStatusStep

LEMMA IdleMarksNothing == Idle \in TenderRequest /\ TenderPromise(Idle) /\ TenderPromise(Idle)'
BY DEF TenderRequest, TenderPromise, Idle

LEMMA TenderReadStep ==
  ASSUME TenderInv, NEW r \in Requests,
         \/ \E t \in Tenders : ReadTender(r, t)
         \/ \E b \in Bids : ReadForBid(r, b) \/ ReadForEvaluation(r, b) \/ ReadForAward(r, b)
  PROVE  TenderInv'
<1>1. ASSUME NEW q \in TenderRequest, Start(r, q), UNCHANGED tenderVars, TenderPromise(q)
      PROVE  TenderInv'
  <2>1. /\ request' = [request EXCEPT ![r] = q]
        /\ UNCHANGED <<tender, bid, evaluated, award, disturbed>> /\ scanned' = scanned
        /\ request[r].at = "idle"
    BY <1>1 DEF Start, tenderVars, Idle
  <2>2. scanned \subseteq {b \in Bids : bid[b] # "NONE"}
    BY DEF TenderInv, TendersAreTyped, TenderTypeOK
  <2>3. request[r].at \notin Marks
    BY <2>1 DEF Marks
  <2>4. QED
    BY <1>1, <2>1, <2>2, <2>3, TenderLocalStep
<1>2. ASSUME NEW t \in Tenders, ReadTender(r, t)
      PROVE  TenderInv'
  <2>1. PICK at \in {"publish", "close", "cancel"} :
          Start(r, [at |-> at, tender |-> t]) /\ UNCHANGED tenderVars
    BY <1>2 DEF ReadTender
  <2>2. [at |-> at, tender |-> t] \in TenderRequest /\ TenderPromise([at |-> at, tender |-> t])
    BY DEF TenderRequest, TenderPromise
  <2>3. QED
    BY <1>1, <2>1, <2>2
<1>3. ASSUME NEW b \in Bids, ReadForBid(r, b) \/ ReadForEvaluation(r, b) \/ ReadForAward(r, b)
      PROVE  TenderInv'
  <2>1. PICK at \in {"submit", "checkClosed", "checkAwardable"} :
          /\ Start(r, [at |-> at, bid |-> b]) /\ UNCHANGED tenderVars
          /\ at = "checkClosed" => bid[b] # "NONE"
          /\ at = "checkAwardable" => bid[b] = "EVALUATED"
    BY <1>3 DEF ReadForBid, ReadForEvaluation, ReadForAward
  <2>2. at = "checkAwardable" => b \in evaluated
    BY <2>1 DEF TenderInv, EvaluationsStay
  <2>3. [at |-> at, bid |-> b] \in TenderRequest /\ TenderPromise([at |-> at, bid |-> b])
    BY <2>1, <2>2 DEF TenderRequest, TenderPromise
  <2>4. QED
    BY <1>1, <2>1, <2>3
<1>4. QED
  BY <1>2, <1>3

LEMMA TenderCheckStep ==
  ASSUME TenderInv, NEW r \in Requests, CheckClosed(r) \/ CheckAwardable(r)
  PROVE  TenderInv'
<1> PICK u : u = request[r]
  OBVIOUS
<1>1. u \in TenderRequest /\ TenderPromise(u)
  BY DEF TenderInv, TendersAreTyped, TenderPromises
<1>2. PICK at \in {"evaluate", "award"} :
        /\ u.at = (IF at = "evaluate" THEN "checkClosed" ELSE "checkAwardable")
        /\ tender[TenderOfBid(u.bid)] = "CLOSED"
        /\ request' = [request EXCEPT ![r].at = at]
        /\ UNCHANGED tenderVars
  BY DEF CheckClosed, CheckAwardable, Go
<1> DEFINE q == [u EXCEPT !.at = at]
<1>3. u \in [at : {"submit", "checkClosed", "evaluate", "checkAwardable", "award"}, bid : Bids]
  BY <1>1, <1>2, TenderRequestFields
<1>4. q \in TenderRequest /\ q.at = at /\ q.bid = u.bid
  BY <1>3 DEF TenderRequest
<1>5. request' = [request EXCEPT ![r] = q]
  BY <1>2
<1> HIDE DEF q
<1>6. TenderPromise(q)
  BY <1>1, <1>2, <1>4 DEF TenderPromise, PastBidding
<1>7. u.at \notin Marks
  BY <1>2 DEF Marks
<1>8. UNCHANGED <<tender, bid, evaluated, award, disturbed>> /\ scanned' = scanned
  BY <1>2 DEF tenderVars
<1>9. scanned \subseteq {b \in Bids : bid[b] # "NONE"}
  BY DEF TenderInv, TendersAreTyped, TenderTypeOK
<1>10. QED
  BY <1>4, <1>5, <1>6, <1>7, <1>8, <1>9, TenderLocalStep

\* maybeMarkAwarded leaves a tender alone that has a lot to award.
LEMMA MaybeMarkAwardedStep ==
  ASSUME TenderInv, NEW r \in Requests, MaybeMarkAwarded(r)
  PROVE  TenderInv'
<1> PICK u : u = request[r]
  OBVIOUS
<1>1. u \in TenderRequest /\ u.at = "maybeMarkAwarded"
  BY DEF TenderInv, TendersAreTyped, MaybeMarkAwarded
<1>2. u \in [at : {"publish", "close", "cancel", "maybeMarkAwarded", "markAwarded"}, tender : Tenders]
  BY <1>1, TenderRequestFields
<1>3. UNCHANGED <<tender, bid, evaluated, award, disturbed>> /\ scanned' = scanned
  BY DEF MaybeMarkAwarded, tenderVars
<1>4. scanned \subseteq {b \in Bids : bid[b] # "NONE"}
  BY DEF TenderInv, TendersAreTyped, TenderTypeOK
<1>5. LotsOf(u.tender) # {}
  BY <1>2, TenderingAssumption DEF LotsOf
<1>6. CASE tender[u.tender] = "CLOSED" /\ AllAwarded(u.tender)
  <2> DEFINE q == [u EXCEPT !.at = "markAwarded"]
  <2>1. q \in TenderRequest /\ q.at = "markAwarded" /\ q.tender = u.tender
    BY <1>2 DEF TenderRequest
  <2>2. request' = [request EXCEPT ![r] = q]
    BY <1>5, <1>6 DEF MaybeMarkAwarded, Go
  <2> HIDE DEF q
  <2>3. TenderPromise(q) /\ q.at \in Marks
    BY <1>6, <2>1 DEF TenderPromise, Marks
  <2>4. QED
    BY <1>3, <1>4, <2>1, <2>2, <2>3, TenderLocalStep
<1>7. CASE ~ (tender[u.tender] = "CLOSED" /\ AllAwarded(u.tender))
  <2>1. request' = [request EXCEPT ![r] = Idle]
    BY <1>7 DEF MaybeMarkAwarded, Stop
  <2>2. QED
    BY <1>3, <1>4, <1>7, <2>1, IdleMarksNothing, TenderLocalStep
<1>8. QED
  BY <1>6, <1>7

LEMMA EvaluateLotStep ==
  ASSUME TenderInv, NEW r \in Requests, EvaluateLot(r)
  PROVE  TenderInv'
<1> PICK u : u = request[r]
  OBVIOUS
<1>1. u \in TenderRequest /\ u.at = "evaluateLots"
  BY DEF TenderInv, TendersAreTyped, EvaluateLot
<1>2. u \in [at : {"evaluateLots"}, lots : SUBSET Lots]
  BY <1>1, TenderRequestFields
<1>3. PICK l \in u.lots :
        /\ scanned' = scanned \cup {b \in Bids : b[1] = l /\ bid[b] # "NONE"}
        /\ IF u.lots = {l} THEN Stop(r)
           ELSE request' = [request EXCEPT ![r].lots = @ \ {l}]
  BY DEF EvaluateLot
<1>4. UNCHANGED <<tender, bid, evaluated, award, disturbed>>
  BY DEF EvaluateLot
<1>5. scanned' \subseteq {b \in Bids : bid[b] # "NONE"}
  BY <1>3 DEF TenderInv, TendersAreTyped, TenderTypeOK
<1>6. u.at \notin Marks
  BY <1>1 DEF Marks
<1>7. CASE u.lots = {l}
  BY <1>3, <1>4, <1>5, <1>6, <1>7, IdleMarksNothing, TenderLocalStep DEF Stop
<1>8. CASE u.lots # {l}
  <2> DEFINE q == [u EXCEPT !.lots = @ \ {l}]
  <2>1. q \in TenderRequest /\ q.at = "evaluateLots"
    BY <1>2 DEF TenderRequest
  <2>2. request' = [request EXCEPT ![r] = q]
    BY <1>3, <1>8
  <2> HIDE DEF q
  <2>3. TenderPromise(q)
    BY <2>1 DEF TenderPromise
  <2>4. QED
    BY <1>4, <1>5, <1>6, <2>1, <2>2, <2>3, TenderLocalStep
<1>9. QED
  BY <1>7, <1>8

\* The statuses a tender can have, and the step that gives it one.
Statuses == {"NONE", "DRAFT", "PUBLISHED", "CLOSED", "AWARDED", "CANCELLED"}

LEMMA SetTenderStep ==
  ASSUME TenderInv, NEW r \in Requests, NEW t \in Tenders, NEW to \in Statuses,
         tender' = [tender EXCEPT ![t] = to], UNCHANGED <<bid, evaluated, award, scanned>>,
         disturbed \subseteq disturbed', disturbed' \subseteq Tenders,
         PastBidding(t) => t \in disturbed' \/ to \notin {"NONE", "DRAFT", "PUBLISHED"},
         to = "AWARDED" => AllAwarded(t),
         to = "CLOSED" => t \in disturbed' \/ ~ AllAwarded(t),
         NEW q \in TenderRequest, request' = [request EXCEPT ![r] = q],
         q.at \in {"idle", "evaluateLots"},
         request[r].at \in Marks => request[r].tender = t /\ to # "CLOSED"
  PROVE  TenderInv'
<1>1. tender \in [Tenders -> Statuses]
  BY DEF TenderInv, TendersAreTyped, TenderTypeOK, Statuses
<1>2. tender'[t] = to /\ \A o \in Tenders \ {t} : tender'[o] = tender[o]
  BY <1>1
<1>3. \A o \in Tenders : PastBidding(o) => PastBidding(o)'
  BY <1>2 DEF PastBidding
<1>4. TenderGrows
  BY <1>3 DEF TenderGrows
<1>5. TenderPromise(q)'
  BY DEF TenderPromise
<1>6. TenderPromises' /\ request' \in [Requests -> TenderRequest]
  BY <1>4, <1>5, TenderPromisesStay
<1>7. tender' \in [Tenders -> Statuses]
  BY <1>1
<1>8. TendersAreTyped'
  BY <1>6, <1>7 DEF TenderInv, TendersAreTyped, TenderTypeOK, Statuses
<1>9. ASSUME NEW o \in Tenders, tender'[o] = "CLOSED", Marking(o)
      PROVE  Marking(o)'
  <2>1. PICK s \in Requests : request[s].at \in Marks /\ request[s].tender = o
    BY <1>9 DEF Marking
  <2>2. s # r
    BY <1>2, <1>9, <2>1
  <2>3. request'[s] = request[s]
    BY <2>2 DEF TenderInv, TendersAreTyped
  <2>4. QED
    BY <2>1, <2>3 DEF Marking
<1>10. \A o \in Tenders :
         tender'[o] # tender[o] =>
           /\ tender'[o] = "AWARDED" => AllAwarded(o)
           /\ tender'[o] = "CLOSED" => o \in disturbed' \/ ~ AllAwarded(o)
  BY <1>2
<1>11. QED
  BY <1>3, <1>6, <1>8, <1>9, <1>10, TenderStatusStep

LEMMA CreateTenderStep ==
  ASSUME TenderInv, NEW t \in Tenders, CreateTender(t)
  PROVE  TenderInv'
<1> USE DEF CreateTender
<1>1. tender \in [Tenders -> Statuses]
  BY DEF TenderInv, TendersAreTyped, TenderTypeOK, Statuses
<1>2. tender'[t] = "DRAFT" /\ \A o \in Tenders \ {t} : tender'[o] = tender[o]
  BY <1>1
<1>3. \A o \in Tenders : PastBidding(o) => PastBidding(o)'
  BY <1>2 DEF PastBidding
<1>4. TenderPromises' /\ request' \in [Requests -> TenderRequest]
  BY <1>3, TenderPromisesStay DEF TenderGrows
<1>5. tender' \in [Tenders -> Statuses]
  BY <1>1 DEF Statuses
<1>6. TendersAreTyped'
  BY <1>4, <1>5 DEF TenderInv, TendersAreTyped, TenderTypeOK, Statuses
<1>7. \A o \in Tenders : Marking(o) => Marking(o)'
  BY DEF Marking
<1>8. \A o \in Tenders :
        tender'[o] # tender[o] =>
          /\ tender'[o] = "AWARDED" => AllAwarded(o)
          /\ tender'[o] = "CLOSED" => o \in disturbed' \/ ~ AllAwarded(o)
  BY <1>2
<1>9. QED
  BY <1>3, <1>4, <1>6, <1>7, <1>8, TenderStatusStep

\* A tender that is published when it is closed has no award yet.
LEMMA PublishedIsUnawarded ==
  ASSUME TenderInv, NEW t \in Tenders, ~ PastBidding(t)
  PROVE  ~ AllAwarded(t)
<1>1. PICK l \in Lots : TenderOf[l] = t
  BY TenderingAssumption
<1>2. award[l] = None
  BY <1>1 DEF TenderInv, AwardsComeLate
<1>3. QED
  BY <1>1, <1>2 DEF AllAwarded, LotsOf

LEMMA TenderDecisionStep ==
  ASSUME TenderInv, NEW r \in Requests, Publish(r) \/ Close(r) \/ Cancel(r)
  PROVE  TenderInv'
<1> PICK u : u = request[r]
  OBVIOUS
<1> PICK t : t = u.tender
  OBVIOUS
<1>1. u \in TenderRequest /\ u.at \in {"publish", "close", "cancel"}
  BY DEF TenderInv, TendersAreTyped, Publish, Close, Cancel
<1>2. t \in Tenders
  <2>1. u \in [at : {"publish", "close", "cancel", "maybeMarkAwarded", "markAwarded"},
                tender : Tenders]
    BY <1>1, TenderRequestFields
  <2>2. QED
    BY <2>1
<1>3. u.at \notin Marks /\ disturbed \subseteq Tenders
  BY <1>1 DEF Marks, TenderInv, TendersAreTyped, TenderTypeOK
<1>4. CASE Publish(r)
  <2>1. /\ tender' = [tender EXCEPT ![t] = "PUBLISHED"]
        /\ disturbed' = IF tender[t] = "DRAFT" THEN disturbed ELSE disturbed \cup {t}
        /\ request' = [request EXCEPT ![r] = Idle]
        /\ UNCHANGED <<bid, evaluated, award, scanned>>
    BY <1>4 DEF Publish, SetStatus, Stop
  <2>2. disturbed \subseteq disturbed' /\ disturbed' \subseteq Tenders
    BY <1>2, <1>3, <2>1
  <2>3. PastBidding(t) => t \in disturbed'
    BY <2>1 DEF PastBidding
  <2>4. "PUBLISHED" \in Statuses /\ Idle.at = "idle"
    BY DEF Statuses, Idle
  <2>5. QED
    BY <1>2, <1>3, <2>1, <2>2, <2>3, <2>4, IdleMarksNothing, SetTenderStep
<1>5. CASE Close(r)
  <2> DEFINE q == [at |-> "evaluateLots", lots |-> LotsOf(t)]
  <2>1. /\ tender' = [tender EXCEPT ![t] = "CLOSED"]
        /\ disturbed' = IF tender[t] = "PUBLISHED" THEN disturbed ELSE disturbed \cup {t}
        /\ request' = [request EXCEPT ![r] = q]
        /\ UNCHANGED <<bid, evaluated, award, scanned>>
    BY <1>5 DEF Close, SetStatus
  <2>2. disturbed \subseteq disturbed' /\ disturbed' \subseteq Tenders
    BY <1>2, <1>3, <2>1
  <2>3. t \in disturbed' \/ ~ PastBidding(t)
    BY <2>1 DEF PastBidding
  <2>4. t \in disturbed' \/ ~ AllAwarded(t)
    BY <1>2, <2>3, PublishedIsUnawarded
  <2>5. q \in TenderRequest /\ q.at = "evaluateLots"
    BY DEF TenderRequest, LotsOf
  <2>6. "CLOSED" \in Statuses
    BY DEF Statuses
  <2> HIDE DEF q
  <2>7. QED
    BY <1>2, <1>3, <2>1, <2>2, <2>4, <2>5, <2>6, SetTenderStep
<1>6. CASE Cancel(r)
  <2>1. /\ tender' = [tender EXCEPT ![t] = "CANCELLED"]
        /\ disturbed' = disturbed
        /\ request' = [request EXCEPT ![r] = Idle]
        /\ UNCHANGED <<bid, evaluated, award, scanned>>
    BY <1>6 DEF Cancel, Stop
  <2>2. "CANCELLED" \in Statuses /\ Idle.at = "idle"
    BY DEF Statuses, Idle
  <2>3. QED
    BY <1>2, <1>3, <2>1, <2>2, IdleMarksNothing, SetTenderStep
<1>7. QED
  BY <1>4, <1>5, <1>6

LEMMA MarkAwardedStep ==
  ASSUME TenderInv, NEW r \in Requests, MarkAwarded(r)
  PROVE  TenderInv'
<1> PICK u : u = request[r]
  OBVIOUS
<1>1. u \in TenderRequest /\ TenderPromise(u) /\ u.at = "markAwarded"
  BY DEF TenderInv, TendersAreTyped, TenderPromises, MarkAwarded
<1>2. u \in [at : {"publish", "close", "cancel", "maybeMarkAwarded", "markAwarded"}, tender : Tenders]
  BY <1>1, TenderRequestFields
<1>3. AllAwarded(u.tender) /\ u.tender \in Tenders
  BY <1>1, <1>2 DEF TenderPromise
<1>4. /\ tender' = [tender EXCEPT ![u.tender] = "AWARDED"]
      /\ disturbed' = disturbed
      /\ request' = [request EXCEPT ![r] = Idle]
      /\ UNCHANGED <<bid, evaluated, award, scanned>>
  BY DEF MarkAwarded, Stop
<1>5. "AWARDED" \in Statuses /\ Idle.at = "idle" /\ disturbed \subseteq Tenders
  BY DEF Statuses, Idle, TenderInv, TendersAreTyped, TenderTypeOK
<1>6. QED
  BY <1>3, <1>4, <1>5, IdleMarksNothing, SetTenderStep

\* A request that ends while it marks a tender disturbs the tender.
LEMMA TenderFailStep ==
  ASSUME TenderInv, NEW r \in Requests, TenderFail(r)
  PROVE  TenderInv'
<1> PICK u : u = request[r]
  OBVIOUS
<1>1. /\ UNCHANGED <<tender, bid, evaluated, award, scanned>>
      /\ request' = [request EXCEPT ![r] = Idle]
      /\ disturbed' = IF u.at \in Marks THEN disturbed \cup {u.tender} ELSE disturbed
  BY DEF TenderFail, Abandon, Stop, Marks
<1>2. u \in TenderRequest /\ disturbed \subseteq Tenders
  BY DEF TenderInv, TendersAreTyped, TenderTypeOK
<1>3. u.at \in Marks => u.tender \in Tenders
  <2> SUFFICES ASSUME u.at \in Marks PROVE u.tender \in Tenders
    OBVIOUS
  <2>1. u \in [at : {"publish", "close", "cancel", "maybeMarkAwarded", "markAwarded"},
                tender : Tenders]
    BY <1>2, TenderRequestFields DEF Marks
  <2>2. QED
    BY <2>1
<1>4. disturbed \subseteq disturbed' /\ disturbed' \subseteq Tenders
  BY <1>1, <1>2, <1>3
<1>5. \A t \in Tenders : PastBidding(t) => PastBidding(t)'
  BY <1>1, <1>4 DEF PastBidding
<1>6. TenderPromises' /\ request' \in [Requests -> TenderRequest]
  BY <1>1, <1>5, IdleMarksNothing, TenderPromisesStay DEF TenderGrows
<1>7. TendersAreTyped'
  BY <1>1, <1>4, <1>6 DEF TenderInv, TendersAreTyped, TenderTypeOK
<1>8. ASSUME NEW t \in Tenders, t \notin disturbed', Marking(t)
      PROVE  Marking(t)'
  <2>1. PICK s \in Requests : request[s].at \in Marks /\ request[s].tender = t
    BY <1>8 DEF Marking
  <2>2. s # r
    BY <1>1, <1>8, <2>1
  <2>3. request'[s] = request[s]
    BY <1>1, <2>2 DEF TenderInv, TendersAreTyped
  <2>4. QED
    BY <2>1, <2>3 DEF Marking
<1>9. QED
  BY <1>1, <1>4, <1>5, <1>6, <1>7, <1>8, TenderStatusStep

\* A bid is submitted or evaluated, perhaps a second time or after the award.
LEMMA BidStep ==
  ASSUME TenderInv, NEW r \in Requests, SubmitBid(r) \/ EvaluateBid(r)
  PROVE  TenderInv'
<1> USE DEF TenderInv
<1> PICK u : u = request[r]
  OBVIOUS
<1> PICK b : b = u.bid
  OBVIOUS
<1>1. u \in TenderRequest /\ u.at \in {"submit", "evaluate"}
  BY DEF TendersAreTyped, SubmitBid, EvaluateBid
<1>2. b \in Bids
  <2>1. u \in [at : {"submit", "checkClosed", "evaluate", "checkAwardable", "award"}, bid : Bids]
    BY <1>1, TenderRequestFields
  <2>2. QED
    BY <2>1
<1>3. PICK to \in {"SUBMITTED", "EVALUATED"} :
        /\ bid' = [bid EXCEPT ![b] = to]
        /\ evaluated' = IF to = "EVALUATED" THEN evaluated \cup {b} ELSE evaluated
  BY DEF SubmitBid, EvaluateBid
<1>4. /\ UNCHANGED <<tender, award, scanned, disturbed>>
      /\ request' = [request EXCEPT ![r] = Idle]
  BY DEF SubmitBid, EvaluateBid, Stop
<1>5. bid \in [Bids -> {"NONE", "SUBMITTED", "EVALUATED", "AWARDED", "REJECTED"}]
  BY DEF TendersAreTyped, TenderTypeOK
<1>6. bid'[b] = to /\ \A c \in Bids \ {b} : bid'[c] = bid[c]
  BY <1>2, <1>3, <1>5
<1>7. TenderGrows
  BY <1>3, <1>4, <1>6 DEF TenderGrows, PastBidding
<1>8. TenderPromises' /\ request' \in [Requests -> TenderRequest]
  BY <1>4, <1>7, IdleMarksNothing, TenderPromisesStay
<1>9. TendersAreTyped'
  <2>1. bid' \in [Bids -> {"NONE", "SUBMITTED", "EVALUATED", "AWARDED", "REJECTED"}]
    BY <1>3, <1>5
  <2>2. evaluated' \cup scanned' \subseteq {c \in Bids : bid'[c] # "NONE"}
    BY <1>2, <1>3, <1>4, <1>6 DEF TendersAreTyped, TenderTypeOK
  <2>3. QED
    BY <1>4, <1>8, <2>1, <2>2 DEF TendersAreTyped, TenderTypeOK
<1>10. EvaluationsStay'
  BY <1>3, <1>6 DEF EvaluationsStay
<1>11. AwardsComeLate'
  BY <1>4 DEF AwardsComeLate, PastBidding
<1>12. AwardsAreEvaluated'
  BY <1>3, <1>4, <1>6 DEF AwardsAreEvaluated
<1>13. TendersAreMarked'
  <2>1. ASSUME NEW t \in Tenders, Marking(t)
        PROVE  Marking(t)'
    <3>1. PICK s \in Requests : request[s].at \in Marks /\ request[s].tender = t
      BY <2>1 DEF Marking
    <3>2. s # r
      BY <1>1, <3>1 DEF Marks
    <3>3. request'[s] = request[s]
      BY <1>4, <3>2 DEF TendersAreTyped
    <3>4. QED
      BY <3>1, <3>3 DEF Marking
  <2>2. \A t \in Tenders : AllAwarded(t)' <=> AllAwarded(t)
    BY <1>4 DEF AllAwarded
  <2>3. QED
    BY <1>4, <2>1, <2>2 DEF TendersAreMarked
<1>14. QED
  BY <1>8, <1>9, <1>10, <1>11, <1>12, <1>13

\* The award of a lot: the only one, of a bid that was evaluated, on a tender
\* that does not take bids any more.
LEMMA AwardStep ==
  ASSUME TenderInv, NEW r \in Requests, Award(r)
  PROVE  TenderInv'
<1> USE DEF TenderInv
<1> PICK u : u = request[r]
  OBVIOUS
<1> PICK b : b = u.bid
  OBVIOUS
<1> PICK l : l = b[1]
  OBVIOUS
<1> PICK t : t = TenderOfBid(b)
  OBVIOUS
<1>1. u \in TenderRequest /\ TenderPromise(u) /\ u.at = "award"
  BY DEF TendersAreTyped, TenderPromises, Award
<1>2. b \in Bids
  <2>1. u \in [at : {"submit", "checkClosed", "evaluate", "checkAwardable", "award"}, bid : Bids]
    BY <1>1, TenderRequestFields
  <2>2. QED
    BY <2>1
<1>3. b = <<l, b[2]>> /\ l \in Lots /\ b[2] \in Suppliers /\ t \in Tenders /\ t = TenderOf[l]
  BY <1>2, BidFacts DEF TenderOfBid
<1>4. b \in evaluated /\ PastBidding(t)
  BY <1>1 DEF TenderPromise
<1> DEFINE q == [at |-> "maybeMarkAwarded", tender |-> t]
<1>5. /\ award[l] = None
      /\ award' = [award EXCEPT ![l] = b[2]]
      /\ bid' = [c \in Bids |->
                   IF c = b THEN "AWARDED"
                   ELSE IF c[1] = l /\ bid[c] \in {"SUBMITTED", "EVALUATED"} THEN "REJECTED"
                   ELSE bid[c]]
      /\ request' = [request EXCEPT ![r] = q]
      /\ UNCHANGED <<tender, evaluated, scanned, disturbed>>
  BY DEF Award, AwardTx
<1>6. q \in TenderRequest /\ q.at \in Marks /\ q.tender = t /\ TenderPromise(q)'
  BY <1>3 DEF TenderRequest, Marks, TenderPromise
<1> HIDE DEF q
<1>7. /\ award \in [Lots -> Suppliers \cup {None}] /\ request \in [Requests -> TenderRequest]
      /\ bid \in [Bids -> {"NONE", "SUBMITTED", "EVALUATED", "AWARDED", "REJECTED"}]
  BY DEF TendersAreTyped, TenderTypeOK
<1>8. award'[l] = b[2] /\ \A k \in Lots \ {l} : award'[k] = award[k]
  BY <1>3, <1>5, <1>7
<1>9. \A c \in Bids :
        /\ c = b => bid'[c] = "AWARDED"
        /\ c # b => bid'[c] = bid[c] \/ (bid[c] # "NONE" /\ bid'[c] = "REJECTED")
  BY <1>5
<1>10. b[2] # None
  BY <1>3, TenderingAssumption
<1>11. TenderGrows
  BY <1>5, <1>8, <1>9, <1>10 DEF TenderGrows, PastBidding
<1>12. TenderPromises' /\ request' \in [Requests -> TenderRequest]
  BY <1>5, <1>6, <1>11, TenderPromisesStay
<1>13. TendersAreTyped'
  <2>1. bid' \in [Bids -> {"NONE", "SUBMITTED", "EVALUATED", "AWARDED", "REJECTED"}]
    BY <1>5, <1>7
  <2>2. award' \in [Lots -> Suppliers \cup {None}]
    BY <1>3, <1>5, <1>7
  <2>3. evaluated' \cup scanned' \subseteq {c \in Bids : bid'[c] # "NONE"}
    BY <1>5, <1>9 DEF TendersAreTyped, TenderTypeOK
  <2>4. QED
    BY <1>5, <1>12, <2>1, <2>2, <2>3 DEF TendersAreTyped, TenderTypeOK
<1>14. EvaluationsStay'
  BY <1>5, <1>9 DEF EvaluationsStay
<1>15. AwardsComeLate'
  <2> SUFFICES ASSUME NEW k \in Lots, award'[k] # None PROVE PastBidding(TenderOf[k])'
    BY DEF AwardsComeLate
  <2>1. PastBidding(TenderOf[k])
    BY <1>3, <1>4, <1>8 DEF AwardsComeLate
  <2>2. QED
    BY <1>5, <2>1 DEF PastBidding
<1>16. AwardsAreEvaluated'
  <2> SUFFICES ASSUME NEW c \in Bids
               PROVE  /\ award'[c[1]] = c[2] => c \in evaluated
                      /\ bid'[c] = "AWARDED" => award'[c[1]] = c[2]
    BY <1>5 DEF AwardsAreEvaluated
  <2>1. c = <<c[1], c[2]>> /\ c[1] \in Lots /\ c[2] \in Suppliers
    BY BidFacts
  <2>2. CASE c = b
    BY <1>4, <1>8, <2>2
  <2>3. CASE c # b /\ c[1] = l
    <3>1. award'[l] # c[2]
      BY <1>3, <1>8, <2>1, <2>3
    <3>2. bid[c] # "AWARDED"
      BY <1>5, <2>1, <2>3, TenderingAssumption DEF AwardsAreEvaluated
    <3>3. bid'[c] # "AWARDED"
      BY <1>9, <2>3, <3>2
    <3>4. QED
      BY <2>3, <3>1, <3>3
  <2>4. CASE c[1] # l
    <3>1. award'[c[1]] = award[c[1]] /\ c # b
      BY <1>3, <1>8, <2>1, <2>4
    <3>2. QED
      BY <1>9, <3>1 DEF AwardsAreEvaluated
  <2>5. QED
    BY <2>2, <2>3, <2>4
<1>17. TendersAreMarked'
  <2> SUFFICES ASSUME NEW o \in Tenders
               PROVE  /\ tender[o] = "AWARDED" => AllAwarded(o)'
                      /\ tender[o] = "CLOSED" /\ AllAwarded(o)' /\ o \notin disturbed => Marking(o)'
    BY <1>5 DEF TendersAreMarked
  <2>1. AllAwarded(o) => AllAwarded(o)'
    BY <1>11 DEF AllAwarded, LotsOf, TenderGrows
  <2>2. CASE o = t
    <3>1. request'[r] = q
      BY <1>5, <1>7
    <3>2. Marking(o)'
      BY <1>6, <2>2, <3>1 DEF Marking
    <3>3. QED
      BY <2>1, <3>2 DEF TendersAreMarked
  <2>3. CASE o # t
    <3>1. AllAwarded(o)' => AllAwarded(o)
      BY <1>3, <1>8, <2>3 DEF AllAwarded, LotsOf
    <3>2. Marking(o) => Marking(o)'
      <4> SUFFICES ASSUME Marking(o) PROVE Marking(o)'
        OBVIOUS
      <4>1. PICK s \in Requests : request[s].at \in Marks /\ request[s].tender = o
        BY DEF Marking
      <4>2. s # r
        BY <1>1, <4>1 DEF Marks
      <4>3. request'[s] = request[s]
        BY <1>5, <1>7, <4>2
      <4>4. QED
        BY <4>1, <4>3 DEF Marking
    <3>3. QED
      BY <2>1, <3>1, <3>2 DEF TendersAreMarked
  <2>4. QED
    BY <2>2, <2>3
<1>18. QED
  BY <1>12, <1>13, <1>14, <1>15, <1>16, <1>17

LEMMA TenderStutter ==
  ASSUME TenderInv, UNCHANGED <<tenderVars, request>>
  PROVE  TenderInv'
<1>1. UNCHANGED <<tender, bid, evaluated, award, scanned, disturbed, request>>
  BY DEF tenderVars
<1>2. \A t \in Tenders : PastBidding(t) => PastBidding(t)'
  BY <1>1 DEF PastBidding
<1>3. TenderPromises'
  BY <1>1, <1>2, TenderPromisesStay DEF TenderGrows
<1>4. TendersAreTyped'
  BY <1>1 DEF TenderInv, TendersAreTyped, TenderTypeOK
<1>5. \A t \in Tenders : Marking(t) => Marking(t)'
  BY <1>1 DEF Marking
<1>6. QED
  BY <1>1, <1>2, <1>3, <1>4, <1>5, TenderStatusStep

LEMMA TenderStep == TenderInv /\ [TenderNext]_<<tenderVars, request>> => TenderInv'
<1> SUFFICES ASSUME TenderInv, [TenderNext]_<<tenderVars, request>>
             PROVE  TenderInv'
  OBVIOUS
<1>1. CASE \E t \in Tenders : CreateTender(t)
  BY <1>1, CreateTenderStep
<1>2. ASSUME NEW r \in Requests,
             \/ \E t \in Tenders : ReadTender(r, t)
             \/ \E b \in Bids : ReadForBid(r, b) \/ ReadForEvaluation(r, b) \/ ReadForAward(r, b)
      PROVE  TenderInv'
  BY <1>2, TenderReadStep
<1>3. ASSUME NEW r \in Requests, Publish(r) \/ Close(r) \/ Cancel(r)
      PROVE  TenderInv'
  BY <1>3, TenderDecisionStep
<1>4. ASSUME NEW r \in Requests, EvaluateLot(r)
      PROVE  TenderInv'
  BY <1>4, EvaluateLotStep
<1>5. ASSUME NEW r \in Requests, SubmitBid(r) \/ EvaluateBid(r)
      PROVE  TenderInv'
  BY <1>5, BidStep
<1>6. ASSUME NEW r \in Requests, CheckClosed(r) \/ CheckAwardable(r)
      PROVE  TenderInv'
  BY <1>6, TenderCheckStep
<1>7. ASSUME NEW r \in Requests, Award(r)
      PROVE  TenderInv'
  BY <1>7, AwardStep
<1>8. ASSUME NEW r \in Requests, MaybeMarkAwarded(r)
      PROVE  TenderInv'
  BY <1>8, MaybeMarkAwardedStep
<1>9. ASSUME NEW r \in Requests, MarkAwarded(r)
      PROVE  TenderInv'
  BY <1>9, MarkAwardedStep
<1>10. ASSUME NEW r \in Requests, TenderFail(r)
       PROVE  TenderInv'
  BY <1>10, TenderFailStep
<1>11. CASE UNCHANGED <<tenderVars, request>>
  BY <1>11, TenderStutter
<1>12. QED
  BY <1>1, <1>2, <1>3, <1>4, <1>5, <1>6, <1>7, <1>8, <1>9, <1>10, <1>11 DEF TenderNext

\* Each lot goes to one bid, which was evaluated, and a tender whose lots are all
\* awarded says so, or is about to, or was disturbed (BidsService.award and
\* maybeMarkAwarded, for any number of requests on the same tender).
THEOREM TendersAreAwardedInOrder == TenderSpec => []AwardsAreOrderly
<1>1. TenderInv => AwardsAreOrderly
  BY DEF TenderInv, AwardsAreOrderly, CompleteTendersAreMarked, TendersAreMarked, Marking, Marks
<1>2. QED
  BY <1>1, TenderInitInv, TenderStep, PTL DEF TenderSpec

-----------------------------------------------------------------------------
(* Alerts on split purchases.                                              *)

\* More purchases, each of them small, are a split as well.
LEMMA SplitGrows ==
  ASSUME NEW S \in SUBSET Batch, NEW T \in SUBSET S, IsSplit(T),
         \A q \in S : Estimated[q] < Threshold
  PROVE  IsSplit(S)
<1>1. IsFiniteSet(Batch) /\ Estimated \in [Batch -> Nat] /\ Threshold \in Nat /\ MinCount \in Nat
  BY RiskAlertsAssumption
<1>2. IsFiniteSet(S) /\ IsFiniteSet(T)
  BY <1>1, FS_Subset
<1>3. Cardinality(S) \in Nat /\ Cardinality(T) \in Nat /\ Cardinality(T) <= Cardinality(S)
  BY <1>2, FS_Subset, FS_CardinalityType
<1>4. /\ Total(Estimated, T) \in Nat /\ Total(Estimated, S) \in Nat
      /\ Total(Estimated, T) <= Total(Estimated, S)
  BY <1>1, TotalMonotonic
<1>5. QED
  BY <1>1, <1>3, <1>4 DEF IsSplit, SumOfEstimates

\* A split among purchases was flagged: an alert is on one of them, or a request
\* that one of them set off is looking, or was stopped.
Flagged(S) ==
  \/ \E a \in Alerts : alert[a].on \in S
  \/ \E r \in Requests : Detecting(r) /\ request[r].on \in S
  \/ undetected

\* Every split among the approved purchases was, also one that is a part of
\* another: a late write can take a purchase out of a split.
SplitsWereFlagged == \A S \in SUBSET Approved : IsSplit(S) => Flagged(S)

RiskIsTyped == RiskTypeOK /\ request \in [Requests -> RiskRequest]

\* A review is of an alert that is there.
ReviewPromise(q) == q.at = "review" => alert[q.alert] # NoAlert

ReviewPromises == \A r \in Requests : ReviewPromise(request[r])

RiskInv == RiskIsTyped /\ ReviewPromises /\ SplitsWereFlagged

DetectingAt == {"evaluateOrganization", "findExisting", "raiseAlert"}

LEMMA RiskInitInv == RiskInit /\ HandlersInit => RiskInv
<1> SUFFICES ASSUME RiskInit, HandlersInit PROVE RiskInv
  OBVIOUS
<1> USE DEF RiskInit, HandlersInit
<1>1. RiskIsTyped
  BY DEF RiskIsTyped, RiskTypeOK, RiskRequest, AlertRow
<1>2. ReviewPromises
  BY DEF ReviewPromises, ReviewPromise, Idle
<1>3. SplitsWereFlagged
  <2>1. Approved = {}
    BY DEF Approved
  <2>2. ~ IsSplit({})
    <3>1. Cardinality({}) = 0
      BY FS_EmptySet
    <3>2. QED
      BY <3>1, RiskAlertsAssumption DEF IsSplit
  <2>3. QED
    BY <2>1, <2>2 DEF SplitsWereFlagged
<1>4. QED
  BY <1>1, <1>2, <1>3 DEF RiskInv

LEMMA RiskRequestFields ==
  ASSUME NEW q \in RiskRequest
  PROVE  /\ q.at \in {"submit", "findBlockingAlert", "approve", "reject", "evaluateOrganization"} =>
              q \in [at : {"submit", "findBlockingAlert", "approve", "reject", "evaluateOrganization"},
                     on : Batch]
         /\ q.at \in {"findExisting", "raiseAlert"} =>
              q \in [at : {"findExisting", "raiseAlert"}, on : Batch, names : SUBSET Batch]
         /\ q.at = "review" => q \in [at : {"review"}, alert : Alerts, resolved : BOOLEAN]
         /\ q.at \in DetectingAt => q.on \in Batch
BY DEF RiskRequest, Idle, DetectingAt

\* A request goes on, and no purchase is approved: if it was looking for splits
\* of a purchase it keeps looking, or every such split is known to be flagged.
LEMMA RiskRequestStep ==
  ASSUME RiskInv, NEW r \in Requests, NEW q \in RiskRequest,
         request' = [request EXCEPT ![r] = q],
         batch' \in [Batch -> {"DRAFT", "SUBMITTED", "APPROVED", "REJECTED"}],
         Approved' \subseteq Approved,
         alert' \in [Alerts -> AlertRow],
         \A a \in Alerts : alert[a] # NoAlert => alert'[a] # NoAlert /\ alert'[a].on = alert[a].on,
         undetected' \in BOOLEAN, undetected => undetected',
         ReviewPromise(q)',
         request[r].at \in DetectingAt =>
           \/ q.at \in DetectingAt /\ q.on = request[r].on
           \/ \A S \in SUBSET Approved :
                IsSplit(S) /\ request[r].on \in S =>
                  undetected' \/ \E a \in Alerts : alert'[a].on \in S
  PROVE  RiskInv'
<1> USE DEF RiskInv
<1>1. request \in [Requests -> RiskRequest] /\ alert \in [Alerts -> AlertRow]
  BY DEF RiskIsTyped, RiskTypeOK
<1>2. \A s \in Requests : request'[s] = IF s = r THEN q ELSE request[s]
  BY <1>1
<1>3. RiskIsTyped'
  <2>1. request' \in [Requests -> RiskRequest]
    BY <1>1
  <2>2. QED
    BY <2>1 DEF RiskIsTyped, RiskTypeOK
<1>4. ReviewPromises'
  <2> SUFFICES ASSUME NEW s \in Requests PROVE ReviewPromise(request[s])'
    BY DEF ReviewPromises
  <2>1. CASE s = r
    <3>1. request'[s] = q
      BY <1>2, <2>1
    <3>2. QED
      BY <3>1
  <2>2. CASE s # r
    <3> PICK u : u = request[s]
      OBVIOUS
    <3>1. u \in RiskRequest /\ ReviewPromise(u)
      BY <1>1 DEF ReviewPromises
    <3>2. u.at = "review" => u.alert \in Alerts
      BY <3>1, RiskRequestFields
    <3>3. ReviewPromise(u)'
      BY <3>1, <3>2 DEF ReviewPromise
    <3>4. QED
      BY <1>2, <2>2, <3>3
  <2>3. QED
    BY <2>1, <2>2
<1>5. ASSUME NEW S \in SUBSET Approved, IsSplit(S)
      PROVE  Flagged(S)'
  <2>1. CASE \E a \in Alerts : alert[a].on \in S
    <3>1. PICK a \in Alerts : alert[a].on \in S
      BY <2>1
    <3>2. alert[a].on # 0
      BY <3>1, RiskAlertsAssumption DEF Approved
    <3>3. alert'[a].on = alert[a].on
      BY <3>2 DEF NoAlert
    <3>4. QED
      BY <3>1, <3>3 DEF Flagged
  <2>2. CASE \E s \in Requests : Detecting(s) /\ request[s].on \in S
    <3>1. PICK s \in Requests : request[s].at \in DetectingAt /\ request[s].on \in S
      BY <2>2 DEF Detecting, DetectingAt
    <3>2. CASE request'[s].at \in DetectingAt /\ request'[s].on = request[s].on
      BY <3>1, <3>2 DEF Flagged, Detecting, DetectingAt
    <3>3. CASE ~ (request'[s].at \in DetectingAt /\ request'[s].on = request[s].on)
      <4>1. s = r
        BY <1>2, <3>1, <3>3
      <4>2. undetected' \/ \E a \in Alerts : alert'[a].on \in S
        BY <1>2, <1>5, <3>1, <3>3, <4>1
      <4>3. QED
        BY <4>2 DEF Flagged
    <3>4. QED
      BY <3>2, <3>3
  <2>3. CASE undetected
    BY <2>3 DEF Flagged
  <2>4. QED
    BY <1>5, <2>1, <2>2, <2>3 DEF SplitsWereFlagged, Flagged
<1>6. SplitsWereFlagged'
  <2> SUFFICES ASSUME NEW S \in SUBSET Approved', IsSplit(S) PROVE Flagged(S)'
    BY DEF SplitsWereFlagged
  <2>1. S \in SUBSET Approved
    OBVIOUS
  <2>2. QED
    BY <1>5, <2>1
<1>7. QED
  BY <1>3, <1>4, <1>6

\* A request goes on without writing a row.
LEMMA RiskLocalStep ==
  ASSUME RiskInv, NEW r \in Requests, NEW q \in RiskRequest,
         request' = [request EXCEPT ![r] = q], UNCHANGED riskVars, ReviewPromise(q),
         request[r].at \in DetectingAt =>
           \/ q.at \in DetectingAt /\ q.on = request[r].on
           \/ \E a \in Alerts : alert[a].on = request[r].on
  PROVE  RiskInv'
<1>1. UNCHANGED <<batch, alert, undetected>>
  BY DEF riskVars
<1>2. RiskTypeOK
  BY DEF RiskInv, RiskIsTyped
<1>3. Approved' = Approved
  BY <1>1 DEF Approved
<1>4. ReviewPromise(q)'
  BY <1>1 DEF ReviewPromise
<1>5. QED
  BY <1>1, <1>2, <1>3, <1>4, RiskRequestStep DEF RiskTypeOK

LEMMA IdleReviewsNothing == Idle \in RiskRequest /\ ReviewPromise(Idle) /\ ReviewPromise(Idle)'
BY DEF RiskRequest, ReviewPromise, Idle

LEMMA RiskReadStep ==
  ASSUME RiskInv, NEW r \in Requests,
         \/ \E p \in Batch : ReadPurchase(r, p)
         \/ \E a \in Alerts, resolved \in BOOLEAN : ReadForReview(r, a, resolved)
         \/ ScanOrganization(r)
  PROVE  RiskInv'
<1>1. ASSUME NEW q \in RiskRequest, Start(r, q), UNCHANGED riskVars, ReviewPromise(q)
      PROVE  RiskInv'
  <2>1. request' = [request EXCEPT ![r] = q] /\ request[r].at = "idle"
    BY <1>1 DEF Start, Idle
  <2>2. request[r].at \notin DetectingAt
    BY <2>1 DEF DetectingAt
  <2>3. QED
    BY <1>1, <2>1, <2>2, RiskLocalStep
<1>2. ASSUME NEW p \in Batch, ReadPurchase(r, p)
      PROVE  RiskInv'
  <2>1. PICK at \in {"submit", "findBlockingAlert", "reject"} :
          Start(r, [at |-> at, on |-> p]) /\ UNCHANGED riskVars
    BY <1>2 DEF ReadPurchase
  <2>2. [at |-> at, on |-> p] \in RiskRequest /\ ReviewPromise([at |-> at, on |-> p])
    BY DEF RiskRequest, ReviewPromise
  <2>3. QED
    BY <1>1, <2>1, <2>2
<1>3. ASSUME NEW a \in Alerts, NEW resolved \in BOOLEAN, ReadForReview(r, a, resolved)
      PROVE  RiskInv'
  <2> DEFINE q == [at |-> "review", alert |-> a, resolved |-> resolved]
  <2>1. alert[a] # NoAlert
    BY <1>3 DEF ReadForReview, Unresolved, NoAlert
  <2>2. q \in RiskRequest /\ ReviewPromise(q)
    BY <2>1 DEF RiskRequest, ReviewPromise
  <2>3. Start(r, q) /\ UNCHANGED riskVars
    BY <1>3 DEF ReadForReview
  <2> HIDE DEF q
  <2>4. QED
    BY <1>1, <2>2, <2>3
<1>4. ASSUME ScanOrganization(r)
      PROVE  RiskInv'
  <2> PICK p : p = (CHOOSE q \in Counted : \A o \in Counted : o <= q)
    OBVIOUS
  <2>1. p \in Counted
    <3>1. Counted \in SUBSET Nat /\ IsFiniteSet(Counted) /\ Counted # {}
      <4>1. Counted \in SUBSET Batch
        BY DEF Counted
      <4>2. QED
        BY <1>4, <4>1, RiskAlertsAssumption, FS_Subset DEF ScanOrganization
    <3>2. \E q \in Counted : \A o \in Counted : q >= o
      BY <3>1, LargestExists
    <3>3. \E q \in Counted : \A o \in Counted : o <= q
      BY <3>1, <3>2
    <3>4. QED
      BY <3>3
  <2>2. p \in Batch
    BY <2>1 DEF Counted
  <2> DEFINE q == [at |-> "evaluateOrganization", on |-> p]
  <2>3. q \in RiskRequest /\ ReviewPromise(q)
    BY <2>2 DEF RiskRequest, ReviewPromise
  <2>4. Start(r, q) /\ UNCHANGED riskVars
    BY <1>4 DEF ScanOrganization
  <2> HIDE DEF q
  <2>5. QED
    BY <1>1, <2>3, <2>4
<1>5. QED
  BY <1>2, <1>3, <1>4

LEMMA FindBlockingAlertStep ==
  ASSUME RiskInv, NEW r \in Requests, FindBlockingAlert(r)
  PROVE  RiskInv'
<1> PICK u : u = request[r]
  OBVIOUS
<1> DEFINE q == [u EXCEPT !.at = "approve"]
<1>1. /\ u.at = "findBlockingAlert" /\ UNCHANGED riskVars
      /\ request' = [request EXCEPT ![r] = q]
  BY DEF FindBlockingAlert, Go
<1>2. u \in [at : {"submit", "findBlockingAlert", "approve", "reject", "evaluateOrganization"},
             on : Batch]
  BY <1>1, RiskRequestFields DEF RiskInv, RiskIsTyped
<1>3. q \in RiskRequest /\ q.at = "approve"
  BY <1>2 DEF RiskRequest
<1>4. u.at \notin DetectingAt
  BY <1>1 DEF DetectingAt
<1> HIDE DEF q
<1>5. QED
  BY <1>1, <1>3, <1>4, RiskLocalStep DEF ReviewPromise

LEMMA FindExistingStep ==
  ASSUME RiskInv, NEW r \in Requests, FindExisting(r)
  PROVE  RiskInv'
<1> PICK u : u = request[r]
  OBVIOUS
<1>1. u.at = "findExisting" /\ UNCHANGED riskVars
  BY DEF FindExisting
<1>2. u \in [at : {"findExisting", "raiseAlert"}, on : Batch, names : SUBSET Batch]
  BY <1>1, RiskRequestFields DEF RiskInv, RiskIsTyped
<1>3. CASE \E a \in Alerts : Unresolved(a) /\ alert[a].on = u.on
  <2>1. request' = [request EXCEPT ![r] = Idle]
    BY <1>3 DEF FindExisting, Stop
  <2>2. QED
    BY <1>1, <1>3, <2>1, IdleReviewsNothing, RiskLocalStep
<1>4. CASE ~ \E a \in Alerts : Unresolved(a) /\ alert[a].on = u.on
  <2> DEFINE q == [u EXCEPT !.at = "raiseAlert"]
  <2>1. request' = [request EXCEPT ![r] = q]
    BY <1>4 DEF FindExisting, Go
  <2>2. q \in RiskRequest /\ q.at = "raiseAlert" /\ q.on = u.on
    BY <1>2 DEF RiskRequest
  <2> HIDE DEF q
  <2>3. ReviewPromise(q) /\ q.at \in DetectingAt
    BY <2>2 DEF ReviewPromise, DetectingAt
  <2>4. QED
    BY <1>1, <2>1, <2>2, <2>3, RiskLocalStep
<1>5. QED
  BY <1>3, <1>4

\* If the detector sees no split there is none, or a large purchase hides it.
LEMMA EvaluateOrganizationStep ==
  ASSUME RiskInv, NEW r \in Requests, EvaluateOrganization(r)
  PROVE  RiskInv'
<1> PICK u : u = request[r]
  OBVIOUS
<1>1. /\ u.at = "evaluateOrganization" /\ UNCHANGED <<batch, alert>>
      /\ RiskTypeOK
  BY DEF EvaluateOrganization, RiskInv, RiskIsTyped
<1>2. u \in [at : {"submit", "findBlockingAlert", "approve", "reject", "evaluateOrganization"},
             on : Batch]
  BY <1>1, RiskRequestFields DEF RiskInv, RiskIsTyped
<1>3. Approved' = Approved /\ Counted \in SUBSET Batch /\ Approved \subseteq Counted
  BY <1>1 DEF Approved, Counted
<1>4. CASE IsSplit(Counted)
  <2> PICK q : q = [at |-> "findExisting", on |-> u.on, names |-> Counted]
    OBVIOUS
  <2>1. request' = [request EXCEPT ![r] = q] /\ undetected' = undetected
    BY <1>4 DEF EvaluateOrganization
  <2>2. q \in RiskRequest /\ q.at = "findExisting" /\ q.on = u.on
    BY <1>2, <1>3 DEF RiskRequest
  <2>3. ReviewPromise(q)' /\ q.at \in DetectingAt
    BY <2>2 DEF ReviewPromise, DetectingAt
  <2>4. QED
    BY <1>1, <1>3, <2>1, <2>2, <2>3, RiskRequestStep DEF RiskTypeOK
<1>5. CASE ~ IsSplit(Counted)
  <2>1. /\ request' = [request EXCEPT ![r] = Idle]
        /\ undetected' = (undetected \/ IsSplit(BelowThreshold(Counted)))
    BY <1>5 DEF EvaluateOrganization, Stop
  <2>2. ASSUME NEW S \in SUBSET Approved, IsSplit(S)
        PROVE  IsSplit(BelowThreshold(Counted))
    <3>1. BelowThreshold(Counted) \in SUBSET Batch
      BY <1>3 DEF BelowThreshold
    <3>2. S \in SUBSET BelowThreshold(Counted)
      BY <1>3, <2>2 DEF BelowThreshold, IsSplit
    <3>3. \A q \in BelowThreshold(Counted) : Estimated[q] < Threshold
      BY DEF BelowThreshold
    <3>4. QED
      BY <2>2, <3>1, <3>2, <3>3, SplitGrows
  <2>3. \A S \in SUBSET Approved : IsSplit(S) => undetected'
    BY <2>1, <2>2
  <2>4. undetected' \in BOOLEAN /\ (undetected => undetected')
    BY <1>1, <2>1 DEF RiskTypeOK, IsSplit
  <2>5. QED
    BY <1>1, <1>3, <2>1, <2>3, <2>4, IdleReviewsNothing, RiskRequestStep DEF RiskTypeOK
<1>6. QED
  BY <1>4, <1>5

LEMMA RaiseAlertStep ==
  ASSUME RiskInv, NEW r \in Requests, RaiseAlert(r)
  PROVE  RiskInv'
<1> PICK u : u = request[r]
  OBVIOUS
<1>1. u.at = "raiseAlert" /\ UNCHANGED <<batch, undetected>> /\ RiskTypeOK
  BY DEF RaiseAlert, RiskInv, RiskIsTyped
<1>2. u \in [at : {"findExisting", "raiseAlert"}, on : Batch, names : SUBSET Batch]
  BY <1>1, RiskRequestFields DEF RiskInv, RiskIsTyped
<1> DEFINE row == [on |-> u.on, names |-> u.names, resolved |-> FALSE]
<1>3. PICK x \in Alerts : alert[x] = NoAlert /\ alert' = [alert EXCEPT ![x] = row]
  BY DEF RaiseAlert
<1>4. row \in AlertRow /\ row # NoAlert /\ row.on = u.on
  BY <1>2 DEF AlertRow, NoAlert
<1> HIDE DEF row
<1>5. alert \in [Alerts -> AlertRow]
  BY <1>1 DEF RiskTypeOK
<1>6. /\ alert' \in [Alerts -> AlertRow] /\ alert'[x] = row
      /\ \A a \in Alerts \ {x} : alert'[a] = alert[a]
  BY <1>3, <1>4, <1>5
<1>7. Approved' = Approved
  BY <1>1 DEF Approved
<1>8. request' = [request EXCEPT ![r] = Idle]
  BY DEF RaiseAlert, Stop
<1>9. \A a \in Alerts : alert[a] # NoAlert => alert'[a] # NoAlert /\ alert'[a].on = alert[a].on
  BY <1>3, <1>6
<1>10. alert'[x].on = u.on
  BY <1>4, <1>6
<1>11. QED
  BY <1>1, <1>6, <1>7, <1>8, <1>9, <1>10, IdleReviewsNothing, RiskRequestStep DEF RiskTypeOK

LEMMA ReviewStep ==
  ASSUME RiskInv, NEW r \in Requests, Review(r)
  PROVE  RiskInv'
<1> PICK u : u = request[r]
  OBVIOUS
<1>1. u.at = "review" /\ UNCHANGED <<batch, undetected>> /\ RiskTypeOK
  BY DEF Review, RiskInv, RiskIsTyped
<1>2. u \in [at : {"review"}, alert : Alerts, resolved : BOOLEAN] /\ alert[u.alert] # NoAlert
  BY <1>1, RiskRequestFields DEF RiskInv, RiskIsTyped, ReviewPromises, ReviewPromise
<1>3. alert \in [Alerts -> AlertRow]
  BY <1>1 DEF RiskTypeOK
<1> PICK x : x = u.alert
  OBVIOUS
<1> DEFINE row == [alert[x] EXCEPT !.resolved = u.resolved]
<1>4. x \in Alerts /\ u.resolved \in BOOLEAN
  BY <1>2
<1>5. alert[x] \in [on : Batch, names : SUBSET Batch, resolved : BOOLEAN]
  BY <1>2, <1>3, <1>4 DEF AlertRow
<1>6. /\ row \in [on : Batch, names : SUBSET Batch, resolved : BOOLEAN]
      /\ row.on = alert[x].on
  BY <1>4, <1>5
<1>7. row \in AlertRow /\ row # NoAlert
  <2>1. row.on # 0
    BY <1>6, RiskAlertsAssumption
  <2>2. QED
    BY <1>6, <2>1 DEF AlertRow, NoAlert
<1>8. alert' = [alert EXCEPT ![x] = row]
  BY DEF Review
<1> HIDE DEF row
<1>9. /\ alert' \in [Alerts -> AlertRow] /\ alert'[x] = row
      /\ \A a \in Alerts \ {x} : alert'[a] = alert[a]
  BY <1>3, <1>4, <1>7, <1>8
<1>10. \A a \in Alerts : alert[a] # NoAlert => alert'[a] # NoAlert /\ alert'[a].on = alert[a].on
  BY <1>6, <1>7, <1>9
<1>11. Approved' = Approved
  BY <1>1 DEF Approved
<1>12. request' = [request EXCEPT ![r] = Idle] /\ u.at \notin DetectingAt
  BY <1>1 DEF Review, Stop, DetectingAt
<1>13. QED
  BY <1>1, <1>9, <1>10, <1>11, <1>12, IdleReviewsNothing, RiskRequestStep DEF RiskTypeOK

LEMMA DecideInBatchStep ==
  ASSUME RiskInv, NEW r \in Requests, SubmitInBatch(r) \/ RejectInBatch(r)
  PROVE  RiskInv'
<1> PICK u : u = request[r]
  OBVIOUS
<1>1. PICK to \in {"SUBMITTED", "REJECTED"} :
        /\ batch' = [batch EXCEPT ![u.on] = to]
        /\ u.at \in {"submit", "reject"}
        /\ request' = [request EXCEPT ![r] = Idle]
        /\ UNCHANGED <<alert, undetected>>
  BY DEF SubmitInBatch, RejectInBatch, Stop
<1>2. RiskTypeOK
  BY DEF RiskInv, RiskIsTyped
<1>3. batch' \in [Batch -> {"DRAFT", "SUBMITTED", "APPROVED", "REJECTED"}]
  BY <1>1, <1>2 DEF RiskTypeOK
<1>4. Approved' \subseteq Approved
  BY <1>1, <1>2 DEF Approved, RiskTypeOK
<1>5. u.at \notin DetectingAt
  BY <1>1 DEF DetectingAt
<1>6. QED
  BY <1>1, <1>2, <1>3, <1>4, <1>5, IdleReviewsNothing, RiskRequestStep DEF RiskTypeOK

\* A split that comes to be with an approval is one the same request looks for.
LEMMA ApproveInBatchStep ==
  ASSUME RiskInv, NEW r \in Requests, ApproveInBatch(r)
  PROVE  RiskInv'
<1> USE DEF RiskInv
<1> PICK u : u = request[r]
  OBVIOUS
<1> DEFINE q == [u EXCEPT !.at = "evaluateOrganization"]
<1>1. /\ u.at = "approve"
      /\ batch' = [batch EXCEPT ![u.on] = "APPROVED"]
      /\ request' = [request EXCEPT ![r] = q]
      /\ UNCHANGED <<alert, undetected>>
  BY DEF ApproveInBatch, Go
<1>2. u \in [at : {"submit", "findBlockingAlert", "approve", "reject", "evaluateOrganization"},
             on : Batch]
  BY <1>1, RiskRequestFields DEF RiskIsTyped
<1>3. q \in RiskRequest /\ q.at = "evaluateOrganization" /\ q.on = u.on
  BY <1>2 DEF RiskRequest
<1> HIDE DEF q
<1>4. request \in [Requests -> RiskRequest] /\ RiskTypeOK
  BY DEF RiskIsTyped
<1>5. \A s \in Requests : request'[s] = IF s = r THEN q ELSE request[s]
  BY <1>1, <1>4
<1>6. RiskIsTyped'
  <2>1. request' \in [Requests -> RiskRequest]
    BY <1>1, <1>3, <1>4
  <2>2. batch' \in [Batch -> {"DRAFT", "SUBMITTED", "APPROVED", "REJECTED"}]
    BY <1>1, <1>4 DEF RiskTypeOK
  <2>3. QED
    BY <1>1, <1>4, <2>1, <2>2 DEF RiskIsTyped, RiskTypeOK
<1>7. ReviewPromises'
  BY <1>1, <1>3, <1>5 DEF ReviewPromises, ReviewPromise
<1>8. SplitsWereFlagged'
  <2> SUFFICES ASSUME NEW S \in SUBSET Approved', IsSplit(S) PROVE Flagged(S)'
    BY DEF SplitsWereFlagged
  <2>1. CASE u.on \in S
    <3>1. request'[r].at = "evaluateOrganization" /\ request'[r].on \in S
      BY <1>3, <1>5, <2>1
    <3>2. QED
      BY <3>1 DEF Flagged, Detecting
  <2>2. CASE u.on \notin S
    <3>1. S \in SUBSET Approved
      BY <1>1, <1>4, <2>2 DEF Approved, RiskTypeOK
    <3>2. Flagged(S)
      BY <3>1 DEF SplitsWereFlagged
    <3>3. \A s \in Requests : Detecting(s) => Detecting(s)' /\ request'[s] = request[s]
      BY <1>1, <1>5 DEF Detecting
    <3>4. QED
      BY <1>1, <3>2, <3>3 DEF Flagged
  <2>3. QED
    BY <2>1, <2>2
<1>9. QED
  BY <1>6, <1>7, <1>8

LEMMA RiskFailStep ==
  ASSUME RiskInv, NEW r \in Requests, RiskFail(r)
  PROVE  RiskInv'
<1>1. /\ UNCHANGED <<batch, alert>> /\ request' = [request EXCEPT ![r] = Idle]
      /\ undetected' = (undetected \/ request[r].at \in DetectingAt)
  BY DEF RiskFail, Abandon, Stop, Detecting, DetectingAt
<1>2. RiskTypeOK
  BY DEF RiskInv, RiskIsTyped
<1>3. Approved' = Approved
  BY <1>1 DEF Approved
<1>4. undetected' \in BOOLEAN /\ (undetected => undetected')
  BY <1>1, <1>2 DEF RiskTypeOK
<1>5. request[r].at \in DetectingAt => undetected'
  BY <1>1
<1>6. QED
  BY <1>1, <1>2, <1>3, <1>4, <1>5, IdleReviewsNothing, RiskRequestStep DEF RiskTypeOK

LEMMA RiskStutter ==
  ASSUME RiskInv, UNCHANGED <<riskVars, request>>
  PROVE  RiskInv'
<1>1. UNCHANGED <<batch, alert, undetected, request>>
  BY DEF riskVars
<1>2. RiskIsTyped' /\ ReviewPromises'
  BY <1>1 DEF RiskInv, RiskIsTyped, RiskTypeOK, ReviewPromises, ReviewPromise
<1>3. Approved' = Approved /\ \A S : Flagged(S)' <=> Flagged(S)
  BY <1>1 DEF Approved, Flagged, Detecting
<1>4. SplitsWereFlagged'
  BY <1>3 DEF RiskInv, SplitsWereFlagged
<1>5. QED
  BY <1>2, <1>4 DEF RiskInv

LEMMA RiskStep == RiskInv /\ [RiskNext]_<<riskVars, request>> => RiskInv'
<1> SUFFICES ASSUME RiskInv, [RiskNext]_<<riskVars, request>>
             PROVE  RiskInv'
  OBVIOUS
<1>1. ASSUME NEW r \in Requests,
             \/ \E p \in Batch : ReadPurchase(r, p)
             \/ \E a \in Alerts, resolved \in BOOLEAN : ReadForReview(r, a, resolved)
             \/ ScanOrganization(r)
      PROVE  RiskInv'
  BY <1>1, RiskReadStep
<1>2. ASSUME NEW r \in Requests, SubmitInBatch(r) \/ RejectInBatch(r)
      PROVE  RiskInv'
  BY <1>2, DecideInBatchStep
<1>3. ASSUME NEW r \in Requests, FindBlockingAlert(r)
      PROVE  RiskInv'
  BY <1>3, FindBlockingAlertStep
<1>4. ASSUME NEW r \in Requests, ApproveInBatch(r)
      PROVE  RiskInv'
  BY <1>4, ApproveInBatchStep
<1>5. ASSUME NEW r \in Requests, EvaluateOrganization(r)
      PROVE  RiskInv'
  BY <1>5, EvaluateOrganizationStep
<1>6. ASSUME NEW r \in Requests, FindExisting(r)
      PROVE  RiskInv'
  BY <1>6, FindExistingStep
<1>7. ASSUME NEW r \in Requests, RaiseAlert(r)
      PROVE  RiskInv'
  BY <1>7, RaiseAlertStep
<1>8. ASSUME NEW r \in Requests, Review(r)
      PROVE  RiskInv'
  BY <1>8, ReviewStep
<1>9. ASSUME NEW r \in Requests, RiskFail(r)
      PROVE  RiskInv'
  BY <1>9, RiskFailStep
<1>10. CASE UNCHANGED <<riskVars, request>>
  BY <1>10, RiskStutter
<1>11. QED
  BY <1>1, <1>2, <1>3, <1>4, <1>5, <1>6, <1>7, <1>8, <1>9, <1>10 DEF RiskNext

\* No step takes a purchase past the gate that an alert blocks: who looks for
\* the alert finds it, and who writes the approval was past it.
LEMMA GateHolds ==
  ASSUME RiskInv, RiskNext, NEW q \in Batch,
         \E a \in Alerts : Blocks(a, q), ~ PastGate(q), batch[q] # "APPROVED"
  PROVE  ~ PastGate(q)' /\ batch'[q] # "APPROVED"
<1>1. /\ request \in [Requests -> RiskRequest]
      /\ batch \in [Batch -> {"DRAFT", "SUBMITTED", "APPROVED", "REJECTED"}]
  BY DEF RiskInv, RiskIsTyped, RiskTypeOK
<1>2. \A s \in Requests : request[s].at = "approve" => request[s].on # q
  BY DEF PastGate
<1>3. ASSUME NEW r \in Requests, NEW t,
             request' = [request EXCEPT ![r] = t], t.at = "approve" => t.on # q
      PROVE  ~ PastGate(q)'
  <2>1. \A s \in Requests : request'[s] = IF s = r THEN t ELSE request[s]
    BY <1>1, <1>3
  <2>2. \A s \in Requests : request'[s].at = "approve" => request'[s].on # q
    BY <1>2, <1>3, <2>1
  <2>3. QED
    BY <2>2 DEF PastGate
<1>4. ASSUME NEW r \in Requests,
             \/ \E p \in Batch : ReadPurchase(r, p)
             \/ \E a \in Alerts, resolved \in BOOLEAN : ReadForReview(r, a, resolved)
             \/ ScanOrganization(r)
      PROVE  ~ PastGate(q)' /\ batch' = batch
  <2>1. PICK t : Start(r, t) /\ t.at # "approve" /\ UNCHANGED riskVars
    BY <1>4 DEF ReadPurchase, ReadForReview, ScanOrganization
  <2>2. QED
    BY <1>3, <2>1 DEF Start, riskVars
<1>5. ASSUME NEW r \in Requests,
             Stop(r)
      PROVE  ~ PastGate(q)'
  BY <1>3, <1>5 DEF Stop, Idle
<1>6. ASSUME NEW r \in Requests, SubmitInBatch(r) \/ RejectInBatch(r)
      PROVE  ~ PastGate(q)' /\ batch'[q] # "APPROVED"
  <2>1. PICK to, p :
          to \in {"SUBMITTED", "REJECTED"} /\ batch' = [batch EXCEPT ![p] = to] /\ Stop(r)
    BY <1>6 DEF SubmitInBatch, RejectInBatch
  <2>2. batch'[q] # "APPROVED"
    BY <1>1, <2>1
  <2>3. QED
    BY <1>5, <2>1, <2>2
<1>7. ASSUME NEW r \in Requests, FindBlockingAlert(r)
      PROVE  ~ PastGate(q)' /\ batch' = batch
  <2> PICK u : u = request[r]
    OBVIOUS
  <2>1. u.at = "findBlockingAlert" /\ u.on # q
    BY <1>7 DEF FindBlockingAlert
  <2>2. u \in [at : {"submit", "findBlockingAlert", "approve", "reject", "evaluateOrganization"},
               on : Batch]
    BY <1>1, <2>1, RiskRequestFields
  <2>3. [u EXCEPT !.at = "approve"].on # q
    BY <2>1, <2>2
  <2>4. request' = [request EXCEPT ![r] = [u EXCEPT !.at = "approve"]] /\ batch' = batch
    BY <1>7 DEF FindBlockingAlert, Go, riskVars
  <2>5. QED
    BY <1>3, <2>3, <2>4
<1>8. ASSUME NEW r \in Requests, ApproveInBatch(r)
      PROVE  ~ PastGate(q)' /\ batch'[q] # "APPROVED"
  <2> PICK u : u = request[r]
    OBVIOUS
  <2>1. u.at = "approve" /\ u.on # q
    BY <1>2, <1>8 DEF ApproveInBatch
  <2>2. u \in [at : {"submit", "findBlockingAlert", "approve", "reject", "evaluateOrganization"},
               on : Batch]
    BY <1>1, <2>1, RiskRequestFields
  <2>3. [u EXCEPT !.at = "evaluateOrganization"].at # "approve"
    BY <2>2
  <2>4. request' = [request EXCEPT ![r] = [u EXCEPT !.at = "evaluateOrganization"]]
    BY <1>8 DEF ApproveInBatch, Go
  <2>5. batch' = [batch EXCEPT ![u.on] = "APPROVED"]
    BY <1>8 DEF ApproveInBatch
  <2>6. batch'[q] = batch[q]
    BY <1>1, <2>1, <2>5
  <2>7. QED
    BY <1>3, <2>3, <2>4, <2>6
<1>9. ASSUME NEW r \in Requests, EvaluateOrganization(r)
      PROVE  ~ PastGate(q)' /\ batch' = batch
  <2>1. \/ Stop(r)
        \/ request' = [request EXCEPT ![r] =
                         [at |-> "findExisting", on |-> request[r].on, names |-> Counted]]
    BY <1>9 DEF EvaluateOrganization
  <2>2. batch' = batch
    BY <1>9 DEF EvaluateOrganization
  <2>3. QED
    BY <1>3, <1>5, <2>1, <2>2
<1>10. ASSUME NEW r \in Requests, FindExisting(r)
       PROVE  ~ PastGate(q)' /\ batch' = batch
  <2> PICK u : u = request[r]
    OBVIOUS
  <2>1. u.at = "findExisting" /\ batch' = batch
    BY <1>10 DEF FindExisting, riskVars
  <2>2. u \in [at : {"findExisting", "raiseAlert"}, on : Batch, names : SUBSET Batch]
    BY <1>1, <2>1, RiskRequestFields
  <2>3. [u EXCEPT !.at = "raiseAlert"].at # "approve"
    BY <2>2
  <2>4. \/ Stop(r)
        \/ request' = [request EXCEPT ![r] = [u EXCEPT !.at = "raiseAlert"]]
    BY <1>10 DEF FindExisting, Go
  <2>5. QED
    BY <1>3, <1>5, <2>1, <2>3, <2>4
<1>11. ASSUME NEW r \in Requests, RaiseAlert(r) \/ Review(r) \/ RiskFail(r)
       PROVE  ~ PastGate(q)' /\ batch' = batch
  BY <1>5, <1>11 DEF RaiseAlert, Review, RiskFail, Abandon
<1>12. QED
  BY <1>4, <1>6, <1>7, <1>8, <1>9, <1>10, <1>11 DEF RiskNext

\* Purchases that are approved and a split together were flagged, unless a
\* detection broke off or a large purchase hid them; and an alert that blocks a
\* purchase lets no request pass with it (SplitProcurementDetector and
\* RiskAlertsService.findBlockingAlert, with any number of purchases, alerts and
\* requests).
THEOREM SplitsDoNotPass == RiskSpec => SplitsAreStopped
<1>1. RiskInv => SplitsAreFlagged
  <2> SUFFICES ASSUME RiskInv, IsSplit(Approved)
               PROVE  Flagged(Approved)
    BY DEF SplitsAreFlagged, Flagged
  <2>1. QED
    BY DEF RiskInv, SplitsWereFlagged
<1>2. RiskInv /\ [RiskNext]_<<riskVars, request>> =>
        [\A q \in Batch :
           (\E a \in Alerts : Blocks(a, q)) /\ ~ PastGate(q) /\ batch[q] # "APPROVED" =>
             ~ PastGate(q)' /\ batch'[q] # "APPROVED"]_<<riskVars, request>>
  BY GateHolds
<1>3. QED
  BY <1>1, <1>2, RiskInitInv, RiskStep, PTL DEF RiskSpec, SplitsAreStopped, BlockedIsNotApproved

-----------------------------------------------------------------------------
(* The statistics on a lot's bids: facts about totals of any number of     *)
(* amounts, carried over to the folds of Detectors.                        *)

\* Before there is a lot there is no bid.
LEMMA DetectorsBeginTyped == DetectorsInit => DetectorsTypeOK
BY DetectorsAssumption DEF DetectorsInit, DetectorsTypeOK

LEMMA DetectorsStep == DetectorsTypeOK /\ [DetectorsNext]_detectorVars => DetectorsTypeOK'
<1> SUFFICES ASSUME DetectorsTypeOK, [DetectorsNext]_detectorVars PROVE DetectorsTypeOK'
  OBVIOUS
<1>1. ASSUME NEW e \in Estimates, NEW price \in References, OpenLot(e, price)
      PROVE  DetectorsTypeOK'
  BY <1>1 DEF OpenLot, DetectorsTypeOK
<1>2. ASSUME NEW a \in BidAmounts, PlaceBid(a) PROVE DetectorsTypeOK'
  <2>1. /\ Append(bids, a) \in Seq(BidAmounts)
        /\ Len(Append(bids, a)) = Len(bids) + 1
    BY AppendProperties DEF DetectorsTypeOK
  <2>2. Len(bids) \in Nat
    BY LenProperties DEF DetectorsTypeOK
  <2>3. QED
    BY <1>2, <2>1, <2>2, DetectorsAssumption DEF PlaceBid, DetectorsTypeOK
<1>3. CASE UNCHANGED detectorVars
  BY <1>3 DEF detectorVars, DetectorsTypeOK
<1>4. QED
  BY <1>1, <1>2, <1>3 DEF DetectorsNext

LEMMA DetectorsTypeCorrect == DetectorsSpec => []DetectorsTypeOK
BY DetectorsBeginTyped, DetectorsStep, PTL DEF DetectorsSpec

\* The bids of a lot, as a finite family of amounts.
LEMMA BidsAreAmounts ==
  ASSUME DetectorsTypeOK
  PROVE  /\ Len(bids) \in Nat
         /\ DOMAIN bids = 1 .. Len(bids)
         /\ IsFiniteSet(DOMAIN bids) /\ Cardinality(DOMAIN bids) = Len(bids)
         /\ bids \in [DOMAIN bids -> Nat]
         /\ \A i \in DOMAIN bids : bids[i] \in Nat \ {0}
<1>1. Len(bids) \in Nat /\ DOMAIN bids = 1 .. Len(bids) /\ bids \in [1 .. Len(bids) -> BidAmounts]
  BY LenProperties, SeqDef DEF DetectorsTypeOK
<1>2. IsFiniteSet(1 .. Len(bids)) /\ Cardinality(1 .. Len(bids)) = Len(bids)
  BY <1>1, FS_Interval
<1>3. QED
  BY <1>1, <1>2, DetectorsAssumption

\* A statistic on some of the bids, as totals.
LEMMA SumsAreTotals ==
  ASSUME DetectorsTypeOK, NEW I \in SUBSET DOMAIN bids
  PROVE  /\ SumOf(bids, I) = Total(bids, I) /\ Total(bids, I) \in Nat
         /\ Cardinality(I) \in Nat
         /\ SpreadOf(bids, I) =
              Cardinality(I) * Total(Squares(bids, DOMAIN bids), I) - Total(bids, I) * Total(bids, I)
         /\ SpreadOf(bids, I) \in Int
<1> DEFINE D == DOMAIN bids
           q == [i \in I |-> bids[i] * bids[i]]
<1>1. IsFiniteSet(D) /\ bids \in [D -> Nat] /\ IsFiniteSet(I) /\ Cardinality(I) \in Nat
  BY BidsAreAmounts, FS_Subset, FS_CardinalityType
<1>2. SumOf(bids, I) = Total(bids, I) /\ Total(bids, I) \in Nat
  <2>1. FoldFunctionOnSet(+, 0, bids, I) = Total(bids, I)
    <3> HIDE DEF D
    <3>1. I \in SUBSET D
      BY DEF D
    <3>2. QED
      BY <1>1, <3>1, FoldIsTotal
  <2>2. QED
    BY <1>1, <2>1, TotalMonotonic DEF SumOf
<1>3. SumOf(q, I) = Total(Squares(bids, D), I) /\ SumOf(q, I) \in Nat
  <2>1. q \in [I -> Nat] /\ I \in SUBSET I
    BY <1>1
  <2>2. FoldFunctionOnSet(+, 0, q, I) = Total(q, I) /\ Total(q, I) \in Nat
    <3> HIDE DEF q
    <3>1. QED
      BY <1>1, <2>1, FoldIsTotal, TotalType
  <2>3. Total(q, I) = Total(Squares(bids, D), I)
    BY DEF Total, Cents, Squares
  <2>4. QED
    BY <2>2, <2>3 DEF SumOf
<1>4. QED
  BY <1>1, <1>2, <1>3 DEF SpreadOf

\* The cheapest and the dearest of some bids.
LEMMA BidsHaveBounds ==
  ASSUME DetectorsTypeOK, NEW I \in SUBSET DOMAIN bids, I # {}
  PROVE  /\ Lowest(I) \in Nat \ {0} /\ Highest(I) \in Nat \ {0}
         /\ \E i \in I : bids[i] = Lowest(I)
         /\ \E i \in I : bids[i] = Highest(I)
         /\ \A i \in I : Lowest(I) <= bids[i] /\ bids[i] <= Highest(I)
<1> DEFINE A == {bids[i] : i \in I}
<1>1. \A i \in DOMAIN bids : bids[i] \in Nat \ {0}
  BY BidsAreAmounts
<1>2. A \in SUBSET Nat /\ IsFiniteSet(A) /\ A # {}
  <2>1. IsFiniteSet(I)
    BY BidsAreAmounts, FS_Subset
  <2>2. [i \in I |-> bids[i]] \in Surjection(I, A)
    BY DEF Surjection
  <2>3. IsFiniteSet(A)
    BY <2>1, <2>2, FS_Surjection
  <2>4. QED
    BY <1>1, <2>3
<1>3. \E a \in A : \A b \in A : a >= b
  <2> HIDE DEF A
  <2>1. QED
    BY <1>2, LargestExists
<1>4. \E a \in A : \A b \in A : a <= b
  <2> HIDE DEF A
  <2>1. QED
    BY <1>2, SmallestExists
<1>5. Highest(I) \in A /\ \A i \in I : Highest(I) >= bids[i]
  BY <1>3 DEF Highest
<1>6. Lowest(I) \in A /\ \A i \in I : Lowest(I) <= bids[i]
  BY <1>4 DEF Lowest
<1>7. QED
  BY <1>1, <1>5, <1>6

\* The spread of some bids, between what their range makes it at most and at least.
LEMMA SpreadIsBounded ==
  ASSUME DetectorsTypeOK, NEW I \in SUBSET DOMAIN bids, I # {}
  PROVE  LET n == Cardinality(I)
             s == SumOf(bids, I)
             range == Highest(I) - Lowest(I)
         IN  /\ n \in Nat /\ s \in Nat /\ SpreadOf(bids, I) \in Int
             /\ n * Lowest(I) <= s /\ s <= n * Highest(I)
             /\ SpreadOf(bids, I) <= (n * Highest(I) - s) * (s - n * Lowest(I))
             /\ n * (range * range) <= 2 * SpreadOf(bids, I)
<1> DEFINE D == DOMAIN bids
<1>1. IsFiniteSet(D) /\ bids \in [D -> Nat]
  BY BidsAreAmounts
<1>2. /\ Lowest(I) \in Nat /\ Highest(I) \in Nat
      /\ \A i \in I : Lowest(I) <= bids[i] /\ bids[i] <= Highest(I)
  BY BidsHaveBounds
<1>3. PICK x \in I, y \in I : bids[x] = Highest(I) /\ bids[y] = Lowest(I)
  BY BidsHaveBounds
<1>4. /\ SumOf(bids, I) = Total(bids, I) /\ Total(bids, I) \in Nat /\ Cardinality(I) \in Nat
      /\ SpreadOf(bids, I) = Cardinality(I) * Total(Squares(bids, D), I) - Total(bids, I) * Total(bids, I)
      /\ SpreadOf(bids, I) \in Int
  BY SumsAreTotals
<1> HIDE DEF D
<1>5. I \in SUBSET D
  BY DEF D
<1>6. Cardinality(I) * Lowest(I) <= Total(bids, I) /\ Total(bids, I) <= Cardinality(I) * Highest(I)
  BY <1>1, <1>2, <1>5, TotalBetween
<1>7. Cardinality(I) * Total(Squares(bids, D), I) - Total(bids, I) * Total(bids, I)
        <= (Cardinality(I) * Highest(I) - Total(bids, I)) * (Total(bids, I) - Cardinality(I) * Lowest(I))
  BY <1>1, <1>2, <1>5, SpreadAtMost
<1>8. Cardinality(I) * ((bids[x] - bids[y]) * (bids[x] - bids[y]))
        <= 2 * (Cardinality(I) * Total(Squares(bids, D), I) - Total(bids, I) * Total(bids, I))
  BY <1>1, <1>5, SpreadAtLeast
<1>9. QED
  BY <1>3, <1>4, <1>6, <1>7, <1>8

\* A bid b, farther from n amounts that lie from l to h and have the sum s than
\* one and a half times h - l, is three deviations from their mean.
LEMMA FarIsThreeDeviations ==
  ASSUME NEW n \in Nat, NEW s \in Nat, NEW l \in Nat, NEW h \in Nat, NEW b \in Nat, NEW v \in Int,
         n * l <= s, s <= n * h, v <= (n * h - s) * (s - n * l), h > l,
         \/ b > h /\ 2 * (b - h) >= 3 * (h - l)
         \/ 2 * (l - b) >= 3 * (h - l)
  PROVE  (n * b - s) * (n * b - s) >= 3 * 3 * v
<1> DEFINE up == n * h - s
           down == s - n * l
           far == n * b - s
<1>1. up \in Nat /\ down \in Nat /\ up + down = n * (h - l)
  OBVIOUS
<1>2. 4 * (up * down) <= (up + down) * (up + down)
  <2>1. (up - down) * (up - down) >= 0
    BY <1>1
  <2>2. (up - down) * (up - down) = (up + down) * (up + down) - 4 * (up * down)
    BY <1>1
  <2>3. QED
    BY <1>1, <2>1, <2>2
<1>3. \E d \in Nat : far * far = d * d /\ 2 * d >= 3 * (up + down)
  <2>1. CASE b > h /\ 2 * (b - h) >= 3 * (h - l)
    <3>1. far = n * (b - h) + up
      OBVIOUS
    <3>2. n * (2 * (b - h)) >= n * (3 * (h - l))
      BY <2>1
    <3>3. n * (b - h) >= 0
      BY <2>1
    <3>4. n * (b - h) \in Int
      OBVIOUS
    <3>5. far \in Nat /\ 2 * far >= 3 * (up + down)
      BY <1>1, <3>1, <3>2, <3>3, <3>4
    <3>6. QED
      BY <3>5
  <2>2. CASE 2 * (l - b) >= 3 * (h - l)
    <3>1. - far = n * (l - b) + down
      OBVIOUS
    <3>2. n * (2 * (l - b)) >= n * (3 * (h - l))
      BY <2>2
    <3>3. n * (l - b) >= 0
      BY <2>2
    <3>4. n * (l - b) \in Int
      OBVIOUS
    <3>5. - far \in Nat /\ 2 * (- far) >= 3 * (up + down)
      BY <1>1, <3>1, <3>2, <3>3, <3>4
    <3>6. (- far) * (- far) = far * far
      OBVIOUS
    <3>7. QED
      BY <3>5, <3>6
  <2>3. QED
    BY <2>1, <2>2
<1>4. PICK d \in Nat : far * far = d * d /\ 2 * d >= 3 * (up + down)
  BY <1>3
<1>5. far \in Int
  OBVIOUS
<1>6. v <= up * down
  OBVIOUS
<1> HIDE DEF up, down, far
<1>7. (2 * d) * (2 * d) >= (3 * (up + down)) * (3 * (up + down))
  BY <1>1, <1>4
<1>8. 4 * (d * d) >= 9 * ((up + down) * (up + down))
  BY <1>1, <1>7
<1>9. d * d >= 9 * (up * down)
  BY <1>1, <1>2, <1>8
<1>10. far * far >= 9 * v
  BY <1>1, <1>4, <1>5, <1>6, <1>9
<1>11. QED
  BY <1>10 DEF far

\* The z-score finds the bid that is far from all its peers (PriceAnomaly).
LEMMA ExtremeBids == DetectorsTypeOK => ExtremeBidsAreFlagged
<1> SUFFICES ASSUME DetectorsTypeOK, Len(bids) >= MinBidsForZScore, NEW i \in DOMAIN bids,
                    Highest(Others(i)) > Lowest(Others(i)),
                    2 * (IF bids[i] > Highest(Others(i)) THEN bids[i] - Highest(Others(i))
                         ELSE Lowest(Others(i)) - bids[i])
                      >= 3 * (Highest(Others(i)) - Lowest(Others(i)))
             PROVE  PriceAnomaly(i) = "HIGH"
  BY DEF ExtremeBidsAreFlagged
<1> DEFINE P == Others(i)
           n == Cardinality(P)
           s == SumOf(bids, P)
           l == Lowest(P)
           h == Highest(P)
           v == SpreadOf(bids, P)
<1>1. P \in SUBSET DOMAIN bids
  BY DEF Others
<1>2. n > 0 /\ P # {}
  <2>1. n = Len(bids) - 1
    BY BidsAreAmounts, FS_RemoveElement DEF Others
  <2>2. n > 0
    BY <2>1, BidsAreAmounts DEF MinBidsForZScore
  <2>3. IsFiniteSet(P)
    BY <1>1, BidsAreAmounts, FS_Subset
  <2>4. QED
    BY <2>2, <2>3, FS_EmptySet
<1>3. l \in Nat /\ h \in Nat /\ bids[i] \in Nat
  BY <1>1, <1>2, BidsHaveBounds, BidsAreAmounts
<1>4. /\ n \in Nat /\ s \in Nat /\ v \in Int
      /\ n * l <= s /\ s <= n * h
      /\ v <= (n * h - s) * (s - n * l)
      /\ n * ((h - l) * (h - l)) <= 2 * v
  BY <1>1, <1>2, SpreadIsBounded
<1>5. \/ bids[i] > h /\ 2 * (bids[i] - h) >= 3 * (h - l)
      \/ 2 * (l - bids[i]) >= 3 * (h - l)
  OBVIOUS
<1>6. h > l
  OBVIOUS
<1>7. P = PeersOf(i)
  BY DEF Others, PeersOf
<1> HIDE DEF P, n, s, l, h, v
<1>8. (n * bids[i] - s) * (n * bids[i] - s) >= 3 * 3 * v
  BY <1>3, <1>4, <1>5, <1>6, FarIsThreeDeviations
<1>9. v > 0
  <2>1. (h - l) * (h - l) > 0
    BY <1>3, <1>6
  <2>2. n * ((h - l) * (h - l)) > 0
    BY <1>2, <1>3, <1>4, <2>1
  <2>3. n * ((h - l) * (h - l)) \in Int
    BY <1>3, <1>4
  <2>4. QED
    BY <1>4, <2>2, <2>3
<1>10. IsOutlier(i, 3)
  BY <1>7, <1>8, <1>9 DEF IsOutlier, n, s, v
<1>11. QED
  BY <1>10 DEF PriceAnomaly

\* The coefficient of variation finds close bids, and only these (BidCollusion).
LEMMA Collusion == DetectorsTypeOK => CollusionIsCloseness
<1> DEFINE D == DOMAIN bids
           n == Len(bids)
           s == SumOf(bids, D)
           l == Lowest(D)
           h == Highest(D)
           v == SpreadOf(bids, D)
           range == 100 * (h - l)
<1> SUFFICES ASSUME DetectorsTypeOK, n >= MinBidsForCollusion
             PROVE  /\ range <= 3 * l => BidCollusion = "HIGH"
                    /\ BidCollusion = "HIGH" => range * range < 8 * n * (h * h)
  BY DEF CollusionIsCloseness
<1>1. n \in Nat /\ n = Cardinality(D) /\ n > 0 /\ D # {}
  <2>1. n \in Nat /\ D = 1 .. n /\ n = Cardinality(D)
    BY BidsAreAmounts
  <2>2. QED
    BY <2>1 DEF MinBidsForCollusion
<1>2. l \in Nat \ {0} /\ h \in Nat /\ l <= h
  <2>1. \E i \in D : l <= bids[i] /\ bids[i] <= h /\ bids[i] \in Nat
    BY <1>1, BidsHaveBounds, BidsAreAmounts
  <2>2. l \in Nat \ {0} /\ h \in Nat
    BY <1>1, BidsHaveBounds
  <2>3. QED
    BY <2>1, <2>2
<1>3. /\ s \in Nat /\ v \in Int
      /\ n * l <= s /\ s <= n * h
      /\ v <= (n * h - s) * (s - n * l)
      /\ n * ((h - l) * (h - l)) <= 2 * v
  BY <1>1, SpreadIsBounded
<1>4. BidCollusion = "HIGH" <=> 2500 * v < s * s
  <2>1. ~ (n < MinBidsForCollusion)
    BY <1>1 DEF MinBidsForCollusion
  <2>2. QED
    BY <2>1 DEF BidCollusion
<1> HIDE DEF D, n, s, l, h, v
<1>5. ASSUME range <= 3 * l PROVE 2500 * v < s * s
  <2> DEFINE up == n * h - s
             down == s - n * l
             r == n * (h - l)
             low == n * l
  <2>1. up \in Nat /\ down \in Nat /\ r \in Nat /\ low \in Nat /\ up + down = r /\ low <= s
    BY <1>1, <1>2, <1>3
  <2>2. low > 0
    BY <1>1, <1>2
  <2>3. 100 * r <= 3 * low
    <3>1. n * range <= n * (3 * l)
      BY <1>1, <1>2, <1>5
    <3>2. QED
      BY <1>1, <1>2, <3>1
  <2>4. v <= up * down
    BY <1>3
  <2> HIDE DEF up, down, r, low
  <2>5. 4 * (up * down) <= r * r
    <3>1. (up - down) * (up - down) >= 0
      BY <2>1
    <3>2. (up - down) * (up - down) = (up + down) * (up + down) - 4 * (up * down)
      BY <2>1
    <3>3. QED
      BY <2>1, <3>1, <3>2
  <2>6. (100 * r) * (100 * r) <= (3 * low) * (3 * low)
    BY <2>1, <2>3
  <2>7. low * low <= s * s /\ low * low > 0
    BY <1>3, <2>1, <2>2
  <2>8. 10000 * v <= 2500 * (r * r)
    BY <1>3, <2>1, <2>4, <2>5
  <2>9. 10000 * (r * r) <= 9 * (low * low)
    BY <2>1, <2>6
  <2>10. r * r \in Int /\ low * low \in Int /\ s * s \in Int
    BY <1>3, <2>1
  <2>11. QED
    BY <1>3, <2>7, <2>8, <2>9, <2>10
<1>6. ASSUME 2500 * v < s * s PROVE range * range < 8 * n * (h * h)
  <2> DEFINE gap == (h - l) * (h - l)
  <2>1. gap \in Int /\ n * gap \in Int /\ s * s \in Int /\ h * h \in Nat
    BY <1>1, <1>2, <1>3
  <2>2. s * s <= (n * h) * (n * h)
    BY <1>1, <1>2, <1>3
  <2>3. (n * h) * (n * h) = n * (n * (h * h))
    BY <1>1, <1>2
  <2>4. range * range = 10000 * gap
    BY <1>2
  <2> HIDE DEF gap
  <2>5. n * gap <= 2 * v
    BY <1>3 DEF gap
  <2>6. 1250 * (n * gap) < s * s
    BY <1>3, <1>6, <2>1, <2>5
  <2>7. n * (1250 * gap) < n * (n * (h * h))
    <3>1. n * (1250 * gap) = 1250 * (n * gap)
      BY <1>1, <2>1
    <3>2. n * (n * (h * h)) \in Int
      BY <1>1, <2>1
    <3>3. QED
      BY <2>1, <2>2, <2>3, <2>6, <3>1, <3>2
  <2>8. 1250 * gap < n * (h * h)
    BY <1>1, <2>1, <2>7
  <2>9. QED
    BY <1>1, <2>1, <2>4, <2>8
<1>7. QED
  BY <1>4, <1>5, <1>6

\* The market reference finds an estimate that the bids followed (MarketDeviation).
LEMMA RiggedEstimate == DetectorsTypeOK => RiggedEstimateIsSeen
<1> SUFFICES ASSUME DetectorsTypeOK, bids # <<>>, reference > 0,
                    \A i \in DOMAIN bids : /\ 2 * bids[i] >= 3 * reference
                                            /\ 10 * bids[i] <= 11 * estimate
             PROVE  MarketDeviation # "NONE"
  BY DEF RiggedEstimateIsSeen
<1>1. reference \in Nat /\ estimate \in Nat
  BY DetectorsAssumption DEF DetectorsTypeOK
<1>2. 1 \in DOMAIN bids
  <2>1. Len(bids) # 0
    BY EmptySeq DEF DetectorsTypeOK
  <2>2. QED
    BY <2>1, BidsAreAmounts
<1>3. bids[1] \in Nat
  BY <1>2, BidsAreAmounts
<1>4. 100 * (estimate - reference) > 30 * reference
  BY <1>1, <1>2, <1>3
<1>5. Magnitude(estimate - reference) = estimate - reference
  BY <1>1, <1>4 DEF Magnitude
<1>6. QED
  BY <1>1, <1>4, <1>5 DEF MarketDeviation

\* An extreme bid is a HIGH price anomaly, close bids are HIGH collusion and
\* nothing else is, and the market shows a rigged estimate (the detectors of
\* price anomalies, bid collusion and market deviations), in every list of bids.
THEOREM AnomaliesSeen == DetectorsSpec => []AnomaliesAreSeen
<1>1. DetectorsTypeOK => AnomaliesAreSeen
  BY ExtremeBids, Collusion, RiggedEstimate DEF AnomaliesAreSeen
<1>2. QED
  BY <1>1, DetectorsTypeCorrect, PTL

-----------------------------------------------------------------------------
(* The four together: the one that runs keeps its invariant, the others    *)
(* are as they were at the beginning.                                      *)

SourcingInv ==
  /\ part \in Parts
  /\ IF part = "procurement" THEN ProcurementInv ELSE ProcurementInit
  /\ IF part = "tendering" THEN TenderInv ELSE TenderInit
  /\ IF part = "risk alerts" THEN RiskInv ELSE RiskInit
  /\ DetectorsTypeOK
  /\ part = "detectors" => HandlersInit

\* The rows at the beginning are of their types.
LEMMA SourcingBeginsTyped ==
  /\ ProcurementInit => ProcurementTypeOK
  /\ TenderInit => TenderTypeOK
  /\ RiskInit => RiskTypeOK
  /\ DetectorsInit => DetectorsTypeOK
<1>1. ProcurementInit => ProcurementTypeOK
  BY LedgerAssumption
  DEF ProcurementInit, ProcurementTypeOK, LedgerInit, LedgerTypeOK, NoRow, CommitmentRow,
      NoExpenditure, PurchaseRow, NoPurchase
<1>2. TenderInit => TenderTypeOK
  BY DEF TenderInit, TenderTypeOK
<1>3. RiskInit => RiskTypeOK
  BY DEF RiskInit, RiskTypeOK, AlertRow
<1>4. DetectorsInit => DetectorsTypeOK
  BY DetectorsBeginTyped
<1>5. QED
  BY <1>1, <1>2, <1>3, <1>4

LEMMA SourcingBegins == SourcingInit => SourcingInv
BY ProcurementInitInv, TenderInitInv, RiskInitInv, SourcingBeginsTyped
DEF SourcingInit, SourcingInv

LEMMA SourcingStep == SourcingInv /\ [SourcingNext]_sourcingVars => SourcingInv'
<1> SUFFICES ASSUME SourcingInv, [SourcingNext]_sourcingVars PROVE SourcingInv'
  OBVIOUS
<1>1. part \in Parts /\ part' = part
  BY DEF SourcingInv, SourcingNext, sourcingVars
<1>2. ASSUME ProcurementInit, UNCHANGED purchaseVars PROVE ProcurementInit'
  BY <1>2 DEF ProcurementInit, LedgerInit, purchaseVars, ledgerVars, history
<1>3. ASSUME TenderInit, UNCHANGED tenderVars PROVE TenderInit'
  BY <1>3 DEF TenderInit, tenderVars
<1>4. ASSUME RiskInit, UNCHANGED riskVars PROVE RiskInit'
  BY <1>4 DEF RiskInit, riskVars
<1>5. DetectorsTypeOK /\ [DetectorsNext]_detectorVars => DetectorsTypeOK'
  BY DetectorsStep
<1>6. CASE part = "procurement"
  <2>1. [ProcurementNext]_<<purchaseVars, request>> /\ UNCHANGED <<tenderVars, riskVars, detectorVars>>
    BY <1>6 DEF SourcingNext, sourcingVars
  <2>2. QED
    BY <1>1, <1>3, <1>4, <1>5, <1>6, <2>1, ProcurementStep DEF SourcingInv
<1>7. CASE part = "tendering"
  <2>1. [TenderNext]_<<tenderVars, request>> /\ UNCHANGED <<purchaseVars, riskVars, detectorVars>>
    BY <1>7 DEF SourcingNext, sourcingVars
  <2>2. QED
    BY <1>1, <1>2, <1>4, <1>5, <1>7, <2>1, TenderStep DEF SourcingInv
<1>8. CASE part = "risk alerts"
  <2>1. [RiskNext]_<<riskVars, request>> /\ UNCHANGED <<purchaseVars, tenderVars, detectorVars>>
    BY <1>8 DEF SourcingNext, sourcingVars
  <2>2. QED
    BY <1>1, <1>2, <1>3, <1>5, <1>8, <2>1, RiskStep DEF SourcingInv
<1>9. CASE part = "detectors"
  <2>1. [DetectorsNext]_detectorVars /\ UNCHANGED <<purchaseVars, tenderVars, riskVars, request>>
    BY <1>9 DEF SourcingNext, sourcingVars
  <2>2. HandlersInit'
    BY <1>9, <2>1 DEF SourcingInv, HandlersInit
  <2>3. QED
    BY <1>1, <1>2, <1>3, <1>4, <1>5, <1>9, <2>1, <2>2 DEF SourcingInv
<1>10. QED
  BY <1>1, <1>6, <1>7, <1>8, <1>9 DEF Parts

\* Every purchase, commitment, tender, bid, award and alert, every lot's bids
\* and every request for them is of its type, whichever of the four runs.
THEOREM SourcingIsTyped == SourcingSpec => []SourcingTypeOK
<1>1. SourcingInv => SourcingTypeOK
  <2> SUFFICES ASSUME SourcingInv PROVE SourcingTypeOK
    OBVIOUS
  <2>1. ProcurementInv => ProcurementTypeOK /\ request \in [Requests -> PurchaseRequest]
    BY DEF ProcurementInv, BooksAreKept, PurchasesAreTyped, PurchasesAreBacked, PurchaseIsBacked,
           Backs, ProcurementTypeOK
  <2>2. TenderInv => TenderTypeOK /\ request \in [Requests -> TenderRequest]
    BY DEF TenderInv, TendersAreTyped
  <2>3. RiskInv => RiskTypeOK /\ request \in [Requests -> RiskRequest]
    BY DEF RiskInv, RiskIsTyped
  <2>4. HandlersInit => request \in [Requests -> PurchaseRequest]
    BY DEF HandlersInit, PurchaseRequest
  <2>5. ProcurementTypeOK /\ TenderTypeOK /\ RiskTypeOK /\ DetectorsTypeOK
    BY <2>1, <2>2, <2>3, SourcingBeginsTyped DEF SourcingInv
  <2>6. request \in [Requests -> PurchaseRequest \cup TenderRequest \cup RiskRequest]
    <3>1. \/ request \in [Requests -> PurchaseRequest]
          \/ request \in [Requests -> TenderRequest]
          \/ request \in [Requests -> RiskRequest]
      BY <2>1, <2>2, <2>3, <2>4 DEF SourcingInv, Parts
    <3>2. QED
      BY <3>1
  <2>7. QED
    BY <2>5, <2>6 DEF SourcingInv, SourcingTypeOK
<1>2. QED
  BY <1>1, SourcingBegins, SourcingStep, PTL DEF SourcingSpec

=============================================================================
