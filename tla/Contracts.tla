----------------------------- MODULE Contracts -----------------------------
(***************************************************************************)
(* ContractsService, PurchaseOrdersService, InvoicesService and            *)
(* DuplicatePaymentDetector: an award gets a contract, an active contract  *)
(* purchase orders, an issued order invoices; an invoice is verified or    *)
(* rejected.                                                               *)
(*                                                                         *)
(* InvoicesService.create sums what was invoiced against the order so far  *)
(* and inserts its invoice later, with no lock on the order; the detector  *)
(* runs after the insert.  Every status is checked on a read and written   *)
(* by id.  Payment of a verified invoice is the subject of Payments; all   *)
(* invoices are of one supplier and in the detector's window.              *)
(***************************************************************************)
EXTENDS Handlers, Integers, FiniteSets, FiniteSetsExt, Totals

CONSTANTS
  Awards,         \* awards, each of which can have a contract
  Orders,         \* ids purchase_orders rows can have
  AwardOf,        \* the award whose contract an order is raised on
  Authorized,     \* purchase_orders.amount
  Invoices,       \* ids invoices rows can have
  OrderOf,        \* the order an invoice is against
  Billed          \* invoices.amount

ASSUME ContractsAssumption ==
  /\ IsFiniteSet(Invoices) /\ Invoices # {}
  /\ IsFiniteSet(Requests) /\ Requests # {}
  /\ AwardOf \in [Orders -> Awards]
  /\ Authorized \in [Orders -> Nat]
  /\ OrderOf \in [Invoices -> Orders]
  /\ Billed \in [Invoices -> Nat]

VARIABLES
  contract,       \* the contract of each award: its status and whether it was signed
  order,          \* the purchase orders: their status and whether they were issued
  invoice,        \* invoices.status
  requested,      \* invoices that have a payment_requests row
  revived,        \* invoices that were verified after they were rejected
  flagged,        \* invoices with a DUPLICATE_PAYMENT alert
  unchecked       \* invoices whose check for duplicates did not end

contractVars == <<contract, order, invoice, requested, revived, flagged, unchecked>>

ContractRequest ==
  {Idle} \cup
  [at : {"createContract", "activate", "complete", "terminate"}, award : Awards] \cup
  [at : {"createOrder", "issue", "cancelOrder"}, order : Orders] \cup
  [at : {"sumInvoiced", "createInvoice", "evaluateInvoice", "raiseAlert", "verify", "reject"},
   invoice : Invoices]

\* What has been issued has a contract that was signed, and what is invoiced
\* was issued.
ContractsTypeOK ==
  /\ contract \in [Awards -> [status : {"NONE", "DRAFT", "ACTIVE", "COMPLETED", "TERMINATED"},
                              signed : BOOLEAN]]
  /\ order \in [Orders -> [status : {"NONE", "DRAFT", "ISSUED", "CANCELLED"}, issued : BOOLEAN]]
  /\ invoice \in [Invoices -> {"NONE", "SUBMITTED", "VERIFIED", "REJECTED"}]
  /\ \A o \in Orders : order[o].status # "NONE" => contract[AwardOf[o]].signed
  /\ \A i \in Invoices : invoice[i] # "NONE" => order[OrderOf[i]].issued
  /\ requested \cup flagged \cup unchecked \subseteq {i \in Invoices : invoice[i] # "NONE"}
  /\ revived \subseteq requested

ContractsInit ==
  /\ contract = [a \in Awards |-> [status |-> "NONE", signed |-> FALSE]]
  /\ order = [o \in Orders |-> [status |-> "NONE", issued |-> FALSE]]
  /\ invoice = [i \in Invoices |-> "NONE"]
  /\ requested = {}
  /\ revived = {}
  /\ flagged = {}
  /\ unchecked = {}

-----------------------------------------------------------------------------
(* ContractsService                                                        *)

ReadAward(r, a) ==
  /\ Start(r, [at |-> "createContract", award |-> a])
  /\ UNCHANGED contractVars

\* contracts has a unique index on the award.
CreateContract(r) ==
  LET a == request[r].award IN
  /\ request[r].at = "createContract"
  /\ contract[a].status = "NONE"
  /\ contract' = [contract EXCEPT ![a].status = "DRAFT"]
  /\ Stop(r)
  /\ UNCHANGED <<order, invoice, requested, revived, flagged, unchecked>>

ReadContract(r, a) ==
  /\ \/ contract[a].status = "DRAFT" /\ Start(r, [at |-> "activate", award |-> a])
     \/ contract[a].status = "ACTIVE" /\ Start(r, [at |-> "complete", award |-> a])
     \/ contract[a].status \in {"DRAFT", "ACTIVE"}
          /\ Start(r, [at |-> "terminate", award |-> a])
  /\ UNCHANGED contractVars

UpdateContract(r) ==
  LET a == request[r].award IN
  /\ \/ /\ request[r].at = "activate"
        /\ contract' = [contract EXCEPT ![a] = [status |-> "ACTIVE", signed |-> TRUE]]
     \/ /\ request[r].at = "complete"
        /\ contract' = [contract EXCEPT ![a].status = "COMPLETED"]
     \/ /\ request[r].at = "terminate"
        /\ contract' = [contract EXCEPT ![a].status = "TERMINATED"]
  /\ Stop(r)
  /\ UNCHANGED <<order, invoice, requested, revived, flagged, unchecked>>

-----------------------------------------------------------------------------
(* PurchaseOrdersService                                                   *)

\* Mutant: the contract need not be active.
ReadForAnyOrder(r, o) ==
  /\ contract[AwardOf[o]].status # "NONE"
  /\ Start(r, [at |-> "createOrder", order |-> o])
  /\ UNCHANGED contractVars

ReadForOrder(r, o) ==
  /\ contract[AwardOf[o]].status = "ACTIVE"
  /\ Start(r, [at |-> "createOrder", order |-> o])
  /\ UNCHANGED contractVars

\* purchase_orders has a unique index on the number of the order.
CreateOrder(r) ==
  LET o == request[r].order IN
  /\ request[r].at = "createOrder"
  /\ order[o].status = "NONE"
  /\ order' = [order EXCEPT ![o].status = "DRAFT"]
  /\ Stop(r)
  /\ UNCHANGED <<contract, invoice, requested, revived, flagged, unchecked>>

ReadOrder(r, o) ==
  /\ \/ order[o].status = "DRAFT" /\ Start(r, [at |-> "issue", order |-> o])
     \/ order[o].status \in {"DRAFT", "ISSUED"} /\ Start(r, [at |-> "cancelOrder", order |-> o])
  /\ UNCHANGED contractVars

UpdateOrder(r) ==
  LET o == request[r].order IN
  /\ \/ /\ request[r].at = "issue"
        /\ order' = [order EXCEPT ![o] = [status |-> "ISSUED", issued |-> TRUE]]
     \/ /\ request[r].at = "cancelOrder"
        /\ order' = [order EXCEPT ![o].status = "CANCELLED"]
  /\ Stop(r)
  /\ UNCHANGED <<contract, invoice, requested, revived, flagged, unchecked>>

-----------------------------------------------------------------------------
(* InvoicesService                                                         *)

SumBilled(S) == Total(Billed, S)
LiveOn(o) == {i \in Invoices : OrderOf[i] = o /\ invoice[i] \in {"SUBMITTED", "VERIFIED"}}

ReadForInvoice(r, i) ==
  /\ order[OrderOf[i]].status = "ISSUED"
  /\ Start(r, [at |-> "sumInvoiced", invoice |-> i])
  /\ UNCHANGED contractVars

\* Mutant: the invoice itself is left out of the sum.
SumInvoicedBefore(r) ==
  LET i == request[r].invoice IN
  /\ request[r].at = "sumInvoiced"
  /\ SumBilled(LiveOn(OrderOf[i])) <= Authorized[OrderOf[i]]
  /\ Go(r, "createInvoice")
  /\ UNCHANGED contractVars

\* The order can bear the invoice, going by the invoices there are now.
SumInvoiced(r) ==
  LET i == request[r].invoice IN
  /\ request[r].at = "sumInvoiced"
  /\ SumBilled(LiveOn(OrderOf[i])) + Billed[i] <= Authorized[OrderOf[i]]
  /\ Go(r, "createInvoice")
  /\ UNCHANGED contractVars

\* invoices has a unique index on the number of the invoice.
CreateInvoice(r) ==
  LET i == request[r].invoice IN
  /\ request[r].at = "createInvoice"
  /\ invoice[i] = "NONE"
  /\ invoice' = [invoice EXCEPT ![i] = "SUBMITTED"]
  /\ Go(r, "evaluateInvoice")
  /\ UNCHANGED <<contract, order, requested, revived, flagged, unchecked>>

Duplicates(i, j) == i # j /\ Billed[i] = Billed[j]

\* DuplicatePaymentDetector.evaluateInvoice
EvaluateInvoice(r) ==
  LET i == request[r].invoice IN
  /\ request[r].at = "evaluateInvoice"
  /\ IF \E j \in Invoices : Duplicates(i, j) /\ invoice[j] \in {"SUBMITTED", "VERIFIED"}
     THEN Go(r, "raiseAlert") ELSE Stop(r)
  /\ UNCHANGED contractVars

RaiseDuplicateAlert(r) ==
  /\ request[r].at = "raiseAlert"
  /\ flagged' = flagged \cup {request[r].invoice}
  /\ Stop(r)
  /\ UNCHANGED <<contract, order, invoice, requested, revived, unchecked>>

ReadInvoice(r, i) ==
  /\ invoice[i] = "SUBMITTED"
  /\ \/ Start(r, [at |-> "verify", invoice |-> i])
     \/ Start(r, [at |-> "reject", invoice |-> i])
  /\ UNCHANGED contractVars

\* One transaction, with the insert of the payment request, which is unique
\* per invoice: an invoice is verified once.
VerifyInvoice(r) ==
  LET i == request[r].invoice IN
  /\ request[r].at = "verify"
  /\ i \notin requested
  /\ requested' = requested \cup {i}
  /\ invoice' = [invoice EXCEPT ![i] = "VERIFIED"]
  /\ revived' = IF invoice[i] = "REJECTED" THEN revived \cup {i} ELSE revived
  /\ Stop(r)
  /\ UNCHANGED <<contract, order, flagged, unchecked>>

RejectInvoice(r) ==
  /\ request[r].at = "reject"
  /\ invoice' = [invoice EXCEPT ![request[r].invoice] = "REJECTED"]
  /\ Stop(r)
  /\ UNCHANGED <<contract, order, requested, revived, flagged, unchecked>>

ContractsFail(r) ==
  /\ Abandon(r)
  /\ unchecked' = IF request[r].at \in {"evaluateInvoice", "raiseAlert"}
                  THEN unchecked \cup {request[r].invoice} ELSE unchecked
  /\ UNCHANGED <<contract, order, invoice, requested, revived, flagged>>

ContractsNext ==
  \E r \in Requests :
    \/ \E a \in Awards : ReadAward(r, a) \/ ReadContract(r, a)
    \/ \E o \in Orders : ReadForOrder(r, o) \/ ReadOrder(r, o)
    \/ \E i \in Invoices : ReadForInvoice(r, i) \/ ReadInvoice(r, i)
    \/ CreateContract(r)
    \/ UpdateContract(r)
    \/ CreateOrder(r)
    \/ UpdateOrder(r)
    \/ SumInvoiced(r)
    \/ CreateInvoice(r)
    \/ EvaluateInvoice(r)
    \/ RaiseDuplicateAlert(r)
    \/ VerifyInvoice(r)
    \/ RejectInvoice(r)
    \/ ContractsFail(r)

ContractsSpec == ContractsInit /\ HandlersInit /\ [][ContractsNext]_<<contractVars, request>>
-----------------------------------------------------------------------------
(* Safety, whatever the requests interleave and wherever they end.         *)

\* What an order is over-invoiced by does not accumulate: no more than what
\* all requests but one can have in hand at a time.  An invoice that a late
\* verification brings back comes on top.
OverInvoicingIsBounded ==
  \A o \in Orders :
    SumBilled(LiveOn(o) \ revived)
      <= Authorized[o] + (Cardinality(Requests) - 1) * Max({Billed[i] : i \in Invoices})

\* Of two invoices of the same amount one was flagged, or is about to be, even
\* when they were submitted at the same time.
DuplicatesAreFlagged ==
  \A i, j \in Invoices :
    Duplicates(i, j) /\ {invoice[i], invoice[j]} \subseteq {"SUBMITTED", "VERIFIED"} =>
      \/ {i, j} \cap (flagged \cup unchecked \cup revived) # {}
      \/ \E r \in Requests :
           request[r].at \in {"evaluateInvoice", "raiseAlert"} /\ request[r].invoice \in {i, j}

\* Invoices that slip in together are bounded, and flagged when they are alike.
InvoicingIsControlled == OverInvoicingIsBounded /\ DuplicatesAreFlagged

(* What a comment says, and the code does not do.                          *)

\* "A purchase order's cumulative invoiced amount must never exceed what it
\* actually authorizes."
InvoicedIsAuthorized ==
  \A o \in Orders : SumBilled(LiveOn(o)) <= Authorized[o]
=============================================================================
