---------------------------- MODULE Disbursement ----------------------------
(***************************************************************************)
(* What paying an invoice promises, without requests, keys and claims: the *)
(* invoice is verified by another than its submitter, its payment approved *)
(* by enough others than its verifier or refused by one of them, and the   *)
(* approved amount leaves the budget once, for this invoice, before the    *)
(* payment counts as executed.                                             *)
(***************************************************************************)
EXTENDS Integers, FiniteSets

CONSTANTS
  Invoices, Commitments, CommitmentOf, InvoiceAmount, SubmittedBy, RequiredApprovals,
  Actors, Amounts, None

VARIABLES
  verifier,   \* who verified each invoice
  signers,    \* who approved each payment
  decision,   \* where each payment is
  outlay,     \* what left the budget for each commitment, -1 if nothing did
  payee       \* the invoice that was paid with it

vars == <<verifier, signers, decision, outlay, payee>>

Init ==
  /\ verifier = [i \in Invoices |-> None]
  /\ signers = [i \in Invoices |-> {}]
  /\ decision = [i \in Invoices |-> "NONE"]
  /\ outlay = [c \in Commitments |-> -1]
  /\ payee = [c \in Commitments |-> None]

Verify(i, u) ==
  /\ decision[i] = "NONE"
  /\ u # SubmittedBy[i]
  /\ verifier' = [verifier EXCEPT ![i] = u]
  /\ decision' = [decision EXCEPT ![i] = "PENDING"]
  /\ UNCHANGED <<signers, outlay, payee>>

Approve(i, u) ==
  /\ decision[i] = "PENDING"
  /\ u # verifier[i] /\ u \notin signers[i]
  /\ signers' = [signers EXCEPT ![i] = @ \cup {u}]
  /\ decision' = [decision EXCEPT ![i] =
       IF Cardinality(signers[i] \cup {u}) >= RequiredApprovals THEN "APPROVED" ELSE "PENDING"]
  /\ UNCHANGED <<verifier, outlay, payee>>

Refuse(i) ==
  /\ decision[i] = "PENDING"
  /\ decision' = [decision EXCEPT ![i] = "REJECTED"]
  /\ UNCHANGED <<verifier, signers, outlay, payee>>

\* The money of an invoice leaves the budget: approved, once, and all of it.
Pay(i) ==
  LET c == CommitmentOf[i] IN
  /\ decision[i] = "APPROVED"
  /\ outlay[c] = -1
  /\ outlay' = [outlay EXCEPT ![c] = InvoiceAmount[i]]
  /\ payee' = [payee EXCEPT ![c] = i]
  /\ UNCHANGED <<verifier, signers, decision>>

\* The budget's own expenditures, which name no invoice.
PayDirectly(c, m) ==
  /\ outlay[c] = -1
  /\ outlay' = [outlay EXCEPT ![c] = m]
  /\ UNCHANGED <<verifier, signers, decision, payee>>

Execute(i) ==
  /\ decision[i] = "APPROVED"
  /\ payee[CommitmentOf[i]] = i
  /\ decision' = [decision EXCEPT ![i] = "EXECUTED"]
  /\ UNCHANGED <<verifier, signers, outlay, payee>>

Next ==
  \/ \E i \in Invoices :
       \/ \E u \in Actors : Verify(i, u) \/ Approve(i, u)
       \/ Refuse(i) \/ Pay(i) \/ Execute(i)
  \/ \E c \in Commitments, m \in Amounts : PayDirectly(c, m)

Spec == Init /\ [][Next]_vars
=============================================================================
