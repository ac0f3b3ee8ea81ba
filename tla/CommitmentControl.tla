------------------------- MODULE CommitmentControl -------------------------
(***************************************************************************)
(* What commitment-control accounting promises, without running balances:  *)
(* money on an allocation is earmarked by an ACTIVE commitment, then       *)
(* either freed or spent, once; and what is earmarked or paid, recomputed  *)
(* from the rows, never exceeds the authorized ceiling.                    *)
(***************************************************************************)
EXTENDS Totals

CONSTANTS Allocations, Commitments, AllocationOf, LineAmount, Amounts

VARIABLES
  ceiling,      \* what each allocation authorizes
  commitment,   \* status and amount of each commitment
  paid          \* what was paid for each commitment, -1 if nothing was

vars == <<ceiling, commitment, paid>>

EarmarkOf(c) == IF commitment[c].status = "ACTIVE" THEN commitment[c].amount ELSE 0
PaymentOf(c) == IF paid[c] = -1 THEN 0 ELSE paid[c]

EarmarkedBy(a) ==
  [c \in Commitments |-> IF AllocationOf[c] = a THEN EarmarkOf(c) ELSE 0]
PaidBy(a) ==
  [c \in Commitments |-> IF AllocationOf[c] = a THEN PaymentOf(c) ELSE 0]

InUse(a) == Total(EarmarkedBy(a), Commitments) + Total(PaidBy(a), Commitments)

Init ==
  /\ ceiling = LineAmount
  /\ commitment = [c \in Commitments |-> [status |-> "NONE", amount |-> 0]]
  /\ paid = [c \in Commitments |-> -1]

Earmark(c, m) ==
  /\ commitment[c].status = "NONE"
  /\ commitment' = [commitment EXCEPT ![c] = [status |-> "ACTIVE", amount |-> m]]
  /\ InUse(AllocationOf[c]) + m <= ceiling[AllocationOf[c]]
  /\ UNCHANGED <<ceiling, paid>>

Free(c) ==
  /\ commitment[c].status = "ACTIVE"
  /\ commitment' = [commitment EXCEPT ![c].status = "RELEASED"]
  /\ UNCHANGED <<ceiling, paid>>

Spend(c, m) ==
  /\ commitment[c].status = "ACTIVE"
  /\ m <= commitment[c].amount
  /\ commitment' = [commitment EXCEPT ![c].status = "CONSUMED"]
  /\ paid' = [paid EXCEPT ![c] = m]
  /\ UNCHANGED ceiling

\* An approved adjustment, upwards or down to what is in use.
MoveCeiling(a) ==
  /\ ceiling'[a] # ceiling[a]
  /\ ceiling'[a] \in Nat /\ ceiling'[a] >= InUse(a)
  /\ \A b \in Allocations \ {a} : ceiling'[b] = ceiling[b]
  /\ UNCHANGED <<commitment, paid>>

Next ==
  \/ \E c \in Commitments, m \in Amounts : Earmark(c, m) \/ Spend(c, m)
  \/ \E c \in Commitments : Free(c)
  \/ \E a \in Allocations : MoveCeiling(a)

Spec == Init /\ [][Next]_vars
=============================================================================
