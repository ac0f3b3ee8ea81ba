----------------------------- MODULE MCPayments -----------------------------
(***************************************************************************)
(* Instances of Payments for TLC: one commitment, which two invoices bill, *)
(* or a commitment for each.                                               *)
(***************************************************************************)
EXTENDS Payments, TLC

CONSTANTS a1, c1, c2, i1, i2, u1, u2, u3

MCAllocationOf == [c \in Commitments |-> a1]
MCLineAmount == [a \in Allocations |-> 2 * Cardinality(Commitments)]
MCCommitmentOf == [i \in Invoices |-> IF i = i2 /\ c2 \in Commitments THEN c2 ELSE c1]
MCCommitmentAmount == [c \in Commitments |-> 2]

\* The second invoice, if there is one, is for less.
MCInvoiceAmount == [i \in Invoices |-> IF i = i1 THEN 2 ELSE 1]
MCSubmittedBy == [i \in Invoices |-> u1]

Symmetry == Permutations(Requests) \cup Permutations(Keys) \cup Permutations(Actors \ {u1})
=============================================================================
