--------------------------- MODULE MCProcurement ---------------------------
(***************************************************************************)
(* Instances of Procurement for TLC: one allocation, on which two purchases *)
(* fit and a third commitment does not.                                    *)
(***************************************************************************)
EXTENDS Procurement, TLC

CONSTANT a1

MCAllocationOf == [c \in Commitments |-> a1]
MCLineAmount == [a \in Allocations |-> 4]
MCDrawsOn == [q \in Purchases |-> a1]
MCEstimatedAmount == [q \in Purchases |-> 2]

\* Commitments are not interchangeable: NewIds chooses among them.
PurchaseSymmetry == Permutations(Requests) \cup Permutations(Actors) \cup Permutations(Purchases)
=============================================================================
