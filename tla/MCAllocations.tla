--------------------------- MODULE MCAllocations ---------------------------
(***************************************************************************)
(* Instances of Allocations for TLC.                                       *)
(***************************************************************************)
EXTENDS Allocations, TLC

CONSTANTS a1, u1, u2

\* One allocation: the tables of two allocations never meet in a transaction.
MCAllocationOf == [c \in Commitments |-> a1]
MCAdjustmentOf == [d \in Adjustments |-> a1]
MCLineAmount == [a \in Allocations |-> 2]
MCScope == {u1, u2} \X Allocations

Symmetry ==
  Permutations(Requests) \cup Permutations(Commitments) \cup Permutations(Adjustments)
    \cup Permutations({u1, u2})

\* Total is the sum it stands for.
ASSUME TotalIsSum ==
  \A f \in [{"x", "y", "z"} -> 0 .. 3] :
    Total(f, {"x", "y", "z"}) = f["x"] + f["y"] + f["z"]
=============================================================================
