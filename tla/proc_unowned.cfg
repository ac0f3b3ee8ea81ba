SPECIFICATION ProcurementSpec
CONSTANTS
  a1 = a1
  None = None
  MayFail = TRUE
  Allocations = {a1}
  Commitments = {c1, c2, c3}
  Purchases = {q1}
  Actors = {u1, u2}
  Requests = {r1, r2}
  Amounts = {}
  AllocationOf <- MCAllocationOf
  LineAmount <- MCLineAmount
  DrawsOn <- MCDrawsOn
  EstimatedAmount <- MCEstimatedAmount
SYMMETRY PurchaseSymmetry
CHECK_DEADLOCK FALSE
INVARIANT CommitmentsAreOwned
