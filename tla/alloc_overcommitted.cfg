SPECIFICATION Spec
CONSTANTS
  a1 = a1
  u1 = u1
  u2 = u2
  None = None
  Allocations = {a1}
  Commitments = {c1, c2, c3}
  Adjustments = {}
  Actors = {u1, u2}
  Requests = {r1, r2}
  Amounts = {1}
  AllocationOf <- MCAllocationOf
  AdjustmentOf <- MCAdjustmentOf
  LineAmount <- MCLineAmount
  Scope <- MCScope
SYMMETRY Symmetry
CHECK_DEADLOCK FALSE
INVARIANT NeverOvercommitted
