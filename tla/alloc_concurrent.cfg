SPECIFICATION Spec
CONSTANTS
  a1 = a1
  u1 = u1
  u2 = u2
  None = None
  Allocations = {a1}
  Commitments = {c1, c2}
  Adjustments = {d1}
  Actors = {u1, u2}
  Requests = {r1, r2}
  Amounts = {1, 2}
  AllocationOf <- MCAllocationOf
  AdjustmentOf <- MCAdjustmentOf
  LineAmount <- MCLineAmount
  Scope <- MCScope
SYMMETRY Symmetry
CHECK_DEADLOCK FALSE
INVARIANTS
  TypeOK
  WithinAuthorization
  SpentIsPaid
  CommittedAtMostEarmarked
  ExpenditureSettles
  FourEyes
  AuditedHappened
