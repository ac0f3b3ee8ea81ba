SPECIFICATION SourcingSpec
CONSTANTS
  a1 = a1
  t1 = t1
  None = None
  MayFail = TRUE
  Requests = {r1, r2}
  Allocations = {a1}
  Commitments = {c1, c2, c3}
  Purchases = {q1, q2}
  Actors = {u1, u2}
  Amounts = {2}
  AllocationOf <- MCAllocationOf
  LineAmount <- MCLineAmount
  DrawsOn <- MCDrawsOn
  EstimatedAmount <- MCEstimatedAmount
  Tenders = {t1}
  Lots = {q1, q2}
  Suppliers = {u1, u2}
  TenderOf <- MCTenderOf
  Batch = {1, 2, 3, 4}
  Estimated <- MCEstimated
  Threshold = 3
  MinCount = 2
  Alerts = {x1}
  BidAmounts = {40, 96, 98, 100, 103, 150}
  MaxBids = 5
  Estimates = {100, 140}
  References = {0, 100}
SYMMETRY Symmetry
CONSTRAINT ThreeOfBatch
CHECK_DEADLOCK FALSE
INVARIANTS
  SourcingTypeOK
  ApprovedIsFunded
  AwardsAreOrderly
  AnomaliesAreSeen
PROPERTIES
  SplitsAreStopped
