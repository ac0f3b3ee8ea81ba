SPECIFICATION Spec
CONSTANTS
  a1 = a1
  c1 = c1
  c2 = c2
  i1 = i1
  i2 = i2
  u1 = u1
  u2 = u2
  u3 = u3
  None = None
  Allocations = {a1}
  Commitments = {c1}
  Invoices = {i1}
  Actors = {u1, u2}
  Keys = {k1, k2}
  Requests = {r1, r2}
  Amounts = {1}
  Faults = {"throw"}
  RequiredApprovals = 1
  AllocationOf <- MCAllocationOf
  LineAmount <- MCLineAmount
  CommitmentOf <- MCCommitmentOf
  CommitmentAmount <- MCCommitmentAmount
  InvoiceAmount <- MCInvoiceAmount
  SubmittedBy <- MCSubmittedBy
SYMMETRY Symmetry
INVARIANT SpentIsExecuted
