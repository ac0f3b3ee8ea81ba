SPECIFICATION RecordsSpec
CONSTANTS
  x1 = x1
  x2 = x2
  x3 = x3
  y1 = y1
  y2 = y2
  z1 = z1
  z2 = z2
  None = None
  MayFail = TRUE
  Requests = {r1, r2}
  Awards = {y1}
  Orders = {y1}
  AwardOf <- MCAwardOf
  Authorized <- MCAuthorized
  Invoices = {x1, x2, x3}
  OrderOf <- MCOrderOf
  Billed <- MCBilled
  Projects = {y1}
  Milestones = {y1, y2}
  ProjectOf <- MCProjectOf
  Files = {z1, z2}
  Contents = {z1, z2}
  BudgetPlans = {y1}
  Lines = {z1, z2}
  Creators = {x1, x2, x3}
  Owners = {x1, x2, x3}
  Documents = {y1}
  Percentages = {50, 100}
  Reports = {z1, z2}
  Investigators = {y1}
  MaxFiles = 1
SYMMETRY Symmetry
CHECK_DEADLOCK FALSE
INVARIANTS
  RecordsTypeOK
  InvoicingIsControlled
  CompletionIsEarned
  EvidenceIsSound
  SuppliersAreVetted
  ReportsAreFollowed
PROPERTIES
  ApprovalsAllocate
