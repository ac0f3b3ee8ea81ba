SPECIFICATION AccessSpec
CONSTANTS
  None = None
  NoSelection = None
  MayFail = TRUE
  Requests = {r1, r2, r3}
  Few = {r1, r2}
  Users = {u1}
  Browsing = u1
  Tokens = {t1, t2, t3}
  Challenges = {1, 2}
  Threshold = 2
  MaxFailed = 3
  Roles = {1, 2}
  Secrets = {1, 2}
  Codes = {1, 2}
  LastStep = 2
  Keys = {1, 2}
  Nonces = {1}
  CustomRoles <- DefinedRoles
  CustomGrants <- DefinedGrants
  Assignments <- SomeAssignments
  MaxAssigned = 1
  Selectable = {r1, r2}
SYMMETRY Symmetry
CHECK_DEADLOCK FALSE
INVARIANTS
  AccessTypeOK
  LoginsAreChains
  AuthenticatorComesWithCodes
  SigningIsSound
  ClientAsksOnce
  ConsoleAgreesWithApi
  DutiesAreSeparate
  MilestonesAreOfTheirProject
PROPERTIES
  AccountsAreKept
