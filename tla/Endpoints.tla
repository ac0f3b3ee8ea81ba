----------------------------- MODULE Endpoints -----------------------------
(***************************************************************************)
(* The permissions the API checks, the roles the seed grants them to, and  *)
(* the endpoints of the API: what each controller's decorators ask of a    *)
(* caller.  A requirement of a method overrides the one of its class.      *)
(***************************************************************************)
(***************************************************************************)
(* The permissions                                                         *)
(***************************************************************************)

AllPermissions ==
  { "users:read", "users:create", "users:update", "users:reset_password", "users:reset_mfa",
    "roles:read", "roles:manage", "organizations:create", "security_events:read", "audit:read",
    "blockchain:read", "blockchain:anchor",
    "budget:manage", "budget:read", "budget:create", "budget:approve", "budget:commit",
    "budget:spend", "budget:adjust",
    "procurement:manage", "procurement:read", "procurement:create", "procurement:approve",
    "procurement:publish", "procurement:bid", "procurement:evaluate", "procurement:award",
    "supplier:read", "supplier:read_sensitive", "supplier:manage", "supplier:verify",
    "risk:read", "risk:review", "risk:manage",
    "contract:read", "contract:manage", "invoice:read", "invoice:submit", "invoice:verify",
    "payment:read", "payment:approve", "payment:execute", "payment:reconcile",
    "project:read", "project:manage", "project:inspect", "evidence:upload",
    "whistleblower:read", "whistleblower:investigate" }

-----------------------------------------------------------------------------
(* ROLE_PERMISSIONS of the seed                                            *)

\* Auditor and Internal Auditor
AuditorGrants ==
  { "security_events:read", "roles:read", "audit:read", "blockchain:read", "budget:read",
    "procurement:read", "supplier:read", "supplier:read_sensitive",
    "risk:read", "risk:review", "risk:manage", "contract:read", "invoice:read",
    "payment:read", "payment:reconcile", "project:read",
    "whistleblower:read", "whistleblower:investigate" }

\* What most roles of the treasury and of the works can look at.
OfficeReads == {"procurement:read", "supplier:read", "risk:read", "project:read"}

TreasuryGrants ==
  OfficeReads \cup
  { "budget:manage", "budget:create", "budget:read", "payment:read", "payment:execute",
    "contract:read", "invoice:read" }

FinanceGrants ==
  OfficeReads \cup
  { "budget:create", "budget:commit", "budget:adjust", "budget:read", "invoice:read",
    "invoice:submit", "payment:read" }

ProcurementGrants ==
  OfficeReads \cup
  { "procurement:manage", "procurement:create", "procurement:publish",
    "supplier:read_sensitive", "supplier:manage", "supplier:verify",
    "contract:read", "contract:manage", "budget:read", "risk:manage" }

AccountingGrants ==
  OfficeReads \cup
  { "budget:approve", "budget:spend", "budget:read", "payment:read", "payment:approve",
    "invoice:read" }

SupplierGrants == {"procurement:bid", "procurement:read"}

ProjectManagerGrants ==
  OfficeReads \cup {"contract:read", "invoice:read", "project:manage", "evidence:upload"}

EngineerGrants ==
  OfficeReads \cup
  { "invoice:read", "invoice:verify", "procurement:evaluate", "project:inspect",
    "evidence:upload" }

ApprovingGrants ==
  OfficeReads \cup
  { "budget:approve", "budget:read", "procurement:approve", "procurement:award",
    "payment:read", "payment:approve", "supplier:read_sensitive", "risk:review",
    "contract:read" }

\* County Officer and Ministry Officer
OversightGrants == OfficeReads \cup {"budget:read", "contract:read", "invoice:read", "payment:read"}

\* What each role is granted; Public Viewer and Whistleblower hold nothing.
RolePermissions ==
  [ SuperAdministrator |-> AllPermissions,
    Auditor            |-> AuditorGrants,
    TreasuryOfficer    |-> TreasuryGrants,
    FinanceOfficer     |-> FinanceGrants,
    ProcurementOfficer |-> ProcurementGrants,
    AccountingOfficer  |-> AccountingGrants,
    Supplier           |-> SupplierGrants,
    ProjectManager     |-> ProjectManagerGrants,
    Engineer           |-> EngineerGrants,
    ApprovingOfficer   |-> ApprovingGrants,
    CountyOfficer      |-> OversightGrants,
    PublicViewer       |-> {} ]

SeededRoles == DOMAIN RolePermissions

(***************************************************************************)
(* The endpoints                                                           *)
(***************************************************************************)

\* What @Public() and no decorator at all mean.
Anyone == "anyone"
SignedInOnly == "signed in"

\* Endpoints that need one permission, and a proof beside it.
Proven(needs, proof, routes) == {[path |-> r, needs |-> needs, proof |-> proof] : r \in routes}

Routes(needs, routes) == Proven(needs, "none", routes)

-----------------------------------------------------------------------------
(* Contracts, invoices and payments                                        *)

ContractsController ==
  Routes("contract:read", {"GET contracts", "GET contracts/:id"}) \cup
  Routes("contract:manage",
    {"POST contracts", "POST contracts/:id/activate", "POST contracts/:id/complete",
     "POST contracts/:id/terminate", "POST contracts/:id/purchase-orders"})

PurchaseOrdersController ==
  Routes("contract:read", {"GET purchase-orders", "GET purchase-orders/:id"}) \cup
  Routes("contract:manage",
    {"POST purchase-orders/:id/issue", "POST purchase-orders/:id/cancel"}) \cup
  Routes("invoice:submit", {"POST purchase-orders/:id/invoices"})

InvoicesController ==
  Routes("invoice:read", {"GET invoices", "GET invoices/:id"}) \cup
  Routes("invoice:verify", {"POST invoices/:id/verify", "POST invoices/:id/reject"})

PaymentRequestsController ==
  Routes("payment:read", {"GET payment-requests", "GET payment-requests/:id"}) \cup
  Routes("payment:approve", {"POST payment-requests/:id/approvals"}) \cup
  Proven("payment:execute", "stepUp", {"POST payment-requests/:id/execute"})

PaymentsController ==
  Routes("payment:read", {"GET payments", "GET payments/:id"}) \cup
  Routes("payment:reconcile", {"POST payments/:id/reconciliations"})

-----------------------------------------------------------------------------
(* Budgets                                                                 *)

FiscalYearsController ==
  Routes("budget:read", {"GET fiscal-years"}) \cup
  Routes("budget:manage",
    {"POST fiscal-years", "POST fiscal-years/:id/activate", "POST fiscal-years/:id/close"})

BudgetsController ==
  Routes("budget:read", {"GET budgets", "GET budgets/:id"}) \cup
  Routes("budget:create", {"POST budgets", "POST budgets/:id/submit"}) \cup
  Proven("budget:approve", "signature", {"POST budgets/:id/approve"}) \cup
  Routes("budget:approve", {"POST budgets/:id/reject"})

AllocationsController ==
  Routes("budget:read", {"GET allocations", "GET allocations/:id"}) \cup
  Routes("budget:commit", {"POST allocations/:id/commitments"}) \cup
  Routes("budget:adjust", {"POST allocations/:id/adjustments"})

CommitmentsController ==
  Routes("budget:commit", {"POST commitments/:id/release"}) \cup
  Routes("budget:spend", {"POST commitments/:id/expenditures"})

AdjustmentsController ==
  Routes("budget:approve", {"POST adjustments/:id/approve", "POST adjustments/:id/reject"})

-----------------------------------------------------------------------------
(* Procurement and suppliers                                               *)

ProcurementPlansController ==
  Routes("procurement:read", {"GET procurement-plans", "GET procurement-plans/:id"}) \cup
  Routes("procurement:manage", {"POST procurement-plans"}) \cup
  Routes("procurement:approve", {"POST procurement-plans/:id/approve"})

ProcurementRequestsController ==
  Routes("procurement:read", {"GET procurement-requests", "GET procurement-requests/:id"}) \cup
  Routes("procurement:create",
    {"POST procurement-requests", "POST procurement-requests/:id/submit",
     "POST procurement-requests/:id/tenders"}) \cup
  Routes("procurement:approve",
    {"POST procurement-requests/:id/approve", "POST procurement-requests/:id/reject"})

TendersController ==
  Routes("procurement:read", {"GET tenders", "GET tenders/:id"}) \cup
  Routes("procurement:publish", {"POST tenders/:id/publish", "POST tenders/:id/close"}) \cup
  Routes("procurement:approve", {"POST tenders/:id/cancel"})

TenderLotsController ==
  Routes("procurement:read", {"GET tender-lots/:id/bids"}) \cup
  Routes("procurement:bid", {"POST tender-lots/:id/bids"})

BidsController ==
  Routes("procurement:evaluate", {"POST bids/:id/evaluate"}) \cup
  Routes("procurement:award", {"POST bids/:id/award"})

SuppliersController ==
  Routes("procurement:read", {"GET suppliers", "GET suppliers/:id"}) \cup
  Routes("procurement:manage", {"POST suppliers"})

SupplierProfileController ==
  Routes("supplier:read", {"GET suppliers/:id/profile"}) \cup
  Routes("supplier:manage",
    {"PATCH suppliers/:id", "POST suppliers/:id/suspend", "POST suppliers/:id/reactivate",
     "POST suppliers/:id/blacklist"})

SupplierOwnersController ==
  Routes("supplier:read_sensitive", {"GET suppliers/:id/owners"}) \cup
  Routes("supplier:manage",
    {"POST suppliers/:id/owners", "POST suppliers/:id/owners/:ownerId/remove"})

SupplierDocumentsController ==
  Routes("supplier:read_sensitive", {"GET suppliers/:id/documents"}) \cup
  Routes("supplier:manage", {"POST suppliers/:id/documents"}) \cup
  Routes("supplier:verify",
    {"POST supplier-documents/:id/verify", "POST supplier-documents/:id/reject"})

SupplierRiskController ==
  Routes("supplier:read_sensitive",
    {"GET suppliers/:id/risk-profile", "GET suppliers/:id/risk-profile/history"}) \cup
  Routes("supplier:verify", {"POST suppliers/:id/risk-profile"})

-----------------------------------------------------------------------------
(* Projects, evidence and risk                                             *)

ProjectsController ==
  Routes("project:read",
    {"GET projects", "GET projects/:id", "GET projects/:id/milestones", "GET projects/:id/evidence"}) \cup
  Routes("project:manage",
    {"POST projects", "POST projects/:id/activate", "POST projects/:id/suspend",
     "POST projects/:id/resume", "POST projects/:id/cancel", "POST projects/:id/milestones"}) \cup
  Routes("evidence:upload", {"POST projects/:id/evidence"})

MilestonesController ==
  Routes("project:read",
    {"GET milestones", "GET milestones/:id", "GET milestones/:id/inspections"}) \cup
  Routes("project:manage", {"POST milestones/:id/start", "POST milestones/:id/complete"}) \cup
  Routes("project:inspect", {"POST milestones/:id/inspections"})

EvidenceController ==
  Routes("project:read", {"GET evidence/:id", "GET evidence/:id/download"})

InspectionsController == Routes("project:read", {"GET inspections/:id"})

RiskAlertsController ==
  Routes("risk:read", {"GET risk-alerts", "GET risk-alerts/summary", "GET risk-alerts/:id"}) \cup
  Routes("risk:review", {"POST risk-alerts/:id/review"})

RiskScansController ==
  Routes("risk:manage",
    {"POST risk-scans/tenders/:id", "POST risk-scans/organizations/:id",
     "POST risk-scans/suppliers/:id"})

-----------------------------------------------------------------------------
(* Audit trail, reports, identity                                          *)

AuditController ==
  Routes("audit:read",
    {"GET audit/events", "GET audit/reconstruct", "GET audit/verify", "GET audit/events/:id",
     "GET audit/events/:id/verify"})

BlockchainController ==
  Routes("blockchain:read",
    {"GET blockchain/health", "GET blockchain/transactions/:id",
     "GET blockchain/transactions/:id/verify", "GET blockchain/blocks/:id"}) \cup
  Routes("blockchain:anchor", {"POST blockchain/anchor"})

WhistleblowerController ==
  Routes("whistleblower:read", {"GET whistleblower/reports", "GET whistleblower/reports/:id"}) \cup
  Routes("whistleblower:investigate",
    {"POST whistleblower/reports/:id/assign", "POST whistleblower/reports/:id/status",
     "POST whistleblower/reports/:id/updates"})

UsersController ==
  Routes("users:read", {"GET users"}) \cup
  Routes("users:create", {"POST users"}) \cup
  Proven("users:update", "stepUp", {"PATCH users/:id"}) \cup
  Proven("users:reset_password", "stepUp", {"POST users/:id/password/reset"}) \cup
  Proven("users:reset_mfa", "stepUp", {"POST users/:id/mfa/reset"}) \cup
  Routes(SignedInOnly,
    {"GET users/me", "GET users/me/signing-key", "POST users/me/signing-key",
     "GET users/me/security", "POST users/me/mfa/totp/setup", "POST users/me/mfa/totp/enable"})

RolesController ==
  Routes("roles:read", {"GET roles", "GET roles/permissions"}) \cup
  Proven("roles:manage", "stepUp", {"POST roles", "PATCH roles/:id", "DELETE roles/:id"})

OrganizationsController == Routes(SignedInOnly, {"GET organizations"})

AuthController ==
  Routes(Anyone,
    {"POST auth/login", "POST auth/password/change", "POST auth/mfa/verify", "POST auth/refresh",
     "POST auth/logout"}) \cup
  Routes(SignedInOnly, {"POST auth/step-up"})

-----------------------------------------------------------------------------
(* Open to everyone                                                        *)

TransparencyController ==
  Routes(Anyone,
    {"GET public/projects", "GET public/projects/:id", "GET public/tenders",
     "GET public/tenders/:id", "GET public/suppliers", "GET public/suppliers/:id",
     "GET public/budgets", "GET public/verify"})

AccountabilityController ==
  Routes(Anyone,
    {"GET public/accountability/officials", "GET public/accountability/officials/:id"})

WhistleblowerPublicController ==
  Routes(Anyone,
    {"POST public/whistleblower/reports", "GET public/whistleblower/reports/:code",
     "POST public/whistleblower/reports/:code/evidence",
     "POST public/whistleblower/reports/:code/updates"})

HealthController == Routes(Anyone, {"GET health", "GET health/ready"})

ComplianceController == Routes(Anyone, {"GET compliance/rules"})

Endpoints ==
  UNION {
    ContractsController, PurchaseOrdersController, InvoicesController, PaymentRequestsController,
    PaymentsController, FiscalYearsController, BudgetsController, AllocationsController,
    CommitmentsController, AdjustmentsController, ProcurementPlansController,
    ProcurementRequestsController, TendersController, TenderLotsController, BidsController,
    SuppliersController, SupplierProfileController, SupplierOwnersController,
    SupplierDocumentsController, SupplierRiskController, ProjectsController, MilestonesController,
    EvidenceController, InspectionsController, RiskAlertsController, RiskScansController,
    AuditController, BlockchainController, WhistleblowerController, UsersController,
    RolesController, OrganizationsController, AuthController, TransparencyController,
    AccountabilityController, WhistleblowerPublicController, HealthController, ComplianceController }
=============================================================================
