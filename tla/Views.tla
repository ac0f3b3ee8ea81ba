------------------------------- MODULE Views -------------------------------
(***************************************************************************)
(* The Pinia stores and the views of the web console.                      *)
(*                                                                         *)
(* A store: the calls each of its actions sends, in their order.  An       *)
(* action that writes fetches again what it changed, once the write is     *)
(* answered.  The stores of the public pages and of the settings are here  *)
(* as well.                                                                *)
(*                                                                         *)
(* A view: what it loads when it is opened, and the controls it offers to  *)
(* whom.  An offer is shown to those who hold the permissions "shown",     *)
(* apart from the state of the record it is for.  Pagers are left out:     *)
(* they are shown once a list is loaded, and repeat its load.              *)
(***************************************************************************)
EXTENDS Sequences

(***************************************************************************)
(* The stores                                                              *)
(***************************************************************************)

\* The fetches that other actions repeat.
fetchContracts == "GET contracts"
fetchInvoices == "GET invoices"
fetchPaymentRequests == "GET payment-requests"
fetchPurchaseOrders == "GET purchase-orders"
fetchPayments == "GET payments"

ContractsStore ==
  [ fetchContracts       |-> <<fetchContracts>>,
    createContract       |-> <<"POST contracts", fetchContracts>>,
    activateContract     |-> <<"POST contracts/:id/activate", fetchContracts>>,
    completeContract     |-> <<"POST contracts/:id/complete", fetchContracts>>,
    terminateContract    |-> <<"POST contracts/:id/terminate", fetchContracts>>,
    fetchPurchaseOrders  |-> <<fetchPurchaseOrders>>,
    createPurchaseOrder  |-> <<"POST contracts/:id/purchase-orders", fetchPurchaseOrders>>,
    issuePurchaseOrder   |-> <<"POST purchase-orders/:id/issue", fetchPurchaseOrders>>,
    cancelPurchaseOrder  |-> <<"POST purchase-orders/:id/cancel", fetchPurchaseOrders>> ]

InvoicesStore ==
  [ fetchInvoices        |-> <<fetchInvoices>>,
    createInvoice        |-> <<"POST purchase-orders/:id/invoices", fetchInvoices>>,
    verifyInvoice        |-> <<"POST invoices/:id/verify", fetchInvoices, fetchPaymentRequests>>,
    rejectInvoice        |-> <<"POST invoices/:id/reject", fetchInvoices>>,
    fetchPaymentRequests |-> <<fetchPaymentRequests>>,
    castApproval         |-> <<"POST payment-requests/:id/approvals", fetchPaymentRequests>>,
    executePayment       |-> <<"POST payment-requests/:id/execute", fetchPaymentRequests, fetchPayments,
                               fetchInvoices>>,
    fetchPayments        |-> <<fetchPayments>>,
    recordReconciliation |-> <<"POST payments/:id/reconciliations">> ]

BudgetStore ==
  [ fetchFiscalYears     |-> <<"GET fiscal-years">>,
    createFiscalYear     |-> <<"POST fiscal-years", "GET fiscal-years">>,
    fetchBudgets         |-> <<"GET budgets">>,
    createBudget         |-> <<"POST budgets", "GET budgets">>,
    submitBudget         |-> <<"POST budgets/:id/submit", "GET budgets">>,
    approveBudget        |-> <<"POST budgets/:id/approve", "GET budgets">>,
    rejectBudget         |-> <<"POST budgets/:id/reject", "GET budgets">>,
    fetchAllocations     |-> <<"GET allocations">>,
    createCommitment     |-> <<"POST allocations/:id/commitments", "GET allocations">> ]

ProcurementStore ==
  [ fetchSuppliers       |-> <<"GET suppliers">>,
    createSupplier       |-> <<"POST suppliers", "GET suppliers">>,
    fetchPlans           |-> <<"GET procurement-plans">>,
    createPlan           |-> <<"POST procurement-plans", "GET procurement-plans">>,
    approvePlan          |-> <<"POST procurement-plans/:id/approve", "GET procurement-plans">>,
    fetchRequests        |-> <<"GET procurement-requests">>,
    createRequest        |-> <<"POST procurement-requests", "GET procurement-requests">>,
    submitRequest        |-> <<"POST procurement-requests/:id/submit", "GET procurement-requests">>,
    approveRequest       |-> <<"POST procurement-requests/:id/approve", "GET procurement-requests">>,
    rejectRequest        |-> <<"POST procurement-requests/:id/reject", "GET procurement-requests">>,
    fetchTenders         |-> <<"GET tenders">>,
    createTender         |-> <<"POST procurement-requests/:id/tenders", "GET tenders">>,
    publishTender        |-> <<"POST tenders/:id/publish", "GET tenders">>,
    closeTender          |-> <<"POST tenders/:id/close", "GET tenders">>,
    fetchBidsForLot      |-> <<"GET tender-lots/:id/bids">>,
    submitBid            |-> <<"POST tender-lots/:id/bids", "GET tender-lots/:id/bids">>,
    evaluateBid          |-> <<"POST bids/:id/evaluate", "GET tender-lots/:id/bids">>,
    awardBid             |-> <<"POST bids/:id/award", "GET tender-lots/:id/bids", "GET tenders">> ]

ProjectsStore ==
  [ fetchProjects        |-> <<"GET projects">>,
    createProject        |-> <<"POST projects", "GET projects">>,
    activateProject      |-> <<"POST projects/:id/activate", "GET projects">>,
    suspendProject       |-> <<"POST projects/:id/suspend", "GET projects">>,
    resumeProject        |-> <<"POST projects/:id/resume", "GET projects">>,
    cancelProject        |-> <<"POST projects/:id/cancel", "GET projects">>,
    fetchMilestones      |-> <<"GET milestones">>,
    createMilestone      |-> <<"POST projects/:id/milestones", "GET milestones">>,
    startMilestone       |-> <<"POST milestones/:id/start", "GET milestones">>,
    completeMilestone    |-> <<"POST milestones/:id/complete", "GET milestones">>,
    fetchInspections     |-> <<"GET milestones/:id/inspections">>,
    recordInspection     |-> <<"POST milestones/:id/inspections", "GET milestones/:id/inspections",
                               "GET milestones", "GET projects">>,
    fetchEvidence        |-> <<"GET projects/:id/evidence">>,
    uploadEvidence       |-> <<"POST projects/:id/evidence", "GET projects/:id/evidence">>,
    downloadEvidence     |-> <<"GET evidence/:id/download">> ]

SupplierStore ==
  [ fetchProfile         |-> <<"GET suppliers/:id/profile">>,
    updateProfile        |-> <<"PATCH suppliers/:id">>,
    suspend              |-> <<"POST suppliers/:id/suspend">>,
    reactivate           |-> <<"POST suppliers/:id/reactivate">>,
    blacklist            |-> <<"POST suppliers/:id/blacklist">>,
    fetchOwners          |-> <<"GET suppliers/:id/owners">>,
    addOwner             |-> <<"POST suppliers/:id/owners", "GET suppliers/:id/owners">>,
    removeOwner          |-> <<"POST suppliers/:id/owners/:ownerId/remove", "GET suppliers/:id/owners">>,
    fetchDocuments       |-> <<"GET suppliers/:id/documents">>,
    uploadDocument       |-> <<"POST suppliers/:id/documents", "GET suppliers/:id/documents">>,
    verifyDocument       |-> <<"POST supplier-documents/:id/verify", "GET suppliers/:id/documents">>,
    rejectDocument       |-> <<"POST supplier-documents/:id/reject", "GET suppliers/:id/documents">>,
    fetchCurrentRisk     |-> <<"GET suppliers/:id/risk-profile">>,
    fetchRiskHistory     |-> <<"GET suppliers/:id/risk-profile/history">>,
    recordRiskAssessment |-> <<"POST suppliers/:id/risk-profile", "GET suppliers/:id/risk-profile",
                               "GET suppliers/:id/risk-profile/history">> ]

RiskStore ==
  [ fetchAlerts          |-> <<"GET risk-alerts">>,
    review               |-> <<"POST risk-alerts/:id/review", "GET risk-alerts">>,
    scanTender           |-> <<"POST risk-scans/tenders/:id", "GET risk-alerts">>,
    scanOrganization     |-> <<"POST risk-scans/organizations/:id", "GET risk-alerts">>,
    scanSupplier         |-> <<"POST risk-scans/suppliers/:id", "GET risk-alerts">> ]

AuditStore ==
  [ fetchEvents          |-> <<"GET audit/events">>,
    verifyEvent          |-> <<"GET audit/events/:id/verify">>,
    verifyChain          |-> <<"GET audit/verify">>,
    reconstruct          |-> <<"GET audit/reconstruct">> ]

BlockchainStore ==
  [ fetchHealth          |-> <<"GET blockchain/health">>,
    triggerAnchor        |-> <<"POST blockchain/anchor", "GET blockchain/health">> ]

AdminStore ==
  [ fetchUsers           |-> <<"GET users">>,
    fetchRoles           |-> <<"GET roles">>,
    fetchOrganizations   |-> <<"GET organizations">>,
    createUser           |-> <<"POST users", "GET users">>,
    updateUser           |-> <<"PATCH users/:id", "GET users">>,
    resetPassword        |-> <<"POST users/:id/password/reset">>,
    resetMfa             |-> <<"POST users/:id/mfa/reset", "GET users">>,
    fetchPermissions     |-> <<"GET roles/permissions">>,
    createRole           |-> <<"POST roles", "GET roles">>,
    updateRole           |-> <<"PATCH roles/:id", "GET roles">>,
    deleteRole           |-> <<"DELETE roles/:id", "GET roles">> ]

\* The calls of AdminStore before which a step-up token is asked for.
AdminStepUps ==
  {"PATCH users/:id", "POST users/:id/password/reset", "POST users/:id/mfa/reset",
   "POST roles", "PATCH roles/:id", "DELETE roles/:id"}

\* executePayment asks for one, too.
PaymentStepUps == {"POST payment-requests/:id/execute"}

\* confirmAction of BudgetsView signs an approval with the key of this browser.
SignedCalls == {"POST budgets/:id/approve"}

\* What a call carries beside the access token.
Carries(path) ==
  IF path \in AdminStepUps \cup PaymentStepUps THEN "stepUp"
  ELSE IF path \in SignedCalls THEN "signature" ELSE "none"

\* The two sides of a whistleblower's report.
WhistleblowerStore ==
  [ submitReport           |-> <<"POST public/whistleblower/reports">>,
    addEvidence            |-> <<"POST public/whistleblower/reports/:code/evidence">>,
    checkStatus            |-> <<"GET public/whistleblower/reports/:code">>,
    replyAsReporter        |-> <<"POST public/whistleblower/reports/:code/updates",
                                 "GET public/whistleblower/reports/:code">>,
    fetchReports           |-> <<"GET whistleblower/reports">>,
    fetchReportDetail      |-> <<"GET whistleblower/reports/:id">>,
    assignToSelf           |-> <<"POST whistleblower/reports/:id/assign", "GET whistleblower/reports/:id">>,
    changeStatus           |-> <<"POST whistleblower/reports/:id/status", "GET whistleblower/reports/:id">>,
    postInvestigatorUpdate |-> <<"POST whistleblower/reports/:id/updates", "GET whistleblower/reports/:id">> ]

TransparencyStore ==
  [ searchProjects       |-> <<"GET public/projects">>,
    fetchProjectDetail   |-> <<"GET public/projects/:id">>,
    searchTenders        |-> <<"GET public/tenders">>,
    fetchTenderDetail    |-> <<"GET public/tenders/:id">>,
    searchSuppliers      |-> <<"GET public/suppliers">>,
    fetchBudgetLines     |-> <<"GET public/budgets">>,
    verifyHash           |-> <<"GET public/verify">> ]

SigningKeyStore ==
  [ fetchStatus          |-> <<"GET users/me/signing-key">>,
    enroll               |-> <<"POST users/me/signing-key">> ]

(***************************************************************************)
(* The views                                                               *)
(***************************************************************************)

Offers(rights, actions) == {[shown |-> rights, calls |-> a] : a \in actions}

Always == {}

-----------------------------------------------------------------------------
(* ContractsView                                                           *)

ContractsLoads ==
  Offers(Always,
    {ContractsStore.fetchContracts, ContractsStore.fetchPurchaseOrders, InvoicesStore.fetchInvoices,
     InvoicesStore.fetchPaymentRequests, InvoicesStore.fetchPayments})

ContractsTable ==
  Offers({"contract:manage"},
    {ContractsStore.activateContract, ContractsStore.completeContract, ContractsStore.terminateContract,
     ContractsStore.createContract})

PurchaseOrdersTable ==
  Offers({"contract:manage"},
    {ContractsStore.issuePurchaseOrder, ContractsStore.cancelPurchaseOrder, ContractsStore.createPurchaseOrder})

InvoicesTable ==
  Offers({"invoice:verify"}, {InvoicesStore.verifyInvoice, InvoicesStore.rejectInvoice}) \cup
  Offers({"invoice:submit"}, {InvoicesStore.createInvoice})

PaymentRequestsList ==
  Offers({"payment:approve"}, {InvoicesStore.castApproval}) \cup
  Offers({"payment:execute"}, {InvoicesStore.executePayment})

PaymentsTable ==
  Offers({"payment:reconcile"}, {InvoicesStore.recordReconciliation})

-----------------------------------------------------------------------------
(* ProcurementView                                                         *)

ProcurementLoads ==
  Offers(Always,
    {ProcurementStore.fetchSuppliers, ProcurementStore.fetchPlans, ProcurementStore.fetchRequests,
     ProcurementStore.fetchTenders, BudgetStore.fetchFiscalYears, BudgetStore.fetchAllocations,
     AdminStore.fetchOrganizations})

SuppliersCard == Offers({"procurement:manage"}, {ProcurementStore.createSupplier})

PlansCard ==
  Offers({"procurement:approve"}, {ProcurementStore.approvePlan}) \cup
  Offers({"procurement:manage"}, {ProcurementStore.createPlan})

RequestsCard ==
  Offers({"procurement:create"}, {ProcurementStore.submitRequest, ProcurementStore.createRequest}) \cup
  Offers({"procurement:approve"}, {ProcurementStore.approveRequest, ProcurementStore.rejectRequest})

TendersCard ==
  Offers({"procurement:publish"}, {ProcurementStore.publishTender, ProcurementStore.closeTender}) \cup
  Offers(Always, {ProcurementStore.fetchBidsForLot}) \cup
  Offers({"procurement:evaluate"}, {ProcurementStore.evaluateBid}) \cup
  Offers({"procurement:award"}, {ProcurementStore.awardBid}) \cup
  Offers({"procurement:bid"}, {ProcurementStore.submitBid}) \cup
  Offers({"procurement:create"}, {ProcurementStore.createTender})

-----------------------------------------------------------------------------
(* BudgetsView                                                             *)

BudgetsLoads ==
  Offers(Always,
    {BudgetStore.fetchFiscalYears, BudgetStore.fetchBudgets, BudgetStore.fetchAllocations,
     AdminStore.fetchOrganizations})

FiscalYearsCard ==
  Offers({"budget:manage"}, {BudgetStore.createFiscalYear})

NewBudgetCard == Offers({"budget:create"}, {BudgetStore.createBudget})

BudgetsTable ==
  Offers({"budget:create"}, {BudgetStore.submitBudget}) \cup
  Offers({"budget:approve"}, {BudgetStore.approveBudget, BudgetStore.rejectBudget})

AllocationsTable ==
  Offers({"budget:commit"}, {BudgetStore.createCommitment})

-----------------------------------------------------------------------------
(* ProjectsView                                                            *)

ProjectsLoads == Offers(Always, {ProjectsStore.fetchProjects})

\* Selecting a project fetches its milestones, evidence and inspections.
ProjectsTable ==
  Offers(Always, {ProjectsStore.fetchMilestones, ProjectsStore.fetchEvidence, ProjectsStore.fetchInspections}) \cup
  Offers({"project:manage"},
    {ProjectsStore.activateProject, ProjectsStore.suspendProject, ProjectsStore.resumeProject,
     ProjectsStore.cancelProject, ProjectsStore.createProject})

MilestonesList ==
  Offers({"project:manage"},
    {ProjectsStore.startMilestone, ProjectsStore.completeMilestone, ProjectsStore.createMilestone}) \cup
  Offers({"project:inspect"}, {ProjectsStore.recordInspection})

EvidenceTable ==
  Offers(Always, {ProjectsStore.downloadEvidence}) \cup
  Offers({"evidence:upload"}, {ProjectsStore.uploadEvidence})

-----------------------------------------------------------------------------
(* SupplierDetailView                                                      *)

SupplierLoads ==
  Offers(Always, {SupplierStore.fetchProfile}) \cup
  Offers({"supplier:read_sensitive"},
    {SupplierStore.fetchOwners, SupplierStore.fetchDocuments, SupplierStore.fetchCurrentRisk,
     SupplierStore.fetchRiskHistory})

ProfileCard ==
  Offers({"supplier:manage"},
    {SupplierStore.updateProfile, SupplierStore.suspend, SupplierStore.reactivate, SupplierStore.blacklist})

OwnersCard ==
  Offers({"supplier:read_sensitive", "supplier:manage"}, {SupplierStore.addOwner, SupplierStore.removeOwner})

DocumentsCard ==
  Offers({"supplier:read_sensitive", "supplier:verify"},
    {SupplierStore.verifyDocument, SupplierStore.rejectDocument}) \cup
  Offers({"supplier:read_sensitive", "supplier:manage"}, {SupplierStore.uploadDocument})

RiskProfileCard ==
  Offers({"supplier:read_sensitive", "supplier:verify"}, {SupplierStore.recordRiskAssessment})

-----------------------------------------------------------------------------
(* RiskAlertsView, AuditView, AuditorPortalView                            *)

AlertsLoads == Offers(Always, {RiskStore.fetchAlerts})

AlertsTable == Offers({"risk:review"}, {RiskStore.review}) \cup Offers(Always, {RiskStore.fetchAlerts})

ScanCard ==
  Offers({"risk:manage"}, {RiskStore.scanSupplier, RiskStore.scanTender, RiskStore.scanOrganization})

AuditLoads ==
  Offers(Always, {AuditStore.fetchEvents, AuditStore.verifyChain, BlockchainStore.fetchHealth})

AuditCards ==
  Offers(Always, {AuditStore.verifyChain}) \cup
  Offers({"blockchain:anchor"}, {BlockchainStore.triggerAnchor})

EventsTable == Offers(Always, {AuditStore.verifyEvent, AuditStore.fetchEvents})

ReconstructionForm == Offers(Always, {AuditStore.reconstruct})

-----------------------------------------------------------------------------
(* WhistleblowerInvestigationView                                          *)

InvestigationLoads == Offers(Always, {WhistleblowerStore.fetchReports})

ReportsList == Offers(Always, {WhistleblowerStore.fetchReports, WhistleblowerStore.fetchReportDetail})

ReportCard ==
  Offers(Always,
    {WhistleblowerStore.assignToSelf, WhistleblowerStore.changeStatus, WhistleblowerStore.postInvestigatorUpdate})

-----------------------------------------------------------------------------
(* AdminUsersView with UserCreateWizard, AdminRolesView                    *)

AdminUsersLoads ==
  Offers(Always, {AdminStore.fetchUsers, AdminStore.fetchRoles, AdminStore.fetchOrganizations})

UsersTable ==
  Offers({"users:reset_password"}, {AdminStore.resetPassword \o AdminStore.fetchUsers}) \cup
  Offers({"users:reset_mfa"}, {AdminStore.resetMfa}) \cup
  Offers(Always, {AdminStore.fetchUsers})

\* The form for roles and status opens for each permission of canManageUsers.
EditUserForm ==
  UNION {Offers({p}, {AdminStore.updateUser}) : p \in {"users:update", "users:reset_password", "users:reset_mfa"}}

CreateUserWizard == Offers({"users:create"}, {AdminStore.createUser})

AdminRolesLoads == Offers(Always, {AdminStore.fetchRoles, AdminStore.fetchPermissions})

RoleForms ==
  Offers({"roles:manage"}, {AdminStore.createRole, AdminStore.updateRole, AdminStore.deleteRole})

-----------------------------------------------------------------------------
(* DashboardView                                                           *)

DashboardLoads ==
  UNION {
    Offers({"budget:read"}, {BudgetStore.fetchAllocations, BudgetStore.fetchBudgets}),
    Offers({"project:read"}, {ProjectsStore.fetchProjects}),
    Offers({"risk:read"}, {<<"GET risk-alerts/summary">>}),
    Offers({"procurement:read"}, {ProcurementStore.fetchRequests}),
    Offers({"invoice:read"}, {InvoicesStore.fetchInvoices}),
    Offers({"audit:read"}, {AuditStore.fetchEvents}) }

\* The items of "attention", each shown once its count was loaded.
AttentionLinks ==
  { [shown |-> {"budget:read"}, to |-> "budgets"],
    [shown |-> {"procurement:read"}, to |-> "procurement"],
    [shown |-> {"invoice:read"}, to |-> "contracts"],
    [shown |-> {"risk:read"}, to |-> "alerts"] }

-----------------------------------------------------------------------------
(* The settings and the public pages                                       *)

SecurityLoads == Offers(Always, {<<"GET users/me/security">>})

AuthenticatorCard ==
  Offers(Always,
    {<<"POST users/me/mfa/totp/setup">>, <<"POST users/me/mfa/totp/enable", "GET users/me/security">>})

SigningKeyLoads == Offers(Always, {SigningKeyStore.fetchStatus})

SigningKeyCard == Offers(Always, {SigningKeyStore.enroll})

PublicReportForm ==
  Offers(Always,
    {WhistleblowerStore.submitReport \o WhistleblowerStore.addEvidence, WhistleblowerStore.submitReport})

PublicStatusForm ==
  Offers(Always,
    {WhistleblowerStore.checkStatus, WhistleblowerStore.replyAsReporter,
     WhistleblowerStore.addEvidence \o WhistleblowerStore.checkStatus})

TransparencyLoads == Offers(Always, {TransparencyStore.searchProjects})

TransparencyTabs ==
  Offers(Always,
    {TransparencyStore.searchProjects, TransparencyStore.fetchProjectDetail, TransparencyStore.searchTenders,
     TransparencyStore.fetchTenderDetail, TransparencyStore.searchSuppliers, TransparencyStore.fetchBudgetLines,
     TransparencyStore.verifyHash})

-----------------------------------------------------------------------------
(* The router, the navigation, and what each page consists of              *)

\* The permission each route requires; "public" routes need no session.
RouteNeeds ==
  [ transparency      |-> {"public"},          report      |-> {"public"},
    dashboard         |-> {},                  audit       |-> {"audit:read"},
    budgets           |-> {"budget:read"},     procurement |-> {"procurement:read"},
    supplier          |-> {"supplier:read"},   alerts      |-> {"risk:read"},
    contracts         |-> {"contract:read"},   projects    |-> {"project:read"},
    portal            |-> {"audit:read"},      reports     |-> {"whistleblower:read"},
    users             |-> {"users:read"},      roles       |-> {"roles:read"},
    security          |-> {},                  signingKey  |-> {} ]

Pages == DOMAIN RouteNeeds

\* The entries of the sidebar and of the command palette.
NavigationLinks ==
  { [shown |-> {}, to |-> "dashboard"],
    [shown |-> {"budget:read"}, to |-> "budgets"],
    [shown |-> {"contract:read"}, to |-> "contracts"],
    [shown |-> {"procurement:read"}, to |-> "procurement"],
    [shown |-> {"project:read"}, to |-> "projects"],
    [shown |-> {"risk:read"}, to |-> "alerts"],
    [shown |-> {"audit:read"}, to |-> "audit"],
    [shown |-> {"audit:read"}, to |-> "portal"],
    [shown |-> {"whistleblower:read"}, to |-> "reports"],
    [shown |-> {"users:read"}, to |-> "users"],
    [shown |-> {"roles:read"}, to |-> "roles"],
    [shown |-> {}, to |-> "security"],
    [shown |-> {}, to |-> "signingKey"] }

\* The link from a supplier's name in ProcurementView.
SupplierLink == [shown |-> {"procurement:manage", "supplier:read"}, to |-> "supplier"]

Loads ==
  [ transparency |-> TransparencyLoads, report |-> {}, dashboard |-> DashboardLoads, audit |-> AuditLoads,
    budgets |-> BudgetsLoads, procurement |-> ProcurementLoads, supplier |-> SupplierLoads,
    alerts |-> AlertsLoads, contracts |-> ContractsLoads, projects |-> ProjectsLoads, portal |-> {},
    reports |-> InvestigationLoads, users |-> AdminUsersLoads, roles |-> AdminRolesLoads,
    security |-> SecurityLoads, signingKey |-> SigningKeyLoads ]

Controls ==
  [ transparency |-> TransparencyTabs,
    report       |-> PublicReportForm \cup PublicStatusForm,
    dashboard    |-> DashboardLoads,
    audit        |-> AuditCards \cup EventsTable,
    budgets      |-> FiscalYearsCard \cup NewBudgetCard \cup BudgetsTable \cup AllocationsTable,
    procurement  |-> SuppliersCard \cup PlansCard \cup RequestsCard \cup TendersCard,
    supplier     |-> ProfileCard \cup OwnersCard \cup DocumentsCard \cup RiskProfileCard,
    alerts       |-> AlertsTable \cup ScanCard,
    contracts    |-> ContractsTable \cup PurchaseOrdersTable \cup InvoicesTable \cup PaymentRequestsList
                       \cup PaymentsTable,
    projects     |-> ProjectsTable \cup MilestonesList \cup EvidenceTable,
    portal       |-> ReconstructionForm,
    reports      |-> ReportsList \cup ReportCard,
    users        |-> UsersTable \cup EditUserForm \cup CreateUserWizard,
    roles        |-> RoleForms,
    security     |-> AuthenticatorCard,
    signingKey   |-> SigningKeyCard ]
=============================================================================
