------------------------------ MODULE Console ------------------------------
(***************************************************************************)
(* One user at the web console, with any number of roles.  What the        *)
(* console offers follows the roles in the auth store, which are read when *)
(* the user signs in or reloads the page; what the API allows follows the  *)
(* roles in the access token, which each silent refresh takes anew from    *)
(* the database.                                                           *)
(*                                                                         *)
(* Roles are seeded or defined by an administrator.  A seeded role that an *)
(* administrator edited is one of the latter, with the grants it was given.*)
(*                                                                         *)
(* A page is left, and a control is used, once the calls before it are     *)
(* answered; while calls are under way the roles and the token may change. *)
(***************************************************************************)
EXTENDS Endpoints, Views, Integers

CONSTANTS
  CustomRoles,        \* the roles that administrators defined
  CustomGrants,       \* the permissions each of them was given
  Assignments,        \* the sets of roles that a user may have
  MaxAssigned         \* how often an administrator changes the user's roles

ASSUME ConsoleAssumption ==
  /\ CustomRoles \cap (SeededRoles \cup {"nobody"}) = {}
  /\ CustomGrants \in [CustomRoles -> SUBSET AllPermissions]
  /\ Assignments \subseteq SUBSET (SeededRoles \cup CustomRoles)
  /\ MaxAssigned \in Nat

VARIABLES
  granted,        \* the user's roles in the database
  token,          \* the roles in the access token
  shown,          \* the roles in the auth store
  page,           \* the page that is open
  followed,       \* the link that was followed last, and where it is offered
  pending,        \* the calls under way, and the ones that follow each
  refused,        \* the calls that were not served, of the page's load or the last control
  reassigned      \* how often the roles were changed

consoleVars == <<granted, token, shown, page, followed, pending, refused, reassigned>>

\* In place of roles, when no one is signed in.
Nobody == {"nobody"}

GrantsOf(role) == IF role \in CustomRoles THEN CustomGrants[role] ELSE RolePermissions[role]

\* What the roles of a user grant together.
PermissionsOf(roles) == IF roles = Nobody THEN {} ELSE UNION {GrantsOf(role) : role \in roles}

Holds(roles, permissions) == permissions \subseteq PermissionsOf(roles)

EndpointOf == [path \in {e.path : e \in Endpoints} |-> CHOOSE e \in Endpoints : e.path = path]

\* Calls that are sent one after the other, each once the one before is served.
Calls == Seq(DOMAIN EndpointOf) \ {<<>>}

NoLink == [from |-> "none", to |-> "none"]

ConsoleTypeOK ==
  /\ granted \in Assignments
  /\ token \in Assignments \cup {Nobody}
  /\ shown \in Assignments \cup {Nobody}
  /\ page \in Pages \cup {"login"}
  /\ followed \in {NoLink} \cup [from : {"navigation", "attention"}, to : Pages]
  /\ pending \subseteq [calls : Calls, by : {"page", "control"}]
  /\ \A f \in refused : f.answer \in {"missing", "unauthenticated", "denied", "unproven"}
  /\ reassigned \in 0 .. MaxAssigned

ConsoleInit ==
  /\ granted \in Assignments
  /\ token = Nobody /\ shown = Nobody
  /\ page = "login"
  /\ followed = NoLink
  /\ pending = {} /\ refused = {}
  /\ reassigned = 0

-----------------------------------------------------------------------------
(* The guards of the API, in their order                                   *)

JwtAuthGuard(endpoint, roles) == endpoint.needs = Anyone \/ roles # Nobody

\* Mutant: any grant at all will do.
PermissionsGuardForAnyGrant(endpoint, roles) ==
  endpoint.needs \in {Anyone, SignedInOnly} \/ PermissionsOf(roles) # {}

PermissionsGuard(endpoint, roles) ==
  endpoint.needs \in {Anyone, SignedInOnly} \/ endpoint.needs \in PermissionsOf(roles)

\* SignatureGuard and StepUpGuard
ProofGuards(endpoint, carried) == endpoint.proof \in {"none", carried}

\* The handlers that enforce the policy rule on approvals.
PolicyStepUps == {"POST procurement-requests/:id/approve", "POST budgets/:id/approve"}

\* The rule: above the threshold of the deployment, an approval takes a step-up token.
highValueApprovalRule(path, high) == path \in PolicyStepUps /\ high => Carries(path) = "stepUp"

Answer(path, roles, high) ==
  IF path \notin DOMAIN EndpointOf THEN "missing"
  ELSE LET endpoint == EndpointOf[path]
       IN  IF ~JwtAuthGuard(endpoint, roles) THEN "unauthenticated"
           ELSE IF ~PermissionsGuard(endpoint, roles) THEN "denied"
           ELSE IF ~ProofGuards(endpoint, Carries(path)) \/ ~highValueApprovalRule(path, high) THEN "unproven"
           ELSE "served"

-----------------------------------------------------------------------------
Sent(offers, roles, by) == {[calls |-> o.calls, by |-> by] : o \in {p \in offers : Holds(roles, p.shown)}}

Opens(p, roles) == RouteNeeds[p] = {"public"} \/ Holds(roles, RouteNeeds[p])

\* Mutant: the router opens any page to who is signed in.
Unguarded(p, roles) == p

\* The router's guard: who lacks the permission of a route is sent to the dashboard.
Guarded(p, roles) == IF Opens(p, roles) THEN p ELSE "dashboard"

Show(p, roles) ==
  /\ page' = p
  /\ pending' = Sent(Loads[p], roles, "page")
  /\ refused' = {}

\* The top bar loads once, with the first page.
EnterConsole ==
  /\ shown = Nobody
  /\ token' = granted /\ shown' = granted
  /\ Show("dashboard", granted)
  /\ followed' = NoLink
  /\ UNCHANGED <<granted, reassigned>>

\* An administrator replaces the roles of the user by others, or changes what
\* one of them grants; sessions go on.
AssignRole ==
  /\ reassigned < MaxAssigned
  /\ granted' \in Assignments \ {granted}
  /\ reassigned' = reassigned + 1
  /\ UNCHANGED <<token, shown, page, followed, pending, refused>>

\* The unauthorized handler of the API client.
RefreshToken ==
  /\ token # Nobody
  /\ token' \in {granted, Nobody}
  /\ UNCHANGED <<granted, shown, page, followed, pending, refused, reassigned>>

\* A full reload: restoreSession, then the guard for the same route.
Reload ==
  /\ shown # Nobody /\ pending = {}
  /\ \/ /\ token' = granted /\ shown' = granted
        /\ Show(Guarded(page, granted), granted)
     \/ /\ token' = Nobody /\ shown' = Nobody
        /\ page' = "login" /\ refused' = {}
        /\ UNCHANGED pending
  /\ followed' = NoLink
  /\ UNCHANGED <<granted, reassigned>>

LeaveConsole ==
  /\ shown # Nobody /\ pending = {}
  /\ token' = Nobody /\ shown' = Nobody
  /\ page' = "login" /\ refused' = {} /\ followed' = NoLink
  /\ UNCHANGED <<granted, pending, reassigned>>

\* The address of a page is entered; without a session only public ones open.
Open(p) ==
  /\ pending = {}
  /\ shown # Nobody \/ RouteNeeds[p] = {"public"}
  /\ Show(Guarded(p, shown), shown)
  /\ followed' = NoLink
  /\ UNCHANGED <<granted, token, shown, reassigned>>

Follow(link, from) ==
  /\ shown # Nobody /\ pending = {}
  /\ Holds(shown, link.shown)
  /\ Show(Guarded(link.to, shown), shown)
  /\ followed' = [from |-> from, to |-> link.to]
  /\ UNCHANGED <<granted, token, shown, reassigned>>

FollowNavigation == \E link \in NavigationLinks : Follow(link, "navigation")

FollowSupplier == page = "procurement" /\ Follow(SupplierLink, "navigation")

FollowAttention == page = "dashboard" /\ \E link \in AttentionLinks : Follow(link, "attention")

Use(offer) ==
  /\ page # "login" /\ pending = {}
  /\ Holds(shown, offer.shown)
  /\ pending' = {[calls |-> offer.calls, by |-> "control"]}
  /\ refused' = {}
  /\ UNCHANGED <<granted, token, shown, page, followed, reassigned>>

\* Calls that are sent together carry the same token, and are judged by it.
\* The calls after one that was refused are not sent.
Serve == \E high \in BOOLEAN :
  LET Answered(c) == Answer(Head(c.calls), token, high)
      goOn == {c \in pending : Answered(c) = "served" /\ Len(c.calls) > 1}
      fail == {c \in pending : Answered(c) # "served"}
  IN  /\ pending # {}
      /\ pending' = {[c EXCEPT !.calls = Tail(@)] : c \in goOn}
      /\ refused' = refused \cup
           {[path |-> Head(c.calls), by |-> c.by, answer |-> Answered(c),
            stale |-> PermissionsOf(shown) # PermissionsOf(token)] : c \in fail}
      /\ UNCHANGED <<granted, token, shown, page, followed, reassigned>>

ConsoleNext ==
  \/ EnterConsole
  \/ AssignRole
  \/ RefreshToken
  \/ Reload
  \/ LeaveConsole
  \/ \E p \in Pages : Open(p)
  \/ FollowNavigation
  \/ FollowSupplier
  \/ FollowAttention
  \/ page # "login" /\ \E offer \in Controls[page] : Use(offer)
  \/ Serve

ConsoleSpec == ConsoleInit /\ [][ConsoleNext]_consoleVars
-----------------------------------------------------------------------------
(* What the tables of Endpoints and Views promise together.  They are      *)
(* constants, so that TLC evaluates the assumption once and for all.       *)

\* The calls a page sends whose permission follows neither from the one of its
\* route nor from the ones its control is shown for.
Uncovered ==
  { <<"audit", "GET blockchain/health">>,
    <<"procurement", "GET fiscal-years">>, <<"procurement", "GET allocations">>,
    <<"contracts", "GET invoices">>, <<"contracts", "GET payment-requests">>,
    <<"contracts", "GET payments">>,
    <<"reports", "POST whistleblower/reports/:id/assign">>,
    <<"reports", "POST whistleblower/reports/:id/status">>,
    <<"reports", "POST whistleblower/reports/:id/updates">>,
    <<"users", "GET roles">>, <<"users", "PATCH users/:id">> }

\* The pages whose loads the seeded roles do not cover, either.
PartlyLoaded == {"contracts", "procurement"}

\* The calls of an offer reach endpoints, with the proofs these ask for.
CallsReach(calls) ==
  /\ calls \in Calls
  /\ \A i \in DOMAIN calls : ProofGuards(EndpointOf[calls[i]], Carries(calls[i]))

\* What the endpoint of a call needs is among these permissions, or nothing.
Entitled(permissions, call) == EndpointOf[call].needs \in {Anyone, SignedInOnly} \cup permissions

\* The permissions of whoever comes to an offer of a page.
Brought(o, p) == o.shown \cup (RouteNeeds[p] \ {"public"})

\* One of these permissions comes with the one of the call in every seeded role
\* that has it, and so in whatever roles are combined.
CoveredBySeed(permissions, call) ==
  \/ EndpointOf[call].needs \in {Anyone, SignedInOnly}
  \/ \E right \in permissions : \A role \in SeededRoles :
       right \in RolePermissions[role] => EndpointOf[call].needs \in RolePermissions[role]

TablesAgree ==
  \A p \in Pages : \A o \in Loads[p] \cup Controls[p] :
    /\ CallsReach(o.calls)
    /\ \A i \in DOMAIN o.calls :
         /\ Entitled(Brought(o, p), o.calls[i]) \/ <<p, o.calls[i]>> \in Uncovered
         /\ \/ CoveredBySeed(Brought(o, p), o.calls[i])
            \/ o \notin Controls[p] /\ p \in PartlyLoaded
            \/ /\ p = "contracts" /\ "invoice:verify" \in o.shown /\ o.calls[i] = fetchPaymentRequests
               /\ EndpointOf[fetchPaymentRequests].needs = "payment:read"

ASSUME ConsoleTablesAgree == TablesAgree

-----------------------------------------------------------------------------
\* What the console shows and loads is what the API allows: whatever roles a
\* user has, a call is denied only to one whose permissions changed under the
\* open page, or as one of the calls of Uncovered.  (Each denial would also be
\* an AUTHORIZATION_DENIED event of the audit trail.)
OfferedIsAllowed ==
  \A f \in refused : f.answer = "denied" => f.stale \/ <<page, f.path>> \in Uncovered

\* For the seeded roles, and for every combination of them, these calls are
\* allowed all the same, but for the loads of two pages and for one user: the
\* Engineer who verifies an invoice on a page that another role opened, and is
\* denied the payment requests that are fetched after it.
SeededRolesFit ==
  shown \subseteq SeededRoles =>
    \A f \in refused : f.answer = "denied" =>
      \/ f.stale
      \/ f.by = "page" /\ page \in PartlyLoaded
      \/ f.path = fetchPaymentRequests /\ "Engineer" \in shown /\ shown # {"Engineer"}

\* Each call of the stores reaches an endpoint, and brings the step-up token
\* or the signature that the endpoint asks for.  Where a deployment sets a
\* threshold, an approval above it is the exception: the stores send no token.
CallsAreUnderstood ==
  \A f \in refused : f.answer # "missing" /\ (f.answer = "unproven" => f.path \in PolicyStepUps)

\* The navigation leads to the page it names.
NavigationLeads == followed.from = "navigation" => page = followed.to

\* What the console shows, loads and sends agrees with what the API grants.
ConsoleAgreesWithApi ==
  OfferedIsAllowed /\ SeededRolesFit /\ CallsAreUnderstood /\ NavigationLeads

\* So do the dashboard's links.  (It does not hold: who holds invoice:read but
\* not contract:read, an Engineer or a Finance Officer, is sent back.)
AttentionLeads == followed.from = "attention" => page = followed.to

\* An approval can be given from the console, whatever it amounts to.  (It does
\* not hold where the threshold is set: neither store sends a step-up token.)
ApprovalsAreProven == \A f \in refused : f.answer # "unproven"

Passes(path, roles) == \E high \in BOOLEAN : Answer(path, roles, high) = "served"

ConflictingDuties ==
  { {"POST payment-requests/:id/approvals", "POST payment-requests/:id/execute"},
    {"POST tenders/:id/publish", "POST bids/:id/award"},
    {"POST tenders/:id/publish", "POST bids/:id/evaluate"},
    {"POST procurement-requests", "POST procurement-requests/:id/approve"},
    {"POST procurement-requests", "POST risk-alerts/:id/review"},
    {"POST budgets", "POST budgets/:id/approve"},
    {"POST purchase-orders/:id/invoices", "POST invoices/:id/verify"},
    {"POST invoices/:id/verify", "POST payment-requests/:id/approvals"},
    {"POST milestones/:id/complete", "POST milestones/:id/inspections"} }

\* The seeded roles that no user may have together, if the duties are to stay
\* apart.  No code enforces it: it is the rule an administrator has to keep.
MayNotMeet ==
  { {"TreasuryOfficer", "AccountingOfficer"}, {"TreasuryOfficer", "ApprovingOfficer"},
    {"FinanceOfficer", "AccountingOfficer"}, {"FinanceOfficer", "ApprovingOfficer"},
    {"FinanceOfficer", "Engineer"}, {"AccountingOfficer", "Engineer"},
    {"ApprovingOfficer", "Engineer"}, {"ProcurementOfficer", "Engineer"},
    {"ProcurementOfficer", "ApprovingOfficer"}, {"ProcurementOfficer", "Auditor"},
    {"ProjectManager", "Engineer"} }

MayMeet(roles) ==
  /\ roles \subseteq SeededRoles \ {"SuperAdministrator"}
  /\ \A pair \in MayNotMeet : ~ (pair \subseteq roles)

\* The eleven pairs of MayNotMeet are all there is to keep apart: a user who has
\* neither a pair of them nor the Super Administrator's role, however many other
\* seeded roles, passes the guards of no two duties that the compliance
\* registry calls separate.
DutiesAreSeparate ==
  MayMeet(token) => \A duties \in ConflictingDuties : \E path \in duties : ~ Passes(path, token)

\* What the compliance registry says of the grants: no single official passes
\* two of these duties.  (It does not hold: a user's roles are not checked
\* against each other, and one who is both Accounting Officer and Treasury
\* Officer approves a payment and executes it.)
NoOfficialHoldsBoth ==
  token \cap {"SuperAdministrator"} = {} =>
    \A duties \in ConflictingDuties : \E path \in duties : ~ Passes(path, token)

\* Whoever may use a control may open a page that has it.  (It does not hold:
\* invoices are only dealt with in ContractsView, which the roles that submit
\* and verify them cannot open.)
DutiesHaveAPage ==
  shown # Nobody =>
    \A p \in Pages : \A offer \in Controls[p] :
      Passes(Head(offer.calls), shown) =>
        \E q \in Pages : Holds(shown, RouteNeeds[q]) /\ offer \in Controls[q]
=============================================================================
