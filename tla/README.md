# B-PFMPS: a TLA+ verification of the procurement and finance API

The repository is a public finance management system: a NestJS API over
PostgreSQL (`apps/api`, Prisma schema in `packages/database`), a Vue front end
(`apps/web`) and small packages for cryptography, storage and the ledger
adapter's types. This directory holds TLA+ models of the API's services and of
the console in front of them, TLC configurations that check them on small
instances, and TLAPS proofs of the safety properties that the runs check. Names
in the modules are those of the code; `PROJECT.json` ("map") gives the lines each
definition stands for.

## 1. The system

Every operation is an HTTP handler: a NestJS service method that alternates
database calls (`await`) with checks on what they returned. Handlers run
concurrently, in one process (every `await` lets another run) and in several
processes over one database. The database is the only shared state; nothing is
passed between handlers except through its rows. What makes the code hard:

* **read - check - write without a lock.** Most handlers read a row, return
  early unless its status allows the operation, and write by primary key. Only
  a few take `SELECT ... FOR UPDATE`, and those mostly re-read a balance, not
  the status.
* **several transactions per request.** The change and its audit event are two
  transactions; executing a payment is seven.
* **constraints as guards.** Unique indexes and one CHECK constraint decide
  some races that no code looks at.
* **in-process mutual exclusion** (`runningPromise` in the rollup) where
  several processes may run.

| Component | State | Operations | Uses / is used by | Correct if |
|---|---|---|---|---|
| Budget ledger (`budget/services/allocations.service.ts`) | allocations, commitments, expenditures, budget_adjustments | create / release commitment, create expenditure, create / approve / reject adjustment | called by procurement (commitment), payments (expenditure); appends audit events | never over the ceiling; balances are the sums of the rows; one expenditure per commitment; nobody approves their own adjustment |
| Budgets, fiscal years (`budget/services`) | budgets, budget_lines, fiscal_years | create, submit, approve (creates the allocations), reject; activate, close | creates allocations | a budget is decided once, by another user; allocations exist exactly for the lines of approved budgets |
| Procurement (`procurement/services`) | plans, requests, tenders, bids, suppliers | create, submit, approve, reject; publish, close, cancel; submit, evaluate and award bids | approval creates a commitment; award feeds contracts | one commitment per approved request; one winner; awards only of evaluated bids of closed tenders |
| Contracts, purchase orders (`contracts/services`) | contracts, purchase_orders | create, activate, complete, terminate; create, issue, cancel | an awarded bid; invoices bill a purchase order | one contract per bid; life cycle only forward |
| Invoices, payments (`contracts/services`) | invoices, payment_requests, approvals, payments, reconciliations | create, verify, reject; approve, execute, reconcile | execution calls the ledger | quorum of distinct users; paid at most once; key replay returns the same payment |
| Audit trail (`audit`) | audit_events | append, verify chain / event, read unanchored, record anchor | every service appends | one unforked chain; verification accepts what the service wrote |
| Anchoring (`blockchain`) | ledger_blocks, `blockchainTxRef` | rollup by interval or request, append block, verify transaction | reads and marks audit events | every event gets anchored, in order, by a block that covers it |
| Projects and evidence (`projects`) | projects, milestones, inspections, evidence | create, activate, suspend, resume, cancel, complete; inspect; upload, download | a contract; photos go through storage | a project completes when its milestones passed inspection |
| Identity and access (`iam`) | users, roles, sessions (refresh tokens), MFA methods and backup codes, signing keys, nonces | login with lockout, refresh, logout, password change, MFA set-up and verification, role administration, key upload, signatures | guards every handler | a refresh token works once; reuse ends the family; failures lock; an enabled authenticator has its codes; a nonce works once |
| Suppliers (`supplier`) | profiles, owners, documents, status | update, add owner, upload, suspend, blacklist | bids ask for the status | owners within 100 %; a blacklisted supplier does not bid |
| Risk (`risk`) | risk_alerts | scans by detectors, review | blocks procurement approvals | one open alert per subject and kind; review by another user |
| Whistleblower (`whistleblower`) | reports | submit, follow up, assign, decide | notifications without the text | status moves only forward; the code finds its report |
| Compliance, policy (`compliance`, `common/policy`) | none | threshold rules | asked by handlers | a pure function of one request |
| Transparency, accountability, health, market data, notifications, storage, crypto, config | none of their own | queries, adapters | | pure input / output |
| Web console (`apps/web`) | the access token, the permissions of the signed-in user, one list per store, the selection of each view | silent refresh, step-up dialogue, loads of a page, actions of its controls | every controller of the API | a page offers and loads what the API grants; answers that come late do not change what an action is about |
| Seeded roles and guards (`packages/database/prisma/seed.ts`, `iam/guards`, the decorators of the controllers) | roles, permissions, grants | seed; authenticate, check the permission, the step-up token, the signature | every request | no user but a Super Administrator can do both halves of a separated duty, as long as their roles are ones that may meet |

## 2. The modules

```
Totals            sums of cents, as cardinalities            <- TotalsTheorems
Ledger            allocations, commitments, expenditures and the three
                  transactions on them                        <- LedgerProofs
CommitmentControl abstract: what commitment control promises
Allocations       AllocationsService's handlers over Ledger,
                  refines CommitmentControl                   <- AllocationsProofs
Disbursement      abstract: what paying an invoice promises
Payments          invoices, approvals, execution over Ledger,
                  refines Disbursement                        <- PaymentsProofs
AuditChain        AuditService's hash chain
Anchoring         rollups over AuditChain                     <- AnchoringProofs

Handlers          how a request runs: a record of its await and its locals

Sourcing          composes the four below                     <- SourcingProofs
  Procurement     purchase requests and their commitments, and what the
                  budget office does with these, over Ledger
  Tendering       tenders, lots, bids, evaluations, awards
  RiskAlerts      split procurement: scan, alert, review, gate
  Detectors       the statistics on the bids of one lot

Records           composes the six below                      <- RecordsProofs
  Contracts       contracts, orders, invoices and the duplicate scan
  Projects        projects, milestones, inspections
  Evidence        files, digests, anchors, the location scan
  Budgets         fiscal years, budgets and their allocations
  Suppliers       vetting, ownership, documents, the risk scan
  Whistleblower   reports, evidence, updates, outcomes

Access            composes the seven below                    <- AccessProofs
  Sessions        refresh tokens: rotation, reuse, revocation
  WebClient       the API client and the step-up dialogue, refines Sessions
  Accounts        lockout and role administration
  Authenticators  TOTP and backup codes
  Signatures      signing keys and nonces
  Selections      the selection of a view and answers that come late
  Console         one user at the console, over the two tables:
    Endpoints     the seeded roles and their grants; the handlers of the API
                  and what their guards ask for
    Views         the calls of each store; what each page loads, offers, to whom

MC*               constants and symmetry for TLC
```

**Ledger.** One variable per column of `allocations`; `commitment` and
`expenditure` are the rows by id (an expenditure is known by its commitment:
`commitmentId` is unique). `CommitTx`, `ReleaseTx` and `SpendTx` are the three
transactions. Each takes the row lock first and reads the balance after it, so
it is one atomic action; it is enabled only if the CHECK constraint
(`Balanced`) and the unique index accept it, otherwise it rolls back, which
`Fail` (Allocations) or the refusal branch (Payments) is. Amounts are cents.

**Allocations.** A request (`request[r]`) is a handler activation. Creating
reads nothing that can change before the lock, so `CreateCommitment` is one
step; `ReadForX` is the unlocked read with its early returns, `X` the
transaction, `AppendAudit` the append that follows; `Fail` ends a request at
any step (error, timeout, crash). `ApproveAdjustment` re-reads the balance but
not the adjustment, `RejectAdjustment` neither: as in the code. `Exclusive` is
not code: it is the environment in which no two requests are between read and
write of one row.

**CommitmentControl** has a ceiling, commitments and payments, and no running
balance: it recomputes from the rows whether an amount fits. `Allocations`
under `ExclusiveSpec` implements it (`ceiling <- authorized`, `paid <-
expenditure`), which is what the running columns are for.

**Disbursement** is what paying an invoice promises, without requests, keys,
claims or failures: who verified, who signed, where the payment is, and what left
the budget for whom. `Payments` implements it (`Payout`): an expenditure inside an
execution is `Pay`, the finalizing transaction is `Execute`, and every other await of
`execute`, including its failures, changes nothing there.

**Payments.** An invoice, its payment request and its payment are known by the
invoice's id (`invoiceId` and `paymentRequestId` are unique). `execute` is one
step per await: `LookUpKey`/`Replay`, `ReadRequest`, `Claim`/`LostClaim`,
`ReadCommitment`, `CreateExpenditure`, the ledger's `AppendAudit`, `Finalize`,
the payment's `AppendAudit`; a throw in the work goes to `DeleteClaim`, as the
catch does. `Throw` and `Crash` are allowed at every step when `Faults` has
them. A key that is found is answered and nothing changes, so there is no
action for a replay. `BudgetRelease` and `BudgetSpend` are the budget endpoints other users
call at the same time; here they are the transactions alone, on any commitment
that was made and whatever its status, which is at least what a handler can do
whose check is out of date. Permissions and organization scope are not modelled
here: every user may do everything their own past does not forbid. Of the
audit events only PAYMENT_EXECUTED is kept.

**Handlers** is the part that the modules described below share: `Start` a
request, `Go` on to the next await, `Stop`, and `Abandon`, which is a request
that ends at an await (error, timeout, crash) and is allowed when `MayFail`. A
request is a record: `at` names the await it waits in, the other fields are the
local variables that the code after it still uses. Every module that extends
it has one action per stretch of code between two awaits, so that the check of
a status and the write that relies on it are two steps wherever they are two
statements.

**Procurement.** The handlers of a procurement request (`purchase[q]`; `request[r]`
is the HTTP request). `approve` is four steps: the read with its checks, the
look for a blocking alert (which may refuse at any time: the alerts are
RiskAlerts'), `CommitBudget`, which is the ledger's `CommitTx`, and the write of
the request. Neither of the last two looks at the status again. The budget office
releases commitments and pays them meanwhile, with the two handlers of
`AllocationsService` that approvals race with: `ReadForRelease` and
`ReadForExpenditure` check ACTIVE on a read without a lock, `ReleaseCommitment` and
`CreateExpenditure` write later and do not check again. Two history variables
exist only to state the properties: `overtaken` are the requests whose commitment
another one wrote since they checked it, `lateWrites` counts for each commitment
what such requests then wrote. Adjustments of the ceiling are left to
`Allocations`.

**Tendering.** `tender`, `bid` and `award` are the rows (`awards` has a unique
index on the lot, which decides between two awards). `award` is a transaction
on statuses read before, followed by `MaybeMarkAwarded` (the count) and
`MarkAwarded` (the write) as further steps; `close` writes first and scans
after. `scanned` and `disturbed` exist only to state properties.

**RiskAlerts, Detectors.** A batch of purchases of one organization that a split
is looked for in: submit, approve behind the gate (`FindBlockingAlert`), the
scan after it (sum over the batch, two thresholds), `raiseAlert` with its look
for an open alert, and the review. `undetected` exists only to state the property:
it is set when a detection breaks off, and when the detector looks past a split
because the window also has a purchase over the threshold. `Detectors` has the statistics on bids as
operators: a z-score and a coefficient of variation against a threshold,
multiplied out so that they are integer arithmetic; a behaviour draws every list
of bids up to `MaxBids`.

**Contracts.** `CreateInvoice` is the read of the order, the sum over its invoices,
the insert and the duplicate scan: four steps without a lock. Payment of a
verified invoice is left to `Payments`.

**Projects, Evidence.** `applyInspectionOutcome` writes the milestone by id, then
counts and writes the project, each in a step of its own. A piece of evidence
is a file under a fresh key, a row with its digest, an anchor that may fail and
a location scan that may fail; the disk may be damaged or have two files
exchanged (`MayFail`). A digest is the content it is of; contents are distinct.

**Budgets, Suppliers, Whistleblower.** Status machines that check on one read and
write by id, with what hangs on them: the allocations of an approval (one
transaction), the risk profile after a status change, the evidence and the
tracking code of a submission. The row of a report's evidence and the audit event
behind it are one step of `AddEvidence`: no property reads the trail between them.

**Sessions.** A session row is known by its refresh token and remembers, for the
properties, the login it stems from. `rotate` is `Rotate` (the read),
`CreateChild`, `MarkRotated` (the conditional update that arbitrates) and
`AnswerRotated`, or `DeleteChild` and `RevokeAll`. `handed` are the tokens some
client has, `ended` the logins whose user had every session revoked after them;
both exist only to state the properties. Expiry, lockout and MFA only refuse
requests that the model lets by. Access tokens, which stay valid until they
expire, are not modelled.

**Accounts, Authenticators, Signatures.** The failure counter (incremented in one
statement, acted upon in a later one), the lock and its end, and the replacement
of a user's roles (delete and insert in one transaction that sees the rows it
deletes); set-up, enabling, verification and reset of a TOTP method with its
backup codes; upload of signing keys and the unique index on nonces. A `user_roles`
row is known by its role: rows that two updates insert for one role are one
(`Added`).

**Endpoints, Views, Console.** The first two are tables. `Endpoints`:
ROLE_PERMISSIONS of the seed; for each handler its path, the permission its
decorator names and the proof (step-up token or signature) its guards want. `Views`: for
each action of a store the calls it makes, in order; for each page what it loads
when it opens and what it offers to whom. `Console` is one user who opens
pages, follows links and uses controls, whose calls the API answers one by one
in the order of its guards (`Answer`), while an administrator changes the
user's roles. What the console shows follows the roles at sign-in (`shown`), what the
API allows the roles in the token (`token`), which each silent refresh takes from
the database (`granted`). Each of the three is a set of roles, and grants what its
members grant together (`PermissionsOf`, as `toJwtPayload` does). A role is a seeded
one or one that administrators defined (`CustomRoles`, with any `CustomGrants`); a
seeded role that was edited is one of the latter. Of the fifteen seeded roles those
with equal grants are one element of `SeededRoles`, which leaves twelve. After
the guards, of all that a handler may answer only the policy rule on high-value approvals
is modelled (`highValueApprovalRule`), because it asks for something that the
console would have to send; whether an amount is above the threshold is a free
choice (`high`), since a deployment need not set one.

**WebClient** composes the API client with `Sessions`: calls answered 401
refresh with the cookie of the jar at that moment, which the API rotates as in
`Sessions`, and are repeated once; `lib/stepUp.ts` keeps one pending challenge, and
the dialogue does not cancel it while its code is on the way (`MayCancel`).
**Selections** has one list per store, filled by whichever answer comes last,
and a selection that may have changed since the question.

**AuditChain, Anchoring.** A hash is what was hashed, so equal hashes have
equal inputs; signatures and payload hashes are taken for valid. The advisory
lock is held from `BeginAppend` to `CommitAppend` or `AbortAppend`; the
bigserial does not give a number back. A run is one rollup in one process
(`runningPromise` makes a second caller join it); a block has one transaction,
so its reference is the block's sequence. `failures` counts the runs that failed,
to bound them.

## 3. The runs

| Run | Question | Instance |
|---|---|---|
| `alloc_concurrent` (TypeOK, WithinAuthorization, SpentIsPaid, CommittedAtMostEarmarked, ExpenditureSettles, FourEyes, AuditedHappened) | What AllocationsService keeps whatever two concurrent requests interleave, lose or race on. | 1 allocation (line 2), 2 commitments, 1 adjustment, 2 users, 2 requests, amounts {1, 2} |
| `alloc_exclusive` (CommittedIsEarmarked, ReleasedIsUnspent, CeilingIsAdjusted, ImplementsControl) | What holds in addition, and that the service implements commitment control, when no two requests are between read and write of one row. | the same, under `ExclusiveSpec` |
| `alloc_overcommitted` (NeverOvercommitted) - **violated** | The drift lets a new commitment through that does not fit beside the ACTIVE ones and what was paid. | 3 commitments, amount 1, no adjustment |
| `pay_execution` (TypeOK, PaidOnce) | Claim-then-work execution of two invoices on one commitment, with replays, lost races, throws and crashes at every await. | 2 invoices on 1 commitment, 2 users, 2 keys, 2 requests, all faults, quorum 1 |
| `pay_approval` (ApprovalsDecide, ClaimsSettle) | Verification and multi-signature approval by four users, racing with rejection and execution, with throws and crashes; and unless something failed every claim is settled. | 1 invoice, 4 users, quorum 2, 2 requests, all faults, `MCFairSpec` |
| `pay_stranded` (SpentIsExecuted) - **violated** | An error after the expenditure committed leaves the budget spent and the payment request APPROVED with nobody at work on it. | 1 invoice, 2 requests, throws |
| `anchor` (TypeOK, ChainHolds, ReferencesStand, EventsGetAnchored) | Concurrent appends that may roll back and rollups of two processes, one of which may fail: one unforked chain, anchored in order and in the end completely. | 2 writers, 3 sequence numbers, 2 processes, batches of 2, 8 blocks (more than the runs make), 1 failing run, `FairSpec` |
| `chain_event_gap` (EventsVerify) - **violated** | After an append that rolled back, the next event has no row at sequence - 1 and verifyEvent reports it as tampered with. | 2 writers, 3 sequence numbers, 1 process |
| `sourcing` (SourcingTypeOK, ApprovedIsFunded, AwardsAreOrderly, AnomaliesAreSeen, SplitsAreStopped) | From the procurement request with its commitment, which the budget office releases or pays meanwhile, over tender, bids and award to the detectors that watch them: what the races of submissions, approvals, scans, reviews, evaluations and awards leave standing, and what the bid statistics find on every list of up to five bids. | 2 requests; 2 purchases of 2 on a line of 4, 3 commitments, payments of 2, 2 users; 1 tender, 2 lots, 2 suppliers; a batch of 4, any 3 of them submitted, 1 alert; up to 5 bids of 6 amounts |
| `proc_unowned` (CommitmentsAreOwned) - **violated** | An approval that fails between its two transactions, or that another approval overtakes, leaves budget committed to no purchase. | 1 purchase, 2 users, 2 requests, 3 commitments |
| `records` (RecordsTypeOK, InvoicingIsControlled, CompletionIsEarned, EvidenceIsSound, SuppliersAreVetted, ReportsAreFollowed, ApprovalsAllocate) | Contracts with orders and invoices, projects with milestones and inspections, the evidence vault, budgets, suppliers and whistleblower reports: what holds of each though its handlers check on one read and write on a later await. | 2 requests; 1 contract, 1 order, 3 invoices; 1 project, 2 milestones; 2 files, 2 contents; 1 budget, 2 lines, 3 users; 3 owners, 1 document; 2 reports |
| `access` (AccessTypeOK, LoginsAreChains, AuthenticatorComesWithCodes, SigningIsSound, ClientAsksOnce, ConsoleAgreesWithApi, DutiesAreSeparate, MilestonesAreOfTheirProject, AccountsAreKept) | Sessions, accounts, second factors and signing keys under concurrent requests that may fail at any await, and the web console in front of them: its silent refresh, its step-up dialogue, its selections, and every call of every page against the guards of the API for the roles a user may have, seeded or defined, one or several. | 2 requests, a third one that revokes sessions; 1 user, 3 tokens; threshold 2, 2 roles; 2 secrets, 2 codes, 3 time steps; 2 keys, 1 nonce; 2 challenges; every page, 16 sets of roles (each seeded one, a defined one, 3 pairs), 1 change of them; 2 selectable records |

All bounds are constants of the .cfg files. *Ledger:* one allocation (no
transaction touches two), two commitments so that one can pay for the drift of
another, amounts {1, 2} under a line of 2 so that one fits, two do not always
fit and an adjustment changes that; two requests, the smallest number that
races, one adjustment. *Payments:* two invoices on one commitment for
execution (they compete for it), one invoice and four users for approval, two
keys, so that a request can be sent with its own, another or a shared key; two
requests. *Anchoring:* three sequence numbers, batches of two (so that
a batch boundary falls inside the chain), two writers, two processes.
*Sourcing:* two purchases of 2 on a line of 4, so that a purchase which is approved
twice leaves nothing for the other; three commitments, since it takes one that is
given back twice and two beside it to go beyond the budget; one tender
with two lots (the last award must see the other) and two suppliers (two awards
of a lot compete); a batch of three small purchases, of which any two are a
MEDIUM split and all a HIGH one, and a large one that hides them, of which any three
are submitted (`ThreeOfBatch`); one alert row; every list of up to five bids of six amounts around
the two estimates. *Records:* one of each parent row and two or three of each
child: three invoices of 3 on an order of 4 (one fits, two overlap, a third
must not), two milestones of a project, two files with two contents, three
owners with shares of 50 and 100, two reports. *Access:* one user, since no
handler touches two; three tokens are a login, a rotation and a competing
rotation or second login, three requests two rotations and a revocation
(`OthersRevoke`: the third only revokes); a
lockout after two failures, of which the instance has three; all sixteen pages, with
one change of roles under the open page, for a user who has one of the seeded roles
(the Public Viewer's grants nothing), a defined role (a clerk, whose permissions no
seeded role combines), or two roles: the Engineer and Project Manager whom the
views do not cover, the Accounting and Treasury Officer who hold two separate
duties, the Treasury Officer and Auditor who hold none.

`Sourcing`, `Records` and `Access` each take several modules as parts. No
transaction touches rows of two parts, a request is of one part for as long as
it runs, and no property names variables of two: a behaviour of all of them at
once is an interleaving of steps that commute, and a property of one part sees
only that part's steps. So a behaviour is about one part (`part` never changes),
which is the union of the state spaces instead of their product. Where two
modules do touch (Procurement and the Ledger, WebClient and Sessions, Console and
its tables) they are one part. `Few` in `access` are the two requests that run in all parts; in that of the
sessions a third one may revoke.

Symmetry is used for safety only, and only of sets whose values no constant
tells apart: requests, commitments, keys, users that no constant names,
processes; not of the commitments of `sourcing` and the tokens of `access`, of which
the next unused one is always the same (`NewIds`, `Fresh`). In `records` and `sourcing` sets of different parts share their model
values, which keeps the group of permutations small.

`CHECK_DEADLOCK FALSE` is set where the instance really ends: all ids used up,
all invoices decided, all sequence numbers given out.

**Fairness.** `Payments!FairSpec` is weak fairness of `Continue(r)`: an awaited
database call settles and the event loop resumes the handler. Nothing is
assumed of clients. In `pay_approval` awaits may throw and the API may crash;
`MCFairSpec` (MCApprovals) adds a variable `failed` that records whether one
did, and `ClaimsSettle` promises nothing after that: with a crash a claim stays
for ever, because nothing in the code removes it. `Anchoring!FairSpec` is weak
fairness of `Rollup(p)`: `setInterval` ticks for ever and a run's awaits
settle, in every process. Appends are not assumed to happen; finitely many runs
(`MaxFailures`) may fail. The other modules have safety properties only and no
fairness.

**Mutants.** For each property of a passing run, an operator next to a
definition of the model (marked "Mutant:") is the definition with a plausible
bug: a missing constraint, a check that is dropped, an update without its
condition. With it TLC finds the property violated.

## 4. What the runs found

* `alloc_overcommitted`, `NeverOvercommitted` (modules/budget/services/allocations.service.ts:304): Once committedAmount has drifted below the sum of the ACTIVE commitments, createCommitment finds money available that is already promised; src/SECURITY.md:1096 says allocations "provably cannot be over-committed even under concurrent load".
* `pay_stranded`, `SpentIsExecuted` (modules/contracts/services/payments.service.ts:393): If anything fails after createExpenditure's transaction committed, the claim is deleted but the commitment stays CONSUMED, so every later execution is refused; the comment at src/apps/api/src/modules/contracts/services/payments.service.ts:439 says a client "can legitimately retry with a NEW key".
* `proc_unowned`, `CommitmentsAreOwned` (modules/procurement/services/procurement-requests.service.ts:294): approve commits the budget in one transaction and writes the request in a statement after it, on a status read before both: an error in between, or a second approval, leaves a commitment that no request refers to; src/API.md:352 says approval "atomically creates a budget `Commitment`".
* `chain_event_gap`, `EventsVerify` (modules/audit/audit.service.ts:287): verifyEvent takes the event at sequence - 1 for the predecessor; an append that rolled back leaves a gap in the bigserial and the event after it fails chainLinkValid; src/SECURITY.md:380 says the link is checked against the event's "true predecessor in the *entire* audit chain".

Other consequences of the same races, seen while modelling and not given a run
of their own. The first group is written down in the modules as definitions that
do not hold, at the end of each, with the behaviour that breaks them:

| Definition | What a comment or the console promises | Why it does not hold |
|---|---|---|
| `Contracts!InvoicedIsAuthorized` | an order's cumulative invoices never exceed it (`invoices.service.ts:97`) | two creations sum before either inserts |
| `Projects!InspectionCompletesProject` | the last passed inspection completes the project (`inspections.service.ts:33`) | it may come before the project is active or while it is suspended, and nothing looks again |
| `Budgets!ApprovedIsNotRejected` | strict state transitions (`budgets.service.ts`) | a rejection that read PENDING_APPROVAL writes after the approval |
| `Tendering!ScannedBeforeAward` | reviewers see alerts before an award (`tenders.service.ts`) | the scan runs after CLOSED is written, and its failure is swallowed |
| `Detectors!LoneOutlierIsFlagged` | a bid far from peers that agree is flagged (`price-anomaly.detector.ts:30`) | peers that agree exactly have no deviation to divide by, and the bid is not compared |
| `Suppliers!BlacklistingStays` | blacklisting is a one-way door (`supplier-profile.service.ts:169`) | a reactivation that read SUSPENDED writes after it |
| `Whistleblower!OutcomesAreFinal` | an outcome has no legal move | two decisions read UNDER_REVIEW |
| `Accounts!RolesAreReplaced` | an update replaces the roles | each of two transactions deletes the rows it sees, and both insert |
| `Authenticators!BackupCodesAreSpent` | a backup code works once | of two verifications the later write brings the other's code back |
| `Signatures!OneActiveKey` | at most one ACTIVE key (`identity.service.ts:39`) | two uploads revoke what they see, and both insert |
| `WebClient!RefreshIsSilent` | an expired access token is refreshed silently (`client.ts:72`) | two calls present one cookie; the second rotation is a reuse and ends the login |
| `Selections!EvidenceIsOfItsProject` | evidence goes to the project it was chosen for | the selection is read after the file |
| `Selections!VerdictsAreOnWhatIsShown` | a verdict is about the report shown | the shown report may be the answer to an earlier selection |
| `Procurement!ApprovedFitsBudget` | allocations cannot be over-committed even under concurrent load, and procurement draws on that (`SECURITY.md:1096`) | a commitment whose release and payment overlap is given back twice, and an approval takes what was given back; `ApprovedIsFunded` says by how much at most |
| `Console!NoOfficialHoldsBoth` | no single official both requests and approves, or approves and executes (`compliance-rules.ts:141`) | a user's roles are not checked against each other: Accounting and Treasury Officer in one person approve a payment and execute it |
| `Console!ApprovalsAreProven` | above the threshold an approval needs a step-up token (`SECURITY.md:1188`) | no store sends one with it (`stores/procurement.ts:130`), so with the rule on, the console cannot approve above the threshold |
| `Console!AttentionLeads` | a link of the dashboard opens its page | an Engineer and a Finance Officer hold invoice:read but not contract:read |
| `Console!DutiesHaveAPage` | who may do something has a page for it | invoices are dealt with in a page that the roles which submit and verify them cannot open |

`SplitProcurementDetector` looks past a split while the same window has a single
purchase over the threshold (`maxSingle >= threshold`,
`split-procurement.detector.ts:75`): the comment there takes the window for "one
large legitimate purchase", and a split beside it goes unseen for as long as the
large purchase is in the window. The theorem about splits excepts these cases by
name (`undetected`).

Eleven calls of the console need a permission other than the ones by which their page
is opened or their control shown (`Uncovered` in Console), so that a role with
grants of its own, an edited one say, may be denied them. With seeded roles two of
these denials are left. Two pages load lists that some who may open them are
refused (`PartlyLoaded`): a Project Manager opens Contracts without payment:read, a
Supplier Procurement without budget:read. And an Engineer, who has no page for the
invoices they verify, finds one as soon as they are a Project Manager too: the
invoice is verified, and the payment requests that are fetched after it are denied
(`SeededRolesFit` names the case).

No code keeps two roles apart. `MayNotMeet` lists the eleven pairs of seeded roles that
together hold two separate duties, which is the rule that an administrator has to
keep by hand: `DutiesAreSeparate` shows that no other pair, and no larger set, has to
be kept apart, and for each of the eleven it would fail if the pair were left out.

Of the ledger, payments and audit: under `Spec` rather than `ExclusiveSpec` the
properties of `alloc_exclusive` fail (an adjustment approved twice is applied
twice; a release that read ACTIVE makes a spent commitment RELEASED,
`allocations.service.ts:245`); a crash between a change and its audit append
leaves the change unaudited (`allocations.service.ts:194`); a crash while a claim
is held leaves its key and its payment request taken (`payments.service.ts:346`);
two processes can roll the same events up into two blocks, of which the events
refer to the first (`anchoring.service.ts:74`); `execute` looks its key up before
the payment request, so a key of another payment is answered with that payment
(`payments.service.ts:303`), where `API.md:556` promises 409; its catch also
covers the audit append after the finalizing transaction, so that an error there
deletes the payment of an EXECUTED request (`payments.service.ts:438`); a late
`submit` makes an approved request SUBMITTED again
(`procurement-requests.service.ts:192`); a login that was checked before its
account was suspended gets its session after (`auth.service.ts:80`); and an
invoice that was verified or paid after `reject` read it becomes REJECTED
(`invoices.service.ts:325`).

## 5. What is proved

For all values of the constants that meet the modules' assumptions (any number
of allocations, commitments, adjustments, users and concurrent requests, any
amounts in Nat):

* `AllocationsProofs!TypeCorrect`: Every column and every request stays in its type, so no balance is ever negative.
* `AllocationsProofs!NeverBeyondAuthorization`: No interleaving of handlers, failures and retries takes committed and spent beyond authorized.
* `AllocationsProofs!SpendingIsExact`: spentAmount is the sum of the expenditures recorded.
* `AllocationsProofs!DriftIsOneSided`: The status races only ever lower committedAmount below the sum of the ACTIVE commitments.
* `AllocationsProofs!ExpendituresSettle`: A CONSUMED commitment has its one expenditure, within its amount.
* `AllocationsProofs!SeparationOfDuties`: Nobody approves an adjustment they requested.
* `AllocationsProofs!AuditIsTruthful`: An audit event tells only of what happened.
* `AllocationsProofs!CommitmentsAreExact`: Without races on one row committedAmount is the sum of the ACTIVE commitments.
* `AllocationsProofs!CeilingIsExact`: Without races on one row the ceiling is the budget line and its approved adjustments.
* `AllocationsProofs!OneBucket`: Without races on one row a released commitment was not spent.
* `AllocationsProofs!Implementation`: Without races on one row the service implements commitment control.
* `PaymentsProofs!PaymentsTypeCorrect`: Every row and every request of the payment flow stays in its type.
* `PaymentsProofs!PaymentsPayOnce`: However executions interleave and wherever one fails, a claim is one request's, what is EXECUTED was paid by its commitment's one expenditure, and a payment that the trail tells of stays; and the executions implement the abstract Disbursement.
* `PaymentsProofs!PaymentsAreDecided`: A payment is decided by as many distinct people as the policy asks for, none of whom verified its invoice, and a final decision never changes.
* `PaymentsProofs!PaymentsKeepTheLedger`: The allocations, commitments and expenditures stay in order under the payment flow too, whatever requests race to spend.
* `AnchoringProofs!AnchoringTypeCorrect`: The rows of the chain, the blocks and the runs stay in their types, and the blocks are numbered without a gap.
* `AnchoringProofs!ChainIsSound`: Whatever transactions of append interleave, roll back or skip a number, the chain verifies and grows at its end only.
* `AnchoringProofs!ReferencesAreSound`: With any number of processes and failures at any step, a reference is to a block that holds its event, is written in the order of the chain and never written over.
* `SourcingProofs!ApprovalsAreFunded`: An approved purchase has a commitment of its own for its estimate, by somebody other than its requester; and what is approved and paid goes beyond the budget by no more than what releases and payments that were overtaken between their check and their write gave back a second time.
* `SourcingProofs!TendersAreAwardedInOrder`: Each lot goes to one evaluated bid, and a tender whose lots are all awarded says so or is about to, however many awards, closes and cancellations interleave.
* `SourcingProofs!SplitsDoNotPass`: A split among the approved purchases was flagged unless a detection broke off or looked past it, and no request passes the gate with a purchase that an alert blocks.
* `SourcingProofs!AnomaliesSeen`: On lists of bids of any length and any prices: an extreme bid is always flagged, close bids are always collusion and only close ones are, and a rigged estimate shows against the market.
* `SourcingProofs!SourcingIsTyped`: Every row and request of purchases, tenders and alerts, and every lot that is scored, is of its type.
* `AccessProofs!SessionsAreChains`: One token of a login is live at most, and none of a login that was ended, whatever rotations and revocations interleave.
* `AccessProofs!SessionsTypeCorrect`: The rows of the sessions and every handler on them stay in their types.
* `AccessProofs!ClientImplementsSessions`: The web client implements the sessions: each of its steps is a step that TokenService allows any client, or leaves the sessions alone.
* `AccessProofs!ClientIsPolite`: A call refreshes once at most, and a step-up token goes to the action its code was typed for.
* `AccessProofs!AuthenticatorsHaveCodes`: Whoever has an authenticator has its backup codes, whatever set-ups, verifications and resets interleave.
* `AccessProofs!SignaturesAreSound`: A signature admits one request, and an official who enrolled a key can sign, whatever uploads interleave.
* `AccessProofs!AccountsKept`: As many failures as the threshold lead to a lock in any order of attempts and resets, and a change of the roles is made whole.
* `AccessProofs!MilestonesAreKept`: A milestone is completed within the selected project, in whatever order the answers come.
* `AccessProofs!ConsoleAgrees`: Whatever roles a user has, seeded or defined and however combined, and however often they change under open pages and calls under way, a call is denied only if the permissions shown are not the token's or as one of eleven calls that are named (Uncovered); with seeded roles only, these too are granted but for the loads of two pages and one call of an Engineer with further roles; given the facts about the tables (ConsoleTablesAgree) that TLC evaluates.
* `AccessProofs!DutiesStaySeparate`: A user with any number of seeded roles is served by no two endpoints whose duties are separate, unless they are a Super Administrator or have one of eleven pairs of roles together (MayNotMeet), which the code lets an administrator assign: proved from the routes of all controllers and the grants of all roles.
* `AccessProofs!AccessIsTyped`: Every row and request of sessions, accounts, second factors and signing keys, the client, the console and a view, is of its type.
* `RecordsProofs!RecordsAreTyped`: Every row and request of contracts, projects, evidence, budgets, suppliers and reports is of its type.
* `RecordsProofs!ReportsFollowed`: Whoever has a tracking code finds every file and the event behind it, and no report is concluded unreviewed.
* `RecordsProofs!BudgetsAllocateOnce`: Money is only allocated by an approval, of all lines at once, by somebody who did not draw the budget up, and the approval stays.
* `RecordsProofs!CompletionsAreEarned`: A completed project was inspected milestone by milestone, and one whose last milestone is verified is being marked, unless the inspection came before it was active.
* `RecordsProofs!EvidenceSound`: Evidence has its file and anchor, a download said to be verified is what was uploaded, and evidence from far off is flagged.
* `RecordsProofs!SuppliersVetted`: Concurrent owners stay within 100 % a request, the status that stays was assessed, and a blacklisted supplier has its alert.
* `RecordsProofs!InvoicingControlled`: An order is over-invoiced by what the other requests have in hand at most, and of two alike invoices one is flagged or about to be.

The assumptions on the constants are the `ASSUME`s of the modules, and say no
more than the schema or the code does: an identifier's foreign key is of the right
table (`AllocationOf`, `CommitmentOf`, `OrderOf`, `TenderOf`, ...); amounts are
naturals, percentages are from 1 to 100, thresholds are positive; a budget has a
line and a tender a lot (`@ArrayMinSize(1)`); tables are finite where a sum is
taken over them; `None` is no identifier. In `Suppliers` and `Contracts` the
requests are finite too, because the bound on a sum counts what requests have in
hand. TLC evaluates all of them in the runs.

The pattern of every proof is the same, since every handler has the same shape:
it reads, checks and later writes by key. A property is seldom inductive, because
nothing in it says what a request that already read still knows. So each inductive
invariant consists of the types, of *promises* - what a request knows at each of
its awaits, one operator on the request's record - and of what the rows say of each
other. A step of one request leaves the promises of the others alone because the
rows only ever change in one direction (a row never disappears, an amount never
changes, an award is never taken back), and that monotony is a lemma of its own.
Where a race is real, the promise is exactly what is left of the read after it.

*Totals.* `Total(f, S)` is the number of cents in a disjoint union, so no
induction is needed: what a posting does to a sum, that sums are monotone, that
they are bounded by the count times the largest, and that amounts which map one to
one to larger ones total no more, follow from the facts about cardinality in
FiniteSetTheorems.

*LedgerProofs* has one lemma per transaction and property; Allocations, Payments
and Procurement use them.

*AllocationsProofs.* Of the invariants only `WithinAuthorization` and the types
are inductive by themselves. `IInv` strengthens the others with what a request
knows although its read is old: `RequestsKnow` says that the row read by
`releaseCommitment` or `createExpenditure` exists for ever and its amount never
changes (`Aged`), that an amount to be spent is within it, and that an approver
is not the requester. That is why the stale read cannot break
`ExpenditureSettles`, and why a drift can only go down
(`CommittedAtMostEarmarked`): a commitment that left ACTIVE is taken off once
for leaving and again by a stale writer, never put back. Its second part is about
`ExclusiveSpec`: `XInv` adds `Exclusive` and `ReadsHold`, that without races on
one row what a request read of the status still holds when it writes. With it
the balances are exact, and each step maps to a step of `CommitmentControl` or
a stutter; `Exclusive` is an assumption about the environment, which the code
does not enforce: the violations of section 4 are what happens without it.

*PaymentsProofs.* `PaidOnce` becomes inductive with `OwnersInv` (no two requests
work on one claim, or are about to delete it) and with the promises: from `Claim` to
its end a request has a payment request that is decided and a payment under its own
key that nobody audited yet; before the expenditure its amount is within the
commitment, and after it the one expenditure of the commitment is for this
invoice and of its amount (`PaidFor`). `DecidedByQuorum` needs `UnsignedInv`, that
nobody signs before there is a payment request; the count of signatures is the
cardinality of a set that grows by at most one.

*AnchoringProofs.* The chain verifies because of `OneWriter` (the advisory lock),
the promises of the writer who holds it (the hash it read is that of the last row)
and `NumbersAreTaken` (a number that a rolled back append skipped never comes
again). That references stand needs `BlocksAreCounted` (blocks are numbered 1 .. n)
and the promises of a run: it has in hand every unanchored event that precedes one
it has in hand (what it read may be anchored by another process since, but nothing
is inserted before it), and its block, once written, holds them.

*Refinements.* Three modules implement a smaller specification, each proved step
by step under the inductive invariant of its service. In *PaymentsProofs* the
invariant (`IInv`) is what makes each step of `execute` one of `Disbursement` or a
stutter: that an expenditure is for the invoice whose claim is held, and that the
finalizing transaction finds it there (`PaidFor`). In *AllocationsProofs* it gives
that the running columns are what `CommitmentControl` recomputes (`InUseIsBalance`);
this needs `Exclusive`. In *AccessProofs* WebClient implements Sessions.

*SourcingProofs.* The ledger's balances are not exact here: the budget office's
handlers write on a check that may be out of date. What is proved is how inexact they
can be. The sum of the ACTIVE commitments is `committedAmount` and what late writes
took off it (`DriftIsLate`); only what was settled once can be written late
(`LateIsSettled`), and a request is late exactly if its commitment has left ACTIVE since
(`MovesAreChecked`). `ProcurementInv` also ties an approval in progress to its
commitment: it is nobody else's, in a row or in a hand (`CommitmentsInHand`).
`ApprovalsFit` then follows by mapping each approved purchase to its
commitment (`ApprovedAreEarmarked`). `TenderInv` knows of a request that awards that the bidding was over
(`PastBidding`), so that a tender which is closed on time has no award yet; with
it, whoever makes the last award is the one who marks the tender. `RiskInv` has the
claim on splits for every subset of the approved purchases
(`SplitsWereFlagged`), since a late write can take a purchase out of a split; that
the detector, which looks at all purchases together, sees a part is `SplitGrows`.
`AnomaliesAreSeen` is about the statistics themselves, on lists of bids of any
length. Its sums are folds, which are `Total`s (`FoldIsTotal`, by induction on the
set as the well-foundedness of its cardinality: `SmallestSet`). Of values that lie
between two bounds, the mean and with it the variance do (`TotalBetween`,
`SpreadAtMost`); a value at either end keeps the variance up (`SpreadAtLeast`). The
first bound shows that an extreme bid is flagged and close bids are collusion, the
second that only close ones are.

*AccessProofs.* `SessionsInv` extends `LoginsAreChains` to the tokens on their way to
a client, the answers of rotations that won (`GoodTokens`): once handed over it is
too late to find that one must not be live. With it go who owns the child of a
rotation that is not over (`ChildrenAreOwned`) and that a login is known by its
first token (`RowsAreOfLogins`). WebClient is proved to implement Sessions - each of its
steps is a step that `TokenService` allows some client, or leaves the sessions
alone - and so inherits its theorem. The properties of Authenticators, Signatures,
Accounts and Selections need little beside them.

`ConsoleInv` adds to the properties of the console what makes them inductive: the
open page is one that the roles shown may open, and the calls under way are of
offers that were shown to them, whatever happens to the roles of the token meanwhile.
The theorem is about any assignments of seeded and defined roles. That a call is
granted then follows from the contents of the tables (`TablesAgree`): every call of
every offer has an endpoint, brings the proof it asks for, and needs a permission
that the page or the offer asks for too, or is one of `Uncovered`; and, for the seeded
roles, one that comes in each role with a permission that was asked for
(`CoveredBySeed`). It is this last form, about each role by itself, that carries
over to every combination of them (`RolesGrant`). These are facts about
constants with no parameter, so TLC's evaluation of them (`ConsoleTablesAgree`) is all
there is to check. That roles which may meet do not hold both halves of a separated
duty (`DutiesStaySeparate`) is proved from the tables themselves, without that
assumption: `EndpointsGuard` goes through the routes of every controller, `Holders`
through the grants of every role, and `MeetingIsApart` through the pairs of holders,
each of which is in `MayNotMeet`.

*The composed specifications.* `SourcingInv`, `RecordsInv` and `AccessInv` say that the part
a behaviour is about keeps its invariant and that the others are as they began; the
types of all rows follow (`SourcingIsTyped`, `RecordsAreTyped`, `AccessIsTyped`).

*RecordsProofs.* One invariant per service, of the pattern above. Two have
arithmetic, since the code sums and inserts without a lock: owners' shares,
with those that requests which have summed are about to add, stay within 100 % for
each request (`OwnershipInHand`); invoices on an order, with those about to be
inserted, within its amount and the largest bill for each further request
(`InvoicedInHand`). In Suppliers, what is stale is noticed: somebody is still to
read the present status, or has read it and is to record it (`StatusIsNoticed`,
`BlacklistIsNoticed`).

Only model-checked:

* liveness (`ClaimsSettle`, `EventsGetAnchored`): fairness is out of the prover's
  reach;
* the runs that expect a violation, which refute;
* the facts about the console's tables (`ConsoleTablesAgree`), a constant that TLC
  evaluates, as said above.

## 6. Not modelled

The rows with status `not_modelled` in `PROJECT.json` give the reason. Of the policy
rules, the one on high-value approvals is in Console and the organization scope where a
handler checks it; where a rule refuses a handler of another module, that handler
fails. Transparency, accountability and reconstruction are
queries. Notifications, market data and health call services outside, whose
failures the callers swallow. Cryptography is taken for ideal: a digest is its
input, a signature is made by its key.

Within the components that are modelled `partly`: procurement plans, which
nothing else reads; the development ledger's own hash chain and
`verifyTransaction`; actor signatures of audit events; security events and the
delivery of mail; the registration of suppliers and price history; the severity and
wording of alerts; the encryption of reports. Of the console: forms, tables, paging,
wording, the login and profile views beyond their calls. Amounts beyond 2^53
cents (`Number(pr.amount)`), database isolation anomalies within one statement,
clock-dependent expiry and the seeding of a database that is not empty are left out.

## 7. Plan

1. *(done)* Ledger, Allocations and their proofs; Payments; AuditChain, Anchoring.
2. *(done)* Sourcing, records and access: one module per service, one run per
   group; the console against the API.
3. *(done)* Proofs of every safety property of the runs, and of the refinements:
   Payments implements Disbursement, Allocations (without races on one row)
   CommitmentControl, WebClient Sessions.
4. The ledger adapter's own chain, supplier registration, procurement plans.
5. Payment of an invoice together with its creation and rejection (Contracts
   and Payments over the same rows), if an instance stays small enough.
