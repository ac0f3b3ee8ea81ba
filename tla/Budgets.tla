------------------------------ MODULE Budgets ------------------------------
(***************************************************************************)
(* FiscalYearsService and BudgetsService: a budget is drafted for a year   *)
(* that is not closed, submitted, and approved or rejected; approval gives *)
(* each of its lines an allocation, in one transaction.  Every other       *)
(* statement stands alone: a status is checked on a read and written by    *)
(* id, whatever it is by then.                                             *)
(*                                                                         *)
(* Organization scope and the policy engine only refuse requests.          *)
(***************************************************************************)
EXTENDS Handlers

CONSTANTS
  BudgetPlans,    \* ids of budgets; (year, organization, name) is unique
  Lines,          \* the lines every budget has
  Creators        \* users with budget:create or budget:approve

\* A budget is created with at least one line.
ASSUME BudgetsAssumption == Lines # {} /\ None \notin Creators

VARIABLES
  year,           \* fiscal_years.status
  budget,         \* budgets.status
  createdBy,      \* budgets.created_by_id
  approvedBy,     \* budgets.approved_by_id
  allocated,      \* allocations.budget_line_id, unique
  afterClose      \* budgets that were inserted into a closed year

budgetVars == <<year, budget, createdBy, approvedBy, allocated, afterClose>>

BudgetRequest ==
  {Idle} \cup
  [at : {"createBudget", "approveBudget"}, budget : BudgetPlans, actor : Creators] \cup
  [at : {"submitBudget", "rejectBudget"}, budget : BudgetPlans]

BudgetsTypeOK ==
  /\ year \in {"PLANNED", "ACTIVE", "CLOSED"}
  /\ budget \in [BudgetPlans -> {"NONE", "DRAFT", "PENDING_APPROVAL", "APPROVED", "REJECTED"}]
  /\ createdBy \in [BudgetPlans -> Creators \cup {None}]
  /\ approvedBy \in [BudgetPlans -> Creators \cup {None}]
  /\ \A b \in BudgetPlans : (budget[b] = "NONE") <=> (createdBy[b] = None)
  /\ allocated \subseteq BudgetPlans \X Lines
  /\ afterClose \subseteq BudgetPlans

BudgetsInit ==
  /\ year = "PLANNED"
  /\ budget = [b \in BudgetPlans |-> "NONE"]
  /\ createdBy = [b \in BudgetPlans |-> None]
  /\ approvedBy = [b \in BudgetPlans |-> None]
  /\ allocated = {}
  /\ afterClose = {}

-----------------------------------------------------------------------------

\* FiscalYearsService: neither checks what the year is.
ActivateYear ==
  /\ year' = "ACTIVE"
  /\ UNCHANGED <<budget, createdBy, approvedBy, allocated, afterClose, request>>

CloseYear ==
  /\ year' = "CLOSED"
  /\ UNCHANGED <<budget, createdBy, approvedBy, allocated, afterClose, request>>

ReadForBudget(r, b, actor) ==
  /\ year # "CLOSED"
  /\ budget[b] = "NONE"
  /\ Start(r, [at |-> "createBudget", budget |-> b, actor |-> actor])
  /\ UNCHANGED budgetVars

CreateBudget(r) ==
  LET b == request[r].budget IN
  /\ request[r].at = "createBudget"
  /\ budget[b] = "NONE"
  /\ budget' = [budget EXCEPT ![b] = "DRAFT"]
  /\ createdBy' = [createdBy EXCEPT ![b] = request[r].actor]
  /\ afterClose' = IF year = "CLOSED" THEN afterClose \cup {b} ELSE afterClose
  /\ Stop(r)
  /\ UNCHANGED <<year, approvedBy, allocated>>

ReadBudget(r, b, actor) ==
  /\ \/ budget[b] = "DRAFT" /\ Start(r, [at |-> "submitBudget", budget |-> b])
     \/ /\ budget[b] = "PENDING_APPROVAL"
        /\ createdBy[b] # actor
        /\ Start(r, [at |-> "approveBudget", budget |-> b, actor |-> actor])
     \/ budget[b] = "PENDING_APPROVAL" /\ Start(r, [at |-> "rejectBudget", budget |-> b])
  /\ UNCHANGED budgetVars

\* submit's and reject's update.
UpdateBudget(r) ==
  /\ request[r].at \in {"submitBudget", "rejectBudget"}
  /\ budget' = [budget EXCEPT ![request[r].budget] =
                  IF request[r].at = "submitBudget" THEN "PENDING_APPROVAL" ELSE "REJECTED"]
  /\ Stop(r)
  /\ UNCHANGED <<year, createdBy, approvedBy, allocated, afterClose>>

\* Mutant: allocations that exist are updated.
ApproveUpserting(r) ==
  LET b == request[r].budget IN
  /\ request[r].at = "approveBudget"
  /\ budget' = [budget EXCEPT ![b] = "APPROVED"]
  /\ approvedBy' = [approvedBy EXCEPT ![b] = request[r].actor]
  /\ allocated' = allocated \cup ({b} \X Lines)
  /\ Stop(r)
  /\ UNCHANGED <<year, createdBy, afterClose>>

\* The transaction: an allocation of the line that exists rolls it back.
Approve(r) ==
  LET b == request[r].budget IN
  /\ request[r].at = "approveBudget"
  /\ IF \E l \in Lines : <<b, l>> \in allocated
     THEN UNCHANGED <<budget, approvedBy, allocated>>
     ELSE /\ budget' = [budget EXCEPT ![b] = "APPROVED"]
          /\ approvedBy' = [approvedBy EXCEPT ![b] = request[r].actor]
          /\ allocated' = allocated \cup ({b} \X Lines)
  /\ Stop(r)
  /\ UNCHANGED <<year, createdBy, afterClose>>

BudgetsFail(r) == Abandon(r) /\ UNCHANGED budgetVars

BudgetsNext ==
  \/ ActivateYear
  \/ CloseYear
  \/ \E r \in Requests :
       \/ \E b \in BudgetPlans, actor \in Creators :
            ReadForBudget(r, b, actor) \/ ReadBudget(r, b, actor)
       \/ CreateBudget(r)
       \/ UpdateBudget(r)
       \/ Approve(r)
       \/ BudgetsFail(r)

BudgetsSpec == BudgetsInit /\ HandlersInit /\ [][BudgetsNext]_<<budgetVars, request>>
-----------------------------------------------------------------------------
(* Money is only ever allocated by an approval, of all the lines at once,  *)
(* by somebody who did not draw the budget up, however stale the status    *)
(* was that a request had read.                                            *)
AllocationsAreApproved ==
  \A b \in BudgetPlans :
    IF approvedBy[b] = None THEN \A l \in Lines : <<b, l>> \notin allocated
    ELSE {b} \X Lines \subseteq allocated /\ approvedBy[b] # createdBy[b]

(* A budget is approved at most once: the approver of its allocations stays *)
(* on record, even if it was submitted again after it was approved.         *)
ApprovalsStand ==
  [][\A b \in BudgetPlans : approvedBy[b] # None => approvedBy'[b] = approvedBy[b]]_budgetVars

\* Allocations are of one approval by somebody else, which stands.
ApprovalsAllocate == []AllocationsAreApproved /\ ApprovalsStand

(* What a comment says, and the code does not do.                          *)

(* "Strict state transitions ... a budget record cannot jump between       *)
(* states arbitrarily": an approved budget is not rejected any more.       *)
ApprovedIsNotRejected ==
  \A b \in BudgetPlans : budget[b] = "REJECTED" => approvedBy[b] = None
=============================================================================
