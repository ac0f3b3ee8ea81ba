---------------------------- MODULE MCApprovals ----------------------------
(***************************************************************************)
(* The instance of Payments that liveness is checked on: whether a request *)
(* failed so far is remembered, because what a throw or a crash leaves     *)
(* behind nothing settles.                                                 *)
(***************************************************************************)
EXTENDS MCPayments

VARIABLE failed     \* whether an await has thrown, or the API crashed

MCNext ==
  \/ \E r \in Requests : Call(r) /\ UNCHANGED failed
  \/ \E r \in Requests : Continue(r) /\ UNCHANGED failed
  \/ \E r \in Requests : Throw(r) /\ failed' = TRUE
  \/ \E r \in Requests : Crash(r) /\ failed' = TRUE
  \/ \E c \in Commitments : BudgetRelease(c) /\ UNCHANGED failed
  \/ \E c \in Commitments : \E m \in Amounts : BudgetSpend(c, m) /\ UNCHANGED failed

\* An await settles: the event loop comes back to every handler it suspended.
MCFairSpec ==
  /\ Init /\ failed = FALSE
  /\ [][MCNext]_<<vars, failed>>
  /\ \A r \in Requests : WF_vars(Continue(r))
-----------------------------------------------------------------------------
\* A claim is settled, by its payment or by its removal after the budget
\* refused it, whatever the other requests for the invoice do meanwhile -
\* unless something failed, or somebody recorded a reconciliation against it.
ClaimsSettle ==
  \A i \in Invoices : Claimed(i) ~> (~ Claimed(i) \/ i \in reconciled \/ failed)
=============================================================================
