------------------------------- MODULE Ledger -------------------------------
(***************************************************************************)
(* The budget ledger: the tables allocations, commitments and expenditures *)
(* and the three transactions AllocationsService runs on them.             *)
(*                                                                         *)
(* A transaction takes SELECT ... FOR UPDATE on the allocation row before  *)
(* it reads a balance and writes only that allocation's rows, so two of    *)
(* them on one allocation are serial: each is one atomic action here.  It  *)
(* commits only if it meets the CHECK constraint on the row; otherwise it  *)
(* rolls back and leaves the tables as they were.                          *)
(*                                                                         *)
(* An amount is a number of cents.  A DTO only asks for a positive number, *)
(* so less than half a cent is stored as 0.00: amounts may be zero.        *)
(***************************************************************************)
EXTENDS Totals

CONSTANTS
  Allocations,    \* ids of allocation rows
  Commitments,    \* ids commitment rows can have
  AllocationOf,   \* the allocation an id's commitment draws on (its allocationId)
  LineAmount,     \* what the approved budget line gave each allocation
  Amounts         \* the amounts requests carry

ASSUME LedgerAssumption ==
  /\ IsFiniteSet(Commitments)
  /\ AllocationOf \in [Commitments -> Allocations]
  /\ LineAmount \in [Allocations -> Nat]
  /\ Amounts \subseteq Nat

VARIABLES
  authorized,     \* allocations."authorizedAmount"
  committed,      \* allocations."committedAmount"
  spent,          \* allocations."spentAmount"
  commitment,     \* the commitment rows
  expenditure     \* the amount of the expenditure of a commitment, if any

ledgerVars == <<authorized, committed, spent, commitment, expenditure>>

NoRow == [status |-> "NONE", amount |-> 0]
NoExpenditure == -1

CommitmentRow ==
  [status : {"NONE", "ACTIVE", "RELEASED", "CONSUMED"}, amount : Nat]

LedgerTypeOK ==
  /\ authorized \in [Allocations -> Nat]
  /\ committed \in [Allocations -> Nat]
  /\ spent \in [Allocations -> Nat]
  /\ commitment \in [Commitments -> CommitmentRow]
  /\ expenditure \in [Commitments -> Nat \cup {NoExpenditure}]

\* No code path freezes or closes an allocation: every row stays ACTIVE.
LedgerInit ==
  /\ authorized = LineAmount
  /\ committed = [a \in Allocations |-> 0]
  /\ spent = [a \in Allocations |-> 0]
  /\ commitment = [c \in Commitments |-> NoRow]
  /\ expenditure = [c \in Commitments |-> NoExpenditure]

AvailableOf(a) == authorized[a] - committed[a] - spent[a]

\* The CHECK constraint allocations_balance_check.
Balanced(authorizedAmount, committedAmount, spentAmount) ==
  /\ committedAmount >= 0
  /\ spentAmount >= 0
  /\ committedAmount + spentAmount <= authorizedAmount

\* Mutant: the table without its CHECK constraint.
SetBalanceUnchecked(a, authorizedAmount, committedAmount, spentAmount) ==
  /\ authorized' = [authorized EXCEPT ![a] = authorizedAmount]
  /\ committed' = [committed EXCEPT ![a] = committedAmount]
  /\ spent' = [spent EXCEPT ![a] = spentAmount]

\* UPDATE of one allocation row.
SetBalance(a, authorizedAmount, committedAmount, spentAmount) ==
  /\ Balanced(authorizedAmount, committedAmount, spentAmount)
  /\ authorized' = [authorized EXCEPT ![a] = authorizedAmount]
  /\ committed' = [committed EXCEPT ![a] = committedAmount]
  /\ spent' = [spent EXCEPT ![a] = spentAmount]

\* Earmarks m of the allocation for a new commitment.
CommitTx(c, m) ==
  LET a == AllocationOf[c] IN
  /\ commitment[c] = NoRow
  /\ m <= AvailableOf(a)
  /\ SetBalance(a, authorized[a], committed[a] + m, spent[a])
  /\ commitment' = [commitment EXCEPT ![c] = [status |-> "ACTIVE", amount |-> m]]
  /\ UNCHANGED expenditure

\* Mutant: the commitment is released and its amount is not given back.
ReleaseKeepingTx(c) ==
  /\ SetBalance(AllocationOf[c], authorized[AllocationOf[c]], committed[AllocationOf[c]],
                spent[AllocationOf[c]])
  /\ commitment' = [commitment EXCEPT ![c].status = "RELEASED"]
  /\ UNCHANGED expenditure

\* Gives a commitment's amount back.  The status is not read again.
ReleaseTx(c) ==
  LET a == AllocationOf[c] IN
  /\ SetBalance(a, authorized[a], committed[a] - commitment[c].amount, spent[a])
  /\ commitment' = [commitment EXCEPT ![c].status = "RELEASED"]
  /\ UNCHANGED expenditure

\* Mutant: expenditures."commitmentId" without its unique index.
SpendAgainTx(c, m) ==
  LET a == AllocationOf[c] IN
  /\ SetBalance(a, authorized[a], committed[a] - commitment[c].amount, spent[a] + m)
  /\ commitment' = [commitment EXCEPT ![c].status = "CONSUMED"]
  /\ expenditure' = [expenditure EXCEPT ![c] = m]

\* Mutant: what was not spent stays committed.
SpendPartlyTx(c, m) ==
  LET a == AllocationOf[c] IN
  /\ expenditure[c] = NoExpenditure
  /\ SetBalance(a, authorized[a], committed[a] - m, spent[a] + m)
  /\ commitment' = [commitment EXCEPT ![c].status = "CONSUMED"]
  /\ expenditure' = [expenditure EXCEPT ![c] = m]

\* Spends m of a commitment and gives the rest of it back.  The status is not
\* read again; expenditures."commitmentId" is unique.
SpendTx(c, m) ==
  LET a == AllocationOf[c] IN
  /\ expenditure[c] = NoExpenditure
  /\ SetBalance(a, authorized[a], committed[a] - commitment[c].amount, spent[a] + m)
  /\ commitment' = [commitment EXCEPT ![c].status = "CONSUMED"]
  /\ expenditure' = [expenditure EXCEPT ![c] = m]

-----------------------------------------------------------------------------
\* What the commitments of allocation a that are ACTIVE earmark.
EarmarkedOn(a) ==
  [c \in Commitments |->
     IF AllocationOf[c] = a /\ commitment[c].status = "ACTIVE"
     THEN commitment[c].amount ELSE 0]

\* What the expenditures of allocation a paid.
PaidOn(a) ==
  [c \in Commitments |->
     IF AllocationOf[c] = a /\ expenditure[c] # NoExpenditure
     THEN expenditure[c] ELSE 0]

Earmarked(a) == Total(EarmarkedOn(a), Commitments)
Paid(a) == Total(PaidOn(a), Commitments)

-----------------------------------------------------------------------------
(* Safety, whatever the transactions' callers interleave. *)

\* "Never allow expenditure beyond available authorized budget": what the row
\* says is committed and spent stays within what it says is authorized, though
\* every handler acts on a status it read before it took the lock.
WithinAuthorization ==
  \A a \in Allocations : Balanced(authorized[a], committed[a], spent[a])

\* The running spentAmount is the sum of the expenditures recorded: a lost
\* race between two createExpenditure calls leaves no trace of the loser.
SpentIsPaid ==
  \A a \in Allocations : spent[a] = Paid(a)

\* The running committedAmount never earmarks money that no ACTIVE commitment
\* asks for: what the status races do to it is one-sided.
CommittedAtMostEarmarked ==
  \A a \in Allocations : committed[a] <= Earmarked(a)

\* A CONSUMED commitment has its expenditure, an expenditure never exceeds its
\* commitment, and a commitment with one never earmarks money again.
ExpenditureSettles ==
  \A c \in Commitments :
    /\ commitment[c].status = "CONSUMED" => expenditure[c] # NoExpenditure
    /\ expenditure[c] # NoExpenditure =>
         /\ commitment[c].status \in {"CONSUMED", "RELEASED"}
         /\ expenditure[c] <= commitment[c].amount

(* What the documents say, which holds only when no two requests race. *)

\* "committed = sum of ACTIVE commitments".
CommittedIsEarmarked ==
  \A a \in Allocations : committed[a] = Earmarked(a)

\* Allocations "provably cannot be over-committed even under concurrent load":
\* what ACTIVE commitments ask for and what was paid fit in the ceiling.
NeverOvercommitted ==
  \A a \in Allocations : Earmarked(a) + Paid(a) <= authorized[a]

\* Money is in exactly one bucket: a RELEASED commitment was not also spent.
ReleasedIsUnspent ==
  \A c \in Commitments :
    commitment[c].status = "RELEASED" => expenditure[c] = NoExpenditure
=============================================================================
