---------------------------- MODULE LedgerProofs ----------------------------
(***************************************************************************)
(* What each transaction on the budget ledger does to the types, to the    *)
(* CHECK constraint and to the totals recomputed from the rows.            *)
(***************************************************************************)
EXTENDS Ledger, TotalsTheorems

Share(a, b, m) == IF a = b THEN m ELSE 0

LEMMA TotalsOfRows ==
  ASSUME LedgerTypeOK, NEW a \in Allocations
  PROVE  /\ EarmarkedOn(a) \in [Commitments -> Nat]
         /\ PaidOn(a) \in [Commitments -> Nat]
         /\ Earmarked(a) \in Nat
         /\ Paid(a) \in Nat
<1>1. EarmarkedOn(a) \in [Commitments -> Nat]
  BY DEF LedgerTypeOK, EarmarkedOn, CommitmentRow
<1>2. PaidOn(a) \in [Commitments -> Nat]
  BY DEF LedgerTypeOK, PaidOn, NoExpenditure
<1>3. QED
  BY <1>1, <1>2, TotalType, LedgerAssumption DEF Earmarked, Paid

\* Earmarks move by what the one commitment a step changes earmarks.
LEMMA EarmarkedPost ==
  ASSUME LedgerTypeOK, LedgerTypeOK', NEW c \in Commitments,
         \A d \in Commitments \ {c} : commitment'[d] = commitment[d],
         NEW a \in Allocations
  PROVE  Earmarked(a)' = Earmarked(a) - EarmarkedOn(a)[c] + EarmarkedOn(a)'[c]
<1>1. EarmarkedOn(a) \in [Commitments -> Nat]
  BY TotalsOfRows
<1>2. EarmarkedOn(a)' \in [Commitments -> Nat]
  BY DEF LedgerTypeOK, EarmarkedOn, CommitmentRow
<1>3. \A d \in Commitments \ {c} : EarmarkedOn(a)'[d] = EarmarkedOn(a)[d]
  BY DEF EarmarkedOn
<1>4. QED
  BY <1>1, <1>2, <1>3, TotalPost, LedgerAssumption DEF Earmarked

\* Payments move by what the one expenditure a step records pays.
LEMMA PaidPost ==
  ASSUME LedgerTypeOK, LedgerTypeOK', NEW c \in Commitments,
         \A d \in Commitments \ {c} : expenditure'[d] = expenditure[d],
         NEW a \in Allocations
  PROVE  Paid(a)' = Paid(a) - PaidOn(a)[c] + PaidOn(a)'[c]
<1>1. PaidOn(a) \in [Commitments -> Nat]
  BY TotalsOfRows
<1>2. PaidOn(a)' \in [Commitments -> Nat]
  BY DEF LedgerTypeOK, PaidOn, NoExpenditure
<1>3. \A d \in Commitments \ {c} : PaidOn(a)'[d] = PaidOn(a)[d]
  BY DEF PaidOn
<1>4. QED
  BY <1>1, <1>2, <1>3, TotalPost, LedgerAssumption DEF Paid

\* An UPDATE of an allocation row that commits meets the CHECK constraint.
LEMMA SetBalanceEffect ==
  ASSUME LedgerTypeOK, NEW b \in Allocations, NEW x \in Int, NEW y \in Int, NEW z \in Int,
         SetBalance(b, x, y, z)
  PROVE  /\ authorized' \in [Allocations -> Nat]
         /\ committed' \in [Allocations -> Nat]
         /\ spent' \in [Allocations -> Nat]
         /\ Balanced(authorized'[b], committed'[b], spent'[b])
         /\ authorized'[b] = x /\ committed'[b] = y /\ spent'[b] = z
         /\ \A a \in Allocations \ {b} :
              /\ authorized'[a] = authorized[a]
              /\ committed'[a] = committed[a]
              /\ spent'[a] = spent[a]
BY DEF LedgerTypeOK, SetBalance, Balanced

\* CommitTx adds its amount to the balance and to the earmarks alike.
LEMMA CommitEffect ==
  ASSUME LedgerTypeOK, NEW c \in Commitments, NEW m \in Nat, CommitTx(c, m)
  PROVE  /\ LedgerTypeOK'
         /\ \A a \in Allocations :
              /\ committed'[a] = committed[a] + Share(a, AllocationOf[c], m)
              /\ authorized'[a] = authorized[a] /\ spent'[a] = spent[a]
              /\ Earmarked(a)' = Earmarked(a) + Share(a, AllocationOf[c], m)
              /\ Paid(a)' = Paid(a)
<1> DEFINE b == AllocationOf[c]
<1>1. b \in Allocations
  BY LedgerAssumption
<1>2. /\ authorized[b] \in Int /\ committed[b] + m \in Int /\ spent[b] \in Int
      /\ SetBalance(b, authorized[b], committed[b] + m, spent[b])
  BY <1>1 DEF CommitTx, LedgerTypeOK
<1>3. /\ authorized' \in [Allocations -> Nat]
      /\ committed' \in [Allocations -> Nat]
      /\ spent' \in [Allocations -> Nat]
      /\ authorized'[b] = authorized[b] /\ committed'[b] = committed[b] + m
      /\ spent'[b] = spent[b]
      /\ \A a \in Allocations \ {b} :
           /\ authorized'[a] = authorized[a]
           /\ committed'[a] = committed[a]
           /\ spent'[a] = spent[a]
  BY <1>1, <1>2, SetBalanceEffect
<1>4. LedgerTypeOK'
  BY <1>3 DEF LedgerTypeOK, CommitTx, CommitmentRow
<1>5. ASSUME NEW a \in Allocations
      PROVE  Earmarked(a)' = Earmarked(a) + Share(a, b, m)
  <2>1. EarmarkedOn(a)[c] = 0 /\ EarmarkedOn(a)'[c] = Share(a, b, m)
    BY DEF EarmarkedOn, CommitTx, NoRow, Share, LedgerTypeOK
  <2>2. \A d \in Commitments \ {c} : commitment'[d] = commitment[d]
    BY DEF CommitTx, LedgerTypeOK
  <2>3. Earmarked(a)' = Earmarked(a) - EarmarkedOn(a)[c] + EarmarkedOn(a)'[c]
    BY <1>4, <2>2, EarmarkedPost
  <2>4. QED
    BY <2>1, <2>3, TotalsOfRows
<1>6. ASSUME NEW a \in Allocations
      PROVE  Paid(a)' = Paid(a)
  BY DEF Paid, PaidOn, CommitTx
<1>7. \A a \in Allocations : committed[a] \in Nat
  BY DEF LedgerTypeOK
<1>8. QED
  BY <1>1, <1>3, <1>4, <1>5, <1>6, <1>7 DEF Share

\* ReleaseTx takes the amount off the balance; off the earmarks only if the
\* commitment was still ACTIVE.
LEMMA ReleaseEffect ==
  ASSUME LedgerTypeOK, NEW c \in Commitments, ReleaseTx(c)
  PROVE  /\ LedgerTypeOK'
         /\ \A a \in Allocations :
              /\ committed'[a] = committed[a] - Share(a, AllocationOf[c], commitment[c].amount)
              /\ authorized'[a] = authorized[a] /\ spent'[a] = spent[a]
              /\ Earmarked(a)' = Earmarked(a) - EarmarkedOn(a)[c]
              /\ Paid(a)' = Paid(a)
<1> DEFINE b == AllocationOf[c]
           m == commitment[c].amount
<1>1. b \in Allocations /\ m \in Nat
  BY LedgerAssumption DEF LedgerTypeOK, CommitmentRow
<1>2. /\ authorized[b] \in Int /\ committed[b] - m \in Int /\ spent[b] \in Int
      /\ SetBalance(b, authorized[b], committed[b] - m, spent[b])
  BY <1>1 DEF ReleaseTx, LedgerTypeOK
<1>3. /\ authorized' \in [Allocations -> Nat]
      /\ committed' \in [Allocations -> Nat]
      /\ spent' \in [Allocations -> Nat]
      /\ authorized'[b] = authorized[b] /\ committed'[b] = committed[b] - m
      /\ spent'[b] = spent[b]
      /\ \A a \in Allocations \ {b} :
           /\ authorized'[a] = authorized[a]
           /\ committed'[a] = committed[a]
           /\ spent'[a] = spent[a]
  BY <1>1, <1>2, SetBalanceEffect
<1>4. LedgerTypeOK'
  BY <1>3 DEF LedgerTypeOK, ReleaseTx, CommitmentRow
<1>5. ASSUME NEW a \in Allocations
      PROVE  Earmarked(a)' = Earmarked(a) - EarmarkedOn(a)[c]
  <2>1. EarmarkedOn(a)'[c] = 0
    BY DEF EarmarkedOn, ReleaseTx, LedgerTypeOK, CommitmentRow
  <2>2. \A d \in Commitments \ {c} : commitment'[d] = commitment[d]
    BY DEF ReleaseTx, LedgerTypeOK
  <2>3. Earmarked(a)' = Earmarked(a) - EarmarkedOn(a)[c] + EarmarkedOn(a)'[c]
    BY <1>4, <2>2, EarmarkedPost
  <2>4. Earmarked(a) \in Nat /\ EarmarkedOn(a)[c] \in Nat
    BY TotalsOfRows
  <2>5. QED
    BY <2>1, <2>3, <2>4
<1>6. ASSUME NEW a \in Allocations
      PROVE  Paid(a)' = Paid(a)
  BY DEF Paid, PaidOn, ReleaseTx
<1>7. \A a \in Allocations : committed[a] \in Nat
  BY DEF LedgerTypeOK
<1>8. QED
  BY <1>1, <1>3, <1>4, <1>5, <1>6, <1>7 DEF Share

\* SpendTx does the same and moves what it pays to spentAmount.
LEMMA SpendEffect ==
  ASSUME LedgerTypeOK, NEW c \in Commitments, NEW m \in Nat, SpendTx(c, m)
  PROVE  /\ LedgerTypeOK'
         /\ \A a \in Allocations :
              /\ committed'[a] = committed[a] - Share(a, AllocationOf[c], commitment[c].amount)
              /\ spent'[a] = spent[a] + Share(a, AllocationOf[c], m)
              /\ authorized'[a] = authorized[a]
              /\ Earmarked(a)' = Earmarked(a) - EarmarkedOn(a)[c]
              /\ Paid(a)' = Paid(a) + Share(a, AllocationOf[c], m)
<1> DEFINE b == AllocationOf[c]
           n == commitment[c].amount
<1>1. b \in Allocations /\ n \in Nat
  BY LedgerAssumption DEF LedgerTypeOK, CommitmentRow
<1>2. /\ authorized[b] \in Int /\ committed[b] - n \in Int /\ spent[b] + m \in Int
      /\ SetBalance(b, authorized[b], committed[b] - n, spent[b] + m)
  BY <1>1 DEF SpendTx, LedgerTypeOK
<1>3. /\ authorized' \in [Allocations -> Nat]
      /\ committed' \in [Allocations -> Nat]
      /\ spent' \in [Allocations -> Nat]
      /\ authorized'[b] = authorized[b] /\ committed'[b] = committed[b] - n
      /\ spent'[b] = spent[b] + m
      /\ \A a \in Allocations \ {b} :
           /\ authorized'[a] = authorized[a]
           /\ committed'[a] = committed[a]
           /\ spent'[a] = spent[a]
  BY <1>1, <1>2, SetBalanceEffect
<1>4. LedgerTypeOK'
  BY <1>3 DEF LedgerTypeOK, SpendTx, CommitmentRow
<1>5. ASSUME NEW a \in Allocations
      PROVE  Earmarked(a)' = Earmarked(a) - EarmarkedOn(a)[c]
  <2>1. EarmarkedOn(a)'[c] = 0
    BY DEF EarmarkedOn, SpendTx, LedgerTypeOK, CommitmentRow
  <2>2. \A d \in Commitments \ {c} : commitment'[d] = commitment[d]
    BY DEF SpendTx, LedgerTypeOK
  <2>3. Earmarked(a)' = Earmarked(a) - EarmarkedOn(a)[c] + EarmarkedOn(a)'[c]
    BY <1>4, <2>2, EarmarkedPost
  <2>4. Earmarked(a) \in Nat /\ EarmarkedOn(a)[c] \in Nat
    BY TotalsOfRows
  <2>5. QED
    BY <2>1, <2>3, <2>4
<1>6. ASSUME NEW a \in Allocations
      PROVE  Paid(a)' = Paid(a) + Share(a, b, m)
  <2>1. PaidOn(a)[c] = 0 /\ PaidOn(a)'[c] = Share(a, b, m)
    BY DEF PaidOn, SpendTx, LedgerTypeOK, NoExpenditure, Share
  <2>2. \A d \in Commitments \ {c} : expenditure'[d] = expenditure[d]
    BY DEF SpendTx, LedgerTypeOK
  <2>3. Paid(a)' = Paid(a) - PaidOn(a)[c] + PaidOn(a)'[c]
    BY <1>4, <2>2, PaidPost
  <2>4. QED
    BY <2>1, <2>3, TotalsOfRows
<1>7. \A a \in Allocations : committed[a] \in Nat /\ spent[a] \in Nat
  BY DEF LedgerTypeOK
<1>8. QED
  BY <1>1, <1>3, <1>4, <1>5, <1>6, <1>7 DEF Share

-----------------------------------------------------------------------------
\* The conjuncts of IInv that only the ledger's tables can falsify.
LedgerInv ==
  WithinAuthorization /\ SpentIsPaid /\ CommittedAtMostEarmarked /\ ExpenditureSettles

\* A step that leaves the ledger alone leaves its invariant alone.
LEMMA LedgerUnchanged ==
  ASSUME LedgerTypeOK, LedgerInv, UNCHANGED ledgerVars
  PROVE  LedgerTypeOK' /\ LedgerInv'
<1> USE DEF ledgerVars
<1>1. LedgerTypeOK'
  BY DEF LedgerTypeOK
<1>2. \A a \in Allocations : Earmarked(a)' = Earmarked(a) /\ Paid(a)' = Paid(a)
  BY DEF Earmarked, Paid, EarmarkedOn, PaidOn
<1>3. QED
  BY <1>1, <1>2
  DEF LedgerInv, WithinAuthorization, SpentIsPaid, CommittedAtMostEarmarked, ExpenditureSettles

LEMMA CommitKeepsLedger ==
  ASSUME LedgerTypeOK, LedgerInv, NEW c \in Commitments, NEW m \in Nat, CommitTx(c, m)
  PROVE  LedgerTypeOK' /\ LedgerInv'
<1>1. /\ LedgerTypeOK'
      /\ \A a \in Allocations :
           /\ committed'[a] = committed[a] + Share(a, AllocationOf[c], m)
           /\ authorized'[a] = authorized[a] /\ spent'[a] = spent[a]
           /\ Earmarked(a)' = Earmarked(a) + Share(a, AllocationOf[c], m)
           /\ Paid(a)' = Paid(a)
  BY CommitEffect
<1>2. AllocationOf[c] \in Allocations
  BY LedgerAssumption
<1>3. WithinAuthorization'
  BY <1>1, <1>2 DEF LedgerInv, LedgerTypeOK, WithinAuthorization, CommitTx, SetBalance, Balanced, Share
<1>4. SpentIsPaid'
  BY <1>1 DEF LedgerInv, SpentIsPaid
<1>5. CommittedAtMostEarmarked'
  <2>1. \A a \in Allocations : committed[a] \in Nat /\ Earmarked(a) \in Nat
    BY TotalsOfRows DEF LedgerTypeOK
  <2>2. \A a \in Allocations : Share(a, AllocationOf[c], m) \in Nat
    BY DEF Share
  <2>3. QED
    BY <1>1, <2>1, <2>2 DEF LedgerInv, CommittedAtMostEarmarked
<1>6. ExpenditureSettles'
  BY DEF LedgerInv, LedgerTypeOK, ExpenditureSettles, CommitTx, NoRow
<1>7. QED
  BY <1>1, <1>3, <1>4, <1>5, <1>6 DEF LedgerInv

LEMMA ReleaseKeepsLedger ==
  ASSUME LedgerTypeOK, LedgerInv, NEW c \in Commitments, ReleaseTx(c)
  PROVE  LedgerTypeOK' /\ LedgerInv'
<1> DEFINE n == commitment[c].amount
<1>1. /\ LedgerTypeOK'
      /\ \A a \in Allocations :
           /\ committed'[a] = committed[a] - Share(a, AllocationOf[c], n)
           /\ authorized'[a] = authorized[a] /\ spent'[a] = spent[a]
           /\ Earmarked(a)' = Earmarked(a) - EarmarkedOn(a)[c]
           /\ Paid(a)' = Paid(a)
  BY ReleaseEffect
<1>2. AllocationOf[c] \in Allocations /\ n \in Nat
  BY LedgerAssumption DEF LedgerTypeOK, CommitmentRow
<1>3. WithinAuthorization'
  BY <1>1, <1>2 DEF LedgerInv, LedgerTypeOK, WithinAuthorization, ReleaseTx, SetBalance, Balanced, Share
<1>4. SpentIsPaid'
  BY <1>1 DEF LedgerInv, SpentIsPaid
<1>5. CommittedAtMostEarmarked'
  <2>1. \A a \in Allocations : committed[a] \in Nat /\ Earmarked(a) \in Nat
    BY TotalsOfRows DEF LedgerTypeOK
  <2>2. \A a \in Allocations :
          /\ EarmarkedOn(a)[c] \in Nat /\ Share(a, AllocationOf[c], n) \in Nat
          /\ EarmarkedOn(a)[c] <= Share(a, AllocationOf[c], n)
    BY <1>2 DEF EarmarkedOn, Share
  <2>3. QED
    BY <1>1, <2>1, <2>2 DEF LedgerInv, CommittedAtMostEarmarked
<1>6. ExpenditureSettles'
  BY DEF LedgerInv, LedgerTypeOK, ExpenditureSettles, ReleaseTx, CommitmentRow
<1>7. QED
  BY <1>1, <1>3, <1>4, <1>5, <1>6 DEF LedgerInv

LEMMA SpendKeepsLedger ==
  ASSUME LedgerTypeOK, LedgerInv, NEW c \in Commitments, NEW m \in Nat, SpendTx(c, m),
         m <= commitment[c].amount
  PROVE  LedgerTypeOK' /\ LedgerInv'
<1> DEFINE n == commitment[c].amount
<1>1. /\ LedgerTypeOK'
      /\ \A a \in Allocations :
           /\ committed'[a] = committed[a] - Share(a, AllocationOf[c], n)
           /\ spent'[a] = spent[a] + Share(a, AllocationOf[c], m)
           /\ authorized'[a] = authorized[a]
           /\ Earmarked(a)' = Earmarked(a) - EarmarkedOn(a)[c]
           /\ Paid(a)' = Paid(a) + Share(a, AllocationOf[c], m)
  BY SpendEffect
<1>2. AllocationOf[c] \in Allocations /\ n \in Nat
  BY LedgerAssumption DEF LedgerTypeOK, CommitmentRow
<1>3. WithinAuthorization'
  BY <1>1, <1>2 DEF LedgerInv, LedgerTypeOK, WithinAuthorization, SpendTx, SetBalance, Balanced, Share
<1>4. SpentIsPaid'
  BY <1>1 DEF LedgerInv, SpentIsPaid
<1>5. CommittedAtMostEarmarked'
  <2>1. \A a \in Allocations : committed[a] \in Nat /\ Earmarked(a) \in Nat
    BY TotalsOfRows DEF LedgerTypeOK
  <2>2. \A a \in Allocations :
          /\ EarmarkedOn(a)[c] \in Nat /\ Share(a, AllocationOf[c], n) \in Nat
          /\ EarmarkedOn(a)[c] <= Share(a, AllocationOf[c], n)
    BY <1>2 DEF EarmarkedOn, Share
  <2>3. QED
    BY <1>1, <2>1, <2>2 DEF LedgerInv, CommittedAtMostEarmarked
<1>6. ExpenditureSettles'
  BY DEF LedgerInv, LedgerTypeOK, ExpenditureSettles, SpendTx, CommitmentRow, NoExpenditure
<1>7. QED
  BY <1>1, <1>3, <1>4, <1>5, <1>6 DEF LedgerInv
=============================================================================
