----------------------------- MODULE Tendering -----------------------------
(***************************************************************************)
(* TendersService and BidsService: a tender is drafted, published and      *)
(* closed; suppliers bid on its lots, the bids are evaluated and each lot  *)
(* is awarded to one of them.                                              *)
(*                                                                         *)
(* Every handler reads the rows it needs, checks their status, and updates *)
(* by id some awaits later.  What decides between two awards of a lot is   *)
(* the unique index on awards."tenderLotId".                               *)
(*                                                                         *)
(* The closing date, the status of a supplier and of the purchase only     *)
(* refuse a request, as do rows that do not exist; a request that is       *)
(* refused is one that fails.  Audit events are left out.                  *)
(***************************************************************************)
EXTENDS Handlers

CONSTANTS
  Tenders,
  Lots,
  TenderOf,       \* the tender of each lot
  Suppliers

ASSUME TenderingAssumption ==
  /\ TenderOf \in [Lots -> Tenders]
  /\ \A t \in Tenders : \E l \in Lots : TenderOf[l] = t    \* @ArrayMinSize(1) lots
  /\ None \notin Suppliers

VARIABLES
  tender,         \* tenders.status
  bid,            \* bids.status, by lot and supplier
  evaluated,      \* bids that have a bid_evaluations row
  award,          \* the supplier whose bid the awards row of each lot names
  scanned,        \* bids that the price and collusion detectors have looked at
  disturbed       \* tenders that a late write or an interrupted award left their status

tenderVars == <<tender, bid, evaluated, award, scanned, disturbed>>

\* bids has a unique index on lot and supplier.
Bids == Lots \X Suppliers
LotsOf(t) == {l \in Lots : TenderOf[l] = t}
TenderOfBid(b) == TenderOf[b[1]]

TenderRequest ==
  {Idle} \cup
  [at : {"publish", "close", "cancel", "maybeMarkAwarded", "markAwarded"}, tender : Tenders] \cup
  [at : {"evaluateLots"}, lots : SUBSET Lots] \cup
  [at : {"submit", "checkClosed", "evaluate", "checkAwardable", "award"}, bid : Bids]

TenderTypeOK ==
  /\ tender \in [Tenders -> {"NONE", "DRAFT", "PUBLISHED", "CLOSED", "AWARDED", "CANCELLED"}]
  /\ bid \in [Bids -> {"NONE", "SUBMITTED", "EVALUATED", "AWARDED", "REJECTED"}]
  /\ award \in [Lots -> Suppliers \cup {None}]
  /\ evaluated \cup scanned \subseteq {b \in Bids : bid[b] # "NONE"}
  /\ disturbed \subseteq Tenders

TenderInit ==
  /\ tender = [t \in Tenders |-> "NONE"]
  /\ bid = [b \in Bids |-> "NONE"]
  /\ evaluated = {}
  /\ award = [l \in Lots |-> None]
  /\ scanned = {}
  /\ disturbed = {}

-----------------------------------------------------------------------------
(* TendersService                                                          *)

CreateTender(t) ==
  /\ tender[t] = "NONE"
  /\ tender' = [tender EXCEPT ![t] = "DRAFT"]
  /\ UNCHANGED <<bid, evaluated, award, scanned, disturbed, request>>

ReadTender(r, t) ==
  /\ \/ tender[t] = "DRAFT" /\ Start(r, [at |-> "publish", tender |-> t])
     \/ tender[t] = "PUBLISHED" /\ Start(r, [at |-> "close", tender |-> t])
     \/ tender[t] \in {"DRAFT", "PUBLISHED", "CLOSED"}
          /\ Start(r, [at |-> "cancel", tender |-> t])
  /\ UNCHANGED tenderVars

\* The update is by id: it also undoes what was written since the read.
SetStatus(t, from, to) ==
  /\ tender' = [tender EXCEPT ![t] = to]
  /\ disturbed' = IF tender[t] = from THEN disturbed ELSE disturbed \cup {t}

Publish(r) ==
  /\ request[r].at = "publish"
  /\ SetStatus(request[r].tender, "DRAFT", "PUBLISHED")
  /\ Stop(r)
  /\ UNCHANGED <<bid, evaluated, award, scanned>>

\* The tender is closed, and then its lots are looked at one by one.
Close(r) ==
  /\ request[r].at = "close"
  /\ SetStatus(request[r].tender, "PUBLISHED", "CLOSED")
  /\ request' = [request EXCEPT ![r] = [at |-> "evaluateLots", lots |-> LotsOf(request[r].tender)]]
  /\ UNCHANGED <<bid, evaluated, award, scanned>>

EvaluateLot(r) ==
  /\ request[r].at = "evaluateLots"
  /\ \E l \in request[r].lots :
       /\ scanned' = scanned \cup {b \in Bids : b[1] = l /\ bid[b] # "NONE"}
       /\ IF request[r].lots = {l} THEN Stop(r)
          ELSE request' = [request EXCEPT ![r].lots = @ \ {l}]
  /\ UNCHANGED <<tender, bid, evaluated, award, disturbed>>

Cancel(r) ==
  /\ request[r].at = "cancel"
  /\ tender' = [tender EXCEPT ![request[r].tender] = "CANCELLED"]
  /\ Stop(r)
  /\ UNCHANGED <<bid, evaluated, award, scanned, disturbed>>

-----------------------------------------------------------------------------
(* BidsService.submit and evaluate                                         *)

\* assertOpenForBidding
ReadForBid(r, b) ==
  /\ tender[TenderOfBid(b)] = "PUBLISHED"
  /\ Start(r, [at |-> "submit", bid |-> b])
  /\ UNCHANGED tenderVars

\* The unique index refuses a second bid of the supplier on the lot.
SubmitBid(r) ==
  /\ request[r].at = "submit"
  /\ bid[request[r].bid] = "NONE"
  /\ bid' = [bid EXCEPT ![request[r].bid] = "SUBMITTED"]
  /\ Stop(r)
  /\ UNCHANGED <<tender, evaluated, award, scanned, disturbed>>

ReadForEvaluation(r, b) ==
  /\ bid[b] = "SUBMITTED"
  /\ Start(r, [at |-> "checkClosed", bid |-> b])
  /\ UNCHANGED tenderVars

CheckClosed(r) ==
  /\ request[r].at = "checkClosed"
  /\ tender[TenderOfBid(request[r].bid)] = "CLOSED"
  /\ Go(r, "evaluate")
  /\ UNCHANGED tenderVars

\* A bid can have many evaluations: nothing makes the second one fail.
EvaluateBid(r) ==
  LET b == request[r].bid IN
  /\ request[r].at = "evaluate"
  /\ evaluated' = evaluated \cup {b}
  /\ bid' = [bid EXCEPT ![b] = "EVALUATED"]
  /\ Stop(r)
  /\ UNCHANGED <<tender, award, scanned, disturbed>>

-----------------------------------------------------------------------------
(* BidsService.award                                                       *)

ReadForAward(r, b) ==
  /\ bid[b] = "EVALUATED"
  /\ Start(r, [at |-> "checkAwardable", bid |-> b])
  /\ UNCHANGED tenderVars

CheckAwardable(r) ==
  /\ request[r].at = "checkAwardable"
  /\ tender[TenderOfBid(request[r].bid)] = "CLOSED"
  /\ Go(r, "award")
  /\ UNCHANGED tenderVars

\* One transaction.  The insert fails, and the rest with it, if the lot has
\* its award.
AwardTx(b) ==
  LET l == b[1] IN
  /\ award[l] = None
  /\ award' = [award EXCEPT ![l] = b[2]]
  /\ bid' = [c \in Bids |->
               IF c = b THEN "AWARDED"
               ELSE IF c[1] = l /\ bid[c] \in {"SUBMITTED", "EVALUATED"} THEN "REJECTED"
               ELSE bid[c]]

Award(r) ==
  LET b == request[r].bid IN
  /\ request[r].at = "award"
  /\ AwardTx(b)
  /\ request' = [request EXCEPT ![r] = [at |-> "maybeMarkAwarded", tender |-> TenderOfBid(b)]]
  /\ UNCHANGED <<tender, evaluated, scanned, disturbed>>

AllAwarded(t) == \A l \in LotsOf(t) : award[l] # None

\* Mutant: some lot is awarded, rather than every one.
MaybeMarkSomeAwarded(r) ==
  LET t == request[r].tender IN
  /\ request[r].at = "maybeMarkAwarded"
  /\ IF tender[t] = "CLOSED" /\ \E l \in LotsOf(t) : award[l] # None
     THEN Go(r, "markAwarded")
     ELSE Stop(r)
  /\ UNCHANGED tenderVars

\* maybeMarkAwarded reads the tender with its lots and their awards...
MaybeMarkAwarded(r) ==
  LET t == request[r].tender IN
  /\ request[r].at = "maybeMarkAwarded"
  /\ IF tender[t] = "CLOSED" /\ LotsOf(t) # {} /\ AllAwarded(t)
     THEN Go(r, "markAwarded")
     ELSE Stop(r)
  /\ UNCHANGED tenderVars

\* ...and then updates it.
MarkAwarded(r) ==
  /\ request[r].at = "markAwarded"
  /\ tender' = [tender EXCEPT ![request[r].tender] = "AWARDED"]
  /\ Stop(r)
  /\ UNCHANGED <<bid, evaluated, award, scanned, disturbed>>

TenderFail(r) ==
  /\ Abandon(r)
  /\ disturbed' = IF request[r].at \in {"maybeMarkAwarded", "markAwarded"}
                 THEN disturbed \cup {request[r].tender} ELSE disturbed
  /\ UNCHANGED <<tender, bid, evaluated, award, scanned>>

TenderNext ==
  \/ \E t \in Tenders : CreateTender(t)
  \/ \E r \in Requests :
       \/ \E t \in Tenders : ReadTender(r, t)
       \/ \E b \in Bids :
            \/ ReadForBid(r, b)
            \/ ReadForEvaluation(r, b)
            \/ ReadForAward(r, b)
       \/ Publish(r)
       \/ Close(r)
       \/ EvaluateLot(r)
       \/ Cancel(r)
       \/ SubmitBid(r)
       \/ CheckClosed(r)
       \/ EvaluateBid(r)
       \/ CheckAwardable(r)
       \/ Award(r)
       \/ MaybeMarkAwarded(r)
       \/ MarkAwarded(r)
       \/ TenderFail(r)

TenderSpec == TenderInit /\ HandlersInit /\ [][TenderNext]_<<tenderVars, request>>
-----------------------------------------------------------------------------
(* Safety, whatever the requests interleave and wherever they end.         *)

\* A lot goes to one bid, which was evaluated, and only a bid with the award
\* says AWARDED - also when a second award or a late evaluation is under way.
AwardsAreEvaluated ==
  \A b \in Bids :
    /\ award[b[1]] = b[2] => b \in evaluated
    /\ bid[b] = "AWARDED" => award[b[1]] = b[2]

\* A tender that says AWARDED has all its lots awarded, and one that still
\* says CLOSED although they are was left so by an award that did not end or
\* a close that came late: of awards that run at the same time, the last one
\* sees all of them.
CompleteTendersAreMarked ==
  \A t \in Tenders :
    /\ tender[t] = "AWARDED" => AllAwarded(t)
    /\ tender[t] = "CLOSED" /\ AllAwarded(t) /\ t \notin disturbed =>
         \E r \in Requests :
           request[r].at \in {"maybeMarkAwarded", "markAwarded"} /\ request[r].tender = t

\* Awards are of evaluated bids, and complete the tender.
AwardsAreOrderly == AwardsAreEvaluated /\ CompleteTendersAreMarked

(* What a comment says, and the code does not do.                          *)

\* "Full bid set for every lot is now final ... reviewers see alerts before
\* an award, not after."
ScannedBeforeAward ==
  \A b \in Bids : award[b[1]] # None /\ bid[b] # "NONE" => b \in scanned
=============================================================================
