----------------------------- MODULE Detectors -----------------------------
(***************************************************************************)
(* What PriceAnomalyDetector and BidCollusionDetector find in the bids on  *)
(* one lot.                                                                *)
(*                                                                         *)
(* A z-score and a coefficient of variation are compared with a threshold; *)
(* both sides are multiplied out, so that the arithmetic is that of the    *)
(* integers.  The code computes in doubles.                                *)
(***************************************************************************)
EXTENDS Integers, Sequences, FiniteSets, Functions

CONSTANTS
  BidAmounts,     \* amounts that suppliers can bid
  MaxBids,        \* bound: bids on the lot
  Estimates,      \* what tender_lots."estimatedAmount" can be
  References      \* market reference prices; 0 if there is none

ASSUME DetectorsAssumption ==
  /\ BidAmounts \subseteq Nat \ {0}
  /\ MaxBids \in Nat
  /\ Estimates \subseteq Nat \ {0}
  /\ References \subseteq Nat

VARIABLES
  bids,           \* the amounts on the lot, as they came in
  estimate,       \* the estimate of the lot
  reference       \* what the market data adapter answers

detectorVars == <<bids, estimate, reference>>

DetectorsTypeOK ==
  /\ bids \in Seq(BidAmounts) /\ Len(bids) <= MaxBids
  /\ estimate \in Estimates \cup {0}
  /\ reference \in References \cup {0}

\* There is no lot yet.
DetectorsInit == bids = <<>> /\ estimate = 0 /\ reference = 0

OpenLot(e, price) ==
  /\ estimate = 0
  /\ estimate' = e
  /\ reference' = price
  /\ UNCHANGED bids

PlaceBid(a) ==
  /\ estimate # 0
  /\ Len(bids) < MaxBids
  /\ bids' = Append(bids, a)
  /\ UNCHANGED <<estimate, reference>>

DetectorsNext ==
  \/ \E e \in Estimates, price \in References : OpenLot(e, price)
  \/ \E a \in BidAmounts : PlaceBid(a)

DetectorsSpec == DetectorsInit /\ [][DetectorsNext]_detectorVars
-----------------------------------------------------------------------------
Magnitude(x) == IF x < 0 THEN -x ELSE x

SumOf(f, I) == FoldFunctionOnSet(+, 0, f, I)

\* The variance of f[i], i \in I, times the square of their number.
SpreadOf(f, I) ==
  Cardinality(I) * SumOf([i \in I |-> f[i] * f[i]], I) - SumOf(f, I) * SumOf(f, I)

\* The bids that bid i is compared with.
PeersOf(i) == DOMAIN bids \ {i}

\* Whether bid i is k standard deviations from the mean of its peers.
IsOutlier(i, k) ==
  LET P == PeersOf(i)
      distance == Cardinality(P) * bids[i] - SumOf(bids, P)
  IN
  SpreadOf(bids, P) > 0 /\ distance * distance >= k * k * SpreadOf(bids, P)

MinBidsForZScore == 4

\* The severity of the PRICE_ANOMALY alert on bid i.
PriceAnomaly(i) ==
  IF Len(bids) >= MinBidsForZScore
  THEN IF IsOutlier(i, 3) THEN "HIGH" ELSE IF IsOutlier(i, 2) THEN "MEDIUM" ELSE "NONE"
  ELSE IF estimate > 0 /\ 2 * Magnitude(bids[i] - estimate) > estimate THEN "MEDIUM" ELSE "NONE"

\* Mutant: relative to the estimate.
DeviationOfEstimate ==
  LET percentOff(p) == 100 * Magnitude(estimate - reference) > p * estimate IN
  IF reference > 0 /\ percentOff(30) THEN IF percentOff(60) THEN "HIGH" ELSE "MEDIUM" ELSE "NONE"

\* The severity of the MARKET_PRICE_DEVIATION alert on the lot: the estimate
\* is 30 or 60 percent off.
MarketDeviation ==
  LET percentOff(p) == 100 * Magnitude(estimate - reference) > p * reference IN
  IF reference > 0 /\ percentOff(30) THEN IF percentOff(60) THEN "HIGH" ELSE "MEDIUM" ELSE "NONE"

MinBidsForCollusion == 3

\* The severity of the BID_COLLUSION alert on the lot: the coefficient of
\* variation is below 2 or 5 percent.
BidCollusion ==
  LET n == Len(bids)
      square == SumOf(bids, DOMAIN bids) * SumOf(bids, DOMAIN bids)
      spread == SpreadOf(bids, DOMAIN bids)
  IN
  IF n < MinBidsForCollusion THEN "NONE"
  ELSE IF 2500 * spread < square THEN "HIGH"
  ELSE IF 400 * spread < square THEN "MEDIUM" ELSE "NONE"

-----------------------------------------------------------------------------
Others(i) == DOMAIN bids \ {i}
Lowest(I) == CHOOSE a \in {bids[i] : i \in I} : \A i \in I : a <= bids[i]
Highest(I) == CHOOSE a \in {bids[i] : i \in I} : \A i \in I : a >= bids[i]

\* A bid that is farther from all its peers than one and a half times what
\* these differ by is a HIGH anomaly: an extreme bid does not hide itself.
ExtremeBidsAreFlagged ==
  Len(bids) >= MinBidsForZScore =>
    \A i \in DOMAIN bids :
      LET low == Lowest(Others(i))
          high == Highest(Others(i))
          gap == IF bids[i] > high THEN bids[i] - high ELSE low - bids[i]
      IN  high > low /\ 2 * gap >= 3 * (high - low) => PriceAnomaly(i) = "HIGH"

\* Three bids or more that are within 3 % of each other are HIGH collusion, and
\* HIGH collusion means that they are close: the square of their range, in
\* percent of the highest, is below 8 n, so that three bids are within 5 % and
\* five within 7 %.
CollusionIsCloseness ==
  Len(bids) >= MinBidsForCollusion =>
    LET low == Lowest(DOMAIN bids)
        high == Highest(DOMAIN bids)
        range == 100 * (high - low)
    IN  /\ range <= 3 * low => BidCollusion = "HIGH"
        /\ BidCollusion = "HIGH" => range * range < 8 * Len(bids) * (high * high)

\* Where all bidders inflate the price alike nobody stands out; if they follow
\* the estimate, the market shows it.
RiggedEstimateIsSeen ==
  /\ bids # <<>> /\ reference > 0
  /\ \A i \in DOMAIN bids : /\ 2 * bids[i] >= 3 * reference
                             /\ 10 * bids[i] <= 11 * estimate
  => MarketDeviation # "NONE"

\* What each of the three statistics cannot miss.
AnomaliesAreSeen == ExtremeBidsAreFlagged /\ CollusionIsCloseness /\ RiggedEstimateIsSeen

(* What a comment says, and the code does not do.                          *)

\* A bid that is far from peers that agree among themselves - "a 200,000 bid
\* alongside three ~990,000 bids" - is flagged.
LoneOutlierIsFlagged ==
  Len(bids) >= MinBidsForZScore =>
    \A i \in DOMAIN bids :
      2 * bids[i] < Lowest(Others(i)) => PriceAnomaly(i) # "NONE"
=============================================================================
