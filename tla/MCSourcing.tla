----------------------------- MODULE MCSourcing -----------------------------
(***************************************************************************)
(* Instances of Sourcing for TLC.                                          *)
(***************************************************************************)
EXTENDS MCProcurement, Sourcing

CONSTANTS t1

MCTenderOf == [l \in Lots |-> t1]
\* The first three are together a HIGH split, any two a MEDIUM one; the fourth
\* is over the threshold by itself.
MCEstimated == [q \in Batch |-> IF q = 4 THEN 3 ELSE 2]

\* Any three of the four purchases are submitted; a fourth ends the search.
ThreeOfBatch == Cardinality({q \in Batch : batch[q] # "DRAFT"}) <= 3

\* Suppliers are the actors' model values, and lots the purchases'.
Symmetry == PurchaseSymmetry
=============================================================================
