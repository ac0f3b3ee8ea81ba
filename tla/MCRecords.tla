----------------------------- MODULE MCRecords -----------------------------
(***************************************************************************)
(* Instances of Records for TLC.                                           *)
(***************************************************************************)
EXTENDS Records, TLC

CONSTANTS x1, x2, x3, y1, y2, z1, z2

MCAwardOf == [o \in Orders |-> y1]
MCOrderOf == [i \in Invoices |-> y1]
MCProjectOf == [m \in Milestones |-> y1]
\* An order of 4 takes one invoice of 3.
MCAuthorized == [o \in Orders |-> 4]
MCBilled == [i \in Invoices |-> 3]

\* The sets of one size share their model values, which keeps the group small.
Symmetry ==
  Permutations(Requests) \cup Permutations({x1, x2, x3}) \cup Permutations({z1, z2})
=============================================================================
