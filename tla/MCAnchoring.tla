---------------------------- MODULE MCAnchoring ----------------------------
(***************************************************************************)
(* Instances of Anchoring for TLC.                                         *)
(***************************************************************************)
EXTENDS Anchoring, TLC

Symmetry ==
  Permutations(Writers) \cup Permutations(Processes) \cup Permutations(Contents)
=============================================================================
