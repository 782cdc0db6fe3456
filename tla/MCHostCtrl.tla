----------------------------- MODULE MCHostCtrl -----------------------------
(***************************************************************************)
(* Instances of I10HostCtrl for TLC.                                       *)
(***************************************************************************)
EXTENDS I10HostCtrl, TLC

Symmetry == Permutations(Reqs)

=============================================================================
