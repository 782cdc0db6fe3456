---------------------------- MODULE MCTargetQueue ----------------------------
(***************************************************************************)
(* Instances of I10TargetQueue for TLC.  A header is one byte and a page   *)
(* two; a write of one page is inline, one of two pages waits for an R2T.  *)
(***************************************************************************)
EXTENDS I10TargetQueue

K(w, p) == [write |-> w, pages |-> p]

MCCapacity == <<8, 2>>

MixedKinds == {K(FALSE, 2), K(TRUE, 1), K(TRUE, 2)}
BigReadKinds == {K(FALSE, 3), K(TRUE, 1), K(TRUE, 2)}
BigFailKinds == {K(TRUE, 2)}
InlineFailKinds == {K(TRUE, 1)}
LiveKinds == {K(FALSE, 1), K(TRUE, 2)}
NoKinds == {}

Symmetry == Permutations(Tags) \cup Permutations(Cmds)

=============================================================================
