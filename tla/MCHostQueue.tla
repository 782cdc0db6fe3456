---------------------------- MODULE MCHostQueue ----------------------------
(***************************************************************************)
(* Instances of I10HostQueue for TLC.  A header is one byte and a page two; *)
(* a write of one page is inline, one of two pages waits for an R2T, and    *)
(* three pages stand for more than 32768 bytes.                             *)
(***************************************************************************)
EXTENDS I10HostQueue, TLC

K(w, p, n) == [write |-> w, pages |-> p, nodelay |-> n]

MCAgg == <<2, 2>>
MCAggWide == <<4, 2>>
MCCapacityWide == <<12, 2>>
MCCapacity == <<6, 2>>

WriteKinds == {K(TRUE, 1, FALSE), K(TRUE, 2, FALSE), K(TRUE, 1, TRUE)}
ReadWriteKinds == {K(TRUE, 1, FALSE), K(TRUE, 2, FALSE), K(FALSE, 1, FALSE)}
AllKinds == ReadWriteKinds \cup {K(FALSE, 0, TRUE), K(TRUE, 1, TRUE)}
SmallKinds == {K(TRUE, 1, FALSE), K(FALSE, 1, FALSE)}
R2tKinds == {K(TRUE, 2, FALSE)}
BigWrites == {K(TRUE, 3, FALSE)}
WithBigWrites == BigWrites \cup {K(FALSE, 1, FALSE)}

Symmetry == Permutations(Tags)
Symmetry2 == Permutations(Tags) \cup Permutations(Cpus)

=============================================================================
