----------------------------- MODULE MCBlobStore -----------------------------
(* BlobStore on small sets, for TLC.                                         *)
EXTENDS BlobStore, TLC

CONSTANTS p1, p2, p3, c1

Requests2 == {p1, p2}
Requests3 == {p1, p2, p3}
NoCids == {}
OneCid == {c1}

RequestSymmetry == Permutations(Procs)

=============================================================================
