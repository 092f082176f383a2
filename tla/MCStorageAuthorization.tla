------------------------ MODULE MCStorageAuthorization ------------------------
\* Instance of StorageAuthorization for TLC: a1 and a2 are signed by one sender
\* with one nonce.
EXTENDS StorageAuthorization, TLC
CONSTANTS a1, a2, k1, r1, r2, upper, lower
MCAuths == {a1, a2}
MCProcs == {r1, r2}
RequestSymmetry == Permutations(MCProcs)
MCSpellings == {upper, lower}
MCNonces == {k1}
MCNonceOf == (a1 :> k1) @@ (a2 :> k1)
=============================================================================
