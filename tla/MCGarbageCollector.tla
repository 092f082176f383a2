-------------------------- MODULE MCGarbageCollector --------------------------
(* GarbageCollector on small sets, for TLC.                                  *)
EXTENDS GarbageCollector, TLC

CONSTANTS c1, c2, timer, admin

TwoCids == {c1, c2}
Both == {timer, admin}
TimerOnly == {timer}

Sizes == (c1 :> 1 @@ c2 :> 2)

Conf(m, f, s, x) == [mode |-> m, factor |-> f, shard |-> s, max |-> x]
\* With both blobs stored, a limit of 1 is kept by deleting both or the larger,
\* a limit of 2 by deleting either.
AllConfigs == {Conf("size", 1, Cids, 1), Conf("hybrid", 1, Cids, 2),
               Conf("time", 1, {c2}, 1), Conf("hybrid", 2, Cids, 1)}
Roomy == {Conf("hybrid", 1, Cids, 4)}

CollectorSymmetry == Permutations(Collectors)

=============================================================================
