---------------------------- MODULE MCFeedService ----------------------------
(* FeedService on small sets, for TLC.                                       *)
EXTENDS FeedService, TLC

CONSTANTS c1, c2, c3, c4, p1, p2

ThreeCids == {c1, c2, c3}
FourCids == {c1, c2, c3, c4}
OneRequest == {p1}
TwoRequests == {p1, p2}
AnyMode == {TRUE, FALSE}
Serial == {TRUE}
Stamps == (c1 :> 2 @@ c2 :> 1 @@ c3 :> 1)
Ranks == (c1 :> 1 @@ c2 :> 3 @@ c3 :> 2)
FourStamps == (c1 :> 1 @@ c2 :> 1 @@ c3 :> 1 @@ c4 :> 1)
FourRanks == (c1 :> 1 @@ c2 :> 2 @@ c3 :> 3 @@ c4 :> 4)

RequestSymmetry == Permutations(Procs)

=============================================================================
