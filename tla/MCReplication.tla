---------------------------- MODULE MCReplication ----------------------------
(* Replication on small sets, for TLC.                                       *)
EXTENDS Replication, TLC

CONSTANTS n1, n2, c1

TwoNodes == {n1, n2}
OneCid == {c1}
AllMedia == {c1}
NoMedia == {}
\* The first node pushes and is understood; the second pulls from it, and pushes
\* back to an id that cannot be dialled; the first asks on its own.
PushOrPull ==
  {[http |-> {}, enabled |-> {n1}, dial |-> {n2}, keyed |-> {n1}, ask |-> {}],
   [http |-> {n1}, enabled |-> {n2}, dial |-> {}, keyed |-> {}, ask |-> {}],
   [http |-> {}, enabled |-> {}, dial |-> {}, keyed |-> {n1}, ask |-> {n1}]}
OnlyFirst == {n1}
TwoPlaces == (n1 :> 1 @@ n2 :> 2)

=============================================================================
