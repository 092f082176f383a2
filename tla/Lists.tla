-------------------------------- MODULE Lists --------------------------------
(***************************************************************************)
(* What Array.prototype.filter and sort make of an array, a sequence here.   *)
(***************************************************************************)
EXTENDS Naturals, FiniteSets, Sequences

\* The elements at the places in DOMAIN ahead, each with those at ahead[i] before it.
Arranged(list, ahead) ==
  [k \in 1..Cardinality(DOMAIN ahead) |->
     list[CHOOSE i \in DOMAIN ahead : Cardinality(ahead[i]) = k - 1]]

\* filter, with the places of the elements that are kept.
Filtered(list, kept) == Arranged(list, [i \in kept |-> {j \in kept : j < i}])

===============================================================================
