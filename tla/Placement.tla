------------------------------ MODULE Placement ------------------------------
(***************************************************************************)
(* utils/sharding.ts with utils/node-selection.ts: which nodes are to hold a *)
(* cid when each of them holds some of the shards, while holders fail and    *)
(* are replaced.                                                             *)
(***************************************************************************)
EXTENDS NodeSelection, Sequences, SequencesExt

CONSTANTS
  ShardCount,   \* at most the maxShards that expandShardRanges is given
  CidNumber,    \* the first six bytes of a cid
  NaN, AnyShard,  \* what parseInt makes of no number; a node without shards
  Assignments,  \* the parts of what nodes may be configured with
  NoPlacement,
  Wanted        \* replicationFactor

ASSUME PlacementAssumption ==
  /\ ShardCount \in Nat \ {0} /\ Wanted \in Nat /\ IsFiniteSet(Replicas)
  /\ CidNumber \in [Contents -> Nat] /\ NaN \notin Nat
  /\ Assignments \subseteq Seq([1..1 -> Nat] \cup [1..2 -> Nat])

VARIABLE placed  \* a cid, the nodes with their shards and its holders

\* calculateShardKey
ShardKey(c) == CidNumber[c] % ShardCount

\* An assignment is a list of numbers or one of ranges: its parts are <<n>> or
\* <<start, end>>, and the first of them decides how all are read.
IsRanges(a) == Len(a[1]) = 2

\* isNodeResponsibleForShard. NaN is neither less nor greater than a number.
InRange(k, r) == r[1] # NaN /\ r[2] # NaN /\ r[1] <= k /\ k <= r[2]
Responsible(k, a) ==
  /\ a # <<>>
  /\ \E i \in DOMAIN a : IF IsRanges(a) THEN InRange(k, a[i]) ELSE a[i][1] = k

\* expandShardRanges, cut after ShardCount numbers as calculateShardDistribution has it.
Numbers(r) == IF NaN \in {r[1], r[2]} \/ r[1] > r[2] THEN <<>>
              ELSE [i \in 1..(r[2] - r[1] + 1) |-> r[1] + i - 1]
Expanded(a) ==
  IF a = <<>> THEN <<>>
  ELSE IF IsRanges(a)
       THEN LET list == FlattenSeq([i \in DOMAIN a |-> Numbers(a[i])])
            IN SubSeq(list, 1, IF Len(list) > ShardCount THEN ShardCount ELSE Len(list))
       ELSE [i \in DOMAIN a |-> a[i][1]]

\* parseShardConfig of parts that are a number or two of them; one dash makes every
\* part a range, with NaN for an end it does not have. An opening bracket, which the
\* comment on the function has, makes the first number NaN.
ParseShards(parts, bracket) ==
  LET ranges == \E i \in DOMAIN parts : Len(parts[i]) = 2
      first(i) == IF bracket /\ i = 1 THEN NaN ELSE parts[i][1]
  IN [i \in DOMAIN parts |->
       IF ~ranges THEN <<first(i)>>
       ELSE <<first(i), IF Len(parts[i]) = 2 THEN parts[i][2] ELSE NaN>>]

\* getEligibleNodesForShard and the filter of selectNodesForReplicationWithShards
EligibleFor(k, shards) ==
  {n \in DOMAIN shards : shards[n] # AnyShard /\ Responsible(k, shards[n])}
InShard(c, shards) ==
  EligibleFor(ShardKey(c), shards) \cup {n \in DOMAIN shards : shards[n] = AnyShard}

\* calculateShardDistribution: the shards that are counted for some node.
Covered(shards) ==
  {k \in 0..(ShardCount - 1) :
     \E n \in DOMAIN shards : shards[n] # AnyShard /\ k \in ToSet(Expanded(shards[n]))}

PlaceOn(c, shards, low, active) ==
  SelectInShard(c, active, InShard(c, shards), low, Wanted, {})

PlacementInit == placed = NoPlacement

Configured == {ParseShards(p, bracket) : p \in Assignments, bracket \in BOOLEAN}

\* A client selects; the shards are what the nodes make of their configuration.
PlaceFirst(c) ==
  /\ placed = NoPlacement
  /\ \E low \in SUBSET Replicas, shards \in [Replicas -> Configured \cup {AnyShard}] :
       placed' = [cid |-> c, shards |-> shards, low |-> low, active |-> Replicas,
                  holders |-> PlaceOn(c, shards, low, Replicas)]

\* A holder fails and is replaced from the nodes still active, whatever their shards.
HolderFails(n) ==
  /\ placed # NoPlacement /\ n \in placed.holders
  /\ LET active == placed.active \ {n}
         more == Replacements(placed.cid, active, placed.low, Wanted, placed.holders, {n})
     IN placed' = [placed EXCEPT !.active = active,
                                 !.holders = (@ \ {n}) \cup more]

PlacementNext ==
  \/ \E c \in Contents : PlaceFirst(c)
  \/ \E n \in Replicas : HolderFails(n)

PlacementSpec == PlacementInit /\ [][PlacementNext]_placed

-----------------------------------------------------------------------------
\* However the holders fail, those of them that have the shard of the cid come first in a
\* selection among the nodes left, and they are all of it as long as every node has that
\* shard.  A replacement is chosen without regard to shards and may have another.
ReplacedAsSelected ==
  LET left == (placed.active \cap InShard(placed.cid, placed.shards)) \ placed.low
      kept == placed.holders \cap left
  IN /\ kept = First(placed.cid, left, Cardinality(kept))
     /\ placed.active \ placed.low \subseteq left =>
          placed.holders = PlaceOn(placed.cid, placed.shards, placed.low, placed.active)

\* The ranges of a node stay below ShardCount and do not overlap.
Proper(a) ==
  a # <<>> /\ IsRanges(a) =>
    /\ \A i \in DOMAIN a : \A k \in ToSet(Numbers(a[i])) : k < ShardCount
    /\ \A i, j \in DOMAIN a : i # j => ToSet(Numbers(a[i])) \cap ToSet(Numbers(a[j])) = {}
\* The statistics call a shard covered when there is a node that holds it.
CoveredAsHeld ==
  (\A n \in Replicas : placed.shards[n] # AnyShard => Proper(placed.shards[n])) =>
    Covered(placed.shards) =
      {k \in 0..(ShardCount - 1) : EligibleFor(k, placed.shards) # {}}

\* Clients that replace failed holders agree with clients that look for the first time,
\* and selection and statistics agree about who holds a shard however it is written down.
PlacementAgrees == placed # NoPlacement => ReplacedAsSelected /\ CoveredAsHeld

===============================================================================
