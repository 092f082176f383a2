---------------------------- MODULE NodeSelection ----------------------------
(***************************************************************************)
(* utils/node-selection.ts: which nodes hold a cid.  Every client sorts the  *)
(* nodes by the hash of cid and node and takes the first ones.  low are the  *)
(* nodes whose score is under MIN_REPUTATION_SCORE.                          *)
(***************************************************************************)
EXTENDS Naturals, FiniteSets

CONSTANTS
  Replicas,  \* the nodes of the network
  Contents,  \* cids
  Hash       \* the place of a node in the order of a cid

ASSUME HashAssumption ==
  /\ Hash \in [Contents -> [Replicas -> Nat]]
  /\ \A c \in Contents : \A m, n \in Replicas : m # n => Hash[c][m] # Hash[c][n]

\* deterministicSelect
First(c, nodes, count) ==
  {n \in nodes : Cardinality({m \in nodes : Hash[c][m] < Hash[c][n]}) < count}

\* selectNodesForReplication
Select(c, nodes, low, count, exclude) == First(c, nodes \ (low \cup exclude), count)

\* selectNodesForReplicationWithShards: inShard are the nodes whose shards, if
\* they name any, hold the shard of the cid.
SelectInShard(c, nodes, inShard, low, count, exclude) ==
  Select(c, nodes \cap inShard, low, count, exclude)

ReplacementsOfFailed(c, nodes, low, count, current, failed) ==
  LET live == Cardinality(current) - Cardinality(failed)
  IN IF live >= count THEN {} ELSE Select(c, nodes, low, count - live, failed)

\* selectReplacementNodes: failed nodes are among the current ones.
Replacements(c, nodes, low, count, current, failed) ==
  LET live == Cardinality(current) - Cardinality(failed)
  IN IF live >= count THEN {} ELSE Select(c, nodes, low, count - live, current \cup failed)

=============================================================================
