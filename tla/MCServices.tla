------------------------------ MODULE MCServices ------------------------------
(***************************************************************************)
(* The small services at their bounds.  They share no state in these         *)
(* modules, so one run explores them one by one: part is the service that    *)
(* moves in a behaviour, the others stay as they start.                      *)
(***************************************************************************)
EXTENDS ReplicationManager, Placement, PeerNode, NodeDiscovery, Consensus,
        IndexService, BlockedContent, CacheService, PeerExchange, WriterAuthorization, TLC

CONSTANTS n1, n2, n3, n4, u1, u2, c1, d1

MCHash == [c \in {c1} |-> n1 :> 2 @@ n2 :> 1 @@ n3 :> 3 @@ n4 :> 4]
MCCidNumber == [c \in {c1} |-> 5]
MCAssignments ==
  {<<<<1>>>>, <<<<1, 2>>, <<0, 0>>>>, <<<<0, 0>>, <<1>>>>}
MCNodeAt == u1 :> n1 @@ u2 :> n2
MCLowSets == {{}, {n1}}
MCListed == d1 :> 1
MCMetas ==
  {[type |-> "post", thread |-> "t", guild |-> "g", parent |-> NoCursor, time |-> 1],
   [type |-> "comment", thread |-> "t", guild |-> "g", parent |-> "p", time |-> 2],
   [type |-> "comment", thread |-> "u", guild |-> NoGuild, parent |-> "p", time |-> 1]}
MCFeedEvents ==
  {[cid |-> "root", parent |-> NoParent, author |-> "a", time |-> 1, signed |-> TRUE],
   [cid |-> "root", parent |-> NoParent, author |-> "b", time |-> 2, signed |-> FALSE],
   [cid |-> "reply", parent |-> "root", author |-> "b", time |-> 2, signed |-> TRUE],
   [cid |-> "twin", parent |-> "root", author |-> "a", time |-> 1, signed |-> TRUE],
   [cid |-> "last", parent |-> "reply", author |-> "a", time |-> 3, signed |-> TRUE]}
Unlisted == [known |-> {"a", "b"}, allow |-> NoList, block |-> NoList, rules |-> NoRules,
             bans |-> NoList]
MCFeedContexts ==
  {Unlisted, [Unlisted EXCEPT !.allow = {"a", "b"}, !.block = {"b"}],
   [Unlisted EXCEPT !.known = {"a"}, !.allow = {}, !.block = {}],
   [Unlisted EXCEPT !.rules = [tier |-> "members", list |-> {"a"}], !.bans = {}],
   [Unlisted EXCEPT !.rules = [tier |-> "prime_key", list |-> NoList], !.bans = {}],
   [Unlisted EXCEPT !.rules = [tier |-> "token_gated", list |-> NoList], !.bans = {"a"}]}
MCSizeOf == [k \in 1..4 |-> IF k <= 2 THEN 1 ELSE 2]
MCCacheKeys == DOMAIN MCSizeOf

VARIABLE part

servicesVars ==
  <<part, managerVars, placed, peerVars, discoveryVars, consensusVars, indexVars,
    blockedVars, memoryVars, exchangeVars, feedVars>>

Parts == {"manager", "placement", "peers", "discovery", "consensus", "index",
          "blocked", "memory", "exchange", "assembly"}

ServicesInit ==
  /\ part \in Parts
  /\ ManagerInit /\ PlacementInit /\ PeerInit /\ DiscoveryInit /\ ConsensusInit
  /\ IndexInit /\ BlockedInit /\ MemoryInit /\ ExchangeInit
  /\ WriterInit /\ (part = "assembly" \/ context = Unlisted)

\* The other services stay as they are.
Only(p) ==
  /\ UNCHANGED part
  /\ IF p = "manager" THEN TRUE ELSE UNCHANGED managerVars
  /\ IF p = "placement" THEN TRUE ELSE UNCHANGED placed
  /\ IF p = "peers" THEN TRUE ELSE UNCHANGED peerVars
  /\ IF p = "discovery" THEN TRUE ELSE UNCHANGED discoveryVars
  /\ IF p = "consensus" THEN TRUE ELSE UNCHANGED consensusVars
  /\ IF p = "index" THEN TRUE ELSE UNCHANGED indexVars
  /\ IF p = "blocked" THEN TRUE ELSE UNCHANGED blockedVars
  /\ IF p = "memory" THEN TRUE ELSE UNCHANGED memoryVars
  /\ IF p = "exchange" THEN TRUE ELSE UNCHANGED exchangeVars
  /\ IF p = "assembly" THEN TRUE ELSE UNCHANGED feedVars

ServicesNext ==
  \/ part = "manager" /\ ManagerNext /\ Only("manager")
  \/ part = "placement" /\ PlacementNext /\ Only("placement")
  \/ part = "peers" /\ PeerNext /\ Only("peers")
  \/ part = "discovery" /\ DiscoveryNext /\ Only("discovery")
  \/ part = "consensus" /\ ConsensusNext /\ Only("consensus")
  \/ part = "index" /\ IndexNext /\ Only("index")
  \/ part = "blocked" /\ BlockedNext /\ Only("blocked")
  \/ part = "memory" /\ MemoryNext /\ Only("memory")
  \/ part = "exchange" /\ ExchangeNext /\ Only("exchange")
  \/ part = "assembly" /\ WriterNext /\ Only("assembly")

ServicesSpec == ServicesInit /\ [][ServicesNext]_servicesVars /\ PeerFairness

===============================================================================
