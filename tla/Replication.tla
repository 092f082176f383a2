----------------------------- MODULE Replication -----------------------------
(***************************************************************************)
(* Blobs between nodes: services/replication.service.ts, the replicate       *)
(* handler of services/p2p-protocols.service.ts and the cache of             *)
(* verifyCIDOnChain.                                                         *)
(*                                                                         *)
(* A node pushes a blob when a client stores it and, every time it has loaded *)
(* its peers from the registry, pushes all it has and pulls what it lacks.    *)
(* A push goes to a handler on the peer, which asks the chain whether the cid *)
(* was published and remembers the answer; whoever speaks the protocol may     *)
(* send the handler a request.  One action is what runs between two awaits; a  *)
(* store is one step here, BlobStore has its files.                          *)
(*                                                                         *)
(* The sender dials the id that the registry has of the peer, and the peer     *)
(* looks up the hash of the sender's libp2p key.  The code maps neither to     *)
(* the other (server.ts registers the hash of a name), so both are settings:  *)
(* which ids libp2p can dial, and which nodes are registered by their key.     *)
(***************************************************************************)
EXTENDS Naturals, FiniteSets

CONSTANTS
  Nodes, NoNode, Cids, NoCid,
  Media,      \* cids of media, which no contract ever has
  Place,      \* the place of each node in the registry's list
  Factor,     \* config.replicationFactor
  Expiry,     \* CID_CACHE_EXPIRY_MS, in ticks
  Clients,    \* nodes that clients store at
  Settings,   \* the values of setting
  MaxStores,  \* bound on the stores of clients
  MaxAsked,   \* bound on the handlers under way when a peer sends a request
  MaxFaults   \* bound on crashes, purges, failing calls and broken streams

ASSUME SetAssumption ==
  NoNode \notin Nodes /\ NoCid \notin Cids /\ Media \subseteq Cids /\ Clients \subseteq Nodes
ASSUME SettingAssumption ==
  Settings \subseteq [http : SUBSET Nodes, enabled : SUBSET Nodes,
                     dial : SUBSET Nodes, keyed : SUBSET Nodes, ask : SUBSET Nodes]
ASSUME NumberAssumption ==
  /\ Factor \in Nat /\ Expiry \in Nat \ {0} /\ MaxStores \in Nat /\ MaxAsked \in Nat /\ MaxFaults \in Nat
  /\ Place \in [Nodes -> Nat] /\ \A m, n \in Nodes : m # n => Place[m] # Place[n]

VARIABLES
  published,  \* cids in the storage contracts
  active,     \* nodes that are active in the registry
  setting,    \* nodes whose HTTP routes can be reached, whose
              \* config.replicationEnabled is set, whose id in the registry
              \* libp2p can dial, whose id is the hash of their libp2p key, and
              \* who send requests of their own
  store,      \* each node's blobs
  peers,      \* this.peers of each node's replication service
  cache,      \* cidVerificationCache: the answer and how long it is still valid
  push,       \* each node's calls of replicateToAll, from a store and from sync
  pull,       \* each node's pullMissingBlobs
  handlers,   \* the replicate handlers under way
  stores, faults,
  purged      \* history: nodes that were purged

vars == <<published, active, setting, store, peers, cache, push, pull, handlers,
          stores, faults, purged>>
world == <<published, active, setting>>

Kinds == {"store", "sync"}
\* todo: what sync has yet to push; wait, ok: peers that have not answered, that
\* have accepted
Pushes == [todo : SUBSET Cids, cid : Cids \cup {NoCid},
           wait : SUBSET Nodes, ok : SUBSET Nodes]
NoPush == [todo |-> {}, cid |-> NoCid, wait |-> {}, ok |-> {}]
\* local: what was here when the pull began or came by it; left: peers to ask;
\* todo: what the peer listed and is missing; cid: what was fetched
Pulls == [on : BOOLEAN, local : SUBSET Cids, left : SUBSET Nodes,
          peer : Nodes \cup {NoNode}, todo : SUBSET Cids, cid : Cids \cup {NoCid}]
NoPull == [on |-> FALSE, local |-> {}, left |-> {}, peer |-> NoNode, todo |-> {},
           cid |-> NoCid]
Labels == {"none", "media", "unsigned"}   \* contentType; media without sender
\* kind is "orphan" when no call of replicateToAll awaits the answer.  pc "yes"
\* and "no" are the contract's answer on its way.
Handlers == [from : Nodes, kind : Kinds \cup {"orphan"}, to : Nodes, cid : Cids,
             label : Labels, pc : {"start", "ask", "yes", "no", "save"}]
\* left = 0: no entry, or an expired one
Entries == [ok : BOOLEAN, left : 0..Expiry]
NoEntry == [ok |-> FALSE, left |-> 0]

\* A sender waits for the handlers that will answer it.
Linked ==
  \A h \in handlers : h.kind \in Kinds =>
    /\ push[h.from][h.kind].cid = h.cid
    /\ h.to \in push[h.from][h.kind].wait

TypeOK ==
  /\ published \subseteq Cids \ Media /\ active \subseteq Nodes /\ setting \in Settings
  /\ store \in [Nodes -> SUBSET Cids] /\ peers \in [Nodes -> SUBSET Nodes]
  /\ cache \in [Nodes -> [Cids -> Entries]]
  /\ push \in [Nodes -> [Kinds -> Pushes]] /\ pull \in [Nodes -> Pulls]
  /\ handlers \subseteq Handlers
  /\ stores \in 0..MaxStores /\ faults \in 0..MaxFaults /\ purged \subseteq Nodes
  /\ Linked

-----------------------------------------------------------------------------
(* The sender.                                                               *)

\* The peers of the registry have one priority: the first ones listed.  Where the
\* id cannot be dialled the push fails at once, as the HTTP fallback finds no
\* /replicate route.
Targets(n) ==
  {m \in peers[n] \cap setting.dial :
     Cardinality({q \in peers[n] : Place[q] < Place[m]}) < Factor}

Offers(n, k, c) ==
  {[from |-> n, kind |-> k, to |-> m, cid |-> c, label |-> "none", pc |-> "start"] :
     m \in Targets(n)}

PullFrom(local, from) ==
  [NoPull EXCEPT !.on = TRUE, !.local = local, !.left = from]

\* replicateToAll.  Its callers give no options, so that contentType and sender
\* are undefined in the request.
Offer(n, k, c, rest) ==
  /\ push' = [push EXCEPT ![n][k] =
                [todo |-> rest, cid |-> c, wait |-> Targets(n), ok |-> {}]]
  /\ handlers' = handlers \cup Offers(n, k, c)

\* An authorized POST /store.
ClientStore(n, c) ==
  /\ stores < MaxStores /\ stores' = stores + 1
  /\ push[n]["store"] = NoPush
  /\ store' = [store EXCEPT ![n] = @ \cup {c}]
  /\ Offer(n, "store", c, {})
  /\ UNCHANGED <<world, peers, cache, pull, faults, purged>>

\* Mutant: the timer is set once.
LoadOnce(n) ==
  LET found == active \ {n}
  IN /\ n \in setting.enabled /\ push[n]["sync"] = NoPush /\ pull[n] = NoPull
     /\ peers[n] = {} /\ found # {}
     /\ peers' = [peers EXCEPT ![n] = found]
     /\ push' = [push EXCEPT ![n]["sync"].todo = store[n]]
     /\ pull' = [pull EXCEPT ![n] = PullFrom(store[n], found)]
     /\ UNCHANGED <<world, stores, store, cache, handlers, faults, purged>>

\* loadPeersFromRegistry, and the first await of the two it starts: they list the
\* blobs that are here.  A node's next load waits here for its sync and pull.
Load(n) ==
  LET found == active \ {n}
  IN /\ n \in setting.enabled /\ push[n]["sync"] = NoPush /\ pull[n] = NoPull
     /\ peers' = [peers EXCEPT ![n] = found]
     /\ IF found = {} THEN UNCHANGED <<push, pull>>
        ELSE /\ push' = [push EXCEPT ![n]["sync"].todo = store[n]]
             /\ pull' = [pull EXCEPT ![n] = PullFrom(store[n], found)]
     /\ UNCHANGED <<world, stores, store, cache, handlers, faults, purged>>

SyncNext(n, c) ==
  LET p == push[n]["sync"]
  IN /\ p.cid = NoCid /\ c \in p.todo /\ c \in store[n]
     /\ Offer(n, "sync", c, p.todo \ {c})
     /\ UNCHANGED <<world, stores, store, peers, cache, pull, faults, purged>>

\* getBlob throws for a blob that has gone since it was listed.
SyncSkip(n, c) ==
  LET p == push[n]["sync"]
  IN /\ p.cid = NoCid /\ c \in p.todo /\ c \notin store[n]
     /\ push' = [push EXCEPT ![n]["sync"].todo = @ \ {c}]
     /\ UNCHANGED <<world, stores, store, peers, cache, pull, handlers, faults, purged>>

\* Mutant: one answer is enough.
SettleEarly(n, k) ==
  /\ push[n][k].cid # NoCid
  /\ push' = [push EXCEPT ![n][k] = [NoPush EXCEPT !.todo = push[n][k].todo]]
  /\ UNCHANGED <<world, stores, store, peers, cache, pull, handlers, faults, purged>>

\* Promise.allSettled: ok is what replicateToAll returns.
Settle(n, k) ==
  /\ push[n][k].cid # NoCid /\ push[n][k].wait = {}
  /\ push' = [push EXCEPT ![n][k] = [NoPush EXCEPT !.todo = push[n][k].todo]]
  /\ UNCHANGED <<world, stores, store, peers, cache, pull, handlers, faults, purged>>

-----------------------------------------------------------------------------
(* The handler.                                                              *)

Moves(h, pc) == handlers' = (handlers \ {h}) \cup {[h EXCEPT !.pc = pc]}

\* The sender hears the answer, unless it has given up.
Hears(h, ok) ==
  LET p == push[h.from][h.kind]
      counted == IF ok THEN p.ok \cup {h.to} ELSE p.ok
  IN push' = IF h.kind = "orphan" THEN push
             ELSE [push EXCEPT ![h.from][h.kind] =
                     [p EXCEPT !.wait = p.wait \ {h.to}, !.ok = counted]]
Answers(h, ok) == handlers' = handlers \ {h} /\ Hears(h, ok)

Fresh(h) == cache[h.to][h.cid].left > 0

\* A peer opens a stream and sends a request of its own making.
Request(m, n, c, label) ==
  /\ m \in setting.ask \ {n} /\ Cardinality(handlers) < MaxAsked
  /\ handlers' = handlers \cup
       {[from |-> m, kind |-> "orphan", to |-> n, cid |-> c, label |-> label, pc |-> "start"]}
  /\ UNCHANGED <<world, stores, store, peers, cache, push, pull, faults, purged>>

\* The sender's key is that of an active node.
Known(h) == h.from \in active \cap setting.keyed

\* Nor is media taken that names no sender.
Refuse(h) ==
  /\ h.pc = "start" /\ (~Known(h) \/ h.label = "unsigned")
  /\ Answers(h, FALSE)
  /\ UNCHANGED <<world, stores, store, peers, cache, pull, faults, purged>>

\* What the request calls media is stored; nothing is asked or verified.
TakeMedia(h) ==
  /\ h.pc = "start" /\ Known(h) /\ h.label = "media"
  /\ Moves(h, "save")
  /\ UNCHANGED <<world, stores, store, peers, cache, push, pull, faults, purged>>

\* Mutant: a hit makes the entry valid for another full period.
CacheHitRefreshes(h) ==
  /\ h.pc = "start" /\ Known(h) /\ h.label = "none" /\ Fresh(h)
  /\ cache' = [cache EXCEPT ![h.to][h.cid].left = Expiry]
  /\ IF cache[h.to][h.cid].ok
     THEN Moves(h, "save") /\ UNCHANGED push
     ELSE Answers(h, FALSE)
  /\ UNCHANGED <<world, stores, store, peers, pull, faults, purged>>

CacheHit(h) ==
  /\ h.pc = "start" /\ Known(h) /\ h.label = "none" /\ Fresh(h)
  /\ IF cache[h.to][h.cid].ok
     THEN Moves(h, "save") /\ UNCHANGED push
     ELSE Answers(h, FALSE)
  /\ UNCHANGED <<world, stores, store, peers, cache, pull, faults, purged>>

CacheMiss(h) ==
  /\ h.pc = "start" /\ Known(h) /\ h.label = "none" /\ ~Fresh(h)
  /\ Moves(h, "ask")
  /\ UNCHANGED <<world, stores, store, peers, cache, push, pull, faults, purged>>

\* The contracts' state is read; the answer is under way.
ChainRead(h) ==
  /\ h.pc = "ask" /\ Moves(h, IF h.cid \in published THEN "yes" ELSE "no")
  /\ UNCHANGED <<world, stores, store, peers, cache, push, pull, faults, purged>>

\* An error of the contract call is taken for "not found".
ChainError(h) ==
  /\ faults < MaxFaults /\ faults' = faults + 1
  /\ h.pc = "ask" /\ Moves(h, "no")
  /\ UNCHANGED <<world, stores, store, peers, cache, push, pull, purged>>

\* Mutant: the answer is remembered but a negative one does not end the handler.
ChainAnswerFallsThrough(h) ==
  /\ h.pc \in {"yes", "no"}
  /\ cache' = [cache EXCEPT ![h.to][h.cid] = [ok |-> h.pc = "yes", left |-> Expiry]]
  /\ Moves(h, "save") /\ UNCHANGED push
  /\ UNCHANGED <<world, stores, store, peers, pull, faults, purged>>

\* Both answers are remembered for as long.
ChainAnswer(h) ==
  /\ h.pc \in {"yes", "no"}
  /\ cache' = [cache EXCEPT ![h.to][h.cid] = [ok |-> h.pc = "yes", left |-> Expiry]]
  /\ IF h.pc = "yes" THEN Moves(h, "save") /\ UNCHANGED push ELSE Answers(h, FALSE)
  /\ UNCHANGED <<world, stores, store, peers, pull, faults, purged>>

\* Mutant: the answer is sent whether or not the store succeeds.
SaveFailsQuietly(h) ==
  /\ faults < MaxFaults /\ faults' = faults + 1
  /\ h.pc = "save" /\ Answers(h, TRUE)
  /\ UNCHANGED <<world, stores, store, peers, cache, pull, purged>>

\* storeBlob throws: the disk or the node is full.
SaveFails(h) ==
  /\ faults < MaxFaults /\ faults' = faults + 1
  /\ h.pc = "save" /\ Answers(h, FALSE)
  /\ UNCHANGED <<world, stores, store, peers, cache, pull, purged>>

\* The blob is stored, or was here already: success either way.
Save(h) ==
  /\ h.pc = "save"
  /\ store' = [store EXCEPT ![h.to] = @ \cup {h.cid}]
  /\ Answers(h, TRUE)
  /\ UNCHANGED <<world, stores, peers, cache, pull, faults, purged>>

\* The stream breaks or the peer cannot be dialled: the HTTP fallback finds no
\* /replicate route, and the push fails.  A request that had arrived is still
\* handled.
Break(h) ==
  /\ faults < MaxFaults /\ faults' = faults + 1
  /\ h.kind # "orphan" /\ Hears(h, FALSE)
  /\ handlers' \in {(handlers \ {h}) \cup {[h EXCEPT !.kind = "orphan"]}, handlers \ {h}}
  /\ UNCHANGED <<world, stores, store, peers, cache, pull, purged>>

-----------------------------------------------------------------------------
(* The puller.                                                               *)

\* GET /blobs of the next peer; one that cannot be reached is passed over.
PullList(n, m) ==
  LET p == pull[n]
  IN /\ p.peer = NoNode /\ m \in p.left
     /\ pull' = [pull EXCEPT ![n] =
                   [p EXCEPT !.left = @ \ {m},
                             !.peer = IF m \in setting.http THEN m ELSE NoNode,
                             !.todo = IF m \in setting.http THEN store[m] \ p.local ELSE {}]]
     /\ UNCHANGED <<world, stores, store, peers, cache, push, handlers, faults, purged>>

\* GET /blob: no cid is checked, against the bytes or the chain.
PullFetch(n, c) ==
  LET p == pull[n]
  IN /\ p.peer # NoNode /\ p.cid = NoCid /\ c \in p.todo /\ c \in store[p.peer]
     /\ pull' = [pull EXCEPT ![n].cid = c, ![n].todo = @ \ {c}]
     /\ UNCHANGED <<world, stores, store, peers, cache, push, handlers, faults, purged>>

\* The peer has dropped the blob since, or does not answer.
PullFails(n, c) ==
  LET p == pull[n]
  IN /\ p.peer # NoNode /\ p.cid = NoCid /\ c \in p.todo
     /\ IF c \in store[p.peer] THEN faults < MaxFaults /\ faults' = faults + 1
                              ELSE UNCHANGED faults
     /\ pull' = [pull EXCEPT ![n].todo = @ \ {c}]
     /\ UNCHANGED <<world, stores, store, peers, cache, push, handlers, purged>>

PullStore(n) ==
  LET c == pull[n].cid
  IN /\ c # NoCid
     /\ store' = [store EXCEPT ![n] = @ \cup {c}]
     /\ pull' = [pull EXCEPT ![n].cid = NoCid, ![n].local = @ \cup {c}]
     /\ UNCHANGED <<world, stores, peers, cache, push, handlers, faults, purged>>

PullNext(n) ==
  LET p == pull[n]
  IN /\ p.on /\ p.todo = {} /\ p.cid = NoCid /\ (p.peer # NoNode \/ p.left = {})
     /\ pull' = [pull EXCEPT ![n] =
                   IF p.left = {} THEN NoPull ELSE [p EXCEPT !.peer = NoNode]]
     /\ UNCHANGED <<world, stores, store, peers, cache, push, handlers, faults, purged>>

-----------------------------------------------------------------------------
(* The world.                                                                *)

\* The client's transaction is mined.
Publish(c) ==
  /\ c \notin published \cup Media
  /\ published' = published \cup {c}
  /\ UNCHANGED <<active, setting, stores, store, peers, cache, push, pull, handlers, faults,
                 purged>>

\* The nodes that are registered change.
Unregister(n) ==
  /\ faults < MaxFaults /\ faults' = faults + 1
  /\ n \in active /\ active' = active \ {n}
  /\ UNCHANGED <<published, setting, stores, store, peers, cache, push, pull, handlers, purged>>

Register(n) ==
  /\ n \notin active /\ active' = active \cup {n}
  /\ UNCHANGED <<published, setting, stores, store, peers, cache, push, pull, handlers, faults,
                 purged>>

\* Time passes; an entry that expires is as good as none, before and after
\* cleanupExpiredCIDCache.
Tick ==
  /\ cache' = [n \in Nodes |-> [c \in Cids |->
                 IF cache[n][c].left <= 1 THEN NoEntry
                 ELSE [cache[n][c] EXCEPT !.left = @ - 1]]]
  /\ UNCHANGED <<world, stores, store, peers, push, pull, handlers, faults, purged>>

\* POST /admin/purge deletes every blob.
Purge(n) ==
  /\ faults < MaxFaults /\ faults' = faults + 1
  /\ store' = [store EXCEPT ![n] = {}] /\ purged' = purged \cup {n}
  /\ UNCHANGED <<world, stores, peers, cache, push, pull, handlers>>

\* n starts again: its requests and handlers are gone, and those who wait for
\* one of its answers hear of it.
Crash(n) ==
  /\ faults < MaxFaults /\ faults' = faults + 1
  /\ peers' = [peers EXCEPT ![n] = {}]
  /\ cache' = [cache EXCEPT ![n] = [c \in Cids |-> NoEntry]]
  /\ push' = [q \in Nodes |-> [k \in Kinds |->
                IF q = n THEN NoPush ELSE [push[q][k] EXCEPT !.wait = @ \ {n}]]]
  /\ pull' = [pull EXCEPT ![n] = NoPull]
  /\ handlers' = {[h EXCEPT !.kind = IF h.from = n THEN "orphan" ELSE @] :
                    h \in {g \in handlers : g.to # n}}
  /\ UNCHANGED <<world, stores, store, purged>>

-----------------------------------------------------------------------------
Init ==
  /\ published = {} /\ active = Nodes /\ setting \in Settings
  /\ store = [n \in Nodes |-> {}] /\ peers = [n \in Nodes |-> {}]
  /\ cache = [n \in Nodes |-> [c \in Cids |-> NoEntry]]
  /\ push = [n \in Nodes |-> [k \in Kinds |-> NoPush]]
  /\ pull = [n \in Nodes |-> NoPull]
  /\ handlers = {} /\ stores = 0 /\ faults = 0 /\ purged = {}

Pushing(n) ==
  \/ \E c \in Cids : SyncNext(n, c) \/ SyncSkip(n, c)
  \/ \E k \in Kinds : Settle(n, k)

Handle(h) ==
  \/ Refuse(h) \/ TakeMedia(h) \/ CacheHit(h) \/ CacheMiss(h) \/ ChainRead(h) \/ ChainAnswer(h)
  \/ Save(h)

Pulling(n) ==
  \/ \E m \in Nodes : PullList(n, m)
  \/ \E c \in Cids : PullFetch(n, c) \/ PullFails(n, c)
  \/ PullStore(n) \/ PullNext(n)

Next ==
  \/ \E n \in Clients, c \in Cids : ClientStore(n, c)
  \/ \E n \in Nodes : Load(n) \/ Pushing(n) \/ Pulling(n)
  \/ \E m, n \in Nodes, c \in Cids, label \in Labels : Request(m, n, c, label)
  \/ \E h \in handlers : Handle(h) \/ ChainError(h) \/ SaveFails(h) \/ Break(h)
  \/ \E c \in Cids : Publish(c)
  \/ \E n \in Nodes : Unregister(n) \/ Register(n) \/ Purge(n) \/ Crash(n)
  \/ Tick

Spec == Init /\ [][Next]_vars

\* The timer fires, started calls go on, the handlers that a call awaits too, and
\* time passes.  Clients store a last time, and there is a last failure.
Fairness ==
  /\ \A n \in Nodes : WF_vars(Load(n)) /\ WF_vars(Pushing(n)) /\ WF_vars(Pulling(n))
  /\ \A n \in Nodes, k \in Kinds :
       WF_vars(\E h \in handlers : h.from = n /\ h.kind = k /\ Handle(h))
  /\ WF_vars(Tick)
FairSpec == Spec /\ Fairness

-----------------------------------------------------------------------------
(* Properties.                                                               *)

\* The handler stores what the contracts have, never what another answer, a
\* remembered one included, refused, but for what its sender calls media: "media"
\* in the request is all it takes to store a blob unpublished
\* (p2p-protocols.service.ts:230).
Admitted == \A h \in handlers : h.pc = "save" => h.cid \in published \/ h.label = "media"

\* A peer that a push counts as a replica has the blob, however streams broke and
\* nodes restarted, unless it was purged.
CountedHold ==
  \A n \in Nodes, k \in Kinds : \A m \in push[n][k].ok :
    push[n][k].cid \in store[m] \/ m \in purged

\* A cid that the contracts have is not refused for ever by a node that found
\* nothing, or an error, at first: its negative answers, late ones included, run
\* out, however often peers go on asking.
RefusalsEnd ==
  \A c \in Cids, n \in Nodes :
    <>(c \in published) => <>[](cache[n][c].left > 0 => cache[n][c].ok)

\* What a node with reachable HTTP routes holds reaches every other node.
PullSpreads ==
  \A c \in Cids, n, m \in Nodes :
    <>[](/\ m \in setting.enabled
          /\ c \in store[n] /\ n \in active \cap setting.http) => <>(c \in store[m])

\* p2p-protocols.service.ts:229 "Media content is verified by signature alone".
MediaTaken == \A h \in handlers : h.pc = "no" /\ h.kind \in Kinds => h.cid \notin Media

=============================================================================
