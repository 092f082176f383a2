-------------------------- MODULE ReplicationProofs --------------------------
(***************************************************************************)
(* Safety of replication for any nodes, cids, settings and number of stores  *)
(* and failures.                                                             *)
(***************************************************************************)
EXTENDS Replication, TLAPS

\* A sender waits for one handler on a peer.
Unique ==
  \A g, h \in handlers :
    g.kind \in Kinds /\ g.from = h.from /\ g.kind = h.kind /\ g.to = h.to => g = h

\* A positive answer, remembered or on its way, is of a published cid.
Due(h, pc) ==
  /\ pc = "yes" => h.cid \in published
  /\ pc = "save" => h.cid \in published \/ h.label = "media"
Positive ==
  /\ \A n \in Nodes, c \in Cids : cache[n][c].ok => c \in published
  /\ \A h \in handlers : Due(h, h.pc)

Linkage == TypeOK /\ Unique

-----------------------------------------------------------------------------
(* The effects that several actions share.                                   *)

LEMMA Tags == \A k \in Kinds : k # "orphan"
  BY DEF Kinds

\* A new call of replicateToAll, where none was.
LEMMA OfferEffect ==
  ASSUME Linkage, NEW n \in Nodes, NEW k \in Kinds, NEW c \in Cids,
         NEW rest \in SUBSET Cids, push[n][k].cid = NoCid, Offer(n, k, c, rest)
  PROVE  /\ push' \in [Nodes -> [Kinds -> Pushes]]
         /\ handlers' \subseteq Handlers
         /\ push'[n][k].cid = c /\ push'[n][k].ok = {}
         /\ \A q \in Nodes, l \in Kinds : <<q, l>> # <<n, k>> => push'[q][l] = push[q][l]
         /\ Linked' /\ Unique'
         /\ \A h \in handlers' : h \in handlers \/ h.pc = "start"
<1> DEFINE new == [todo |-> rest, cid |-> c, wait |-> Targets(n), ok |-> {}]
<1>1. Targets(n) \subseteq Nodes
  BY DEF Targets, Linkage, TypeOK
<1>2. new \in Pushes
  BY <1>1 DEF Pushes
<1>3. push' = [push EXCEPT ![n][k] = new] /\ push \in [Nodes -> [Kinds -> Pushes]]
  BY DEF Offer, Linkage, TypeOK
<1>4. push' \in [Nodes -> [Kinds -> Pushes]] /\ push'[n][k] = new
  BY <1>2, <1>3
<1>5. \A q \in Nodes, l \in Kinds : <<q, l>> # <<n, k>> => push'[q][l] = push[q][l]
  BY <1>3
<1>6. \A h \in Offers(n, k, c) :
        /\ h \in Handlers /\ h.from = n /\ h.kind = k /\ h.cid = c /\ h.pc = "start"
        /\ h.to \in Targets(n) /\ h.label = "none"
  <2> TAKE h \in Offers(n, k, c)
  <2>1. PICK m \in Targets(n) :
          h = [from |-> n, kind |-> k, to |-> m, cid |-> c, label |-> "none",
               pc |-> "start"]
    BY DEF Offers
  <2> QED
    BY <1>1, <2>1 DEF Handlers, Labels
<1>7. \A h \in handlers : h \in Handlers /\ ~(h.from = n /\ h.kind = k)
  BY SetAssumption DEF Linkage, TypeOK, Linked, Handlers
<1>8. handlers' = handlers \cup Offers(n, k, c)
  BY DEF Offer
<1>9. Linked'
  <2> SUFFICES ASSUME NEW h \in handlers', h.kind \in Kinds
               PROVE  /\ push'[h.from][h.kind].cid = h.cid
                      /\ h.to \in push'[h.from][h.kind].wait
    BY DEF Linked
  <2>1. CASE h \in Offers(n, k, c)
    BY <2>1, <1>4, <1>6
  <2>2. CASE h \in handlers
    BY <2>2, <1>5, <1>7 DEF Linkage, TypeOK, Linked, Handlers
  <2> QED
    BY <2>1, <2>2, <1>8
<1>10. Unique'
  <2> SUFFICES ASSUME NEW g \in handlers', NEW h \in handlers',
                      g.kind \in Kinds, g.from = h.from, g.kind = h.kind, g.to = h.to
               PROVE  g = h
    BY DEF Unique
  <2>1. CASE g \in handlers /\ h \in handlers
    BY <2>1 DEF Linkage, Unique
  <2>2. CASE g \in Offers(n, k, c) /\ h \in Offers(n, k, c)
    <3>1. PICK m \in Targets(n) :
            g = [from |-> n, kind |-> k, to |-> m, cid |-> c, label |-> "none",
                 pc |-> "start"]
      BY <2>2 DEF Offers
    <3>2. PICK m2 \in Targets(n) :
            h = [from |-> n, kind |-> k, to |-> m2, cid |-> c, label |-> "none",
                 pc |-> "start"]
      BY <2>2 DEF Offers
    <3> QED
      BY <3>1, <3>2
  <2> QED
    BY <2>1, <2>2, <1>6, <1>7, <1>8
<1> QED
  BY <1>4, <1>5, <1>6, <1>7, <1>8, <1>9, <1>10

\* The sender of h hears its answer.
LEMMA HearsEffect ==
  ASSUME Linkage, NEW h \in handlers, NEW ok \in BOOLEAN, Hears(h, ok)
  PROVE  /\ push' \in [Nodes -> [Kinds -> Pushes]]
         /\ \A q \in Nodes, l \in Kinds :
              /\ push'[q][l].cid = push[q][l].cid
              /\ push'[q][l].wait =
                   IF <<q, l>> = <<h.from, h.kind>> THEN push[q][l].wait \ {h.to}
                   ELSE push[q][l].wait
              /\ push'[q][l].ok =
                   IF ok /\ <<q, l>> = <<h.from, h.kind>> THEN push[q][l].ok \cup {h.to}
                   ELSE push[q][l].ok
<1>1. h \in Handlers /\ push \in [Nodes -> [Kinds -> Pushes]]
  BY DEF Linkage, TypeOK
<1>2. CASE h.kind = "orphan"
  BY <1>1, <1>2, Tags DEF Hears
<1>3. CASE h.kind # "orphan"
  <2> DEFINE old == push[h.from][h.kind]
             new == [old EXCEPT !.wait = old.wait \ {h.to},
                                !.ok = IF ok THEN old.ok \cup {h.to} ELSE old.ok]
  <2>1. h.from \in Nodes /\ h.kind \in Kinds /\ h.to \in Nodes
    BY <1>1, <1>3 DEF Handlers
  <2>2. old \in Pushes
    BY <1>1, <2>1
  <2>3. /\ new \in Pushes /\ new.cid = old.cid /\ new.wait = old.wait \ {h.to}
        /\ new.ok = IF ok THEN old.ok \cup {h.to} ELSE old.ok
    BY <2>1, <2>2 DEF Pushes
  <2>4. push' = [push EXCEPT ![h.from][h.kind] = new]
    BY <1>3 DEF Hears
  <2> HIDE DEF new
  <2>5. push' \in [Nodes -> [Kinds -> Pushes]]
    BY <1>1, <2>1, <2>3, <2>4
  <2>6. push'[h.from][h.kind] = new
    BY <1>1, <2>1, <2>4
  <2>7. \A q \in Nodes, l \in Kinds :
          <<q, l>> # <<h.from, h.kind>> => push'[q][l] = push[q][l]
    BY <1>1, <2>1, <2>4
  <2> QED
    BY <2>3, <2>5, <2>6, <2>7
<1> QED
  BY <1>2, <1>3

\* h has gone, or its sender has given it up.
LEMMA AnswerLinks ==
  ASSUME Linkage, NEW h \in handlers, NEW ok \in BOOLEAN, Hears(h, ok),
         handlers' \subseteq (handlers \ {h}) \cup {[h EXCEPT !.kind = "orphan"]}
  PROVE  handlers' \subseteq Handlers /\ Linked' /\ Unique'
<1> DEFINE orphan == [h EXCEPT !.kind = "orphan"]
<1>0. \A q \in Nodes, l \in Kinds :
        /\ push'[q][l].cid = push[q][l].cid
        /\ push'[q][l].wait =
             IF <<q, l>> = <<h.from, h.kind>> THEN push[q][l].wait \ {h.to}
             ELSE push[q][l].wait
        /\ push'[q][l].ok =
             IF ok /\ <<q, l>> = <<h.from, h.kind>> THEN push[q][l].ok \cup {h.to}
             ELSE push[q][l].ok
  BY HearsEffect
<1>1. h \in Handlers /\ handlers \subseteq Handlers
  BY DEF Linkage, TypeOK
<1>2. orphan \in Handlers /\ orphan.kind = "orphan"
  BY <1>1 DEF Handlers
<1> HIDE DEF orphan
<1>3. handlers' \subseteq Handlers
  BY <1>1, <1>2 DEF orphan
<1>4. \A g \in handlers' : g.kind \in Kinds => g \in handlers /\ g # h
  BY <1>2, Tags DEF orphan
<1>5. \A g \in handlers' : g.kind \in Kinds => ~(g.from = h.from /\ g.kind = h.kind /\ g.to = h.to)
  BY <1>4 DEF Linkage, Unique
<1>6. Linked'
  <2> SUFFICES ASSUME NEW g \in handlers', g.kind \in Kinds
               PROVE  /\ push'[g.from][g.kind].cid = g.cid
                      /\ g.to \in push'[g.from][g.kind].wait
    BY DEF Linked
  <2>1. g.from \in Nodes /\ g \in handlers
    BY <1>1, <1>4 DEF Handlers
  <2>2. push[g.from][g.kind].cid = g.cid /\ g.to \in push[g.from][g.kind].wait
    BY <2>1 DEF Linkage, TypeOK, Linked
  <2> QED
    <3>1. /\ push'[g.from][g.kind].cid = push[g.from][g.kind].cid
          /\ <<g.from, g.kind>> # <<h.from, h.kind>> =>
               push'[g.from][g.kind].wait = push[g.from][g.kind].wait
          /\ <<g.from, g.kind>> = <<h.from, h.kind>> =>
               push'[g.from][g.kind].wait = push[g.from][g.kind].wait \ {h.to}
      BY <1>0, <2>1
    <3>2. <<g.from, g.kind>> = <<h.from, h.kind>> => g.to # h.to
      BY <1>5
    <3> QED
      BY <2>2, <3>1, <3>2
<1>7. Unique'
  <2> SUFFICES ASSUME NEW g \in handlers', NEW i \in handlers',
                      g.kind \in Kinds, g.from = i.from, g.kind = i.kind, g.to = i.to
               PROVE  g = i
    BY DEF Unique
  <2> QED
    BY <1>4 DEF Linkage, Unique
<1> QED
  BY <1>3, <1>6, <1>7

\* h goes on.
LEMMA MoveLinks ==
  ASSUME Linkage, NEW h \in handlers, NEW pc \in {"start", "ask", "yes", "no", "save"},
         Moves(h, pc), UNCHANGED push
  PROVE  /\ handlers' \subseteq Handlers /\ Linked' /\ Unique'
         /\ \A g \in handlers' : \/ g \in handlers
                                 \/ g.pc = pc /\ g.cid = h.cid /\ g.label = h.label
<1> DEFINE moved == [h EXCEPT !.pc = pc]
<1>1. h \in Handlers /\ handlers \subseteq Handlers
  BY DEF Linkage, TypeOK
<1>2. /\ moved \in Handlers /\ moved.from = h.from /\ moved.kind = h.kind
      /\ moved.to = h.to /\ moved.cid = h.cid /\ moved.pc = pc /\ moved.label = h.label
  BY <1>1 DEF Handlers
<1>3. handlers' = (handlers \ {h}) \cup {moved}
  BY DEF Moves
<1> HIDE DEF moved
<1>4. Linked'
  BY <1>2, <1>3 DEF Linkage, TypeOK, Linked
<1>5. Unique'
  BY <1>2, <1>3 DEF Linkage, Unique
<1> QED
  BY <1>1, <1>2, <1>3, <1>4, <1>5

-----------------------------------------------------------------------------
Inv == TypeOK /\ Unique /\ Positive /\ CountedHold

LEMMA InvInit == Init => Inv
<1> SUFFICES ASSUME Init PROVE Inv
  OBVIOUS
<1>1. NoPush \in Pushes /\ NoPush.ok = {} /\ NoPull \in Pulls
  BY DEF NoPush, NoPull, Pushes, Pulls
<1>2. NoEntry \in Entries /\ NoEntry.ok = FALSE
  BY NumberAssumption DEF NoEntry, Entries
<1>3. TypeOK
  BY <1>1, <1>2, SettingAssumption, NumberAssumption DEF Init, TypeOK, Linked
<1>4. Unique /\ Positive
  BY <1>2 DEF Init, Unique, Positive
<1>5. CountedHold
  BY <1>1 DEF Init, CountedHold
<1> QED
  BY <1>3, <1>4, <1>5 DEF Inv

\* Calls of replicateToAll begin.
LEMMA ClientStoreKeeps ==
  ASSUME Inv, NEW n \in Clients, NEW c \in Cids, ClientStore(n, c)
  PROVE  Inv'
<1>1. n \in Nodes /\ "store" \in Kinds /\ push[n]["store"].cid = NoCid
  BY SetAssumption DEF ClientStore, NoPush, Kinds
<1>2. Offer(n, "store", c, {}) /\ Linkage
  BY DEF ClientStore, Inv, Linkage
<1>3. /\ push' \in [Nodes -> [Kinds -> Pushes]]
      /\ handlers' \subseteq Handlers
      /\ push'[n]["store"].cid = c /\ push'[n]["store"].ok = {}
      /\ \A q \in Nodes, l \in Kinds :
           <<q, l>> # <<n, "store">> => push'[q][l] = push[q][l]
      /\ Linked' /\ Unique'
      /\ \A h \in handlers' : h \in handlers \/ h.pc = "start"
  BY <1>1, <1>2, OfferEffect
<1>4. store' \in [Nodes -> SUBSET Cids] /\ \A m \in Nodes : store[m] \subseteq store'[m]
  BY DEF ClientStore, Inv, TypeOK
<1>5. stores' \in 0..MaxStores
  BY NumberAssumption DEF ClientStore, Inv, TypeOK
<1>6. TypeOK'
  BY <1>3, <1>4, <1>5 DEF ClientStore, Inv, TypeOK, world
<1>7. Positive'
  BY <1>3 DEF ClientStore, Inv, Positive, Due, world
<1>8. CountedHold'
  <2> SUFFICES ASSUME NEW q \in Nodes, NEW l \in Kinds, NEW m \in push'[q][l].ok
               PROVE  push'[q][l].cid \in store'[m] \/ m \in purged'
    BY DEF CountedHold
  <2>1. <<q, l>> # <<n, "store">> /\ push'[q][l] = push[q][l]
    BY <1>1, <1>3
  <2>2. push[q][l] \in Pushes
    BY DEF Inv, TypeOK
  <2>3. m \in Nodes /\ m \in push[q][l].ok
    BY <2>1, <2>2 DEF Pushes
  <2>4. push[q][l].cid \in store[m] \/ m \in purged
    BY <2>3 DEF Inv, CountedHold
  <2> QED
    BY <1>4, <2>1, <2>3, <2>4 DEF ClientStore
<1> QED
  BY <1>3, <1>6, <1>7, <1>8 DEF Inv

LEMMA SyncNextKeeps ==
  ASSUME Inv, NEW n \in Nodes, NEW c \in Cids, SyncNext(n, c)
  PROVE  Inv'
<1> DEFINE rest == push[n]["sync"].todo \ {c}
<1>1. "sync" \in Kinds /\ push[n]["sync"].cid = NoCid /\ rest \in SUBSET Cids
  BY DEF SyncNext, Kinds, Inv, TypeOK, Pushes
<1>2. Offer(n, "sync", c, rest) /\ Linkage
  BY DEF SyncNext, Inv, Linkage
<1> HIDE DEF rest
<1>3. /\ push' \in [Nodes -> [Kinds -> Pushes]]
      /\ handlers' \subseteq Handlers
      /\ push'[n]["sync"].cid = c /\ push'[n]["sync"].ok = {}
      /\ \A q \in Nodes, l \in Kinds :
           <<q, l>> # <<n, "sync">> => push'[q][l] = push[q][l]
      /\ Linked' /\ Unique'
      /\ \A h \in handlers' : h \in handlers \/ h.pc = "start"
  BY <1>1, <1>2, OfferEffect
<1>4. UNCHANGED <<world, stores, store, peers, cache, pull, faults, purged>>
  BY DEF SyncNext
<1>5. TypeOK'
  BY <1>3, <1>4 DEF Inv, TypeOK, world
<1>6. Positive'
  BY <1>3, <1>4 DEF Inv, Positive, Due, world
<1>7. CountedHold'
  BY <1>3, <1>4 DEF Inv, CountedHold
<1> QED
  BY <1>3, <1>5, <1>6, <1>7 DEF Inv

\* A call that no handler will answer is begun or ends.
LEMMA PushKeeps ==
  ASSUME Inv, NEW n \in Nodes, NEW k \in Kinds, NEW p \in Pushes,
         push[n][k].cid = NoCid \/ push[n][k].wait = {},
         p.ok = {}, push' = [push EXCEPT ![n][k] = p],
         peers' \in [Nodes -> SUBSET Nodes], pull' \in [Nodes -> Pulls],
         UNCHANGED <<world, stores, store, cache, handlers, faults, purged>>
  PROVE  Inv'
<1>1. push \in [Nodes -> [Kinds -> Pushes]] /\ handlers \subseteq Handlers /\ Linked
  BY DEF Inv, TypeOK
<1>2. push' \in [Nodes -> [Kinds -> Pushes]] /\ push'[n][k] = p
  BY <1>1
<1>3. \A q \in Nodes, l \in Kinds : <<q, l>> # <<n, k>> => push'[q][l] = push[q][l]
  BY <1>1
<1>4. \A h \in handlers : h.kind \in Kinds => <<h.from, h.kind>> # <<n, k>>
  BY <1>1, SetAssumption DEF Linked, Handlers
<1>5. Linked'
  BY <1>1, <1>3, <1>4 DEF Linked, Handlers
<1>6. TypeOK'
  BY <1>2, <1>5 DEF Inv, TypeOK, world
<1>7. Unique' /\ Positive'
  BY DEF Inv, Unique, Positive, Due, world
<1>8. CountedHold'
  BY <1>2, <1>3 DEF Inv, CountedHold
<1> QED
  BY <1>6, <1>7, <1>8 DEF Inv

LEMMA LoadKeeps ==
  ASSUME Inv, NEW n \in Nodes, Load(n)
  PROVE  Inv'
<1> DEFINE found == active \ {n}
<1>1. found \subseteq Nodes /\ PullFrom(store[n], found) \in Pulls
  BY DEF Inv, TypeOK, PullFrom, NoPull, Pulls
<1>2. peers' \in [Nodes -> SUBSET Nodes]
  BY <1>1 DEF Load, Inv, TypeOK
<1>3. CASE found = {}
  <2>1. UNCHANGED <<world, stores, store, cache, push, pull, handlers, faults, purged>>
    BY <1>3 DEF Load
  <2> QED
    BY <1>2, <2>1 DEF Inv, TypeOK, Linked, Unique, Positive, Due, CountedHold, world
<1>4. CASE found # {}
  <2> DEFINE p == [NoPush EXCEPT !.todo = store[n]]
  <2>1. "sync" \in Kinds /\ p \in Pushes /\ p.ok = {}
    BY DEF Kinds, NoPush, Pushes, Inv, TypeOK
  <2>2. push[n]["sync"] = NoPush /\ push[n]["sync"].cid = NoCid
    BY DEF Load, NoPush
  <2>3. push' = [push EXCEPT ![n]["sync"] = p]
    BY <1>4, <2>2 DEF Load
  <2>4. pull' \in [Nodes -> Pulls]
    BY <1>1, <1>4 DEF Load, Inv, TypeOK
  <2>5. UNCHANGED <<world, stores, store, cache, handlers, faults, purged>>
    BY DEF Load
  <2> HIDE DEF p
  <2> QED
    BY <1>2, <2>1, <2>2, <2>3, <2>4, <2>5, PushKeeps
<1> QED
  BY <1>3, <1>4

LEMMA SyncSkipKeeps ==
  ASSUME Inv, NEW n \in Nodes, NEW c \in Cids, SyncSkip(n, c)
  PROVE  Inv'
<1> DEFINE old == push[n]["sync"]
           p == [old EXCEPT !.todo = old.todo \ {c}]
<1>1. "sync" \in Kinds /\ old \in Pushes /\ old.cid = NoCid
  BY DEF SyncSkip, Kinds, Inv, TypeOK
<1>3. p \in Pushes /\ p.ok = old.ok /\ p.cid = old.cid /\ p.wait = old.wait
  BY <1>1 DEF Pushes
<1>4. push' = [push EXCEPT ![n]["sync"] = p]
  BY DEF SyncSkip
<1>5. UNCHANGED <<world, stores, store, peers, cache, pull, handlers, faults, purged>>
  BY DEF SyncSkip
<1>6. push \in [Nodes -> [Kinds -> Pushes]] /\ handlers \subseteq Handlers /\ Linked
  BY DEF Inv, TypeOK
<1> HIDE DEF p
<1>7. /\ push' \in [Nodes -> [Kinds -> Pushes]]
      /\ \A q \in Nodes, l \in Kinds : /\ push'[q][l].cid = push[q][l].cid
                                       /\ push'[q][l].wait = push[q][l].wait
                                       /\ push'[q][l].ok = push[q][l].ok
  BY <1>1, <1>3, <1>4, <1>6
<1>8. Linked'
  BY <1>5, <1>6, <1>7 DEF Linked, Handlers
<1>9. CountedHold'
  BY <1>5, <1>7 DEF Inv, CountedHold
<1> QED
  BY <1>5, <1>7, <1>8, <1>9 DEF Inv, TypeOK, Unique, Positive, Due, world

LEMMA SettleKeeps ==
  ASSUME Inv, NEW n \in Nodes, NEW k \in Kinds, Settle(n, k)
  PROVE  Inv'
<1> DEFINE p == [NoPush EXCEPT !.todo = push[n][k].todo]
<1>0. push[n][k] \in Pushes
  BY DEF Inv, TypeOK
<1>1. p \in Pushes /\ p.ok = {}
  BY <1>0 DEF NoPush, Pushes
<1>2. /\ push[n][k].wait = {} /\ push' = [push EXCEPT ![n][k] = p]
      /\ UNCHANGED <<world, stores, store, peers, cache, pull, handlers, faults, purged>>
  BY DEF Settle
<1>3. peers' \in [Nodes -> SUBSET Nodes] /\ pull' \in [Nodes -> Pulls]
  BY <1>2 DEF Inv, TypeOK
<1> HIDE DEF p
<1> QED
  BY <1>1, <1>2, <1>3, PushKeeps

-----------------------------------------------------------------------------
\* Handlers end or go on.
LEMMA AnswerKeeps ==
  ASSUME Inv, NEW h \in handlers, NEW ok \in BOOLEAN, Hears(h, ok),
         handlers' \subseteq (handlers \ {h}) \cup {[h EXCEPT !.kind = "orphan"]},
         UNCHANGED <<world, stores, peers, pull, purged>>,
         cache' \in [Nodes -> [Cids -> Entries]], faults' \in 0..MaxFaults,
         \A n \in Nodes, c \in Cids : cache'[n][c].ok => c \in published,
         store' \in [Nodes -> SUBSET Cids], \A m \in Nodes : store[m] \subseteq store'[m],
         ok => h.cid \in store'[h.to]
  PROVE  Inv'
<1>1. Linkage /\ h \in Handlers
  BY DEF Inv, Linkage, TypeOK
<1>2. handlers' \subseteq Handlers /\ Linked' /\ Unique'
  BY <1>1, AnswerLinks
<1>3. /\ push' \in [Nodes -> [Kinds -> Pushes]]
      /\ \A q \in Nodes, l \in Kinds :
           /\ push'[q][l].cid = push[q][l].cid
           /\ push'[q][l].wait =
                IF <<q, l>> = <<h.from, h.kind>> THEN push[q][l].wait \ {h.to}
                ELSE push[q][l].wait
           /\ push'[q][l].ok =
                IF ok /\ <<q, l>> = <<h.from, h.kind>> THEN push[q][l].ok \cup {h.to}
                ELSE push[q][l].ok
  BY ZenonT(60), <1>1, HearsEffect
<1>4. TypeOK'
  BY <1>2, <1>3 DEF Inv, TypeOK, world
<1>5. Positive'
  <2> DEFINE orphan == [h EXCEPT !.kind = "orphan"]
  <2>1. orphan.pc = h.pc /\ orphan.cid = h.cid /\ orphan.label = h.label
    BY <1>1 DEF Handlers
  <2>2. \A g \in handlers' : g \in handlers \/ g = orphan
    OBVIOUS
  <2> HIDE DEF orphan
  <2>3. \A g \in handlers' : Due(g, g.pc)
    BY <2>1, <2>2 DEF Inv, Positive, Due
  <2> QED
    BY <2>3 DEF Positive, Due, world
<1>6. CountedHold'
  <2> SUFFICES ASSUME NEW q \in Nodes, NEW l \in Kinds, NEW m \in push'[q][l].ok
               PROVE  push'[q][l].cid \in store'[m] \/ m \in purged'
    BY DEF CountedHold
  <2>1. push[q][l] \in Pushes /\ push'[q][l] \in Pushes /\ m \in Nodes
    BY <1>3 DEF Inv, TypeOK, Pushes
  <2>a. push'[q][l].cid = push[q][l].cid /\ purged' = purged
    BY <1>3
  <2>2. CASE m \in push[q][l].ok
    <3>1. push[q][l].cid \in store[m] \/ m \in purged
      BY <2>2 DEF Inv, CountedHold
    <3> QED
      BY <2>1, <2>a, <3>1
  <2>3. CASE m \notin push[q][l].ok
    <3>1. push'[q][l].ok = IF ok /\ <<q, l>> = <<h.from, h.kind>>
                           THEN push[q][l].ok \cup {h.to} ELSE push[q][l].ok
      BY <1>3
    <3>2. ok /\ q = h.from /\ l = h.kind /\ m = h.to
      BY <2>3, <3>1
    <3>3. push[q][l].cid = h.cid
      BY <3>2 DEF Inv, TypeOK, Linked
    <3> QED
      BY <2>a, <3>2, <3>3
  <2> QED
    BY <2>2, <2>3
<1> QED
  BY <1>2, <1>4, <1>5, <1>6 DEF Inv

LEMMA MoveKeeps ==
  ASSUME Inv, NEW h \in handlers, NEW pc \in {"start", "ask", "yes", "no", "save"},
         Moves(h, pc), UNCHANGED <<world, stores, store, peers, push, pull, purged>>,
         cache' \in [Nodes -> [Cids -> Entries]], faults' \in 0..MaxFaults,
         \A n \in Nodes, c \in Cids : cache'[n][c].ok => c \in published,
         Due(h, pc)
  PROVE  Inv'
<1>1. /\ handlers' \subseteq Handlers /\ Linked' /\ Unique'
      /\ \A g \in handlers' : \/ g \in handlers
                              \/ g.pc = pc /\ g.cid = h.cid /\ g.label = h.label
  BY MoveLinks DEF Inv, Linkage
<1>2. TypeOK'
  BY <1>1 DEF Inv, TypeOK, world
<1>3. Positive'
  BY <1>1 DEF Inv, Positive, Due, world
<1>4. CountedHold'
  BY DEF Inv, CountedHold
<1> QED
  BY <1>1, <1>2, <1>3, <1>4 DEF Inv

\* What a handler leaves as it was meets the conditions of the two lemmas.
LEMMA Kept ==
  ASSUME Inv
  PROVE  /\ cache \in [Nodes -> [Cids -> Entries]] /\ faults \in 0..MaxFaults
         /\ \A n \in Nodes, c \in Cids : cache[n][c].ok => c \in published
         /\ store \in [Nodes -> SUBSET Cids]
         /\ handlers \subseteq Handlers
         /\ \A h \in handlers : h.to \in Nodes /\ h.cid \in Cids
  BY DEF Inv, TypeOK, Positive, Handlers

LEMMA HandleKeeps ==
  ASSUME Inv, NEW h \in handlers, Handle(h)
  PROVE  Inv'
<1> USE Kept DEF Due
<1>1. CASE Refuse(h)
  BY <1>1, AnswerKeeps DEF Refuse, Answers
<1>7. CASE TakeMedia(h)
  BY <1>7, MoveKeeps DEF TakeMedia
<1>2. CASE CacheHit(h)
  <2>1. CASE cache[h.to][h.cid].ok
    <3>1. Moves(h, "save") /\ h.cid \in published
      BY <1>2, <2>1 DEF CacheHit
    <3>2. UNCHANGED <<world, stores, store, peers, cache, push, pull, faults, purged>>
      BY <1>2, <2>1 DEF CacheHit
    <3> QED
      BY <3>1, <3>2, MoveKeeps
  <2>2. CASE ~cache[h.to][h.cid].ok
    BY <1>2, <2>2, AnswerKeeps DEF CacheHit, Answers
  <2> QED
    BY <2>1, <2>2
<1>3. CASE CacheMiss(h)
  BY <1>3, MoveKeeps DEF CacheMiss
<1>4. CASE ChainRead(h)
  <2>1. CASE h.cid \in published
    BY <1>4, <2>1, MoveKeeps DEF ChainRead
  <2>2. CASE h.cid \notin published
    BY <1>4, <2>2, MoveKeeps DEF ChainRead
  <2> QED
    BY <2>1, <2>2
<1>5. CASE ChainAnswer(h)
  <2> DEFINE entry == [ok |-> h.pc = "yes", left |-> Expiry]
  <2>1. entry \in Entries
    BY NumberAssumption DEF Entries
  <2>2. cache' = [cache EXCEPT ![h.to][h.cid] = entry]
    BY <1>5 DEF ChainAnswer
  <2>3. entry.ok => h.cid \in published
    BY DEF Inv, Positive
  <2> HIDE DEF entry
  <2>4. /\ cache' \in [Nodes -> [Cids -> Entries]]
        /\ \A n \in Nodes, c \in Cids : cache'[n][c].ok => c \in published
    BY <2>1, <2>2, <2>3
  <2>5. CASE h.pc = "yes"
    <3>1. h.cid \in published
      BY <2>5 DEF Inv, Positive
    <3>2. Moves(h, "save")
          /\ UNCHANGED <<world, stores, store, peers, push, pull, faults, purged>>
      BY <1>5, <2>5 DEF ChainAnswer
    <3> QED
      BY <2>4, <3>1, <3>2, MoveKeeps
  <2>6. CASE h.pc # "yes"
    <3>1. Hears(h, FALSE) /\ handlers' = handlers \ {h}
          /\ UNCHANGED <<world, stores, store, peers, pull, faults, purged>>
      BY <1>5, <2>6 DEF ChainAnswer, Answers
    <3> QED
      BY <2>4, <3>1, AnswerKeeps
  <2> QED
    BY <2>5, <2>6
<1>6. CASE Save(h)
  <2>1. /\ store' \in [Nodes -> SUBSET Cids] /\ h.cid \in store'[h.to]
        /\ \A m \in Nodes : store[m] \subseteq store'[m]
    BY <1>6 DEF Save
  <2>2. Hears(h, TRUE) /\ handlers' = handlers \ {h}
        /\ UNCHANGED <<world, stores, peers, cache, pull, faults, purged>>
    BY <1>6 DEF Save, Answers
  <2> QED
    BY <2>1, <2>2, AnswerKeeps
<1> QED
  BY <1>1, <1>2, <1>3, <1>4, <1>5, <1>6, <1>7 DEF Handle

LEMMA FaultKeeps ==
  ASSUME Inv, NEW h \in handlers, ChainError(h) \/ SaveFails(h) \/ Break(h)
  PROVE  Inv'
<1> USE Kept DEF Due
<1>a. faults < MaxFaults /\ faults' = faults + 1
  BY DEF ChainError, SaveFails, Break
<1>0. faults' \in 0..MaxFaults
  BY <1>a, NumberAssumption
<1>1. CASE ChainError(h)
  BY <1>0, <1>1, MoveKeeps DEF ChainError
<1>2. CASE SaveFails(h)
  BY <1>0, <1>2, AnswerKeeps DEF SaveFails, Answers
<1>3. CASE Break(h)
  BY <1>0, <1>3, AnswerKeeps DEF Break
<1> QED
  BY <1>1, <1>2, <1>3

-----------------------------------------------------------------------------
\* Steps that no handler or call of replicateToAll takes part in.
LEMMA OtherKeeps ==
  ASSUME Inv, UNCHANGED <<push, handlers>>,
         published \subseteq published', published' \subseteq Cids \ Media,
         active' \subseteq Nodes, setting' \in Settings,
         store' \in [Nodes -> SUBSET Cids], peers' \in [Nodes -> SUBSET Nodes],
         cache' \in [Nodes -> [Cids -> Entries]], pull' \in [Nodes -> Pulls],
         \A n \in Nodes, c \in Cids : cache'[n][c].ok => cache[n][c].ok,
         stores' \in 0..MaxStores, faults' \in 0..MaxFaults,
         purged \subseteq purged', purged' \subseteq Nodes,
         \A m \in Nodes : store[m] \subseteq store'[m] \/ m \in purged'
  PROVE  Inv'
<1>1. TypeOK'
  BY DEF Inv, TypeOK, Linked
<1>2. Unique' /\ Positive'
  BY DEF Inv, Unique, Positive, Due
<1>3. CountedHold'
  <2> SUFFICES ASSUME NEW q \in Nodes, NEW l \in Kinds, NEW m \in push[q][l].ok
               PROVE  push[q][l].cid \in store'[m] \/ m \in purged'
    BY DEF CountedHold
  <2>1. m \in Nodes
    BY DEF Inv, TypeOK, Pushes
  <2>2. push[q][l].cid \in store[m] \/ m \in purged
    BY DEF Inv, CountedHold
  <2> QED
    BY <2>1, <2>2
<1> QED
  BY <1>1, <1>2, <1>3 DEF Inv

LEMMA PullingKeeps ==
  ASSUME Inv, NEW n \in Nodes, Pulling(n)
  PROVE  Inv'
<1>1. UNCHANGED <<world, stores, peers, cache, push, handlers, purged>>
  BY DEF Pulling, PullList, PullFetch, PullFails, PullStore, PullNext
<1>2. pull[n] \in Pulls /\ pull \in [Nodes -> Pulls] /\ NoPull \in Pulls
  BY DEF Inv, TypeOK, NoPull, Pulls
<1>3. pull' \in [Nodes -> Pulls]
  <2>1. ASSUME NEW m \in Nodes, PullList(n, m) PROVE pull' \in [Nodes -> Pulls]
    <3>1. store[m] \ pull[n].local \in SUBSET Cids
      BY DEF Inv, TypeOK
    <3> QED
      BY <1>2, <2>1, <3>1 DEF PullList, Pulls
  <2>2. ASSUME NEW c \in Cids, PullFetch(n, c) PROVE pull' \in [Nodes -> Pulls]
    BY <1>2, <2>2 DEF PullFetch, Pulls
  <2>3. ASSUME NEW c \in Cids, PullFails(n, c) PROVE pull' \in [Nodes -> Pulls]
    BY <1>2, <2>3 DEF PullFails, Pulls
  <2>4. CASE PullStore(n)
    BY <1>2, <2>4 DEF PullStore, Pulls
  <2>5. CASE PullNext(n)
    BY <1>2, <2>5 DEF PullNext, Pulls
  <2> QED
    BY <2>1, <2>2, <2>3, <2>4, <2>5 DEF Pulling
<1>4. /\ store' \in [Nodes -> SUBSET Cids] /\ faults' \in 0..MaxFaults
      /\ \A m \in Nodes : store[m] \subseteq store'[m]
  <2>1. store \in [Nodes -> SUBSET Cids] /\ faults \in 0..MaxFaults
    BY DEF Inv, TypeOK
  <2>2. CASE PullStore(n)
    <3>1. pull[n].cid \in Cids
      BY <1>2, <2>2 DEF PullStore, Pulls
    <3> QED
      BY <2>1, <2>2, <3>1 DEF PullStore
  <2>3. CASE ~PullStore(n)
    <3>1. store' = store
      BY <2>3 DEF Pulling, PullList, PullFetch, PullFails, PullNext
    <3>2. faults' = faults \/ (faults < MaxFaults /\ faults' = faults + 1)
      BY <2>3 DEF Pulling, PullList, PullFetch, PullFails, PullNext
    <3> QED
      BY <2>1, <3>1, <3>2, NumberAssumption
  <2> QED
    BY <2>2, <2>3
<1> QED
  BY <1>1, <1>3, <1>4, OtherKeeps DEF Inv, TypeOK, world

LEMMA WorldKeeps ==
  ASSUME Inv,
         \/ \E c \in Cids : Publish(c)
         \/ \E n \in Nodes : Unregister(n) \/ Register(n) \/ Purge(n)
         \/ Tick
  PROVE  Inv'
<1>0. TypeOK
  BY DEF Inv
<1>1. ASSUME NEW c \in Cids, Publish(c) PROVE Inv'
  BY <1>0, <1>1, OtherKeeps DEF Publish, TypeOK
<1>2. ASSUME NEW n \in Nodes, Unregister(n) PROVE Inv'
  <2>1. faults' \in 0..MaxFaults
    BY <1>0, <1>2, NumberAssumption DEF Unregister, TypeOK
  <2> QED
    BY <1>0, <1>2, <2>1, OtherKeeps DEF Unregister, TypeOK
<1>3. ASSUME NEW n \in Nodes, Register(n) PROVE Inv'
  BY <1>0, <1>3, OtherKeeps DEF Register, TypeOK
<1>4. ASSUME NEW n \in Nodes, Purge(n) PROVE Inv'
  <2>1. faults' \in 0..MaxFaults
    BY <1>0, <1>4, NumberAssumption DEF Purge, TypeOK
  <2>2. /\ store' \in [Nodes -> SUBSET Cids]
        /\ \A m \in Nodes : store[m] \subseteq store'[m] \/ m \in purged'
    BY <1>0, <1>4 DEF Purge, TypeOK
  <2> QED
    BY <1>0, <1>4, <2>1, <2>2, OtherKeeps DEF Purge, TypeOK, world
<1>5. CASE Tick
  <2> DEFINE aged(n, c) == IF cache[n][c].left <= 1 THEN NoEntry
                           ELSE [cache[n][c] EXCEPT !.left = @ - 1]
  <2>1. \A n \in Nodes, c \in Cids :
          aged(n, c) \in Entries /\ (aged(n, c).ok => cache[n][c].ok)
    <3> TAKE n \in Nodes, c \in Cids
    <3>1. cache[n][c] \in Entries
      BY <1>0 DEF TypeOK
    <3>2. CASE cache[n][c].left <= 1
      BY <3>2, NumberAssumption DEF Entries, NoEntry
    <3>3. CASE ~(cache[n][c].left <= 1)
      <4>1. cache[n][c].left \in 0..Expiry /\ cache[n][c].left - 1 \in 0..Expiry
        BY <3>1, <3>3, NumberAssumption DEF Entries
      <4> QED
        BY <3>1, <3>3, <4>1 DEF Entries
    <3> QED
      BY <3>2, <3>3
  <2>2. cache' = [n \in Nodes |-> [c \in Cids |-> aged(n, c)]]
    BY <1>5 DEF Tick
  <2> HIDE DEF aged
  <2>3. /\ cache' \in [Nodes -> [Cids -> Entries]]
        /\ \A n \in Nodes, c \in Cids : cache'[n][c].ok => cache[n][c].ok
    BY <2>1, <2>2
  <2> QED
    BY <1>0, <1>5, <2>3, OtherKeeps DEF Tick, TypeOK, world
<1> QED
  BY <1>1, <1>2, <1>3, <1>4, <1>5

LEMMA CrashKeeps ==
  ASSUME Inv, NEW n \in Nodes, Crash(n)
  PROVE  Inv'
<1> DEFINE lost(h) == [h EXCEPT !.kind = IF h.from = n THEN "orphan" ELSE h.kind]
<1>0. TypeOK /\ handlers \subseteq Handlers
  BY DEF Inv, TypeOK
<1>1. faults' \in 0..MaxFaults
  BY <1>0, NumberAssumption DEF Crash, TypeOK
<1>2. \A h \in handlers : /\ lost(h) \in Handlers
                          /\ lost(h).from = h.from /\ lost(h).to = h.to
                          /\ lost(h).cid = h.cid /\ lost(h).pc = h.pc /\ lost(h).label = h.label
                          /\ lost(h).kind \in Kinds => h.from # n /\ lost(h) = h
  BY <1>0, Tags DEF Handlers
<1>3. handlers' = {lost(h) : h \in {g \in handlers : g.to # n}}
  BY DEF Crash
<1> HIDE DEF lost
<1>4. \A g \in handlers' : \E h \in handlers : h.to # n /\ g = lost(h)
  BY <1>3
<1>5. \A g \in handlers' : g.kind \in Kinds => g \in handlers /\ g.from # n /\ g.to # n
  BY <1>2, <1>4
<1>6. handlers' \subseteq Handlers
  BY <1>2, <1>4
<1> DEFINE waits(q, k) == [push[q][k] EXCEPT !.wait = @ \ {n}]
<1>7. \A q \in Nodes, k \in Kinds :
        /\ waits(q, k) \in Pushes /\ waits(q, k).cid = push[q][k].cid
        /\ waits(q, k).ok = push[q][k].ok
        /\ waits(q, k).wait = push[q][k].wait \ {n}
  <2> TAKE q \in Nodes, k \in Kinds
  <2>1. push[q][k] \in Pushes
    BY <1>0 DEF TypeOK
  <2> QED
    BY <2>1 DEF Pushes
<1>8. push' = [q \in Nodes |-> [k \in Kinds |-> IF q = n THEN NoPush ELSE waits(q, k)]]
  BY DEF Crash
<1> HIDE DEF waits
<1>9. NoPush \in Pushes /\ NoPush.ok = {} /\ NoPull \in Pulls
  BY DEF NoPush, NoPull, Pushes, Pulls
<1>10. /\ push' \in [Nodes -> [Kinds -> Pushes]]
       /\ \A q \in Nodes, k \in Kinds : q # n => push'[q][k] = waits(q, k)
       /\ \A k \in Kinds : push'[n][k] = NoPush
  BY <1>7, <1>8, <1>9
<1>11. Linked'
  <2> SUFFICES ASSUME NEW g \in handlers', g.kind \in Kinds
               PROVE  /\ push'[g.from][g.kind].cid = g.cid
                      /\ g.to \in push'[g.from][g.kind].wait
    BY DEF Linked
  <2>1. g \in handlers /\ g.from \in Nodes \ {n} /\ g.to # n
    BY <1>0, <1>5 DEF Handlers
  <2>2. push[g.from][g.kind].cid = g.cid /\ g.to \in push[g.from][g.kind].wait
    BY <1>0, <2>1 DEF TypeOK, Linked
  <2> QED
    BY <1>7, <1>10, <2>1, <2>2
<1>12. NoEntry \in Entries /\ NoEntry.ok = FALSE
  BY NumberAssumption DEF NoEntry, Entries
<1>13. /\ cache' \in [Nodes -> [Cids -> Entries]]
       /\ \A q \in Nodes, c \in Cids : cache'[q][c].ok => cache[q][c].ok
  BY <1>0, <1>12 DEF Crash, TypeOK
<1>14. /\ peers' \in [Nodes -> SUBSET Nodes] /\ pull' \in [Nodes -> Pulls]
       /\ UNCHANGED <<world, stores, store, purged>>
  BY <1>0, <1>9 DEF Crash, TypeOK
<1>15. TypeOK'
  BY <1>0, <1>1, <1>6, <1>10, <1>11, <1>13, <1>14 DEF TypeOK, world
<1>16. Unique'
  <2> SUFFICES ASSUME NEW g \in handlers', NEW h \in handlers',
                      g.kind \in Kinds, g.from = h.from, g.kind = h.kind, g.to = h.to
               PROVE  g = h
    BY DEF Unique
  <2> QED
    BY <1>5 DEF Inv, Unique
<1>17. Positive'
  <2>1. \A g \in handlers' : Due(g, g.pc)
    BY <1>2, <1>4 DEF Inv, Positive, Due
  <2> QED
    BY <1>13, <1>14, <2>1 DEF Inv, Positive, Due, world
<1>18. CountedHold'
  <2> SUFFICES ASSUME NEW q \in Nodes, NEW k \in Kinds, NEW m \in push'[q][k].ok
               PROVE  push'[q][k].cid \in store'[m] \/ m \in purged'
    BY DEF CountedHold
  <2>1. q # n
    BY <1>9, <1>10
  <2>2. push'[q][k].ok = push[q][k].ok /\ push'[q][k].cid = push[q][k].cid
    BY <1>7, <1>10, <2>1
  <2> QED
    BY <1>14, <2>2 DEF Inv, CountedHold
<1> QED
  BY <1>15, <1>16, <1>17, <1>18 DEF Inv

\* A request that none of the nodes' own calls awaits
LEMMA RequestKeeps ==
  ASSUME Inv, NEW m \in Nodes, NEW n \in Nodes, NEW c \in Cids, NEW label \in Labels,
         Request(m, n, c, label)
  PROVE  Inv'
<1> DEFINE new == [from |-> m, kind |-> "orphan", to |-> n, cid |-> c, label |-> label,
                   pc |-> "start"]
<1>1. new \in Handlers /\ new.kind \notin Kinds /\ Due(new, new.pc) /\ new.kind = "orphan"
  BY Tags DEF Handlers, Due
<1>2. handlers' = handlers \cup {new}
      /\ UNCHANGED <<world, stores, store, peers, cache, push, pull, faults, purged>>
  BY DEF Request
<1> HIDE DEF new
<1>3. Linked' /\ handlers' \subseteq Handlers
  BY <1>1, <1>2 DEF Inv, TypeOK, Linked
<1>4. TypeOK'
  BY <1>2, <1>3 DEF Inv, TypeOK, world
<1>5. Unique'
  BY <1>1, <1>2 DEF Inv, Unique
<1>6. Positive'
  BY <1>1, <1>2 DEF Inv, Positive, Due, world
<1>7. CountedHold'
  BY <1>2 DEF Inv, CountedHold
<1> QED
  BY <1>4, <1>5, <1>6, <1>7 DEF Inv

LEMMA InvStep == Inv /\ [Next]_vars => Inv'
<1> SUFFICES ASSUME Inv, [Next]_vars PROVE Inv'
  OBVIOUS
<1>1. ASSUME NEW n \in Clients, NEW c \in Cids, ClientStore(n, c) PROVE Inv'
  BY <1>1, ClientStoreKeeps
<1>2. ASSUME NEW n \in Nodes, Load(n) PROVE Inv'
  BY <1>2, LoadKeeps
<1>3. ASSUME NEW n \in Nodes, Pushing(n) PROVE Inv'
  BY <1>3, SyncNextKeeps, SyncSkipKeeps, SettleKeeps DEF Pushing
<1>4. ASSUME NEW n \in Nodes, Pulling(n) PROVE Inv'
  BY <1>4, PullingKeeps
<1>5. ASSUME NEW h \in handlers, Handle(h) PROVE Inv'
  BY <1>5, HandleKeeps
<1>6. ASSUME NEW h \in handlers, ChainError(h) \/ SaveFails(h) \/ Break(h) PROVE Inv'
  BY <1>6, FaultKeeps
<1>7. ASSUME NEW n \in Nodes, Crash(n) PROVE Inv'
  BY <1>7, CrashKeeps
<1>9. ASSUME NEW m \in Nodes, NEW n \in Nodes, NEW c \in Cids, NEW label \in Labels,
             Request(m, n, c, label)
      PROVE  Inv'
  BY <1>9, RequestKeeps
<1>8. CASE UNCHANGED vars
  BY <1>8 DEF Inv, TypeOK, Linked, Unique, Positive, Due, CountedHold, vars
<1> QED
  BY <1>1, <1>2, <1>3, <1>4, <1>5, <1>6, <1>7, <1>8, <1>9, WorldKeeps DEF Next

LEMMA Invariance == Spec => []Inv
  BY InvInit, InvStep, PTL DEF Spec

\* Every variable keeps its type, and a sender waits for exactly the handlers that
\* will answer it.
THEOREM Types == Spec => []TypeOK
<1>1. Inv => TypeOK
  BY DEF Inv
<1> QED
  BY <1>1, Invariance, PTL

\* A handler stores no cid that was not in the contracts when they, or the cache,
\* were asked, unless the request calls it media.
THEOREM Admission == Spec => []Admitted
<1>1. Inv => Admitted
  BY DEF Inv, Positive, Due, Admitted
<1> QED
  BY <1>1, Invariance, PTL

\* A peer that a push counts has the blob, unless it was purged.
THEOREM Counting == Spec => []CountedHold
<1>1. Inv => CountedHold
  BY DEF Inv
<1> QED
  BY <1>1, Invariance, PTL

=============================================================================
