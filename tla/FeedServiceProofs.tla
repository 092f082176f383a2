-------------------------- MODULE FeedServiceProofs --------------------------
(***************************************************************************)
(* Safety of a feed's files, for any entries and any number of requests,     *)
(* crashes and failing writes, and the chain resolveForks lets win.          *)
(***************************************************************************)
EXTENDS FeedService, ListProofs

Writing == {"evOpen", "evWrite"}

\* A root that a request holds has its entry file, or is the entry the request
\* is about to write.
HeldRoots ==
  \A p \in Procs : reg[p].root # NoCid =>
    \/ event[reg[p].root].st # "absent"
    \/ pc[p] \in Writing /\ reg[p].root = req[p].cid

RootInv == RootHasEvent /\ HeldRoots

\* With requests one at a time: the file, and what a request will write to it.
FileSays == meta.st = "ok" => meta.count = acks /\ meta.root = first
OneRequest == \A p, q \in Procs : pc[p] # "idle" /\ pc[q] # "idle" => p = q
HeldTexts ==
  \A p \in Procs :
    /\ pc[p] \in {"blob"} \cup Writing => reg[p].count = acks
    /\ pc[p] \in {"blob"} \cup Writing /\ first # NoCid => reg[p].root = first
    /\ pc[p] \in {"mOpen", "mWrite"} =>
         IF req[p].cid = NoCid THEN reg[p] = Fresh
         ELSE /\ reg[p].count = acks + 1
              /\ first # NoCid => reg[p].root = first

SerialInv == serial => OneRequest /\ FileSays /\ HeldTexts

-----------------------------------------------------------------------------
(* Types.                                                                    *)

LEMMA TypesInit == Init => TypeOK
  BY BoundAssumption
  DEF Init, TypeOK, MaybeCid, Text, Pcs, FileStates, Fresh, NoReq

LEMMA TypeStep == TypeOK /\ [Next]_vars => TypeOK'
<1> SUFFICES ASSUME TypeOK, [Next]_vars PROVE TypeOK'
  OBVIOUS
<1> USE CidAssumption, BoundAssumption
    DEF TypeOK, MaybeCid, Text, Pcs, FileStates, Fresh, NoReq, Goto, Done, files
<1>1. ASSUME NEW p \in Procs, Create(p) PROVE TypeOK'
  BY <1>1 DEF Create
<1>2. ASSUME NEW p \in Procs, NEW c \in Cids, NEW par \in MaybeCid, Add(p, c, par)
      PROVE  TypeOK'
  BY <1>2 DEF Add
<1>3. ASSUME NEW p \in Procs, AddMeta(p) PROVE TypeOK'
  BY <1>3 DEF AddMeta
<1>4. ASSUME NEW p \in Procs, AddFails(p) PROVE TypeOK'
  BY <1>4 DEF AddFails
<1>5. ASSUME NEW p \in Procs, AddBlob(p) PROVE TypeOK'
  <2>1. reg' \in [Procs -> Text]
    BY <1>5 DEF AddBlob
  <2> QED
    BY <1>5, <2>1 DEF AddBlob
<1>6. ASSUME NEW p \in Procs, EventOpen(p) PROVE TypeOK'
  BY <1>6 DEF EventOpen
<1>7. ASSUME NEW p \in Procs, EventWrite(p) PROVE TypeOK'
  <2>1. req[p].cid \in Cids /\ req[p].parent \in MaybeCid
    BY <1>7 DEF EventWrite
  <2>2. WriteEvent(req[p].cid, req[p].parent) \in [st : FileStates, parent : MaybeCid]
    BY <2>1 DEF WriteEvent
  <2>3. [reg[p] EXCEPT !.count = @ + 1] \in Text
    OBVIOUS
  <2>4. reg' \in [Procs -> Text]
    BY <1>7, <2>3 DEF EventWrite
  <2>5. event' \in [Cids -> [st : FileStates, parent : MaybeCid]]
    BY <1>7, <2>1, <2>2 DEF EventWrite
  <2> QED
    BY <1>7, <2>1, <2>4, <2>5 DEF EventWrite
<1>8. ASSUME NEW p \in Procs, MetaOpen(p) PROVE TypeOK'
  BY <1>8 DEF MetaOpen
<1>9. ASSUME NEW p \in Procs, MetaWrite(p) PROVE TypeOK'
  BY <1>9 DEF MetaWrite, WriteMeta
<1>10. ASSUME NEW p \in Procs, WriteFails(p) PROVE TypeOK'
  BY <1>10 DEF WriteFails
<1>11. CASE Crash
  BY <1>11 DEF Crash
<1>12. CASE UNCHANGED vars
  BY <1>12 DEF vars
<1> QED
  BY <1>1, <1>2, <1>3, <1>4, <1>5, <1>6, <1>7, <1>8, <1>9, <1>10, <1>11, <1>12
  DEF Next, Step

\* Every variable of the feed keeps its type.
THEOREM Types == Spec => []TypeOK
  BY TypesInit, TypeStep, PTL DEF Spec

-----------------------------------------------------------------------------
(* The root's entry.                                                         *)

LEMMA RootInit == Init => RootInv
  BY DEF Init, RootInv, RootHasEvent, HeldRoots, Fresh

\* An entry file, once there, stays.
LEMMA RootStep == TypeOK /\ RootInv /\ [Next]_vars => RootInv'
<1> SUFFICES ASSUME TypeOK, RootInv, [Next]_vars PROVE RootInv'
  OBVIOUS
<1> USE CidAssumption
    DEF TypeOK, RootInv, RootHasEvent, HeldRoots, MaybeCid, Text, Pcs, FileStates,
        Fresh, NoReq, Goto, Done, files, Writing
<1>1. ASSUME NEW p \in Procs, Create(p) PROVE RootInv'
  BY <1>1 DEF Create, MayBegin
<1>2. ASSUME NEW p \in Procs, NEW c \in Cids, NEW par \in MaybeCid, Add(p, c, par)
      PROVE  RootInv'
  BY <1>2 DEF Add, MayBegin
<1>3. ASSUME NEW p \in Procs, AddMeta(p) PROVE RootInv'
  BY <1>3 DEF AddMeta
<1>4. ASSUME NEW p \in Procs, AddFails(p) PROVE RootInv'
  BY <1>4 DEF AddFails
<1>5. ASSUME NEW p \in Procs, AddBlob(p) PROVE RootInv'
  <2>1. \A q \in Procs : reg'[q].root # NoCid =>
          \/ reg'[q].root = reg[q].root
          \/ q = p /\ reg'[q].root = req[q].cid
    BY <1>5 DEF AddBlob
  <2>2. pc' = [pc EXCEPT ![p] = "evOpen"] /\ pc[p] = "blob"
        /\ UNCHANGED <<meta, event, req>>
    BY <1>5 DEF AddBlob
  <2> QED
    BY <2>1, <2>2
<1>6. ASSUME NEW p \in Procs, EventOpen(p) PROVE RootInv'
  <2>1. req[p].cid \in Cids /\ pc[p] = "evOpen"
    BY <1>6 DEF EventOpen
  <2>2. \A c \in Cids : event'[c].st = event[c].st \/ event'[c].st = "empty"
    BY <1>6, <2>1 DEF EventOpen
  <2> QED
    BY <1>6, <2>1, <2>2 DEF EventOpen
<1>7. ASSUME NEW p \in Procs, EventWrite(p) PROVE RootInv'
  <2>1. req[p].cid \in Cids /\ pc[p] = "evWrite"
    BY <1>7 DEF EventWrite
  <2>2. /\ \A c \in Cids : event'[c].st = event[c].st \/ event'[c].st # "absent"
        /\ event'[req[p].cid].st # "absent"
    BY <1>7, <2>1 DEF EventWrite, WriteEvent
  <2>3. \A q \in Procs : reg'[q].root = reg[q].root
    BY <1>7 DEF EventWrite
  <2> QED
    BY <1>7, <2>1, <2>2, <2>3 DEF EventWrite
<1>8. ASSUME NEW p \in Procs, MetaOpen(p) PROVE RootInv'
  BY <1>8 DEF MetaOpen
<1>9. ASSUME NEW p \in Procs, MetaWrite(p) PROVE RootInv'
  BY <1>9 DEF MetaWrite, WriteMeta
<1>10. ASSUME NEW p \in Procs, WriteFails(p) PROVE RootInv'
  BY <1>10 DEF WriteFails
<1>11. CASE Crash
  BY <1>11 DEF Crash
<1>12. CASE UNCHANGED vars
  BY <1>12 DEF vars
<1> QED
  BY <1>1, <1>2, <1>3, <1>4, <1>5, <1>6, <1>7, <1>8, <1>9, <1>10, <1>11, <1>12
  DEF Next, Step

\* However requests overlap and the node crashes, a readable feed that names a
\* root has that root's entry file.
THEOREM RootKept == Spec => []RootHasEvent
<1>1. Spec => [](TypeOK /\ RootInv)
  BY TypesInit, TypeStep, RootInit, RootStep, PTL DEF Spec
<1>2. TypeOK /\ RootInv => RootHasEvent
  BY DEF RootInv
<1> QED
  BY <1>1, <1>2, PTL

-----------------------------------------------------------------------------
(* One request at a time.                                                    *)

LEMMA SerialInit == Init => SerialInv
  BY DEF Init, SerialInv, OneRequest, FileSays, HeldTexts, Writing

LEMMA SerialStep == TypeOK /\ SerialInv /\ [Next]_vars => SerialInv'
<1> SUFFICES ASSUME TypeOK, SerialInv, [Next]_vars PROVE SerialInv'
  OBVIOUS
<1>0. serial' = serial /\ serial \in BOOLEAN
  BY BoundAssumption DEF TypeOK, Next, Create, Add, Step, AddMeta, AddFails, AddBlob,
     EventOpen, EventWrite, MetaOpen, MetaWrite, WriteFails, Crash, vars
<1> SUFFICES ASSUME serial PROVE OneRequest' /\ FileSays' /\ HeldTexts'
  BY <1>0 DEF SerialInv
<1>a. OneRequest /\ FileSays /\ HeldTexts
  BY DEF SerialInv
<1> USE <1>a, CidAssumption
    DEF TypeOK, OneRequest, FileSays, HeldTexts, MaybeCid, Text, Pcs, FileStates,
        Fresh, NoReq, Goto, Done, files, Writing
<1>1. ASSUME NEW p \in Procs, Create(p) PROVE OneRequest' /\ FileSays' /\ HeldTexts'
  BY <1>1 DEF Create, MayBegin
<1>2. ASSUME NEW p \in Procs, NEW c \in Cids, NEW par \in MaybeCid, Add(p, c, par)
      PROVE  OneRequest' /\ FileSays' /\ HeldTexts'
  BY <1>2 DEF Add, MayBegin
<1>3. ASSUME NEW p \in Procs, AddMeta(p) PROVE OneRequest' /\ FileSays' /\ HeldTexts'
  BY <1>3 DEF AddMeta
<1>4. ASSUME NEW p \in Procs, AddFails(p) PROVE OneRequest' /\ FileSays' /\ HeldTexts'
  BY <1>4 DEF AddFails
<1>5. ASSUME NEW p \in Procs, AddBlob(p) PROVE OneRequest' /\ FileSays' /\ HeldTexts'
  <2>1. /\ pc[p] = "blob" /\ pc' = [pc EXCEPT ![p] = "evOpen"]
        /\ UNCHANGED <<meta, event, req, acks, first>>
    BY <1>5 DEF AddBlob
  <2>2. \A q \in Procs : /\ reg'[q].count = reg[q].count
                         /\ reg[q].root # NoCid => reg'[q].root = reg[q].root
                         /\ q # p => reg'[q] = reg[q]
    BY <1>5 DEF AddBlob
  <2> QED
    BY <2>1, <2>2
<1>6. ASSUME NEW p \in Procs, EventOpen(p) PROVE OneRequest' /\ FileSays' /\ HeldTexts'
  BY <1>6 DEF EventOpen
<1>7. ASSUME NEW p \in Procs, EventWrite(p) PROVE OneRequest' /\ FileSays' /\ HeldTexts'
  <2>1. /\ pc[p] = "evWrite" /\ pc' = [pc EXCEPT ![p] = "mOpen"]
        /\ req[p].cid \in Cids /\ UNCHANGED <<meta, req, acks, first>>
    BY <1>7 DEF EventWrite
  <2>2. /\ reg'[p].count = reg[p].count + 1 /\ reg'[p].root = reg[p].root
        /\ \A q \in Procs : q # p => reg'[q] = reg[q]
    BY <1>7 DEF EventWrite
  <2> QED
    BY <2>1, <2>2
<1>8. ASSUME NEW p \in Procs, MetaOpen(p) PROVE OneRequest' /\ FileSays' /\ HeldTexts'
  BY <1>8 DEF MetaOpen
<1>9. ASSUME NEW p \in Procs, MetaWrite(p) PROVE OneRequest' /\ FileSays' /\ HeldTexts'
  <2>1. \A q \in Procs : pc'[q] = "idle"
    BY <1>9 DEF MetaWrite
  <2>2. FileSays'
    BY <1>9 DEF MetaWrite, WriteMeta
  <2> QED
    BY <2>1, <2>2
<1>10. ASSUME NEW p \in Procs, WriteFails(p) PROVE OneRequest' /\ FileSays' /\ HeldTexts'
  BY <1>10 DEF WriteFails
<1>11. CASE Crash
  BY <1>11 DEF Crash
<1>12. CASE UNCHANGED vars
  BY <1>12 DEF vars
<1> QED
  BY <1>1, <1>2, <1>3, <1>4, <1>5, <1>6, <1>7, <1>8, <1>9, <1>10, <1>11, <1>12
  DEF Next, Step

LEMMA Serially == Spec => [](TypeOK /\ SerialInv)
  BY TypesInit, TypeStep, SerialInit, SerialStep, PTL DEF Spec

\* With requests for the feed one at a time, entryCount is the number of
\* acknowledged entries, through any crashes and failing writes.
THEOREM CountKept == Spec => []CountHonest
<1>1. TypeOK /\ SerialInv => CountHonest
  BY DEF SerialInv, FileSays, CountHonest
<1> QED
  BY <1>1, Serially, PTL

\* With requests for the feed one at a time, a root once written stays.
THEOREM RootFixed == Spec => []RootStable
<1>1. TypeOK /\ SerialInv => RootStable
  BY DEF SerialInv, FileSays, RootStable
<1> QED
  BY <1>1, Serially, PTL

-----------------------------------------------------------------------------
(* Which chain wins.                                                         *)

Lone == \A c \in Cids : Cardinality(Children(c)) <= 1

ChildOf(c, before) ==
  IF c = NoCid \/ Children(c) = {} THEN NoCid
  ELSE CHOOSE d \in Children(c) : \A e \in Children(c) : before[d] <= before[e]

LEMMA CidsCount == Cardinality(Cids) \in Nat /\ IsFiniteSet(Cids)
  BY CidAssumption, FS_CardinalityType

LEMMA OnlyChild ==
  ASSUME Lone, NEW c \in Cids, NEW d \in Children(c)
  PROVE  Children(c) = {d}
<1>1. Children(c) \subseteq Cids
  BY DEF Children, Listed
<1>2. IsFiniteSet(Children(c))
  BY <1>1, CidsCount, FS_Subset
<1>3. Cardinality(Children(c)) \in Nat /\ Cardinality(Children(c)) <= 1
  BY <1>2, FS_CardinalityType DEF Lone
<1>4. Cardinality(Children(c)) # 0
  BY <1>2, FS_EmptySet
<1>5. Cardinality(Children(c)) = 1
  BY <1>3, <1>4
<1>6. PICK e : Children(c) = {e}
  BY <1>2, <1>5, FS_Singleton
<1> QED
  BY <1>6

LEMMA ChildIs ==
  ASSUME Lone, NEW before \in Listings, NEW c \in Cids, NEW d \in Children(c)
  PROVE  ChildOf(c, before) = d
<1>1. c # NoCid /\ d \in Cids
  BY CidAssumption DEF Children, Listed
<1>2. Children(c) = {d}
  BY OnlyChild
<1>3. before[d] \in Nat
  BY <1>1, CidsCount DEF Listings
<1>4. before[d] <= before[d]
  BY <1>3
<1> QED
  BY <1>1, <1>2, <1>4 DEF ChildOf

LEMMA ChildType ==
  ASSUME Lone, NEW before \in Listings, NEW c \in MaybeCid
  PROVE  /\ ChildOf(c, before) \in MaybeCid
         /\ ChildOf(c, before) # NoCid => c \in Cids /\ ChildOf(c, before) \in Children(c)
<1>1. CASE c = NoCid \/ Children(c) = {}
  BY <1>1 DEF ChildOf, MaybeCid
<1>2. CASE c # NoCid /\ Children(c) # {}
  <2>1. PICK d \in Children(c) : TRUE
    BY <1>2
  <2>2. c \in Cids /\ d \in Cids
    BY <1>2 DEF MaybeCid, Children, Listed
  <2>3. ChildOf(c, before) = d
    BY <2>2, ChildIs
  <2> QED
    BY <2>2, <2>3 DEF MaybeCid
<1> QED
  BY <1>1, <1>2

\* What the chain from r is, place by place.
Follows(at, r, before) ==
  /\ at \in [0..Cardinality(Cids) -> MaybeCid] /\ at[0] = r
  /\ \A i \in 1..Cardinality(Cids) : at[i] = ChildOf(at[i - 1], before)

LEMMA PlaceFollows ==
  ASSUME Lone, NEW before \in Listings, NEW r \in Cids
  PROVE  Follows(Place(r, before), r, before)
<1> DEFINE N == Cardinality(Cids)
           Defines(f) ==
             f = [n \in 0..N |->
                    IF n = 0 THEN r
                    ELSE LET next == Children(f[n - 1])
                         IN IF f[n - 1] = NoCid \/ next = {} THEN NoCid
                            ELSE CHOOSE c \in next :
                                   \A d \in next : before[c] <= before[d]]
           step == [i \in Nat |-> [c \in MaybeCid |-> ChildOf(c, before)]]
<1>0. N \in Nat
  BY CidsCount
<1>1. \A i \in Nat, c \in MaybeCid : step[i][c] = ChildOf(c, before) /\ step[i][c] \in MaybeCid
  BY ChildType
<1>2. PICK f : Along(f, MaybeCid, r, step, N)
  <2>1. r \in MaybeCid
    BY DEF MaybeCid
  <2>2. \A i \in Nat, c \in MaybeCid : step[i][c] \in MaybeCid
    BY <1>1
  <2> HIDE DEF step, N
  <2> QED
    BY <1>0, <2>1, <2>2, Recursion
<1>3. Follows(f, r, before)
  <2>1. f \in [0..N -> MaybeCid] /\ f[0] = r /\ \A i \in 1..N : f[i] = step[i][f[i - 1]]
    BY <1>2 DEF Along
  <2>2. ASSUME NEW i \in 1..N PROVE f[i] = ChildOf(f[i - 1], before)
    <3>1. i \in Nat /\ f[i - 1] \in MaybeCid
      BY <1>0, <2>1
    <3> HIDE DEF step
    <3> QED
      BY <1>1, <2>1, <3>1
  <2> QED
    BY <2>1, <2>2 DEF Follows
<1>4. Defines(f)
  <2>1. \A n \in 0..N : f[n] = IF n = 0 THEN r ELSE ChildOf(f[n - 1], before)
    BY <1>0, <1>3 DEF Follows
  <2>2. f = [n \in 0..N |-> IF n = 0 THEN r ELSE ChildOf(f[n - 1], before)]
    BY <2>1, <1>3 DEF Follows
  <2> QED
    BY <2>2 DEF ChildOf
<1>5. ASSUME NEW g, Defines(g) PROVE Follows(g, r, before)
  <2>1. g = [n \in 0..N |-> IF n = 0 THEN r ELSE ChildOf(g[n - 1], before)]
    BY <1>5 DEF ChildOf
  <2> DEFINE T == {n \in Nat : n <= N => g[n] \in MaybeCid}
  <2>2. g[0] = r /\ \A i \in 1..N : g[i] = ChildOf(g[i - 1], before)
    BY <1>0, <2>1
  <2>3. 0 \in T
    BY <2>2 DEF MaybeCid
  <2>4. ASSUME NEW n \in Nat, n \in T PROVE n + 1 \in T
    <3> SUFFICES ASSUME n + 1 <= N PROVE g[n + 1] \in MaybeCid
      OBVIOUS
    <3>1. n + 1 \in 1..N /\ (n + 1) - 1 = n /\ n <= N
      BY <1>0
    <3>2. g[n] \in MaybeCid
      BY <2>4, <3>1
    <3> QED
      BY <2>2, <3>1, <3>2, ChildType
  <2> HIDE DEF T
  <2>5. \A n \in Nat : n \in T
    BY <2>3, <2>4, Induct
  <2>6. \A n \in 0..N : g[n] \in MaybeCid
    BY <1>0, <2>5 DEF T
  <2>7. DOMAIN g = 0..N /\ g = [n \in DOMAIN g |-> g[n]]
    BY <2>1
  <2> QED
    BY <2>2, <2>6, <2>7 DEF Follows
<1> DEFINE at == CHOOSE g : Defines(g)
<1>6. Defines(at)
  <2> HIDE DEF Defines
  <2> QED
    BY <1>4, Zenon
<1>7. Place(r, before) = at
  BY DEF Place
<1> HIDE DEF Defines, at
<1> QED
  BY <1>5, <1>6, <1>7

\* The chain has its places one after another, and then it has ended.
LEMMA ChainEnds ==
  ASSUME NEW before, NEW r \in Cids, NEW at, Follows(at, r, before)
  PROVE  \E k \in 1..(Cardinality(Cids) + 1) :
           \A n \in 0..Cardinality(Cids) : at[n] # NoCid <=> n < k
<1> DEFINE N == Cardinality(Cids)
           E == {n \in 0..N : at[n] = NoCid} \cup {N + 1}
<1>0. N \in Nat /\ r # NoCid
  BY CidsCount, CidAssumption
<1>1. /\ at \in [0..N -> MaybeCid] /\ at[0] = r
      /\ \A i \in 1..N : at[i - 1] = NoCid => at[i] = NoCid
  BY DEF Follows, ChildOf
<1> HIDE DEF N
<1>2. PICK k \in E : \A y \in E : k <= y
  <2>1. E \subseteq Nat /\ E # {}
    BY <1>0
  <2> HIDE DEF E
  <2> QED
    BY <2>1, Smallest
<1>3. k \in 1..(N + 1)
  <2>1. 0 \notin E
    BY <1>0, <1>1
  <2> QED
    BY <1>0, <1>2, <2>1
<1>4. ASSUME NEW n \in 0..N, n < k PROVE at[n] # NoCid
  BY <1>0, <1>2, <1>4
<1>5. \A n \in 0..N : k <= n => at[n] = NoCid
  <2> DEFINE T == {n \in Nat : n <= N /\ k <= n => at[n] = NoCid}
  <2>1. 0 \in T
    BY <1>3
  <2>2. ASSUME NEW n \in Nat, n \in T PROVE n + 1 \in T
    <3> SUFFICES ASSUME n + 1 <= N, k <= n + 1 PROVE at[n + 1] = NoCid
      OBVIOUS
    <3>1. n + 1 \in 1..N /\ (n + 1) - 1 = n /\ n <= N
      BY <1>0
    <3>2. CASE k = n + 1
      BY <1>0, <1>2, <3>1, <3>2
    <3>3. CASE k # n + 1
      <4>1. k <= n
        BY <1>3, <3>3
      <4>2. at[n] = NoCid
        BY <2>2, <3>1, <4>1
      <4> QED
        BY <1>1, <3>1, <4>2
    <3> QED
      BY <3>2, <3>3
  <2> HIDE DEF T
  <2>3. \A n \in Nat : n \in T
    BY <2>1, <2>2, Induct
  <2> QED
    BY <1>0, <2>3 DEF T
<1>6. \A n \in 0..N : at[n] # NoCid <=> n < k
  BY <1>0, <1>3, <1>4, <1>5
<1> QED
  BY <1>3, <1>6 DEF N

\* The places of the chain from r are those before Length.
LEMMA LengthIs ==
  ASSUME Lone, NEW before \in Listings, NEW r \in Cids
  PROVE  /\ Length(r, before) \in 1..(Cardinality(Cids) + 1)
         /\ \A n \in 0..Cardinality(Cids) :
              Place(r, before)[n] # NoCid <=> n < Length(r, before)
<1> DEFINE N == Cardinality(Cids)
           at == Place(r, before)
<1>0. N \in Nat
  BY CidsCount
<1>1. PICK k \in 1..(N + 1) : \A n \in 0..N : at[n] # NoCid <=> n < k
  BY PlaceFollows, ChainEnds
<1>2. {n \in 0..N : at[n] # NoCid} = 0..(k - 1)
  BY <1>0, <1>1
<1>3. Cardinality(0..(k - 1)) = k
  <2>1. k - 1 \in Int /\ 0 <= k - 1 /\ (k - 1) - 0 + 1 = k
    BY <1>0
  <2>2. Cardinality(0..(k - 1)) = IF 0 > k - 1 THEN 0 ELSE (k - 1) - 0 + 1
    BY <2>1, FS_Interval
  <2> QED
    BY <2>1, <2>2
<1>4. Length(r, before) = k
  BY <1>2, <1>3 DEF Length
<1> QED
  BY <1>1, <1>4

\* A path of the tree is the chain as far as it goes.
LEMMA PathIsChain ==
  ASSUME Lone, NEW before \in Listings, NEW r \in Cids,
         NEW m \in 1..(Cardinality(Cids) + 1), NEW s \in [1..m -> Listed],
         \A i \in 2..m : event[s[i]].parent = s[i - 1], s[1] = r
  PROVE  m <= Length(r, before)
<1> DEFINE N == Cardinality(Cids)
           at == Place(r, before)
           T == {n \in Nat : n < m => at[n] = s[n + 1]}
<1>0. N \in Nat /\ m \in Nat /\ m <= N + 1
  BY CidsCount
<1>1. at[0] = r /\ \A i \in 1..N : at[i] = ChildOf(at[i - 1], before)
  BY PlaceFollows DEF Follows
<1>2. 0 \in T
  BY <1>1
<1>3. ASSUME NEW n \in Nat, n \in T PROVE n + 1 \in T
  <2> SUFFICES ASSUME n + 1 < m PROVE at[n + 1] = s[(n + 1) + 1]
    OBVIOUS
  <2>1. /\ n + 1 \in 1..N /\ (n + 1) - 1 = n /\ n < m
        /\ n + 1 \in 1..m /\ (n + 1) + 1 \in 2..m /\ (n + 1) + 1 \in 1..m
        /\ ((n + 1) + 1) - 1 = n + 1
    BY <1>0
  <2>2. at[n] = s[n + 1]
    BY <1>3, <2>1
  <2>3. s[n + 1] \in Cids /\ s[(n + 1) + 1] \in Children(s[n + 1])
    <3>1. event[s[(n + 1) + 1]].parent = s[n + 1]
      BY <2>1
    <3> QED
      BY <2>1, <3>1 DEF Children, Listed
  <2>4. ChildOf(s[n + 1], before) = s[(n + 1) + 1]
    BY <2>3, ChildIs
  <2> QED
    BY <1>1, <2>1, <2>2, <2>4
<1> HIDE DEF T
<1>4. \A n \in Nat : n \in T
  BY <1>2, <1>3, Induct
<1>5. m - 1 \in 0..N /\ m - 1 < m /\ (m - 1) + 1 = m /\ m \in 1..m /\ m - 1 \in Nat
  BY <1>0
<1>6. at[m - 1] = s[m]
  BY <1>4, <1>5 DEF T
<1>7. at[m - 1] # NoCid
  BY <1>5, <1>6, CidAssumption DEF Listed
<1>8. m - 1 < Length(r, before) /\ Length(r, before) \in 1..(N + 1)
  BY <1>5, <1>7, LengthIs
<1> QED
  BY <1>0, <1>8

LEMMA ChainIsPath ==
  ASSUME Lone, NEW before \in Listings, NEW r \in Listed,
         NEW m \in 1..Length(r, before)
  PROVE  \E s \in [1..m -> Listed] :
           (\A i \in 2..m : event[s[i]].parent = s[i - 1]) /\ s[1] = r
<1> DEFINE N == Cardinality(Cids)
           at == Place(r, before)
           s == [i \in 1..m |-> at[i - 1]]
<1>0. N \in Nat /\ r \in Cids /\ Length(r, before) \in 1..(N + 1) /\ m \in Nat /\ 1 <= m
  <2>1. r \in Cids
    BY DEF Listed
  <2>2. Length(r, before) \in 1..(N + 1) /\ N \in Nat
    BY <2>1, CidsCount, LengthIs
  <2> QED
    BY <2>1, <2>2
<1>1. /\ at \in [0..N -> MaybeCid] /\ at[0] = r
      /\ \A i \in 1..N : at[i] = ChildOf(at[i - 1], before)
  BY <1>0, PlaceFollows DEF Follows
<1>2. \A n \in 0..N : n < m => at[n] # NoCid
  <2>1. \A n \in 0..N : at[n] # NoCid <=> n < Length(r, before)
    BY <1>0, LengthIs
  <2> QED
    BY <1>0, <2>1
<1>3. \A n \in 1..N : n < m => at[n] \in Children(at[n - 1])
  <2> SUFFICES ASSUME NEW n \in 1..N, n < m PROVE at[n] \in Children(at[n - 1])
    OBVIOUS
  <2>1. n \in 0..N /\ n - 1 \in 0..N
    BY <1>0
  <2>2. at[n] # NoCid /\ at[n - 1] \in MaybeCid /\ at[n] = ChildOf(at[n - 1], before)
    BY <1>1, <1>2, <2>1
  <2> QED
    BY <2>2, ChildType
<1>4. \A i \in 1..m : s[i] \in Listed
  <2> SUFFICES ASSUME NEW i \in 1..m PROVE at[i - 1] \in Listed
    OBVIOUS
  <2>1. CASE i = 1
    BY <1>1, <2>1
  <2>2. CASE i # 1
    <3>1. i - 1 \in 1..N /\ i - 1 < m
      BY <1>0, <2>2
    <3> QED
      BY <1>3, <3>1 DEF Children
  <2> QED
    BY <2>1, <2>2
<1>5. ASSUME NEW i \in 2..m PROVE event[s[i]].parent = s[i - 1]
  <2>1. /\ i - 1 \in 1..N /\ i - 1 < m /\ i \in 1..m /\ i - 1 \in 1..m
    BY <1>0
  <2>2. at[i - 1] \in Children(at[(i - 1) - 1])
    BY <1>3, <2>1
  <2> QED
    BY <2>1, <2>2 DEF Children
<1>6. s[1] = r
  BY <1>0, <1>1
<1> QED
  BY <1>4, <1>5, <1>6

\* The lengths of the paths from r are those up to the length of its chain.
LEMMA PathLengthsAre ==
  ASSUME Lone, NEW before \in Listings, NEW r \in Listed
  PROVE  PathLengths(r) = 1..Length(r, before)
<1> DEFINE N == Cardinality(Cids)
           L == Length(r, before)
<1>0. N \in Nat /\ r \in Cids /\ L \in 1..(N + 1)
  <2>1. r \in Cids
    BY DEF Listed
  <2> QED
    BY <2>1, CidsCount, LengthIs
<1>1. ASSUME NEW m \in PathLengths(r) PROVE m \in 1..L
  <2>1. PICK s \in Paths : s[1] = r /\ Len(s) = m
    BY DEF PathLengths
  <2>2. PICK n \in 1..(N + 1) : s \in [1..n -> Listed]
    BY <2>1 DEF Paths
  <2>3. s \in Seq(Listed) /\ Len(s) = n
    BY <2>2, <1>0
  <2>4. \A i \in 2..n : event[s[i]].parent = s[i - 1]
    BY <2>1, <2>3 DEF Paths
  <2>5. n <= L
    BY <1>0, <2>1, <2>2, <2>4, PathIsChain
  <2> QED
    BY <1>0, <2>1, <2>3, <2>5
<1>2. ASSUME NEW m \in 1..L PROVE m \in PathLengths(r)
  <2>1. PICK s \in [1..m -> Listed] :
          (\A i \in 2..m : event[s[i]].parent = s[i - 1]) /\ s[1] = r
    BY ChainIsPath
  <2>2. m \in 1..(N + 1) /\ Len(s) = m
    BY <1>0
  <2>3. s \in Paths
    BY <2>1, <2>2 DEF Paths
  <2> QED
    BY <2>1, <2>2, <2>3 DEF PathLengths
<1> QED
  BY <1>1, <1>2

\* Numbers that have a bound have a greatest, and any have a least.
LEMMA Greatest ==
  ASSUME NEW S, S # {}, NEW bound \in Nat, NEW f, \A r \in S : f[r] \in 0..bound
  PROVE  \E r \in S : \A q \in S : f[q] <= f[r]
<1> DEFINE T == {bound - f[r] : r \in S}
<1>1. T \subseteq Nat /\ T # {}
  <2>1. \A r \in S : bound - f[r] \in Nat
    OBVIOUS
  <2> QED
    BY <2>1
<1>2. PICK x \in T : \A y \in T : x <= y
  <2> HIDE DEF T
  <2> QED
    BY <1>1, Smallest
<1>3. PICK r \in S : x = bound - f[r]
  BY <1>2
<1>4. ASSUME NEW q \in S PROVE f[q] <= f[r]
  <2>1. bound - f[r] <= bound - f[q] /\ f[q] \in Nat /\ f[r] \in Nat
    BY <1>2, <1>3
  <2> QED
    BY <2>1
<1> QED
  BY <1>4

LEMMA Lowest ==
  ASSUME NEW S, S # {}, NEW f, \A r \in S : f[r] \in Nat
  PROVE  \E r \in S : \A q \in S : f[r] <= f[q]
<1> DEFINE T == {f[r] : r \in S}
<1>1. T \subseteq Nat /\ T # {}
  OBVIOUS
<1>2. PICK x \in T : \A y \in T : x <= y
  <2> HIDE DEF T
  <2> QED
    BY <1>1, Smallest
<1> QED
  BY <1>2

\* The sort and the rule name the same root.
LEMMA SameWinner ==
  ASSUME Lone, Roots # {}, NEW before \in Listings
  PROVE  Winner(before) = RuleWinner
<1> DEFINE L == [r \in Roots |-> Length(r, before)]
           longest == {r \in Roots : \E m \in PathLengths(r) :
                         \A q \in Roots : \A n \in PathLengths(q) : n <= m}
           earliest == {r \in longest : \A q \in longest : Stamp[r] <= Stamp[q]}
           lowest == {r \in earliest : \A q \in earliest : Rank[r] <= Rank[q]}
<1>1. Cardinality(Cids) + 1 \in Nat
  BY CidsCount
<1>2. ASSUME NEW r \in Roots
      PROVE  /\ r \in Cids /\ PathLengths(r) = 1..L[r]
             /\ L[r] \in 1..(Cardinality(Cids) + 1) /\ L[r] = Length(r, before)
             /\ Stamp[r] \in Nat /\ Rank[r] \in Nat
  <2>1. r \in Listed /\ r \in Cids
    BY DEF Roots, Listed
  <2>2. Stamp[r] \in Nat /\ Rank[r] \in Nat
    BY <2>1, OrderAssumption
  <2>3. /\ PathLengths(r) = 1..Length(r, before)
        /\ Length(r, before) \in 1..(Cardinality(Cids) + 1)
    BY <2>1, PathLengthsAre, LengthIs
  <2> QED
    BY <2>1, <2>2, <2>3
<1>3. \A r, q \in Roots : r # q => Rank[r] # Rank[q]
  BY <1>2, OrderAssumption
<1> HIDE DEF L
<1>4. longest = {r \in Roots : \A q \in Roots : L[q] <= L[r]}
  <2>1. ASSUME NEW r \in Roots, r \in longest, NEW q \in Roots PROVE L[q] <= L[r]
    <3>1. PICK m \in PathLengths(r) : \A n \in PathLengths(q) : n <= m
      BY <2>1
    <3>2. m \in 1..L[r] /\ L[q] \in PathLengths(q) /\ L[q] \in Nat /\ L[r] \in Nat
      BY <1>1, <1>2
    <3> QED
      BY <3>1, <3>2
  <2>2. ASSUME NEW r \in Roots, \A q \in Roots : L[q] <= L[r] PROVE r \in longest
    <3>1. L[r] \in PathLengths(r) /\ L[r] \in Nat
      BY <1>1, <1>2
    <3>2. \A q \in Roots : \A n \in PathLengths(q) : n <= L[r]
      <4> SUFFICES ASSUME NEW q \in Roots, NEW n \in PathLengths(q) PROVE n <= L[r]
        OBVIOUS
      <4>1. n \in 1..L[q] /\ L[q] \in Nat /\ L[q] <= L[r]
        BY <1>1, <1>2, <2>2
      <4> QED
        BY <3>1, <4>1
    <3> QED
      BY <3>1, <3>2
  <2> QED
    BY <2>1, <2>2
<1> HIDE DEF longest
<1>5. longest # {}
  <2>1. \A r \in Roots : L[r] \in 0..(Cardinality(Cids) + 1)
    BY <1>1, <1>2
  <2> QED
    BY <1>1, <1>4, <2>1, Greatest
<1>6. earliest # {}
  <2>1. \A r \in longest : Stamp[r] \in Nat
    BY <1>2, <1>4
  <2> QED
    BY <1>5, <2>1, Lowest
<1>7. PICK w \in earliest : \A q \in earliest : Rank[w] <= Rank[q]
  <2>1. \A r \in earliest : Rank[r] \in Nat
    BY <1>2, <1>4
  <2> HIDE DEF earliest
  <2> QED
    BY <1>6, <2>1, Lowest
<1>8. w \in Roots /\ w \in longest /\ \A q \in longest : Stamp[w] <= Stamp[q]
  BY <1>4, <1>7
<1>9. ASSUME NEW r \in earliest, \A q \in earliest : Rank[r] <= Rank[q] PROVE r = w
  <2>1. r \in Roots /\ Rank[r] <= Rank[w] /\ Rank[w] <= Rank[r]
    BY <1>4, <1>7, <1>9
  <2> QED
    BY <1>2, <1>3, <1>8, <2>1
<1>10. RuleWinner = w
  <2>1. RuleWinner = CHOOSE r \in earliest : \A q \in earliest : Rank[r] <= Rank[q]
    BY DEF RuleWinner, longest
  <2> HIDE DEF earliest
  <2> QED
    BY <1>7, <1>9, <2>1
<1>11. ASSUME NEW q \in Roots \ {w} PROVE SortsFirst(w, q, before)
  <2>1. L[q] <= L[w] /\ L[q] \in Nat /\ L[w] \in Nat
    BY <1>1, <1>2, <1>4, <1>8
  <2>2. CASE L[q] < L[w]
    BY <1>2, <1>8, <2>1, <2>2 DEF SortsFirst
  <2>3. CASE L[q] = L[w]
    <3>1. q \in longest
      BY <1>4, <1>8, <2>3
    <3>2. Stamp[w] <= Stamp[q] /\ Stamp[w] \in Nat /\ Stamp[q] \in Nat
      BY <1>2, <1>8, <3>1
    <3>3. CASE Stamp[w] = Stamp[q]
      <4>1. q \in earliest
        BY <1>8, <3>1, <3>3
      <4>2. Rank[w] <= Rank[q] /\ Rank[w] # Rank[q] /\ Rank[w] \in Nat /\ Rank[q] \in Nat
        BY <1>2, <1>3, <1>7, <1>8, <4>1
      <4>3. Rank[w] < Rank[q]
        BY <4>2
      <4> QED
        BY <1>2, <1>8, <2>3, <3>3, <4>3 DEF SortsFirst
    <3>4. CASE Stamp[w] # Stamp[q]
      <4>1. Stamp[w] < Stamp[q]
        BY <3>2, <3>4
      <4> QED
        BY <1>2, <1>8, <2>3, <4>1 DEF SortsFirst
    <3> QED
      BY <3>3, <3>4
  <2> QED
    BY <2>1, <2>2, <2>3
<1>12. ASSUME NEW r \in Roots, \A q \in Roots \ {r} : SortsFirst(r, q, before) PROVE r = w
  <2> SUFFICES ASSUME r # w PROVE FALSE
    OBVIOUS
  <2>1. SortsFirst(r, w, before) /\ SortsFirst(w, r, before)
    BY <1>8, <1>11, <1>12
  <2>2. /\ Length(r, before) \in Nat /\ Length(w, before) \in Nat
        /\ Stamp[r] \in Nat /\ Stamp[w] \in Nat /\ Rank[r] \in Nat /\ Rank[w] \in Nat
    BY <1>1, <1>2, <1>8
  <2> QED
    BY <2>1, <2>2 DEF SortsFirst
<1>13. Winner(before) = w
  BY <1>8, <1>11, <1>12 DEF Winner
<1> QED
  BY <1>10, <1>13

\* A feed whose entries have one child at most is resolved as the rule says, through
\* any requests, crashes and failing writes and in whatever order the files are
\* listed: longest chain, then earliest root, then lowest cid.
THEOREM ForksFollowRule == Spec => []ForkRule
<1>1. ForkRule
  BY SameWinner DEF ForkRule, Resolvable, Lone
<1> QED
  BY <1>1, PTL

=============================================================================
