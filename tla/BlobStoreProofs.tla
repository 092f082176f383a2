--------------------------- MODULE BlobStoreProofs ---------------------------
(***************************************************************************)
(* Theorems about BlobStore, for any sets of cids and requests and any       *)
(* number of crashes and failing calls.                                      *)
(***************************************************************************)
EXTENDS BlobStore, TLAPS

(* Every text the service holds or writes carries a hash that matches.       *)
HashInv ==
  /\ NoFalseTamperAlarm
  /\ \A p \in Procs : pc[p] \in {"uOpen", "uWrite"} => HashOk(seen[p])

-----------------------------------------------------------------------------
(* Types.                                                                    *)

LEMMA TypesInit == Init => TypeOK
  BY BoundsAssumption DEF Init, TypeOK, FileState, MetaFile, PinText, MetaText,
     Pcs, Updates, AbsentMeta, FreshText

LEMMA DoneType ==
  ASSUME TypeOK, NEW p \in Procs, Done(p)
  PROVE  /\ pc' \in [Procs -> Pcs]
         /\ cid' \in [Procs -> Cids \cup {NoCid}]
         /\ \A q \in Procs : pc'[q] # "idle" => cid'[q] \in Cids
         /\ upd' \in [Procs -> Updates]
         /\ seen' \in [Procs -> MetaText]
         /\ data' \in [Procs -> {"none", "partial", "full"}]
         /\ pend' \in [Procs -> SUBSET {"blob", "meta"}]
  BY DEF Done, TypeOK, Pcs, Updates, FreshText, MetaText, PinText

LEMMA TypeStep == TypeOK /\ [Next]_vars => TypeOK'
<1> SUFFICES ASSUME TypeOK, [Next]_vars PROVE TypeOK'
  OBVIOUS
<1> USE DEF Fail, Forget
<1>1. ASSUME NEW p \in Procs, NEW c \in Cids, NEW op \in Ops, Begin(p, c, op)
      PROVE  TypeOK'
  BY <1>1, OpsAssumption DEF TypeOK, Begin, Goto, FirstPc, Pcs, StorePcs,
     UpdatePcs, Updates, disk, bounds, On
<1>2. ASSUME NEW p \in Procs, StoreStep(p) PROVE TypeOK'
  <2>1. CASE StoreFull(p)
    BY <2>1, DoneType DEF StoreFull, TypeOK, disk, bounds
  <2>2. CASE StoreExists(p)
    BY <2>2, DoneType DEF StoreExists, AckStore, Pass, TypeOK, disk, bounds
  <2>3. CASE StoreNew(p)
    BY <2>3 DEF StoreNew, Pass, Goto, TypeOK, disk, bounds, locals, Pcs, StorePcs
  <2>4. CASE StoreOpen(p)
    BY <2>4 DEF StoreOpen, Goto, TypeOK, bounds, locals, history, Pcs,
       StorePcs, FileState
  <2>5. CASE StoreWrite(p)
    BY <2>5 DEF StoreWrite, Goto, TypeOK, bounds, locals, history, Pcs,
       StorePcs, FileState
  <2>6. CASE StoreRename(p)
    <3>1. fd' \in [Procs -> {"none", "tmp", "blob", "meta", "gone"}]
      BY <2>6 DEF StoreRename, Fds, TypeOK
    <3> QED
      BY <2>6, <3>1 DEF StoreRename, Goto, TypeOK, bounds, locals,
         history, Pcs, StorePcs, FileState
  <2>7. CASE StoreRenameFails(p)
    BY <2>7 DEF StoreRenameFails, Goto, TypeOK, disk, bounds, locals, Pcs,
       StorePcs, Pinning, On
  <2>8. CASE StoreMetaOpen(p)
    BY <2>8 DEF StoreMetaOpen, Goto, TypeOK, bounds, locals, history, Pcs,
       StorePcs, EmptyMeta, MetaFile, PinText
  <2>9. CASE StoreMetaWrite(p)
    <3>1. meta' \in [Cids -> MetaFile]
      BY <2>9 DEF StoreMetaWrite, TypeOK, WriteText, FreshText, MetaFile, PinText
    <3> QED
      BY <2>9, <3>1, DoneType DEF StoreMetaWrite, AckStore, TypeOK, bounds
  <2>10. CASE StoreUndoBlob(p)
    <3>1. fd' \in [Procs -> {"none", "tmp", "blob", "meta", "gone"}]
      BY <2>10 DEF StoreUndoBlob, Fds, TypeOK
    <3> QED
      BY <2>10, <3>1 DEF StoreUndoBlob, Goto, TypeOK, bounds, locals,
         history, Pcs, StorePcs, FileState
  <2>11. CASE StoreUndoMeta(p)
    <3>1. fd' \in [Procs -> {"none", "tmp", "blob", "meta", "gone"}]
      BY <2>11 DEF StoreUndoMeta, Fds, TypeOK
    <3> QED
      BY <2>11, <3>1, DoneType DEF StoreUndoMeta, TypeOK, bounds, AbsentMeta,
         MetaFile, PinText
  <2> QED
    BY <1>2, <2>1, <2>2, <2>3, <2>4, <2>5, <2>6, <2>7, <2>8, <2>9, <2>10, <2>11
       DEF StoreStep
<1>3. ASSUME NEW p \in Procs, GetStep(p) PROVE TypeOK'
  <2>1. CASE GetCached(p)
    BY <2>1 DEF GetCached, Goto, TypeOK, disk, bounds, history, Pcs
  <2>2. CASE GetUncached(p)
    BY <2>2 DEF GetUncached, Goto, TypeOK, disk, bounds, history, Pcs
  <2>3. CASE GetHitMeta(p)
    BY <2>3 DEF GetHitMeta, Goto, TypeOK, disk, bounds, history, Pcs, UpdatePcs
  <2>4. CASE GetReadBlob(p)
    BY <2>4 DEF GetReadBlob, TypeOK, disk, bounds, history, FileState
  <2>5. CASE GetReadMeta(p)
    BY <2>5 DEF GetReadMeta, TypeOK, disk, bounds, history
  <2>6. CASE GetFails(p)
    BY <2>6, DoneType DEF GetFails, TypeOK, disk, bounds
  <2>7. CASE GetReturn(p)
    <3>1. cache' \in [Cids -> {"none", "partial", "full"}]
      BY <2>7 DEF GetReturn, CacheSets, TypeOK
    <3> QED
      BY <2>7, <3>1 DEF GetReturn, Goto, TypeOK, disk, bounds, history, Pcs,
         UpdatePcs
  <2> QED
    BY <1>3, <2>1, <2>2, <2>3, <2>4, <2>5, <2>6, <2>7 DEF GetStep
<1>4. ASSUME NEW p \in Procs, UpdateStep(p) PROVE TypeOK'
  <2>1. CASE PinHas(p)
    BY <2>1 DEF PinHas, Goto, TypeOK, disk, bounds, history, locals, Pcs
  <2>2. CASE PinGet(p)
    BY <2>2 DEF PinGet, Goto, TypeOK, disk, bounds, history, locals, Pcs,
       UpdatePcs
  <2>3. CASE PinFails(p)
    BY <2>3, DoneType DEF PinFails, TypeOK, disk, bounds
  <2>4. CASE UpdateRead(p)
    <3>1. Updated(meta[cid[p]], upd[p]) \in MetaText
      BY <2>4 DEF UpdateRead, TypeOK, Updated, MetaText, MetaFile, PinText,
         Updates, Pcs
    <3> QED
      BY <2>4, <3>1 DEF UpdateRead, Goto, TypeOK, disk, bounds, history, Pcs,
         UpdatePcs
  <2>5. CASE UpdateFails(p)
    BY <2>5, DoneType DEF UpdateFails, TypeOK, disk, bounds
  <2>6. CASE UpdateOpen(p)
    BY <2>6 DEF UpdateOpen, Goto, TypeOK, bounds, history, locals, Pcs,
       UpdatePcs, EmptyMeta, MetaFile, PinText
  <2>7. CASE UpdateWrite(p)
    <3>1. meta' \in [Cids -> MetaFile]
      BY <2>7 DEF UpdateWrite, TypeOK, WriteText, MetaText, MetaFile, PinText
    <3> QED
      BY <2>7, <3>1, DoneType DEF UpdateWrite, TypeOK, bounds
  <2> QED
    BY <1>4, <2>1, <2>2, <2>3, <2>4, <2>5, <2>6, <2>7 DEF UpdateStep
<1>5. ASSUME NEW p \in Procs, DeleteStep(p) PROVE TypeOK'
  <2>1. CASE DeleteGet(p)
    BY <2>1 DEF DeleteGet, Goto, TypeOK, disk, bounds, history, locals, Pcs
  <2>2. CASE DeleteRefused(p)
    BY <2>2, DoneType DEF DeleteRefused, TypeOK, disk, bounds
  <2>3. CASE DeleteDecide(p)
    BY <2>3 DEF DeleteDecide, Goto, TypeOK, disk, bounds, Pcs, Storing, Pinning, On
  <2>4. CASE DeleteUnlinkBlob(p)
    <3>1. fd' \in [Procs -> {"none", "tmp", "blob", "meta", "gone"}]
      BY <2>4 DEF DeleteUnlinkBlob, Fds, TypeOK
    <3>2. blob' \in [Cids -> FileState]
      BY <2>4 DEF DeleteUnlinkBlob, TypeOK, FileState
    <3> QED
      BY <2>4, <3>1, <3>2, DoneType DEF DeleteUnlinkBlob, Unlinked, TypeOK, bounds
  <2>5. CASE DeleteUnlinkMeta(p)
    <3>1. fd' \in [Procs -> {"none", "tmp", "blob", "meta", "gone"}]
      BY <2>5 DEF DeleteUnlinkMeta, Fds, TypeOK
    <3>2. meta' \in [Cids -> MetaFile]
      BY <2>5 DEF DeleteUnlinkMeta, TypeOK, AbsentMeta, MetaFile, PinText
    <3> QED
      BY <2>5, <3>1, <3>2, DoneType DEF DeleteUnlinkMeta, Unlinked, TypeOK, bounds
  <2> QED
    BY <1>5, <2>1, <2>2, <2>3, <2>4, <2>5 DEF DeleteStep
<1>6. ASSUME NEW p \in Procs, StoreFault(p) PROVE TypeOK'
  BY <1>6, BoundsAssumption DEF StoreFault, Goto, TypeOK, disk, locals, Pcs,
     StorePcs, Pinning, On
<1>7. ASSUME NEW p \in Procs, UpdateFault(p) PROVE TypeOK'
  BY <1>7, BoundsAssumption, DoneType DEF UpdateFault, TypeOK, disk
<1>8. CASE Crash
  BY <1>8, BoundsAssumption DEF Crash, TypeOK, disk, FreshText, MetaText,
     PinText, Updates, Pcs
<1>9. CASE UNCHANGED vars
  BY <1>9 DEF vars, TypeOK
<1> QED
  BY <1>1, <1>2, <1>3, <1>4, <1>5, <1>6, <1>7, <1>8, <1>9 DEF Next, Step

\* Every variable keeps its type, whatever the requests do.
THEOREM Types == Spec => []TypeOK
  BY TypesInit, TypeStep, PTL DEF Spec

-----------------------------------------------------------------------------
(* The integrity hash of the metadata.                                       *)

LEMMA WriteTextHash ==
  ASSUME NEW f \in MetaFile, NEW r \in MetaText, HashOk(r),
         WriteText(f, r).st = "ok"
  PROVE  HashOk(WriteText(f, r))
  BY DEF WriteText, HashOk, IsPinned, MetaFile, MetaText

LEMMA UpdatedHash ==
  ASSUME NEW f \in MetaFile, HashOk(f), NEW u \in Updates
  PROVE  HashOk(Updated(f, u))
  BY DEF Updated, HashOk, IsPinned, MetaFile, Updates

LEMMA FreshTextHash == FreshText \in MetaText /\ HashOk(FreshText)
  BY DEF FreshText, MetaText, PinText, HashOk, IsPinned

\* A step that leaves the metadata files alone and starts no rewrite
LEMMA HashFrame ==
  ASSUME HashInv, UNCHANGED <<meta, seen>>,
         \A p \in Procs : pc'[p] \in {"uOpen", "uWrite"} =>
                          pc[p] \in {"uOpen", "uWrite"}
  PROVE  HashInv'
  BY DEF HashInv, NoFalseTamperAlarm, Parses, HashOk, IsPinned

LEMMA HashDone ==
  ASSUME TypeOK, HashInv, NEW p \in Procs, Done(p), UNCHANGED meta
  PROVE  HashInv'
  BY DEF HashInv, NoFalseTamperAlarm, Parses, HashOk, IsPinned, Done, TypeOK

LEMMA HashStep == TypeOK /\ HashInv /\ [Next]_vars => HashInv'
<1> SUFFICES ASSUME TypeOK, HashInv, [Next]_vars PROVE HashInv'
  OBVIOUS
<1>1. ASSUME NEW p \in Procs, NEW c \in Cids, NEW op \in Ops, Begin(p, c, op)
      PROVE  HashInv'
  <2>1. FirstPc[op] \notin {"uOpen", "uWrite"}
    BY OpsAssumption DEF FirstPc
  <2> QED
    BY <1>1, <2>1, HashFrame DEF Begin, Goto, TypeOK, disk
<1>2. ASSUME NEW p \in Procs, Fail(p) PROVE HashInv'
  BY <1>2, HashDone DEF Fail, disk
<1>3. ASSUME NEW p \in Procs, StoreStep(p) PROVE HashInv'
  <2>1. CASE StoreFull(p)
    BY <2>1, <1>2 DEF StoreFull
  <2>2. CASE StoreExists(p)
    BY <2>2, HashDone DEF StoreExists, AckStore, disk
  <2>3. CASE StoreNew(p) \/ StoreOpen(p) \/ StoreWrite(p) \/ StoreRename(p)
             \/ StoreRenameFails(p) \/ StoreUndoBlob(p)
    BY <2>3, HashFrame DEF StoreNew, StoreOpen, StoreWrite, StoreRename,
       StoreRenameFails, StoreUndoBlob, Goto, TypeOK, locals, disk
  <2>4. CASE StoreMetaOpen(p)
    BY <2>4 DEF StoreMetaOpen, Goto, TypeOK, locals, HashInv, EmptyMeta,
       NoFalseTamperAlarm, Parses, HashOk, IsPinned
  <2>5. CASE StoreMetaWrite(p)
    BY <2>5, WriteTextHash, FreshTextHash
       DEF StoreMetaWrite, AckStore, Done, TypeOK, HashInv,
       NoFalseTamperAlarm, Parses, HashOk, IsPinned
  <2>6. CASE StoreUndoMeta(p)
    BY <2>6 DEF StoreUndoMeta, Done, TypeOK, HashInv, AbsentMeta,
       NoFalseTamperAlarm, Parses, HashOk, IsPinned
  <2> QED
    BY <1>3, <2>1, <2>2, <2>3, <2>4, <2>5, <2>6 DEF StoreStep
<1>4. ASSUME NEW p \in Procs, GetStep(p) PROVE HashInv'
  BY <1>4, <1>2, HashFrame DEF GetStep, GetCached, GetUncached, GetHitMeta,
     GetReadBlob, GetReadMeta, GetFails, GetReturn, Goto, TypeOK, disk
<1>5. ASSUME NEW p \in Procs, UpdateStep(p) PROVE HashInv'
  <2>1. CASE PinHas(p) \/ PinGet(p)
    BY <2>1, HashFrame DEF PinHas, PinGet, Goto, TypeOK, locals, disk
  <2>2. CASE PinFails(p) \/ UpdateFails(p)
    BY <2>2, <1>2 DEF PinFails, UpdateFails
  <2>3. CASE UpdateRead(p)
    <3>1. HashOk(Updated(meta[cid[p]], upd[p]))
      BY <2>3, UpdatedHash DEF UpdateRead, MetaGood, TypeOK
    <3> QED
      BY <2>3, <3>1 DEF UpdateRead, Goto, TypeOK, disk, HashInv,
         NoFalseTamperAlarm, Parses, HashOk, IsPinned
  <2>4. CASE UpdateOpen(p)
    BY <2>4 DEF UpdateOpen, Goto, TypeOK, locals, HashInv, EmptyMeta,
       NoFalseTamperAlarm, Parses, HashOk, IsPinned
  <2>5. CASE UpdateWrite(p)
    <3>1. HashOk(seen[p]) /\ seen[p] \in MetaText
      BY <2>5 DEF UpdateWrite, HashInv, TypeOK
    <3> QED
      BY <2>5, <3>1, WriteTextHash
         DEF UpdateWrite, Done, TypeOK, HashInv,
         NoFalseTamperAlarm, Parses, HashOk, IsPinned
  <2> QED
    BY <1>5, <2>1, <2>2, <2>3, <2>4, <2>5 DEF UpdateStep
<1>6. ASSUME NEW p \in Procs, DeleteStep(p) PROVE HashInv'
  <2>1. CASE DeleteGet(p) \/ DeleteDecide(p)
    BY <2>1, HashFrame DEF DeleteGet, DeleteDecide, Goto, TypeOK, locals, disk
  <2>2. CASE DeleteRefused(p)
    BY <2>2, <1>2 DEF DeleteRefused
  <2>3. CASE DeleteUnlinkBlob(p)
    BY <2>3, HashFrame, HashDone DEF DeleteUnlinkBlob, Unlinked
  <2>4. CASE DeleteUnlinkMeta(p)
    <3>1. NoFalseTamperAlarm'
      BY <2>4 DEF DeleteUnlinkMeta, TypeOK, HashInv, AbsentMeta,
         NoFalseTamperAlarm, Parses, HashOk, IsPinned
    <3>2. ASSUME NEW q \in Procs, pc'[q] \in {"uOpen", "uWrite"}
          PROVE  HashOk(seen'[q])
      <4>1. CASE Done(p)
        BY <4>1, <3>2 DEF Done, TypeOK, HashInv
      <4>2. CASE UNCHANGED <<pc, seen>>
        BY <4>2, <3>2 DEF HashInv
      <4> QED
        BY <2>4, <4>1, <4>2 DEF DeleteUnlinkMeta, Unlinked
    <3> QED
      BY <3>1, <3>2 DEF HashInv, HashOk, IsPinned
  <2> QED
    BY <1>6, <2>1, <2>2, <2>3, <2>4 DEF DeleteStep
<1>7. ASSUME NEW p \in Procs, StoreFault(p) \/ UpdateFault(p) PROVE HashInv'
  BY <1>7, HashFrame, HashDone DEF StoreFault, UpdateFault, Goto, TypeOK,
     disk, locals
<1>8. CASE Crash
  BY <1>8 DEF Crash, HashInv, NoFalseTamperAlarm, Parses, HashOk, IsPinned, disk
<1>9. CASE UNCHANGED vars
  BY <1>9, HashFrame DEF vars
<1> QED
  BY <1>1, <1>3, <1>4, <1>5, <1>6, <1>7, <1>8, <1>9 DEF Next, Step

\* However stores, rewrites, deletes, faults and crashes overlap, getMetadata
\* reports METADATA_TAMPERED for no text the service wrote itself.
THEOREM NoFalseAlarm == Spec => []NoFalseTamperAlarm
<1>1. Init => HashInv
  BY DEF Init, HashInv, NoFalseTamperAlarm, Parses, AbsentMeta
<1>2. HashInv => NoFalseTamperAlarm
  BY DEF HashInv
<1> QED
  BY <1>1, <1>2, Types, HashStep, PTL DEF Spec

-----------------------------------------------------------------------------
(* Whole blobs and kept promises.                                            *)

StepsOnDisk == {"stOpen", "stWrite", "stRename", "stMetaOpen", "stMetaWrite",
                "stUndoBlob"}

\* A request has a file open just while it writes one, and an idle one no data.
Opens(p) ==
  /\ fd[p] # "none" => pc[p] \in {"stWrite", "stMetaWrite", "uWrite"}
  /\ fd[p] \in {"tmp", "blob"} => pc[p] = "stWrite"
  /\ pc[p] = "idle" => data[p] = "none"

DescriptorInv == \A p \in Procs : Opens(p)

\* The file of a cid and its cache entry are whole, an acknowledged cid has its
\* file, and at most one store of it has passed its look for the blob.
CidOk(c) ==
  /\ blob[c] # "partial" /\ cache[c] # "partial"
  /\ c \in acked => blob[c] = "full"
  /\ \A p, q \in Writing(c) : p = q

\* What a request has read is whole.  It writes the temp file while that has
\* its temporary name, touches the blob of no acknowledged cid, and has its blob
\* on disk once it was renamed, unless a delete was decided meanwhile, which
\* overtakes every store.
RequestClean(p) ==
  LET c == cid[p]
  IN /\ data[p] # "partial"
     /\ pc[p] = "stWrite" => fd[p] = "tmp"
     /\ pc[p] = "stRename" => tmp[c] = "full"
     /\ pc[p] \in StepsOnDisk => c \notin acked
     /\ pc[p] \in {"stMetaOpen", "stMetaWrite"} => blob[c] = "full" \/ p \in overtaken
     /\ pc[p] = "dUnlink" => c \notin acked /\ Storing(c) \subseteq overtaken

Good(c) == CidOk(c) /\ \A p \in On(c) : RequestClean(p)

StoreInv == DescriptorInv /\ \A c \in Cids \ doubled : Good(c)

\* A rename or an unlink moves descriptors, and opens and closes none.
LEMMA FdsKind ==
  ASSUME TypeOK, NEW c \in Cids, NEW q \in Procs
  PROVE  /\ LET f == Fds(c, [tmp |-> "blob", blob |-> "gone"])[q]
            IN (f # "none" => fd[q] # "none") /\ (f \in {"tmp", "blob"} => fd[q] \in {"tmp", "blob"})
         /\ LET f == Fds(c, [blob |-> "gone"])[q]
            IN (f # "none" => fd[q] # "none") /\ (f \in {"tmp", "blob"} => fd[q] = f)
         /\ LET f == Fds(c, [meta |-> "gone"])[q]
            IN (f # "none" => fd[q] # "none") /\ (f \in {"tmp", "blob"} => fd[q] = f)
  BY DEF Fds, TypeOK

\* The answer of a request closes what it had open.
LEMMA OpensDone ==
  ASSUME TypeOK, DescriptorInv, NEW p \in Procs, Done(p), fd'[p] = "none",
         \A q \in Procs \ {p} :
           /\ fd'[q] # "none" => fd[q] # "none"
           /\ fd'[q] \in {"tmp", "blob"} => fd[q] \in {"tmp", "blob"}
           /\ data'[q] = data[q]
  PROVE  DescriptorInv'
  BY DEF Done, DescriptorInv, Opens, TypeOK

LEMMA OpensGoto ==
  ASSUME TypeOK, DescriptorInv, NEW p \in Procs, NEW l \in Pcs \ {"idle"}, Goto(p, l),
         fd'[p] # "none" => l \in {"stWrite", "stMetaWrite", "uWrite"},
         fd'[p] \in {"tmp", "blob"} => l = "stWrite",
         \A q \in Procs \ {p} :
           /\ fd'[q] # "none" => fd[q] # "none"
           /\ fd'[q] \in {"tmp", "blob"} => fd[q] \in {"tmp", "blob"}
           /\ data'[q] = data[q]
  PROVE  DescriptorInv'
  BY DEF Goto, DescriptorInv, Opens, TypeOK

-----------------------------------------------------------------------------
(* What a step of request p on cid c leaves to the rest.                     *)

Local(p, c) ==
  /\ \A q \in Procs \ {p} :
       /\ pc'[q] = pc[q] /\ cid'[q] = cid[q] /\ data'[q] = data[q]
       /\ q \in overtaken => q \in overtaken'
       /\ cid[q] # c => fd'[q] = fd[q]
  /\ \A d \in Cids \ {c} :
       /\ tmp'[d] = tmp[d] /\ blob'[d] = blob[d] /\ cache'[d] \in {cache[d], "none"}
       /\ d \in acked' <=> d \in acked
  /\ doubled' \in {doubled, doubled \cup {c}}
  /\ pc'[p] = "idle" \/ cid'[p] = c

LEMMA LocalSteps ==
  ASSUME TypeOK, NEW p \in Procs, Step(p) \/ StoreFault(p) \/ UpdateFault(p)
  PROVE  cid[p] \in Cids /\ Local(p, cid[p])
<1> USE DEF Local, disk, locals, bounds, history, Done, Forget, Fail, Goto, TypeOK
<1>1. CASE StoreStep(p)
  <2>1. CASE StoreFull(p)
    BY <2>1 DEF StoreFull
  <2>2. CASE StoreExists(p)
    BY <2>2 DEF StoreExists, AckStore, Pass
  <2>3. CASE StoreNew(p)
    BY <2>3 DEF StoreNew, Pass
  <2>4. CASE StoreOpen(p) \/ StoreWrite(p)
    BY <2>4 DEF StoreOpen, StoreWrite
  <2>5. CASE StoreRename(p)
    BY <2>5 DEF StoreRename, Fds
  <2>6. CASE StoreRenameFails(p)
    BY <2>6 DEF StoreRenameFails
  <2>7. CASE StoreMetaOpen(p)
    BY <2>7 DEF StoreMetaOpen
  <2>8. CASE StoreMetaWrite(p)
    BY <2>8 DEF StoreMetaWrite, AckStore
  <2>9. CASE StoreUndoBlob(p)
    BY <2>9 DEF StoreUndoBlob, Fds
  <2>10. CASE StoreUndoMeta(p)
    BY <2>10 DEF StoreUndoMeta, Fds
  <2> QED
    BY <1>1, <2>1, <2>2, <2>3, <2>4, <2>5, <2>6, <2>7, <2>8, <2>9, <2>10
       DEF StoreStep
<1>2. CASE GetStep(p)
  <2>1. CASE GetReturn(p)
    BY <2>1 DEF GetReturn, CacheSets
  <2>2. CASE GetFails(p)
    BY <2>2 DEF GetFails
  <2>3. CASE GetCached(p) \/ GetUncached(p) \/ GetHitMeta(p)
    BY <2>3 DEF GetCached, GetUncached, GetHitMeta
  <2>4. CASE GetReadBlob(p) \/ GetReadMeta(p)
    BY <2>4 DEF GetReadBlob, GetReadMeta
  <2> QED
    BY <1>2, <2>1, <2>2, <2>3, <2>4 DEF GetStep
<1>3. CASE UpdateStep(p)
  <2>1. CASE PinFails(p) \/ UpdateFails(p)
    BY <2>1 DEF PinFails, UpdateFails
  <2>2. CASE PinHas(p) \/ PinGet(p) \/ UpdateRead(p)
    BY <2>2 DEF PinHas, PinGet, UpdateRead
  <2>3. CASE UpdateOpen(p)
    BY <2>3 DEF UpdateOpen
  <2>4. CASE UpdateWrite(p)
    BY <2>4 DEF UpdateWrite
  <2> QED
    BY <1>3, <2>1, <2>2, <2>3, <2>4 DEF UpdateStep
<1>4. CASE DeleteStep(p)
  <2>1. CASE DeleteRefused(p)
    BY <2>1 DEF DeleteRefused
  <2>2. CASE DeleteGet(p)
    BY <2>2 DEF DeleteGet
  <2>3. CASE DeleteDecide(p)
    BY <2>3 DEF DeleteDecide
  <2>4. CASE DeleteUnlinkBlob(p)
    BY <2>4 DEF DeleteUnlinkBlob, Unlinked, Fds
  <2>5. CASE DeleteUnlinkMeta(p)
    BY <2>5 DEF DeleteUnlinkMeta, Unlinked, Fds
  <2> QED
    BY <1>4, <2>1, <2>2, <2>3, <2>4, <2>5 DEF DeleteStep
<1>5. CASE StoreFault(p) \/ UpdateFault(p)
  BY <1>5 DEF StoreFault, UpdateFault
<1> QED
  BY <1>1, <1>2, <1>3, <1>4, <1>5 DEF Step

LEMMA DescriptorStep ==
  ASSUME TypeOK, DescriptorInv, NEW p \in Procs,
         Step(p) \/ StoreFault(p) \/ UpdateFault(p)
  PROVE  DescriptorInv'
<1> USE DEF disk, locals, bounds, history, Pcs, StorePcs, UpdatePcs
<1>0. /\ pc[p] \notin {"stWrite", "stMetaWrite", "uWrite"} => fd[p] = "none"
      /\ pc[p] # "idle" => cid[p] \in Cids
      /\ \A q \in Procs \ {p} : data'[q] = data[q] /\ pc'[q] = pc[q]
  BY LocalSteps DEF DescriptorInv, Opens, Local, TypeOK
<1>1. CASE StoreStep(p)
  <2>1. CASE StoreFull(p) \/ StoreExists(p) \/ StoreMetaWrite(p)
    BY <1>0, <2>1, OpensDone DEF StoreFull, Fail, StoreExists, StoreMetaWrite, AckStore, TypeOK
  <2>2. CASE StoreNew(p) \/ StoreRenameFails(p)
    BY <1>0, <2>2, OpensGoto DEF StoreNew, StoreRenameFails
  <2>3. CASE StoreOpen(p) \/ StoreMetaOpen(p)
    BY <1>0, <2>3, OpensGoto DEF StoreOpen, StoreMetaOpen, TypeOK
  <2>4. CASE StoreWrite(p)
    BY <1>0, <2>4, OpensGoto DEF StoreWrite, TypeOK
  <2>5. CASE StoreRename(p) \/ StoreUndoBlob(p)
    <3>1. \A q \in Procs :
            /\ fd'[q] # "none" => fd[q] # "none"
            /\ fd'[q] \in {"tmp", "blob"} => fd[q] \in {"tmp", "blob"}
      BY <1>0, <2>5, FdsKind DEF StoreRename, StoreUndoBlob
    <3>2. fd[p] = "none" /\ (Goto(p, "stMetaOpen") \/ Goto(p, "stUndoMeta"))
      BY <1>0, <2>5 DEF StoreRename, StoreUndoBlob
    <3> QED
      BY <1>0, <3>1, <3>2, OpensGoto
  <2>6. CASE StoreUndoMeta(p)
    <3>1. \A q \in Procs :
            /\ fd'[q] # "none" => fd[q] # "none"
            /\ fd'[q] \in {"tmp", "blob"} => fd[q] \in {"tmp", "blob"}
      BY <1>0, <2>6, FdsKind DEF StoreUndoMeta
    <3> QED
      BY <1>0, <2>6, <3>1, OpensDone DEF StoreUndoMeta
  <2> QED
    BY <1>1, <2>1, <2>2, <2>3, <2>4, <2>5, <2>6 DEF StoreStep
<1>2. CASE GetStep(p)
  <2>1. CASE GetFails(p)
    BY <1>0, <2>1, OpensDone DEF GetFails, Fail
  <2>2. CASE GetReadBlob(p) \/ GetReadMeta(p)
    BY <1>0, <2>2 DEF GetReadBlob, GetReadMeta, DescriptorInv, Opens
  <2>3. CASE GetCached(p) \/ GetUncached(p) \/ GetHitMeta(p) \/ GetReturn(p)
    BY <1>0, <2>3, OpensGoto DEF GetCached, GetUncached, GetHitMeta, GetReturn
  <2> QED
    BY <1>2, <2>1, <2>2, <2>3 DEF GetStep
<1>3. CASE UpdateStep(p)
  <2>1. CASE PinFails(p) \/ UpdateFails(p) \/ UpdateWrite(p)
    BY <1>0, <2>1, OpensDone DEF PinFails, UpdateFails, UpdateWrite, Fail, TypeOK
  <2>2. CASE PinHas(p) \/ PinGet(p) \/ UpdateRead(p)
    BY <1>0, <2>2, OpensGoto DEF PinHas, PinGet, UpdateRead
  <2>3. CASE UpdateOpen(p)
    BY <1>0, <2>3, OpensGoto DEF UpdateOpen, TypeOK
  <2> QED
    BY <1>3, <2>1, <2>2, <2>3 DEF UpdateStep
<1>4. CASE DeleteStep(p)
  <2>1. CASE DeleteRefused(p)
    BY <1>0, <2>1, OpensDone DEF DeleteRefused, Fail
  <2>2. CASE DeleteGet(p) \/ DeleteDecide(p)
    BY <1>0, <2>2, OpensGoto DEF DeleteGet, DeleteDecide
  <2>3. CASE DeleteUnlinkBlob(p) \/ DeleteUnlinkMeta(p)
    <3>1. \A q \in Procs :
            /\ fd'[q] # "none" => fd[q] # "none"
            /\ fd'[q] \in {"tmp", "blob"} => fd[q] \in {"tmp", "blob"}
      BY <1>0, <2>3, FdsKind DEF DeleteUnlinkBlob, DeleteUnlinkMeta
    <3>2. fd[p] = "none" /\ (Done(p) \/ UNCHANGED pc)
      BY <1>0, <2>3 DEF DeleteUnlinkBlob, DeleteUnlinkMeta, Unlinked
    <3>3. CASE UNCHANGED pc
      <4>1. pc[p] # "idle"
        BY <2>3 DEF DeleteUnlinkBlob, DeleteUnlinkMeta
      <4> QED
        BY <1>0, <3>1, <3>3, <4>1 DEF DescriptorInv, Opens
    <3> QED
      BY <1>0, <3>1, <3>2, <3>3, OpensDone
  <2> QED
    BY <1>4, <2>1, <2>2, <2>3 DEF DeleteStep
<1>5. CASE StoreFault(p)
  BY <1>0, <1>5, OpensGoto DEF StoreFault, TypeOK
<1>6. CASE UpdateFault(p)
  BY <1>0, <1>6, OpensDone DEF UpdateFault, TypeOK
<1> QED
  BY <1>1, <1>2, <1>3, <1>4, <1>5, <1>6 DEF Step

\* Such a step keeps the invariant if it keeps what is said of c, and says
\* nothing to AtomicBlobStore of a c that is, or becomes, void.
LEMMA Frame ==
  ASSUME TypeOK, TypeOK', StoreInv, NEW p \in Procs, NEW c \in Cids, Local(p, c),
         cid[p] = c \/ pc[p] = "idle", DescriptorInv',
         c \notin doubled' => Good(c)'
  PROVE  /\ StoreInv'
         /\ c \in doubled' => [Promises!Next]_(Promises!vars)
<1>1. ASSUME NEW d \in Cids \ doubled', d # c PROVE Good(d)'
  <2>1. Good(d) /\ On(d)' = On(d) /\ p \notin On(d)
    BY <1>1 DEF StoreInv, Local, On
  <2>2. /\ Storing(d)' = Storing(d) /\ Writing(d)' = Writing(d)
        /\ \A q \in On(d) : q # p /\ cid[q] = d
    BY <2>1 DEF Storing, Writing, Local, On
  <2>3. CidOk(d)'
    BY <1>1, <2>1, <2>2 DEF Good, CidOk, Local
  <2>4. ASSUME NEW q \in On(d) PROVE RequestClean(q)'
    <3>1. /\ q \in Procs \ {p} /\ cid[q] = d /\ RequestClean(q)
          /\ pc'[q] = pc[q] /\ cid'[q] = d /\ data'[q] = data[q] /\ fd'[q] = fd[q]
          /\ q \in overtaken => q \in overtaken'
      BY <1>1, <2>1, <2>2, <2>4 DEF Good, Local, On
    <3>2. /\ tmp'[d] = tmp[d] /\ blob'[d] = blob[d] /\ (d \in acked' <=> d \in acked)
          /\ Storing(d) \subseteq overtaken => Storing(d)' \subseteq overtaken'
      BY <1>1, <2>1, <2>2 DEF Local, Storing, On
    <3> QED
      BY <3>1, <3>2 DEF RequestClean
  <2> QED
    BY <2>1, <2>3, <2>4 DEF Good
<1>2. StoreInv'
  BY <1>1 DEF StoreInv
<1>3. ASSUME c \in doubled' PROVE [Promises!Next]_(Promises!vars)
  <2> DEFINE present == {d \in Cids \ doubled : blob[d] = "full"}
  <2>1. doubled' = doubled \cup {c}
    BY <1>3 DEF Local
  <2>2. present' = present \ {c}
    BY <2>1 DEF Local
  <2>3. \A d \in Cids : d \in acked' \ doubled' <=> d \in acked \ doubled /\ d # c
    BY <2>1 DEF Local
  <2>4. acked \subseteq Cids /\ acked' \subseteq Cids
    BY DEF TypeOK
  <2>5. (acked \ doubled)' = (acked \ doubled) \ {c}
    BY <2>3, <2>4
  <2> QED
    BY <2>1, <2>2, <2>5 DEF Promises!Next, Promises!Void
<1> QED
  BY <1>2, <1>3

-----------------------------------------------------------------------------
(* The steps on a cid that is not doubled.                                   *)

\* A step that leaves the blob file and the promise alone, and neither moves a
\* store or a delete forward nor begins one.
LEMMA QuietStep ==
  ASSUME NEW c \in Cids, Good(c),
         tmp'[c] = tmp[c], blob'[c] = blob[c], c \in acked' <=> c \in acked,
         cache'[c] # "partial",
         \A q \in On(c)' :
           /\ data'[q] # "partial"
           /\ pc'[q] = "stWrite" => fd'[q] = "tmp"
           /\ pc'[q] \in StorePcs \cup {"dUnlink"} =>
                /\ pc'[q] = pc[q] /\ q \in On(c)
                /\ q \in overtaken => q \in overtaken'
  PROVE  Good(c)'
<1>1. CidOk(c)'
  BY DEF Good, CidOk, Writing, Storing
<1>2. ASSUME NEW q \in On(c)' PROVE RequestClean(q)'
  <2>1. cid'[q] = c
    BY DEF On
  <2>2. CASE pc'[q] \notin StorePcs \cup {"dUnlink"}
    BY <2>2 DEF RequestClean, StepsOnDisk, StorePcs
  <2>3. CASE pc'[q] \in StorePcs \cup {"dUnlink"}
    <3>1. q \in On(c) /\ cid[q] = c /\ RequestClean(q) /\ pc'[q] = pc[q]
          /\ (q \in overtaken => q \in overtaken')
      BY <2>3 DEF Good, On
    <3>2. \A r \in Storing(c)' : r \in Storing(c) /\ (r \in overtaken => r \in overtaken')
      BY DEF Storing
    <3> QED
      BY <2>1, <3>1, <3>2 DEF RequestClean
  <2> QED
    BY <2>2, <2>3
<1> QED
  BY <1>1, <1>2 DEF Good

\* A request is answered, or moves on within a get, a pin, an update or the
\* checks of a delete.
LEMMA QuietMove ==
  ASSUME TypeOK, NEW p \in Procs, NEW c \in Cids \ doubled, cid[p] = c, Good(c), DescriptorInv',
         Local(p, c), pc'[p] \notin StorePcs \cup {"dUnlink"},
         UNCHANGED <<tmp, blob, acked>>, cache'[c] # "partial",
         pc'[p] = "idle" \/ data'[p] # "partial",
         \A q \in Procs \ {p} : fd[q] = "tmp" => fd'[q] = "tmp"
  PROVE  Good(c)'
<1>1. ASSUME NEW q \in On(c)', q # p
      PROVE  /\ q \in On(c) /\ pc'[q] = pc[q] /\ data'[q] # "partial"
             /\ q \in overtaken => q \in overtaken'
             /\ pc'[q] = "stWrite" => fd'[q] = "tmp"
  <2>1. q \in On(c) /\ cid[q] = c /\ pc'[q] = pc[q] /\ data'[q] = data[q]
    BY <1>1 DEF Local, On
  <2> QED
    BY <1>1, <2>1 DEF Good, RequestClean, Local, On
<1>2. p \in On(c)' => data'[p] # "partial"
  BY DEF On
<1>3. pc'[p] # "stWrite"
  BY DEF StorePcs
<1> QED
  BY <1>1, <1>2, <1>3, QuietStep

LEMMA GetStepOk ==
  ASSUME TypeOK, NEW p \in Procs, GetStep(p), NEW c \in Cids \ doubled, cid[p] = c, Good(c),
         DescriptorInv', Local(p, c)
  PROVE  Good(c)' /\ UNCHANGED <<blob, acked, doubled>>
<1> USE DEF disk, history
<1>0. cache[c] # "partial" /\ blob[c] # "partial" /\ data[p] # "partial" /\ p \in On(c)
  BY DEF Good, CidOk, RequestClean, On, GetStep, GetCached, GetUncached, GetHitMeta,
     GetReadBlob, GetReadMeta, GetFails, GetReturn
<1>1. UNCHANGED <<tmp, blob, acked, doubled, fd>>
  BY DEF GetStep, GetCached, GetUncached, GetHitMeta, GetReadBlob, GetReadMeta,
     GetFails, GetReturn, Fail
<1>2. cache'[c] # "partial"
  BY <1>0 DEF GetStep, GetCached, GetUncached, GetHitMeta, GetReadBlob, GetReadMeta,
     GetFails, GetReturn, Fail, CacheSets
<1>3. pc'[p] \in {"idle", "gHitMeta", "gRead", "uRead"}
  BY DEF GetStep, GetCached, GetUncached, GetHitMeta, GetReadBlob, GetReadMeta,
     GetFails, GetReturn, Fail, Done, Goto, TypeOK
<1>4. data'[p] # "partial"
  BY <1>0 DEF GetStep, GetCached, GetUncached, GetHitMeta, GetReadBlob, GetReadMeta,
     GetFails, GetReturn, Fail, Done, TypeOK
<1> QED
  BY <1>1, <1>2, <1>3, <1>4, QuietMove DEF StorePcs

LEMMA UpdateStepOk ==
  ASSUME TypeOK, NEW p \in Procs, UpdateStep(p) \/ UpdateFault(p),
         NEW c \in Cids \ doubled, cid[p] = c, Good(c), DescriptorInv', Local(p, c)
  PROVE  Good(c)' /\ UNCHANGED <<blob, acked, doubled>>
<1> USE DEF disk, history, locals
<1>0. cache[c] # "partial" /\ data[p] # "partial"
  BY DEF Good, CidOk, RequestClean, On, UpdateStep, PinHas, PinGet, PinFails,
     UpdateRead, UpdateFails, UpdateOpen, UpdateWrite, UpdateFault
<1>1. UNCHANGED <<tmp, blob, acked, doubled, cache>> /\ \A q \in Procs \ {p} : fd'[q] = fd[q]
  BY DEF UpdateStep, PinHas, PinGet, PinFails, UpdateRead, UpdateFails, UpdateOpen,
     UpdateWrite, UpdateFault, Fail, TypeOK
<1>2. pc'[p] \in {"idle", "pGet", "uRead", "uOpen", "uWrite"}
  BY DEF UpdateStep, PinHas, PinGet, PinFails, UpdateRead, UpdateFails, UpdateOpen,
     UpdateWrite, UpdateFault, Fail, Done, Goto, TypeOK
<1>3. pc'[p] = "idle" \/ data'[p] = data[p]
  BY DEF UpdateStep, PinHas, PinGet, PinFails, UpdateRead, UpdateFails, UpdateOpen,
     UpdateWrite, UpdateFault, Fail, Done, TypeOK
<1> QED
  BY <1>0, <1>1, <1>2, <1>3, QuietMove DEF StorePcs

LEMMA DeleteStepOk ==
  ASSUME TypeOK, NEW p \in Procs, DeleteStep(p), NEW c \in Cids \ doubled,
         cid[p] = c, Good(c), DescriptorInv, DescriptorInv', Local(p, c)
  PROVE  Good(c)' /\ [Promises!Next]_(Promises!vars)
<1> USE DEF disk, history, locals
<1>0. /\ c \in Cids /\ p \in On(c) /\ RequestClean(p) /\ CidOk(c)
      /\ UNCHANGED doubled /\ \A q \in On(c) : RequestClean(q)
  BY DEF Good, On, DeleteStep, DeleteGet, DeleteRefused, DeleteDecide,
     DeleteUnlinkBlob, DeleteUnlinkMeta, Fail
<1>1. CASE DeleteGet(p) \/ DeleteRefused(p)
  <2>1. /\ UNCHANGED <<tmp, blob, acked, cache, fd>> /\ pc'[p] \in {"idle", "dCheck"}
        /\ pc'[p] = "idle" \/ data'[p] = data[p]
    BY <1>1 DEF DeleteGet, DeleteRefused, Fail, Done, Goto, TypeOK
  <2> QED
    BY <1>0, <2>1, QuietMove DEF StorePcs, CidOk, RequestClean, Promises!vars
<1>2. CASE DeleteDecide(p)
  <2>1. /\ acked' = acked \ {c} /\ UNCHANGED <<blob, cid, tmp, fd, data>>
        /\ cache'[c] = "none"
        /\ \A q \in Procs : pc'[q] = IF q = p THEN "dUnlink" ELSE pc[q]
        /\ overtaken' = overtaken \cup Storing(c) \cup Pinning(c)
    BY <1>0, <1>2 DEF DeleteDecide, Goto, TypeOK
  <2>2. On(c)' = On(c) /\ Storing(c)' \subseteq Storing(c) /\ Writing(c)' \subseteq Writing(c)
    BY <1>0, <2>1 DEF On, Storing, Writing, StorePcs
  <2>3. CidOk(c)'
    BY <1>0, <2>1, <2>2 DEF CidOk
  <2>4. ASSUME NEW q \in On(c) PROVE RequestClean(q)'
    <3>1. RequestClean(q) /\ cid[q] = c /\ q \in Procs
      BY <1>0, <2>4 DEF On
    <3> QED
      BY <2>1, <2>2, <3>1 DEF RequestClean, StepsOnDisk
  <2>5. Promises!GiveUp(c)
    BY <1>0, <2>1 DEF Promises!GiveUp
  <2> QED
    BY <1>0, <2>2, <2>3, <2>4, <2>5 DEF Good, Promises!Next
<1>3. CASE DeleteUnlinkBlob(p)
  <2>1. c \notin acked /\ Storing(c) \subseteq overtaken
    BY <1>0, <1>3 DEF DeleteUnlinkBlob, RequestClean
  <2>2. UNCHANGED <<acked, tmp, cache>> /\ blob' = [blob EXCEPT ![c] = "absent"]
        /\ \A q \in Procs : fd[q] = "tmp" => fd'[q] = "tmp"
    BY <1>3 DEF DeleteUnlinkBlob, Fds, TypeOK
  <2>3. /\ pc[p] = "dUnlink"
        /\ pc'[p] = "idle" \/ (pc'[p] = pc[p] /\ cid'[p] = c /\ data'[p] = data[p])
    BY <1>3 DEF DeleteUnlinkBlob, Unlinked, Done, TypeOK
  <2>4. ASSUME NEW q \in On(c)'
        PROVE  /\ q \in On(c) /\ pc'[q] = pc[q] /\ cid'[q] = c /\ data'[q] = data[q]
               /\ q # p => (q \in overtaken => q \in overtaken')
    BY <1>0, <2>3, <2>4 DEF On, Local
  <2>5. p \notin Storing(c)' /\ Storing(c)' \subseteq Storing(c) /\ Writing(c)' \subseteq Writing(c)
    BY <2>3, <2>4 DEF Storing, Writing, On, StorePcs
  <2>6. Storing(c)' \subseteq overtaken'
    BY <2>1, <2>4, <2>5 DEF Storing
  <2>7. CidOk(c)'
    BY <1>0, <2>1, <2>2, <2>5 DEF CidOk, TypeOK
  <2>8. ASSUME NEW q \in On(c)' PROVE RequestClean(q)'
    <3>1. RequestClean(q) /\ cid[q] = c /\ q \in Procs
      BY <1>0, <2>4, <2>8 DEF On
    <3>2. pc'[q] \in {"stMetaOpen", "stMetaWrite"} => q \in overtaken'
      BY <2>6, <2>8 DEF Storing, StorePcs
    <3> QED
      BY <2>1, <2>2, <2>4, <2>6, <2>8, <3>1, <3>2 DEF RequestClean
  <2>9. Promises!Remove(c)
    BY <1>0, <2>1, <2>2 DEF Promises!Remove, TypeOK
  <2> QED
    BY <1>0, <2>7, <2>8, <2>9 DEF Good, Promises!Next
<1>4. CASE DeleteUnlinkMeta(p)
  <2>1. /\ UNCHANGED <<tmp, blob, acked, cache>>
        /\ \A q \in Procs : fd[q] = "tmp" => fd'[q] = "tmp"
    BY <1>4 DEF DeleteUnlinkMeta, Fds, TypeOK
  <2>2. CASE pc'[p] = "idle"
    BY <1>0, <2>1, <2>2, QuietMove DEF StorePcs, CidOk, Promises!vars
  <2>3. CASE UNCHANGED <<pc, cid, data, overtaken>>
    <3>1. On(c)' = On(c)
      BY <2>3 DEF On
    <3>2. Good(c)'
      BY <1>0, <2>1, <2>3, <3>1, QuietStep DEF RequestClean, CidOk, On
    <3> QED
      BY <1>0, <2>1, <3>2 DEF Promises!vars
  <2> QED
    BY <1>4, <2>2, <2>3 DEF DeleteUnlinkMeta, Unlinked, Done, TypeOK
<1> QED
  BY <1>1, <1>2, <1>3, <1>4 DEF DeleteStep

\* What a store does, when it is the only one past its look for the blob
LEMMA StoreStepOk ==
  ASSUME TypeOK, NEW p \in Procs, StoreStep(p) \/ StoreFault(p),
         NEW c \in Cids \ doubled', cid[p] = c, c \notin doubled, Good(c),
         DescriptorInv', Local(p, c)
  PROVE  Good(c)' /\ [Promises!Next]_(Promises!vars)
<1> USE DEF disk, history, locals
<1>0. /\ p \in On(c) /\ p \in Storing(c) /\ pc[p] \in StorePcs /\ RequestClean(p)
      /\ CidOk(c) /\ \A q \in On(c) : RequestClean(q)
  BY DEF Good, On, Storing, StoreStep, StoreFull, StoreExists, StoreNew, StoreOpen,
     StoreWrite, StoreRename, StoreRenameFails, StoreMetaOpen, StoreMetaWrite,
     StoreUndoBlob, StoreUndoMeta, StoreFault, StorePcs
<1>1. CASE StoreFull(p)
  <2>1. UNCHANGED <<tmp, blob, acked, doubled, cache, fd>> /\ pc'[p] = "idle"
    BY <1>1 DEF StoreFull, Fail, Done, TypeOK
  <2> QED
    BY <1>0, <2>1, QuietMove DEF CidOk, StorePcs, Promises!vars
<1> SUFFICES ASSUME ~StoreFull(p) PROVE Good(c)' /\ [Promises!Next]_(Promises!vars)
  BY <1>1
<1>2. Writing(c) \subseteq {p}
  <2>1. CASE StoreExists(p) \/ StoreNew(p)
    BY <2>1 DEF StoreExists, StoreNew, Pass
  <2>2. CASE pc[p] # "stHas"
    BY <1>0, <2>2 DEF CidOk, Writing
  <2> QED
    BY <2>1, <2>2 DEF StoreStep, StoreExists, StoreNew, StoreOpen, StoreWrite,
       StoreRename, StoreRenameFails, StoreMetaOpen, StoreMetaWrite, StoreUndoBlob,
       StoreUndoMeta, StoreFault
<1>3. UNCHANGED doubled
  BY DEF Local
<1>4. UNCHANGED cache
  BY DEF StoreStep, StoreExists, StoreNew, StoreOpen, StoreWrite, StoreRename,
     StoreRenameFails, StoreMetaOpen, StoreMetaWrite, StoreUndoBlob, StoreUndoMeta,
     StoreFault
<1>5. ASSUME NEW q \in On(c)', q # p
      PROVE  /\ q \in On(c) /\ q \notin Writing(c) /\ RequestClean(q) /\ cid'[q] = c
             /\ pc'[q] = pc[q] /\ data'[q] = data[q]
             /\ q \in overtaken => q \in overtaken'
  BY <1>0, <1>2, <1>5 DEF On, Local
<1>6. Writing(c)' \subseteq {p} /\ Storing(c)' \subseteq Storing(c)
  BY <1>0, <1>5 DEF Writing, Storing
\* the other requests on c
<1>7. ASSUME NEW q \in On(c)', q # p,
             c \in acked' => c \in acked \/ p \notin overtaken,
             p \in overtaken => p \in overtaken' \/ p \notin Storing(c)'
      PROVE  RequestClean(q)'
  <2>1. pc[q] \notin StorePcs \/ pc[q] = "stHas"
    BY <1>5, <1>7 DEF Writing, Storing
  <2>2. pc[q] = "dUnlink" => c \notin acked' /\ Storing(c)' \subseteq overtaken'
    <3> SUFFICES ASSUME pc[q] = "dUnlink"
                 PROVE  c \notin acked' /\ Storing(c)' \subseteq overtaken'
      OBVIOUS
    <3>1. c \notin acked /\ Storing(c) \subseteq overtaken
      BY <1>5, <1>7 DEF RequestClean, On
    <3>2. ASSUME NEW r \in Storing(c)', r # p PROVE r \in overtaken'
      BY <1>5, <1>6, <3>1, <3>2 DEF Storing
    <3> QED
      BY <1>0, <1>7, <3>1, <3>2
  <2> QED
    BY <1>5, <1>7, <2>1, <2>2 DEF RequestClean, StepsOnDisk, StorePcs, On
\* the request stays on its way
<1>8. ASSUME NEW l \in StorePcs, Goto(p, l), UNCHANGED <<acked, cid, data>>,
             p \in overtaken => p \in overtaken', blob'[c] # "partial",
             c \in acked => blob'[c] = "full",
             l = "stWrite" => fd'[p] = "tmp",
             l = "stRename" => tmp'[c] = "full",
             l \in StepsOnDisk => c \notin acked,
             l \in {"stMetaOpen", "stMetaWrite"} => blob'[c] = "full" \/ p \in overtaken'
      PROVE  Good(c)'
  <2>1. pc'[p] = l /\ cid'[p] = c /\ data'[p] # "partial"
    BY <1>0, <1>8 DEF Goto, TypeOK, RequestClean
  <2>2. RequestClean(p)'
    BY <1>8, <2>1 DEF RequestClean, StorePcs
  <2>3. CidOk(c)'
    BY <1>0, <1>4, <1>6, <1>8 DEF CidOk
  <2> QED
    BY <1>7, <1>8, <2>2, <2>3 DEF Good
\* the request is answered
<1>9. ASSUME Done(p), blob'[c] = blob[c],
             acked' = acked \/ (acked' = acked \cup {c} /\ p \notin overtaken /\ blob[c] = "full")
      PROVE  Good(c)'
  <2>1. pc'[p] = "idle"
    BY <1>9 DEF Done, TypeOK
  <2>2. p \notin On(c)' /\ p \notin Storing(c)'
    BY <2>1 DEF On, Storing
  <2>3. CidOk(c)'
    BY <1>0, <1>4, <1>6, <1>9 DEF CidOk
  <2> QED
    BY <1>7, <1>9, <2>2, <2>3 DEF Good
<1>10. CASE StoreExists(p)
  <2>1. blob[c] = "full" /\ UNCHANGED blob /\ Done(p)
    BY <1>0, <1>10 DEF StoreExists, AckStore, CidOk, TypeOK, FileState
  <2>2. acked' = IF p \in overtaken THEN acked ELSE acked \cup {c}
    BY <1>10 DEF StoreExists, AckStore
  <2>3. Good(c)'
    BY <1>9, <2>1, <2>2
  <2>4. CASE p \in overtaken
    BY <1>3, <2>1, <2>2, <2>3, <2>4 DEF Promises!vars
  <2>5. CASE p \notin overtaken
    BY <1>3, <2>1, <2>2, <2>3, <2>5 DEF Promises!Next, Promises!Promise
  <2> QED
    BY <2>4, <2>5
<1>11. CASE StoreNew(p) \/ StoreOpen(p) \/ StoreMetaOpen(p) \/ StoreRenameFails(p)
            \/ StoreFault(p)
  <2>1. UNCHANGED <<blob, acked, cid, data>> /\ (p \in overtaken => p \in overtaken')
    BY <1>11 DEF StoreNew, StoreOpen, StoreMetaOpen, StoreRenameFails, StoreFault
  <2>2. CASE StoreNew(p)
    <3>1. c \notin acked
      BY <1>0, <2>2 DEF StoreNew, CidOk
    <3> QED
      BY <1>0, <1>3, <1>8, <2>1, <2>2, <3>1
         DEF StoreNew, CidOk, StorePcs, Promises!vars
  <2>3. CASE StoreOpen(p)
    BY <1>0, <1>3, <1>8, <2>1, <2>3
       DEF StoreOpen, CidOk, RequestClean, StepsOnDisk, StorePcs, TypeOK, Promises!vars
  <2>4. CASE StoreMetaOpen(p)
    BY <1>0, <1>3, <1>8, <2>1, <2>4
       DEF StoreMetaOpen, CidOk, RequestClean, StepsOnDisk, StorePcs, Promises!vars
  <2>5. CASE StoreRenameFails(p) \/ StoreFault(p)
    <3>1. c \notin acked /\ Goto(p, "stUndoBlob")
      BY <1>0, <2>5 DEF StoreRenameFails, StoreFault, RequestClean, StepsOnDisk
    <3> QED
      BY <1>0, <1>3, <1>8, <2>1, <3>1 DEF CidOk, StorePcs, Promises!vars
  <2> QED
    BY <1>11, <2>2, <2>3, <2>4, <2>5
<1>12. CASE StoreWrite(p)
  <2>1. fd[p] = "tmp" /\ c \notin acked
    BY <1>0, <1>12 DEF StoreWrite, RequestClean, StepsOnDisk
  <2>2. UNCHANGED <<blob, acked, cid, data, overtaken>> /\ tmp'[c] = "full"
        /\ Goto(p, "stRename")
    BY <1>12, <2>1 DEF StoreWrite, TypeOK
  <2> QED
    BY <1>0, <1>3, <1>8, <2>1, <2>2 DEF CidOk, StorePcs, Promises!vars
<1>13. CASE StoreRename(p)
  <2>1. /\ blob' = [blob EXCEPT ![c] = "full"] /\ c \notin acked
        /\ UNCHANGED <<acked, cid, data, overtaken>> /\ Goto(p, "stMetaOpen")
    BY <1>0, <1>13 DEF StoreRename, RequestClean, StepsOnDisk
  <2>2. blob'[c] = "full"
    BY <2>1 DEF TypeOK
  <2>3. Good(c)'
    BY <1>0, <1>8, <2>1, <2>2 DEF StorePcs
  <2>4. Promises!Put(c)
    BY <1>3, <2>1 DEF Promises!Put, TypeOK
  <2> QED
    BY <2>3, <2>4 DEF Promises!Next
<1>14. CASE StoreMetaWrite(p)
  <2>1. /\ blob[c] = "full" \/ p \in overtaken
        /\ UNCHANGED blob /\ Done(p)
        /\ acked' = IF p \in overtaken THEN acked ELSE acked \cup {c}
    BY <1>0, <1>14 DEF StoreMetaWrite, AckStore, RequestClean
  <2>2. Good(c)'
    BY <1>9, <2>1
  <2>3. CASE p \in overtaken
    BY <1>3, <2>1, <2>2, <2>3 DEF Promises!vars
  <2>4. CASE p \notin overtaken
    BY <1>3, <2>1, <2>2, <2>4 DEF Promises!Next, Promises!Promise
  <2> QED
    BY <2>3, <2>4
<1>15. CASE StoreUndoBlob(p)
  <2>1. /\ blob' = [blob EXCEPT ![c] = "absent"] /\ c \notin acked
        /\ UNCHANGED <<acked, cid, data, overtaken>> /\ Goto(p, "stUndoMeta")
    BY <1>0, <1>15 DEF StoreUndoBlob, RequestClean, StepsOnDisk
  <2>2. blob'[c] = "absent"
    BY <2>1 DEF TypeOK
  <2>3. Good(c)'
    BY <1>0, <1>8, <2>1, <2>2 DEF StorePcs
  <2>4. Promises!Remove(c)
    BY <1>3, <2>1 DEF Promises!Remove, TypeOK
  <2> QED
    BY <2>3, <2>4 DEF Promises!Next
<1>16. CASE StoreUndoMeta(p)
  <2>1. UNCHANGED <<blob, acked>> /\ Done(p)
    BY <1>16 DEF StoreUndoMeta
  <2> QED
    BY <1>3, <1>9, <2>1 DEF Promises!vars
<1> QED
  BY <1>10, <1>11, <1>12, <1>13, <1>14, <1>15, <1>16 DEF StoreStep

LEMMA BeginOk ==
  ASSUME TypeOK, TypeOK', StoreInv, NEW p \in Procs, NEW c \in Cids, NEW op \in Ops,
         Begin(p, c, op)
  PROVE  StoreInv' /\ UNCHANGED <<blob, acked, doubled>>
<1>1. /\ pc[p] = "idle" /\ pc'[p] = FirstPc[op] /\ cid'[p] = c
      /\ \A q \in Procs \ {p} : pc'[q] = pc[q] /\ cid'[q] = cid[q]
      /\ UNCHANGED <<tmp, blob, cache, fd, data, acked, doubled>>
      /\ \A q \in overtaken : q \in overtaken'
      /\ op = "store" /\ Deleting(c) # {} => p \in overtaken'
  BY DEF Begin, Goto, TypeOK, disk
<1>2. /\ pc'[p] \in {"stHas", "gStart", "pHas", "dGet"}
      /\ pc'[p] = "stHas" => op = "store"
  BY <1>1, OpsAssumption DEF FirstPc
<1>3. DescriptorInv'
  BY <1>1, <1>2 DEF StoreInv, DescriptorInv, Opens
<1>4. Local(p, c)
  BY <1>1 DEF Local
<1>5. ASSUME c \notin doubled PROVE Good(c)'
  <2>0. CidOk(c) /\ \A q \in On(c) : RequestClean(q)
    BY <1>5 DEF StoreInv, Good
  <2>1. /\ On(c)' = On(c) \cup {p} /\ Storing(c)' \subseteq Storing(c) \cup {p}
        /\ Writing(c)' \subseteq Writing(c)
    <3>1. On(c)' = On(c) \cup {p}
      BY <1>1, <1>2 DEF On
    <3>2. \A q \in Storing(c)' : q = p \/ q \in Storing(c)
      BY <1>1 DEF Storing, On
    <3>3. ASSUME NEW q \in Writing(c)' PROVE q \in Writing(c)
      <4>1. q \in Storing(c)' /\ q \in Procs /\ pc'[q] \in StorePcs /\ pc'[q] # "stHas"
        BY <3>3 DEF Writing, Storing, On
      <4>2. q # p
        BY <1>2, <4>1 DEF StorePcs
      <4>3. q \in Storing(c) /\ pc[q] # "stHas"
        BY <1>1, <3>2, <4>1, <4>2
      <4> QED
        BY <4>3 DEF Writing
    <3> QED
      BY <3>1, <3>2, <3>3
  <2>2. CidOk(c)'
    BY <1>1, <2>0, <2>1 DEF CidOk
  <2>3. ASSUME NEW q \in On(c), q # p PROVE RequestClean(q)'
    <3>1. RequestClean(q) /\ pc'[q] = pc[q] /\ cid'[q] = c /\ cid[q] = c /\ q \in Procs
      BY <1>1, <2>0, <2>3 DEF On
    <3>2. pc[q] = "dUnlink" => Storing(c)' \subseteq overtaken'
      <4>1. pc[q] = "dUnlink" => q \in Deleting(c) /\ Storing(c) \subseteq overtaken
        BY <2>3, <3>1 DEF Deleting, RequestClean
      <4>2. p \in Storing(c)' => op = "store"
        BY <1>1, <1>2 DEF Storing, StorePcs
      <4> QED
        BY <1>1, <2>1, <4>1, <4>2
    <3> QED
      BY <1>1, <3>1, <3>2 DEF RequestClean
  <2>4. RequestClean(p)'
    <3>1. data[p] = "none"
      BY <1>1 DEF StoreInv, DescriptorInv, Opens
    <3> QED
      BY <1>1, <1>2, <3>1 DEF RequestClean, StepsOnDisk
  <2> QED
    BY <2>1, <2>2, <2>3, <2>4 DEF Good
<1> QED
  BY <1>1, <1>3, <1>4, <1>5, Frame

\* Every step keeps the invariant, and is a step of AtomicBlobStore or none.
LEMMA StoreInvStep ==
  ASSUME TypeOK, TypeOK', StoreInv, [Next]_vars
  PROVE  StoreInv' /\ [Promises!Next]_(Promises!vars)
<1>1. ASSUME UNCHANGED <<blob, acked, doubled>>
      PROVE  [Promises!Next]_(Promises!vars)
  BY <1>1 DEF Promises!vars
<1>2. ASSUME NEW p \in Procs, NEW c \in Cids, NEW op \in Ops, Begin(p, c, op)
      PROVE  StoreInv' /\ [Promises!Next]_(Promises!vars)
  BY <1>1, <1>2, BeginOk
<1>3. ASSUME NEW p \in Procs, Step(p) \/ StoreFault(p) \/ UpdateFault(p)
      PROVE  StoreInv' /\ [Promises!Next]_(Promises!vars)
  <2>1. PICK c \in Cids : c = cid[p] /\ Local(p, c)
    BY <1>3, LocalSteps
  <2>2. DescriptorInv'
    BY <1>3, DescriptorStep DEF StoreInv
  <2>3. CASE c \in doubled'
    BY <2>1, <2>2, <2>3, Frame
  <2>4. CASE c \notin doubled'
    <3>1. c \in Cids \ doubled /\ c \in Cids \ doubled' /\ Good(c) /\ DescriptorInv
      BY <2>1, <2>4 DEF Local, StoreInv
    <3>2. Good(c)' /\ [Promises!Next]_(Promises!vars)
      BY <1>1, <1>3, <2>1, <2>2, <3>1, StoreStepOk, GetStepOk, UpdateStepOk, DeleteStepOk
         DEF Step
    <3> QED
      BY <2>1, <2>2, <3>2, Frame
  <2> QED
    BY <2>3, <2>4
<1>4. CASE Crash
  <2>1. /\ UNCHANGED <<blob, acked, doubled, tmp>> /\ \A c \in Cids : cache'[c] = "none"
        /\ \A p \in Procs : pc'[p] = "idle" /\ fd'[p] = "none" /\ data'[p] = "none"
    BY <1>4 DEF Crash, disk
  <2>2. DescriptorInv'
    BY <2>1 DEF DescriptorInv, Opens
  <2>3. ASSUME NEW c \in Cids \ doubled PROVE Good(c)'
    <3>1. On(c)' = {} /\ Writing(c)' = {}
      BY <2>1 DEF On, Writing, Storing
    <3> QED
      BY <2>1, <2>3, <3>1 DEF StoreInv, Good, CidOk
  <2> QED
    BY <1>1, <2>1, <2>2, <2>3 DEF StoreInv
<1>5. CASE UNCHANGED vars
  BY <1>1, <1>5 DEF vars, StoreInv, DescriptorInv, Opens, Good, CidOk, RequestClean,
     On, Storing, Writing
<1> QED
  BY <1>2, <1>3, <1>4, <1>5 DEF Next

LEMMA StoreInvInit == Init => StoreInv /\ Promises!Init
  BY DEF Init, StoreInv, DescriptorInv, Opens, Good, CidOk, RequestClean, On,
     Storing, Writing, Promises!Init

\* No request, overlap, fault or crash lets a reader or the cache see a blob that
\* is not whole, unless two stores of its cid were past their look for it at once.
THEOREM AtomicBlobs == Spec => []BlobAtomic
<1>1. TypeOK /\ TypeOK' /\ StoreInv /\ [Next]_vars => StoreInv'
  BY StoreInvStep
<1>2. StoreInv => BlobAtomic
  BY DEF StoreInv, Good, CidOk, BlobAtomic
<1> QED
  BY <1>1, <1>2, StoreInvInit, Types, PTL DEF Spec

\* The temp file, the rename, the two unlinks and the clean-up implement
\* AtomicBlobStore: what was acknowledged is on disk, across faults and crashes,
\* until a delete of it is decided or two stores of it write at once.
THEOREM Refinement == Spec => KeepsPromises
<1>1. TypeOK /\ TypeOK' /\ StoreInv /\ [Next]_vars => StoreInv'
  BY StoreInvStep
<1>2. TypeOK /\ TypeOK' /\ StoreInv /\ [Next]_vars => [Promises!Next]_(Promises!vars)
  BY StoreInvStep
<1> QED
  BY <1>1, <1>2, StoreInvInit, Types, PTL DEF Spec, KeepsPromises, Promises!Spec

-----------------------------------------------------------------------------
(* Settled pins.                                                             *)

\* A request on its way to rewriting metadata; one that removes files; one that
\* removes or writes them.
RewritePcs == {"pHas", "pGet"} \cup UpdatePcs
RemovePcs == {"dUnlink", "stUndoBlob", "stUndoMeta"}
FilePcs == {"dUnlink"} \cup (StorePcs \ {"stHas"})

\* A pin that no removal overtakes shares its cid with none, has its blob, and
\* writes to the metadata file of its cid.
PinOk(p) ==
  /\ upd[p] # "touch" => pc[p] \in RewritePcs
  /\ upd[p] = "pin" /\ pc[p] \in {"uOpen", "uWrite"} => IsPinned(seen[p])
  /\ upd[p] = "pin" /\ p \notin overtaken =>
       /\ \A q \in Procs : cid[q] = cid[p] => pc[q] \notin RemovePcs
       /\ pc[p] # "pHas" => blob[cid[p]] # "absent"
       /\ pc[p] = "uWrite" => fd[p] = "meta"

\* What a request on a settled cid may be doing
RequestOk(c, p) ==
  cid[p] = c =>
    /\ pc[p] \notin FilePcs
    /\ pc[p] \in RewritePcs => upd[p] # "unpin"
    /\ pc[p] \in {"uOpen", "uWrite"} => IsPinned(seen[p])

\* A settled cid has its blob, so that no store of it writes, and its metadata
\* says that it is pinned if it can be read.
FilesOk(c) == blob[c] # "absent" /\ (Parses(c) => IsPinned(meta[c]))

ShieldOk(p) == p \in shielded => pc[p] \in {"dGet", "dCheck"} /\ cid[p] \in settled

HonourInv ==
  /\ \A p \in Procs : PinOk(p) /\ ShieldOk(p)
  /\ \A c \in settled : FilesOk(c) /\ \A p \in Procs : RequestOk(c, p)

\* What a step of p leaves to the other requests
Beside(p) ==
  /\ \A q \in Procs \ {p} :
       /\ pc'[q] = pc[q] /\ cid'[q] = cid[q] /\ upd'[q] = upd[q] /\ seen'[q] = seen[q]
       /\ q \in overtaken => q \in overtaken'
       /\ q \in shielded' => q \in shielded /\ cid[q] \in settled'
       /\ fd[q] = "meta" => fd'[q] = "meta" \/ (cid[q] = cid[p] /\ pc[p] \in RemovePcs)
  /\ \A c \in Cids : blob[c] # "absent" =>
       blob'[c] # "absent" \/ (c = cid[p] /\ pc[p] \in RemovePcs)
  /\ \A c \in Cids : c \in settled /\ c \in settled' =>
       (Parses(c)' => IsPinned(meta'[c]))
  /\ pc'[p] \in RemovePcs =>
       /\ cid'[p] = cid[p]
       /\ pc[p] \in RemovePcs
          \/ \A q \in Procs \ {p} : upd[q] = "pin" /\ cid[q] = cid[p] => q \in overtaken'

LEMMA HonourFrame ==
  ASSUME TypeOK, HonourInv, NEW p \in Procs, Beside(p),
         PinOk(p)', ShieldOk(p)',
         \A c \in settled' : RequestOk(c, p)',
         \A c \in settled' \ settled : FilesOk(c)' /\ \A q \in Procs : RequestOk(c, q)'
  PROVE  HonourInv'
<1>1. ASSUME NEW q \in Procs \ {p} PROVE PinOk(q)'
  <2>1. PinOk(q) /\ (upd[q] # "touch" => cid[q] \in Cids)
    BY DEF HonourInv, PinOk, RewritePcs, UpdatePcs, TypeOK
  <2>2. /\ pc'[q] = pc[q] /\ cid'[q] = cid[q] /\ upd'[q] = upd[q] /\ seen'[q] = seen[q]
        /\ q \in overtaken => q \in overtaken'
    BY DEF Beside
  <2>3. ASSUME upd[q] = "pin", q \notin overtaken'
        PROVE  /\ \A r \in Procs : cid'[r] = cid[q] => pc'[r] \notin RemovePcs
               /\ pc[q] # "pHas" => blob'[cid[q]] # "absent"
               /\ pc[q] = "uWrite" => fd'[q] = "meta"
    <3>1. q \notin overtaken /\ \A r \in Procs : cid[r] = cid[q] => pc[r] \notin RemovePcs
      BY <2>1, <2>2, <2>3 DEF PinOk
    <3>2. \A r \in Procs : cid'[r] = cid[q] => pc'[r] \notin RemovePcs
      BY <2>3, <3>1 DEF Beside
    <3> QED
      BY <2>1, <2>3, <3>1, <3>2 DEF Beside, PinOk
  <2> QED
    BY <2>1, <2>2, <2>3 DEF PinOk
<1>2. ASSUME NEW q \in Procs \ {p} PROVE ShieldOk(q)'
  BY DEF HonourInv, ShieldOk, Beside
<1>3. ASSUME NEW c \in settled', c \in settled
      PROVE  FilesOk(c)' /\ \A q \in Procs : RequestOk(c, q)'
  <2>1. FilesOk(c) /\ c \in Cids /\ \A q \in Procs : RequestOk(c, q)
    BY <1>3 DEF HonourInv, TypeOK
  <2>2. blob'[c] # "absent"
    BY <2>1 DEF FilesOk, RequestOk, Beside, FilePcs, RemovePcs, StorePcs
  <2>3. \A q \in Procs \ {p} : RequestOk(c, q)'
    BY <2>1 DEF RequestOk, Beside
  <2> QED
    BY <1>3, <2>1, <2>2, <2>3 DEF FilesOk, Beside
<1> QED
  BY <1>1, <1>2, <1>3 DEF HonourInv

\* The answer of a request, with what its last call did to the files
LEMMA HonourDone ==
  ASSUME TypeOK, HonourInv, NEW p \in Procs, Done(p), Forget(p), UNCHANGED settled,
         \A q \in Procs \ {p} :
           fd[q] = "meta" => fd'[q] = "meta" \/ (cid[q] = cid[p] /\ pc[p] \in RemovePcs),
         \A c \in Cids : blob[c] # "absent" =>
           blob'[c] # "absent" \/ (c = cid[p] /\ pc[p] \in RemovePcs),
         \A c \in settled : Parses(c)' => IsPinned(meta'[c])
  PROVE  HonourInv'
<1>1. /\ pc'[p] = "idle" /\ upd'[p] = "touch" /\ p \notin shielded'
      /\ \A q \in Procs \ {p} :
           /\ pc'[q] = pc[q] /\ cid'[q] = cid[q] /\ upd'[q] = upd[q] /\ seen'[q] = seen[q]
           /\ (q \in overtaken => q \in overtaken') /\ (q \in shielded' => q \in shielded)
  BY DEF Done, Forget, TypeOK
<1>2. \A q \in Procs : ShieldOk(q)
  BY DEF HonourInv
<1>3. Beside(p)
  BY <1>1, <1>2 DEF Beside, ShieldOk, RemovePcs
<1>4. PinOk(p)' /\ ShieldOk(p)' /\ \A c \in settled' : RequestOk(c, p)'
  BY <1>1 DEF PinOk, ShieldOk, RequestOk, FilePcs, StorePcs, RewritePcs, UpdatePcs
<1> QED
  BY <1>3, <1>4, HonourFrame

LEMMA HonourFail ==
  ASSUME TypeOK, HonourInv, NEW p \in Procs, Fail(p)
  PROVE  HonourInv'
<1>1. Done(p) /\ Forget(p) /\ UNCHANGED <<blob, meta, fd, settled>>
  BY DEF Fail, disk
<1>2. \A c \in settled : Parses(c)' => IsPinned(meta'[c])
  BY <1>1 DEF HonourInv, FilesOk, Parses
<1> QED
  BY <1>1, <1>2, HonourDone

\* A request moves on.
LEMMA HonourGoto ==
  ASSUME TypeOK, HonourInv, NEW p \in Procs, NEW l \in Pcs, Goto(p, l),
         UNCHANGED <<cid, upd, overtaken, settled, shielded>>,
         \A q \in Procs \ {p} : seen'[q] = seen[q] /\ (fd[q] = "meta" => fd'[q] = "meta"),
         \A c \in Cids : blob[c] # "absent" =>
           blob'[c] # "absent" \/ (c = cid[p] /\ pc[p] \in RemovePcs),
         \A c \in settled : Parses(c)' => IsPinned(meta'[c]),
         l \in RemovePcs => pc[p] \in RemovePcs,
         PinOk(p)', ShieldOk(p)', \A c \in settled : RequestOk(c, p)'
  PROVE  HonourInv'
<1>1. \A q \in Procs \ {p} : pc'[q] = pc[q] /\ pc'[p] = l
  BY DEF Goto, TypeOK
<1>2. \A q \in Procs : ShieldOk(q)
  BY DEF HonourInv
<1>3. Beside(p)
  BY <1>1, <1>2 DEF Beside, ShieldOk, Goto, TypeOK
<1> QED
  BY <1>3, HonourFrame

LEMMA HonourStore ==
  ASSUME TypeOK, HonourInv, NEW p \in Procs, StoreStep(p) \/ StoreFault(p)
  PROVE  HonourInv'
<1> DEFINE c == cid[p]
<1>0. /\ c \in Cids /\ pc[p] \in StorePcs /\ upd[p] = "touch" /\ p \notin shielded
      /\ pc[p] # "stHas" => c \notin settled
      /\ settled \subseteq Cids
  <2>1. pc[p] \in StorePcs
    BY DEF StoreStep, StoreFull, StoreExists, StoreNew, StoreOpen, StoreWrite,
       StoreRename, StoreRenameFails, StoreMetaOpen, StoreMetaWrite,
       StoreUndoBlob, StoreUndoMeta, StoreFault, StorePcs
  <2> QED
    BY <2>1 DEF TypeOK, HonourInv, PinOk, ShieldOk, RequestOk, StorePcs, FilePcs,
       RewritePcs, UpdatePcs
<1>1. \A d \in settled : blob[d] # "absent" /\ (Parses(d) => IsPinned(meta[d]))
  BY DEF HonourInv, FilesOk
<1>2. CASE StoreFull(p)
  BY <1>2, HonourFail DEF StoreFull
<1>3. CASE StoreExists(p)
  BY <1>1, <1>3, HonourDone DEF StoreExists, AckStore, disk, Parses
<1>4. CASE StoreMetaWrite(p)
  <2>1. Done(p) /\ Forget(p) /\ UNCHANGED <<blob, settled>>
    BY <1>4 DEF StoreMetaWrite, AckStore
  <2>2. \A q \in Procs \ {p} : fd'[q] = fd[q]
    BY <1>4 DEF StoreMetaWrite, TypeOK
  <2>3. \A d \in settled : meta'[d] = meta[d]
    BY <1>0, <1>4 DEF StoreMetaWrite, TypeOK
  <2> QED
    BY <1>1, <2>1, <2>2, <2>3, HonourDone DEF Parses
<1>5. CASE StoreUndoMeta(p)
  <2>1. \A d \in settled : meta'[d] = meta[d]
    BY <1>0, <1>5 DEF StoreUndoMeta, TypeOK
  <2>2. \A q \in Procs : fd[q] = "meta" => fd'[q] = "meta" \/ cid[q] = c
    BY <1>5 DEF StoreUndoMeta, Fds, TypeOK
  <2> QED
    BY <1>1, <1>5, <2>1, <2>2, HonourDone DEF StoreUndoMeta, Parses, RemovePcs
<1>6. CASE StoreNew(p) \/ StoreOpen(p) \/ StoreWrite(p) \/ StoreRename(p)
           \/ StoreMetaOpen(p) \/ StoreUndoBlob(p)
  <2>1. PICK l \in StorePcs : Goto(p, l) /\ (l = "stUndoMeta" => pc[p] = "stUndoBlob")
                              /\ l # "stUndoBlob"
    BY <1>6 DEF StoreNew, StoreOpen, StoreWrite, StoreRename, StoreMetaOpen,
       StoreUndoBlob, StorePcs
  <2>2. UNCHANGED <<cid, upd, seen, overtaken, settled, shielded>>
    BY <1>6 DEF StoreNew, StoreOpen, StoreWrite, StoreRename, StoreMetaOpen,
       StoreUndoBlob, locals, history
  <2>3. c \notin settled
    <3>1. CASE StoreNew(p)
      BY <1>1, <3>1 DEF StoreNew
    <3> QED
      BY <1>0, <1>6, <3>1 DEF StoreOpen, StoreWrite, StoreRename, StoreMetaOpen,
         StoreUndoBlob
  <2>4. \A q \in Procs \ {p} : fd[q] = "meta" => fd'[q] = "meta"
    <3>1. CASE StoreNew(p) \/ StoreOpen(p) \/ StoreWrite(p) \/ StoreMetaOpen(p)
      BY <3>1 DEF StoreNew, StoreOpen, StoreWrite, StoreMetaOpen, TypeOK
    <3>2. CASE StoreRename(p) \/ StoreUndoBlob(p)
      BY <3>2 DEF StoreRename, StoreUndoBlob, Fds, TypeOK
    <3> QED
      BY <1>6, <3>1, <3>2
  <2>5. \A d \in settled : meta'[d] = meta[d]
    BY <1>0, <1>6, <2>3 DEF StoreNew, StoreOpen, StoreWrite, StoreRename,
       StoreMetaOpen, StoreUndoBlob, disk, TypeOK
  <2>6. \A d \in Cids : blob[d] # "absent" =>
          blob'[d] # "absent" \/ (d = c /\ pc[p] \in RemovePcs)
    BY <1>0, <1>6 DEF StoreNew, StoreOpen, StoreWrite, StoreRename, StoreMetaOpen,
       StoreUndoBlob, disk, TypeOK, RemovePcs
  <2>7. pc'[p] = l /\ l \in Pcs
    BY <2>1 DEF Goto, TypeOK, Pcs
  <2>8. PinOk(p)' /\ ShieldOk(p)' /\ \A d \in settled : RequestOk(d, p)'
    BY <1>0, <2>2, <2>3 DEF PinOk, ShieldOk, RequestOk
  <2>9. l \in RemovePcs => pc[p] \in RemovePcs
    BY <2>1 DEF RemovePcs, StorePcs
  <2>10. \A d \in settled : Parses(d)' => IsPinned(meta'[d])
    BY <1>1, <2>5 DEF Parses
  <2> QED
    BY <2>1, <2>2, <2>4, <2>6, <2>7, <2>8, <2>9, <2>10, HonourGoto
<1>7. CASE StoreRenameFails(p) \/ StoreFault(p)
  <2>1. c \notin settled
    BY <1>0, <1>7 DEF StoreRenameFails, StoreFault
  <2>2. /\ Goto(p, "stUndoBlob") /\ overtaken' = overtaken \cup Pinning(c)
        /\ UNCHANGED <<cid, upd, seen, meta, blob, settled, shielded>>
        /\ \A q \in Procs \ {p} : fd'[q] = fd[q]
    BY <1>7 DEF StoreRenameFails, StoreFault, disk, locals, TypeOK
  <2>3. \A q \in Procs : ShieldOk(q) /\ PinOk(q)
    BY DEF HonourInv
  <2>4. \A q \in Procs : upd[q] = "pin" /\ cid[q] = c => q \in overtaken'
    BY <2>2, <2>3 DEF Pinning, On, PinOk, RewritePcs, UpdatePcs
  <2>5. \A q \in Procs : pc'[q] = IF q = p THEN "stUndoBlob" ELSE pc[q]
    BY <2>2 DEF Goto, TypeOK
  <2>6. Beside(p)
    BY <1>1, <2>2, <2>3, <2>4, <2>5 DEF Beside, ShieldOk, Parses
  <2>7. PinOk(p)' /\ ShieldOk(p)' /\ \A d \in settled : RequestOk(d, p)'
    BY <1>0, <2>1, <2>2 DEF PinOk, ShieldOk, RequestOk
  <2> QED
    BY <2>2, <2>6, <2>7, HonourFrame
<1> QED
  BY <1>2, <1>3, <1>4, <1>5, <1>6, <1>7 DEF StoreStep

LEMMA HonourGet ==
  ASSUME TypeOK, HonourInv, NEW p \in Procs, GetStep(p)
  PROVE  HonourInv'
<1>0. upd[p] = "touch" /\ p \notin shielded
  BY DEF HonourInv, PinOk, ShieldOk, RewritePcs, UpdatePcs, GetStep, GetCached,
     GetUncached, GetHitMeta, GetReadBlob, GetReadMeta, GetFails, GetReturn, TypeOK
<1>1. \A d \in settled : Parses(d) => IsPinned(meta[d])
  BY DEF HonourInv, FilesOk
<1>2. CASE GetFails(p)
  BY <1>2, HonourFail DEF GetFails
<1>3. CASE ~GetFails(p)
  <2>1. /\ Goto(p, "gHitMeta") \/ Goto(p, "gRead") \/ Goto(p, "uRead") \/ UNCHANGED pc
        /\ pc[p] \in {"gStart", "gHitMeta", "gRead"}
        /\ UNCHANGED <<cid, upd, seen, overtaken, settled, shielded, fd, blob, meta>>
    BY <1>3 DEF GetStep, GetCached, GetUncached, GetHitMeta, GetReadBlob,
       GetReadMeta, GetReturn, disk, history
  <2>2. /\ pc'[p] \in {"gStart", "gHitMeta", "gRead", "uRead"}
        /\ \A q \in Procs \ {p} : pc'[q] = pc[q]
    BY <2>1 DEF Goto, TypeOK
  <2>3. \A q \in Procs : ShieldOk(q)
    BY DEF HonourInv
  <2>4. Beside(p)
    BY <1>1, <2>1, <2>2, <2>3 DEF Beside, ShieldOk, Parses, RemovePcs
  <2>5. PinOk(p)' /\ ShieldOk(p)' /\ \A d \in settled : RequestOk(d, p)'
    BY <1>0, <2>1, <2>2 DEF PinOk, ShieldOk, RequestOk, FilePcs, StorePcs
  <2> QED
    BY <2>1, <2>4, <2>5, HonourFrame
<1> QED
  BY <1>2, <1>3

LEMMA HonourUpdate ==
  ASSUME TypeOK, HonourInv, NEW p \in Procs, UpdateStep(p) \/ UpdateFault(p)
  PROVE  HonourInv'
<1>a. PICK c \in Cids : c = cid[p]
  BY DEF HonourInv, RewritePcs, UpdatePcs, UpdateStep, PinHas, PinGet, PinFails,
     UpdateRead, UpdateFails, UpdateOpen, UpdateWrite, UpdateFault, TypeOK
<1>0. /\ c = cid[p] /\ pc[p] \in RewritePcs /\ p \notin shielded /\ settled \subseteq Cids
      /\ PinOk(p) /\ upd[p] \in Updates
  BY <1>a DEF HonourInv, ShieldOk, RewritePcs, UpdatePcs, UpdateStep, PinHas, PinGet,
     PinFails, UpdateRead, UpdateFails, UpdateOpen, UpdateWrite, UpdateFault, TypeOK
<1>1. \A d \in settled : (Parses(d) => IsPinned(meta[d])) /\ RequestOk(d, p)
  BY DEF HonourInv, FilesOk
<1>2. CASE PinFails(p) \/ UpdateFails(p)
  BY <1>2, HonourFail DEF PinFails, UpdateFails
<1>3. CASE UpdateFault(p)
  <2>1. Done(p) /\ Forget(p) /\ UNCHANGED <<blob, meta, settled>>
        /\ \A q \in Procs \ {p} : fd'[q] = fd[q]
    BY <1>3 DEF UpdateFault, disk, TypeOK
  <2> QED
    BY <1>1, <2>1, HonourDone DEF Parses
<1>4. CASE PinHas(p) \/ PinGet(p)
  <2>1. PICK l \in {"pGet", "uRead"} : Goto(p, l)
    BY <1>4 DEF PinHas, PinGet
  <2>2. /\ UNCHANGED <<cid, upd, seen, overtaken, settled, shielded, fd, blob, meta>>
        /\ pc[p] \in {"pHas", "pGet"}
        /\ pc[p] = "pHas" => blob[c] # "absent"
        /\ pc'[p] = l /\ \A q \in Procs \ {p} : pc'[q] = pc[q]
    BY <1>0, <1>4, <2>1 DEF PinHas, PinGet, Goto, disk, locals, history, TypeOK
  <2>3. PinOk(p)'
    BY <1>0, <2>2 DEF PinOk, RewritePcs, UpdatePcs, RemovePcs
  <2>4. ShieldOk(p)' /\ \A d \in settled : RequestOk(d, p)'
    BY <1>0, <1>1, <2>2 DEF ShieldOk, RequestOk, RewritePcs, FilePcs, StorePcs, UpdatePcs
  <2>5. \A d \in settled : Parses(d)' => IsPinned(meta'[d])
    BY <1>1, <2>2 DEF Parses
  <2>6. l \in Pcs /\ l \notin RemovePcs
    BY DEF Pcs, UpdatePcs, RemovePcs
  <2> QED
    BY <2>1, <2>2, <2>3, <2>4, <2>5, <2>6, HonourGoto
<1>5. CASE UpdateRead(p)
  <2>1. /\ Goto(p, "uOpen") /\ pc[p] = "uRead" /\ Parses(c)
        /\ UNCHANGED <<cid, upd, overtaken, settled, shielded, fd, blob, meta>>
        /\ pc'[p] = "uOpen" /\ \A q \in Procs \ {p} : pc'[q] = pc[q] /\ seen'[q] = seen[q]
        /\ seen'[p] = Updated(meta[c], upd[p])
    BY <1>0, <1>5 DEF UpdateRead, MetaGood, Goto, disk, history, TypeOK
  <2>2. /\ upd[p] = "pin" => IsPinned(seen'[p])
        /\ upd[p] = "touch" /\ IsPinned(meta[c]) => IsPinned(seen'[p])
    BY <2>1 DEF Updated, IsPinned
  <2>3. PinOk(p)'
    BY <1>0, <2>1, <2>2 DEF PinOk, RewritePcs, UpdatePcs, RemovePcs
  <2>4. ShieldOk(p)' /\ \A d \in settled : RequestOk(d, p)'
    BY <1>0, <1>1, <2>1, <2>2
       DEF ShieldOk, RequestOk, RewritePcs, FilePcs, StorePcs, UpdatePcs, Updates
  <2>5. \A d \in settled : Parses(d)' => IsPinned(meta'[d])
    BY <1>1, <2>1 DEF Parses
  <2> QED
    BY <2>1, <2>3, <2>4, <2>5, HonourGoto DEF Pcs, UpdatePcs, RemovePcs
<1>6. CASE UpdateOpen(p)
  <2>1. /\ Goto(p, "uWrite") /\ pc[p] = "uOpen"
        /\ UNCHANGED <<cid, upd, seen, overtaken, settled, shielded, blob>>
        /\ pc'[p] = "uWrite" /\ \A q \in Procs \ {p} : pc'[q] = pc[q] /\ fd'[q] = fd[q]
        /\ fd'[p] = "meta"
        /\ \A d \in Cids : meta'[d] = IF d = c THEN EmptyMeta ELSE meta[d]
    BY <1>0, <1>6 DEF UpdateOpen, Goto, locals, history, TypeOK
  <2>2. PinOk(p)'
    BY <1>0, <2>1 DEF PinOk, RewritePcs, UpdatePcs, RemovePcs
  <2>3. ShieldOk(p)' /\ \A d \in settled : RequestOk(d, p)'
    BY <1>0, <1>1, <2>1
       DEF ShieldOk, RequestOk, RewritePcs, FilePcs, StorePcs, UpdatePcs
  <2>4. \A d \in settled : Parses(d)' => IsPinned(meta'[d])
    BY <1>0, <1>1, <2>1 DEF Parses, EmptyMeta
  <2> QED
    BY <2>1, <2>2, <2>3, <2>4, HonourGoto DEF Pcs, UpdatePcs, RemovePcs
<1>7. CASE UpdateWrite(p)
  <2>1. /\ Done(p) /\ Forget(p) /\ UNCHANGED blob /\ pc[p] = "uWrite"
        /\ \A q \in Procs \ {p} : fd'[q] = fd[q]
        /\ \A d \in Cids : meta'[d] = IF d = c /\ fd[p] = "meta"
                                      THEN WriteText(meta[d], seen[p]) ELSE meta[d]
    BY <1>0, <1>7 DEF UpdateWrite, TypeOK
  <2>2. IsPinned(seen[p]) /\ fd[p] = "meta" => (Parses(c)' => IsPinned(meta'[c]))
    <3>1. \A f, r : WriteText(f, r).st = "ok" => WriteText(f, r).pinned = r.pinned
      BY DEF WriteText
    <3> QED
      BY <2>1, <3>1 DEF Parses, IsPinned
  <2>3. \A d \in settled : Parses(d)' => IsPinned(meta'[d])
    BY <1>0, <1>1, <2>1, <2>2 DEF RequestOk, Parses
  <2>4. CASE UNCHANGED settled
    BY <2>1, <2>3, <2>4, HonourDone
  <2>5. CASE upd[p] = "pin" /\ Rewriting(c) = {p} /\ p \notin overtaken
    <3>1. settled' = settled \cup {c}
      BY <1>0, <1>7, <2>5 DEF UpdateWrite
    <3>2. /\ pc'[p] = "idle" /\ upd'[p] = "touch" /\ p \notin shielded'
          /\ \A q \in Procs \ {p} :
               /\ pc'[q] = pc[q] /\ cid'[q] = cid[q] /\ upd'[q] = upd[q] /\ seen'[q] = seen[q]
               /\ (q \in overtaken => q \in overtaken') /\ (q \in shielded' => q \in shielded)
      BY <2>1 DEF Done, Forget, TypeOK
    <3>3. \A q \in Procs : ShieldOk(q)
      BY DEF HonourInv
    <3>4. Beside(p)
      BY <2>1, <2>3, <3>1, <3>2, <3>3 DEF Beside, ShieldOk, RemovePcs
    <3>5. PinOk(p)' /\ ShieldOk(p)' /\ \A d \in settled' : RequestOk(d, p)'
      BY <3>2 DEF PinOk, ShieldOk, RequestOk, FilePcs, StorePcs, RewritePcs, UpdatePcs
    <3>6. /\ \A q \in Procs : cid[q] = c => pc[q] \notin RemovePcs
          /\ blob[c] # "absent" /\ fd[p] = "meta" /\ IsPinned(seen[p])
      BY <1>0, <2>1, <2>5 DEF PinOk
    <3>7. FilesOk(c)'
      BY <2>1, <2>2, <3>6 DEF FilesOk
    <3>8. ASSUME NEW q \in Procs \ {p} PROVE RequestOk(c, q)'
      <4>1. q \notin Rewriting(c)
        BY <2>5
      <4> QED
        BY <3>2, <3>6, <4>1 DEF RequestOk, Rewriting, On, FilePcs, StorePcs,
           RemovePcs, RewritePcs, UpdatePcs
    <3> QED
      BY <3>1, <3>4, <3>5, <3>7, <3>8, HonourFrame
  <2> QED
    BY <1>0, <1>7, <2>4, <2>5 DEF UpdateWrite
<1> QED
  BY <1>2, <1>3, <1>4, <1>5, <1>6, <1>7 DEF UpdateStep

LEMMA HonourDelete ==
  ASSUME TypeOK, HonourInv, NEW p \in Procs, DeleteStep(p)
  PROVE  HonourInv' /\ (Decides(p) => p \notin shielded)
<1> DEFINE c == cid[p]
<1>0. /\ c \in Cids /\ upd[p] = "touch" /\ settled \subseteq Cids
      /\ pc[p] \in {"dGet", "dCheck", "dUnlink"}
      /\ \A q \in Procs : ShieldOk(q) /\ PinOk(q)
  BY DEF HonourInv, PinOk, RewritePcs, UpdatePcs, DeleteStep, DeleteGet,
     DeleteRefused, DeleteDecide, DeleteUnlinkBlob, DeleteUnlinkMeta, TypeOK
<1>1. \A d \in settled : (Parses(d) => IsPinned(meta[d])) /\ RequestOk(d, p)
  BY DEF HonourInv, FilesOk
<1>2. CASE DeleteGet(p)
  <2>1. /\ Goto(p, "dCheck") /\ pc'[p] = "dCheck"
        /\ UNCHANGED <<cid, upd, seen, overtaken, settled, shielded, fd, blob, meta>>
    BY <1>2 DEF DeleteGet, Goto, disk, locals, history, TypeOK
  <2>2. PinOk(p)' /\ ShieldOk(p)' /\ \A d \in settled : RequestOk(d, p)'
    BY <1>0, <1>1, <2>1 DEF PinOk, ShieldOk, RequestOk, FilePcs, StorePcs,
       RewritePcs, UpdatePcs
  <2>3. \A d \in settled : Parses(d)' => IsPinned(meta'[d])
    BY <1>1, <2>1 DEF Parses
  <2> QED
    BY <2>1, <2>2, <2>3, HonourGoto DEF Pcs, RemovePcs, Decides
<1>3. CASE DeleteRefused(p)
  <2>1. pc'[p] = "idle"
    BY <1>3 DEF DeleteRefused, Fail, Done, TypeOK
  <2> QED
    BY <1>3, <2>1, HonourFail DEF DeleteRefused, Decides
<1>4. CASE DeleteDecide(p)
  <2>1. p \notin shielded
    BY <1>0, <1>1, <1>4 DEF DeleteDecide, MetaGood, ShieldOk
  <2>2. /\ UNCHANGED <<cid, upd, seen, fd, blob, meta>>
        /\ \A q \in Procs : pc'[q] = IF q = p THEN "dUnlink" ELSE pc[q]
        /\ settled' = settled \ {c} /\ shielded' = shielded \ On(c)
        /\ overtaken' = overtaken \cup Storing(c) \cup Pinning(c)
    BY <1>4 DEF DeleteDecide, Goto, disk, TypeOK
  <2>3. \A q \in Procs : upd[q] = "pin" /\ cid[q] = c => q \in overtaken'
    BY <1>0, <2>2 DEF Pinning, On, PinOk, RewritePcs, UpdatePcs
  <2>4. Beside(p)
    BY <1>0, <1>1, <2>2, <2>3 DEF Beside, ShieldOk, On, Parses
  <2>5. PinOk(p)' /\ ShieldOk(p)' /\ \A d \in settled' : RequestOk(d, p)'
    BY <1>0, <2>1, <2>2 DEF PinOk, ShieldOk, RequestOk
  <2> QED
    BY <2>1, <2>2, <2>4, <2>5, HonourFrame
<1>5. CASE DeleteUnlinkBlob(p) \/ DeleteUnlinkMeta(p)
  <2>1. /\ pc[p] = "dUnlink" /\ c \notin settled /\ p \notin shielded
        /\ ~Decides(p)
    BY <1>0, <1>1, <1>5 DEF DeleteUnlinkBlob, DeleteUnlinkMeta, RequestOk, FilePcs,
       ShieldOk, Decides
  <2>2. /\ UNCHANGED settled
        /\ \A q \in Procs : fd[q] = "meta" => fd'[q] = "meta" \/ cid[q] = c
        /\ \A d \in Cids \ {c} : meta'[d] = meta[d] /\ blob'[d] = blob[d]
    BY <1>5 DEF DeleteUnlinkBlob, DeleteUnlinkMeta, Fds, TypeOK
  <2>3. \A d \in settled : Parses(d)' => IsPinned(meta'[d])
    BY <1>0, <1>1, <2>1, <2>2 DEF Parses
  <2>4. CASE Done(p) /\ Forget(p)
    BY <2>1, <2>2, <2>3, <2>4, HonourDone DEF RemovePcs
  <2>5. CASE UNCHANGED <<pc, cid, upd, seen, overtaken, shielded>>
    <3>1. Beside(p)
      BY <1>0, <2>1, <2>2, <2>3, <2>5 DEF Beside, ShieldOk, RemovePcs
    <3>2. PinOk(p)' /\ ShieldOk(p)' /\ \A d \in settled' : RequestOk(d, p)'
      BY <1>0, <1>1, <2>1, <2>2, <2>5 DEF PinOk, ShieldOk, RequestOk
    <3> QED
      BY <2>1, <2>2, <3>1, <3>2, HonourFrame
  <2> QED
    BY <1>5, <2>1, <2>4, <2>5 DEF DeleteUnlinkBlob, DeleteUnlinkMeta, Unlinked
<1> QED
  BY <1>2, <1>3, <1>4, <1>5 DEF DeleteStep

LEMMA HonourBegin ==
  ASSUME TypeOK, HonourInv, NEW p \in Procs, NEW c \in Cids, NEW op \in Ops,
         Begin(p, c, op)
  PROVE  HonourInv'
<1>1. /\ pc[p] = "idle" /\ pc'[p] = FirstPc[op] /\ cid'[p] = c
      /\ upd'[p] = IF op \in Updates THEN op ELSE "touch"
      /\ UNCHANGED <<blob, meta, fd, seen>>
      /\ \A q \in Procs \ {p} : pc'[q] = pc[q] /\ cid'[q] = cid[q] /\ upd'[q] = upd[q]
  BY DEF Begin, Goto, disk, TypeOK
<1>2. \A q \in Procs : ShieldOk(q) /\ PinOk(q)
  BY DEF HonourInv
<1>3. /\ op \in {"store", "get", "pin", "unpin", "delete"}
      /\ FirstPc[op] = IF op = "store" THEN "stHas" ELSE IF op = "get" THEN "gStart"
                       ELSE IF op = "delete" THEN "dGet" ELSE "pHas"
  BY OpsAssumption DEF FirstPc
<1>4. /\ \A q \in overtaken : q \in overtaken'
      /\ settled' = (IF op = "unpin" THEN settled \ {c} ELSE settled)
      /\ shielded' = IF op = "unpin" THEN shielded \ On(c)
                     ELSE IF op = "delete" /\ c \in settled THEN shielded \cup {p}
                     ELSE shielded
      /\ op = "pin" /\ (Deleting(c) # {} \/ Undoing(c) # {}) => p \in overtaken'
  BY DEF Begin
<1>5. \A q \in Procs \ {p} : q \in shielded' => q \in shielded /\ cid[q] \in settled'
  BY <1>2, <1>4 DEF ShieldOk, On
<1>6. \A d \in settled : Parses(d)' => IsPinned(meta'[d])
  BY <1>1 DEF HonourInv, FilesOk, Parses
<1>7. pc'[p] \notin RemovePcs
  BY <1>1, <1>3 DEF RemovePcs
<1>8. Beside(p)
  BY <1>1, <1>4, <1>5, <1>6, <1>7 DEF Beside
<1>9. p \notin shielded
  BY <1>1, <1>2 DEF ShieldOk
<1>10. ShieldOk(p)'
  BY <1>1, <1>3, <1>4, <1>9 DEF ShieldOk
<1>11. PinOk(p)'
  <2>1. op = "pin" /\ p \notin overtaken' =>
          \A q \in Procs : cid'[q] = c => pc'[q] \notin RemovePcs
    BY <1>1, <1>4, <1>7 DEF Deleting, Undoing, On, RemovePcs
  <2> QED
    BY <1>1, <1>3, <2>1 DEF PinOk, RewritePcs, UpdatePcs, Updates
<1>12. \A d \in settled' : RequestOk(d, p)'
  BY <1>1, <1>3, <1>4 DEF RequestOk, FilePcs, StorePcs, RewritePcs, UpdatePcs, Updates
<1> QED
  BY <1>4, <1>8, <1>10, <1>11, <1>12, HonourFrame

\* Every step keeps the invariant, and decides no delete of a settled cid.
LEMMA HonourStep ==
  ASSUME TypeOK, HonourInv, [Next]_vars
  PROVE  HonourInv' /\ \A p \in Procs : Decides(p) => p \notin shielded
<1>1. ASSUME NEW p \in Procs, NEW c \in Cids, NEW op \in Ops, Begin(p, c, op)
      PROVE  HonourInv' /\ \A q \in Procs : ~Decides(q)
  <2>1. \A q \in Procs : ~Decides(q)
    BY <1>1, OpsAssumption DEF Begin, Goto, Decides, FirstPc, TypeOK
  <2> QED
    BY <1>1, <2>1, HonourBegin
<1>2. ASSUME NEW p \in Procs, Step(p) \/ StoreFault(p) \/ UpdateFault(p)
      PROVE  /\ HonourInv'
             /\ \A q \in Procs : Decides(q) => q \notin shielded
  <2>1. HonourInv' /\ (DeleteStep(p) /\ Decides(p) => p \notin shielded)
    BY <1>2, HonourStore, HonourGet, HonourUpdate, HonourDelete DEF Step
  <2>2. ASSUME NEW q \in Procs, Decides(q) PROVE q = p /\ DeleteStep(p)
    <3>1. pc[q] = "dCheck" /\ pc'[q] = "dUnlink"
      BY <2>2 DEF Decides
    <3>2. CASE StoreStep(p) \/ StoreFault(p)
      BY <3>1, <3>2 DEF StoreStep, StoreFull, StoreExists, StoreNew, StoreOpen,
         StoreWrite, StoreRename, StoreRenameFails, StoreMetaOpen, StoreMetaWrite,
         StoreUndoBlob, StoreUndoMeta, StoreFault, AckStore, Fail, Done, Goto, TypeOK
    <3>3. CASE GetStep(p)
      BY <3>1, <3>3 DEF GetStep, GetCached, GetUncached, GetHitMeta, GetReadBlob,
         GetReadMeta, GetFails, GetReturn, Fail, Done, Goto, TypeOK
    <3>4. CASE UpdateStep(p) \/ UpdateFault(p)
      BY <3>1, <3>4 DEF UpdateStep, PinHas, PinGet, PinFails, UpdateRead,
         UpdateFails, UpdateOpen, UpdateWrite, UpdateFault, Fail, Done, Goto, TypeOK
    <3>5. CASE DeleteStep(p)
      BY <3>1, <3>5 DEF DeleteStep, DeleteGet, DeleteRefused, DeleteDecide,
         DeleteUnlinkBlob, DeleteUnlinkMeta, Unlinked, Fail, Done, Goto, TypeOK
    <3> QED
      BY <1>2, <3>2, <3>3, <3>4, <3>5 DEF Step
  <2> QED
    BY <2>1, <2>2
<1>3. CASE Crash
  <2>1. /\ \A q \in Procs : pc'[q] = "idle" /\ upd'[q] = "touch"
        /\ shielded' = {} /\ UNCHANGED <<blob, meta, settled>>
    BY <1>3 DEF Crash, disk
  <2> QED
    BY <2>1 DEF HonourInv, PinOk, ShieldOk, FilesOk, RequestOk, Parses, FilePcs,
       StorePcs, RewritePcs, UpdatePcs, Decides
<1>4. CASE UNCHANGED vars
  BY <1>4 DEF vars, HonourInv, PinOk, ShieldOk, FilesOk, RequestOk, Parses, Decides
<1> QED
  BY <1>1, <1>2, <1>3, <1>4 DEF Next

\* Once a pin has been acknowledged that no other rewrite overlapped, no delete
\* that begins after it is decided before an unpin begins: not when readers
\* rewrite the metadata meanwhile, stores of the same cid run beside each other,
\* calls fail or the node crashes.
THEOREM PinsHonoured == Spec => SettledPinHonoured
<1>1. Init => HonourInv
  BY DEF Init, HonourInv, PinOk, ShieldOk
<1>2. TypeOK /\ HonourInv /\ [Next]_vars => HonourInv'
  BY HonourStep
<1>3. TypeOK /\ HonourInv /\ [Next]_vars =>
        [\A p \in Procs : Decides(p) => p \notin shielded]_vars
  BY HonourStep
<1> QED
  BY <1>1, <1>2, <1>3, Types, PTL DEF Spec, SettledPinHonoured

=============================================================================
