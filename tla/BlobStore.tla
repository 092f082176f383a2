------------------------------ MODULE BlobStore ------------------------------
(***************************************************************************)
(* The blob store of one vault node: services/storage.service.ts with the   *)
(* request paths that drive it (blob, pin and delete routes).               *)
(*                                                                         *)
(* A blob with content id c is kept as two files, blobs/c.enc and           *)
(* meta/c.json, and is written through blobs/c.enc.tmp.  Node runs the      *)
(* handlers on one thread, but every fs call is an await: its effect on     *)
(* the disk happens on the thread pool, in any order with the calls of the  *)
(* other requests.  One action below is therefore one fs call together      *)
(* with the synchronous code that follows it.  fs.writeFile is two calls:   *)
(* it opens the file with O_TRUNC and then writes at offset 0.              *)
(*                                                                         *)
(* Data is abstracted to what can go wrong with it: a blob file is absent,  *)
(* partial (opened, not yet written) or full; a metadata text keeps only    *)
(* the pinned field and the value of pinned its integrityHash was computed  *)
(* from.  The bytes of all stores of one cid are equal (cid = hash).        *)
(***************************************************************************)
EXTENDS Naturals, FiniteSets

CONSTANTS
  Cids,          \* content ids
  Procs,         \* requests in flight at once
  NoCid,         \* "serves no request"
  Ops,           \* the kinds of request clients send
  Compressible,  \* cids whose data gzip makes smaller, kept compressed
  Deletable,     \* cids that pass the shard and replica checks of a delete
  MaxCrashes,    \* bound on the crashes of the node
  MaxFaults      \* bound on the fs calls that fail (ENOSPC, EIO)

ASSUME NoCidAssumption == NoCid \notin Cids
ASSUME OpsAssumption == Ops \subseteq {"store", "get", "pin", "unpin", "delete"}
ASSUME BoundsAssumption == MaxCrashes \in Nat /\ MaxFaults \in Nat

VARIABLES
  \* the disk
  tmp, blob,     \* [Cids -> FileState]: c.enc.tmp and c.enc
  meta,          \* [Cids -> MetaFile]: c.json
  \* the process
  cache,         \* [Cids -> {"none"} or a FileState]: cacheService
  pc, cid,       \* what each request does next, and on which cid
  upd,           \* the change updateMetadata is asked for
  fd,            \* where the file a request has open lives by now
  seen,          \* the metadata text updateMetadata will write
  data,          \* the bytes getBlob has read
  pend,          \* the calls of a Promise.all still to run
  crashes, faults,
  \* history, for the properties only
  acked,         \* cids a store was acknowledged for and no delete was decided
  overtaken,     \* stores during which a delete of the cid was decided, pins
                 \* during which a delete or a clean-up of the cid was
  doubled,       \* cids of which two stores were past their look for the blob
                 \* at once
  pinHeld,       \* cids pinned with success and not asked to be unpinned since
  settled,       \* the same, when no other rewrite overlapped the pin
  shielded       \* deletes that began on a settled cid

disk == <<tmp, blob, meta>>
locals == <<upd, seen, data, pend>>
bounds == <<crashes, faults>>
history == <<acked, overtaken, doubled, pinHeld, settled, shielded>>
vars == <<tmp, blob, meta, cache, pc, cid, upd, fd, seen, data, pend,
          crashes, faults, acked, overtaken, doubled, pinHeld, settled, shielded>>

FileState == {"absent", "partial", "full"}
PinText == {"unset", "true", "false"}
MetaText == [pinned : PinText, hashed : BOOLEAN]
MetaFile == [st : {"absent", "empty", "ok", "mixed"},
             pinned : PinText, hashed : BOOLEAN]
Updates == {"pin", "unpin", "touch"}
StorePcs == {"stHas", "stOpen", "stWrite", "stRename", "stMetaOpen",
             "stMetaWrite", "stUndoBlob", "stUndoMeta"}
UpdatePcs == {"uRead", "uOpen", "uWrite"}
Pcs == {"idle", "gStart", "gHitMeta", "gRead", "pHas", "pGet", "dGet",
        "dCheck", "dUnlink"} \cup StorePcs \cup UpdatePcs

TypeOK ==
  /\ tmp \in [Cids -> FileState] /\ blob \in [Cids -> FileState]
  /\ meta \in [Cids -> MetaFile]
  /\ cache \in [Cids -> {"none", "partial", "full"}]
  /\ pc \in [Procs -> Pcs] /\ cid \in [Procs -> Cids \cup {NoCid}]
  /\ \A p \in Procs : pc[p] # "idle" => cid[p] \in Cids
  /\ upd \in [Procs -> Updates]
  /\ fd \in [Procs -> {"none", "tmp", "blob", "meta", "gone"}]
  /\ seen \in [Procs -> MetaText]
  /\ data \in [Procs -> {"none", "partial", "full"}]
  /\ pend \in [Procs -> SUBSET {"blob", "meta"}]
  /\ crashes \in 0..MaxCrashes /\ faults \in 0..MaxFaults
  /\ acked \subseteq Cids /\ doubled \subseteq Cids
  /\ pinHeld \subseteq Cids /\ settled \subseteq Cids
  /\ overtaken \subseteq Procs /\ shielded \subseteq Procs

-----------------------------------------------------------------------------
(* Metadata texts and the metadata file.                                     *)

IsPinned(r) == r.pinned = "true"

\* generateMetadataIntegrityHash covers pinned || false, and
\* verifyMetadataIntegrity recomputes it from the text it is given.
HashOk(r) == r.hashed = IsPinned(r)

\* storeBlob writes no pinned field and hashes pinned = false.
FreshText == [pinned |-> "unset", hashed |-> FALSE]

AbsentMeta == [st |-> "absent", pinned |-> "unset", hashed |-> FALSE]
EmptyMeta == [st |-> "empty", pinned |-> "unset", hashed |-> FALSE]

\* No pinned field, `"pinned": true` and `"pinned": false` differ in length.
TextLen(r) == CASE r.pinned = "unset" -> 0
                [] r.pinned = "true" -> 1
                [] r.pinned = "false" -> 2

\* Writing text r at offset 0 of file f: what a longer text written before it
\* leaves behind its end makes the file no JSON.
WriteText(f, r) ==
  IF f.st \in {"ok", "mixed"} /\ TextLen(f) > TextLen(r)
  THEN [st |-> "mixed", pinned |-> f.pinned, hashed |-> f.hashed]
  ELSE [st |-> "ok", pinned |-> r.pinned, hashed |-> r.hashed]

\* readFile and JSON.parse succeed
Parses(c) == meta[c].st = "ok"
\* getMetadata(c) succeeds
MetaGood(c) == Parses(c) /\ HashOk(meta[c])

\* Mutants: the hash is not regenerated; the metrics update writes a fresh text.
UpdatedStaleHash(r, u) ==
  [pinned |-> CASE u = "pin" -> "true" [] u = "unpin" -> "false"
                [] u = "touch" -> r.pinned,
   hashed |-> r.hashed]
UpdatedTouchUnpins(r, u) ==
  CASE u = "pin"   -> [pinned |-> "true", hashed |-> TRUE]
    [] u = "unpin" -> [pinned |-> "false", hashed |-> FALSE]
    [] u = "touch" -> FreshText

\* { ...metadata, ...updates }, and the new hash when pinned is in updates
Updated(r, u) ==
  CASE u = "pin"   -> [pinned |-> "true", hashed |-> TRUE]
    [] u = "unpin" -> [pinned |-> "false", hashed |-> FALSE]
    [] u = "touch" -> [pinned |-> r.pinned, hashed |-> r.hashed]

-----------------------------------------------------------------------------
(* Requests.                                                                 *)

On(c) == {q \in Procs : pc[q] # "idle" /\ cid[q] = c}
Storing(c) == {q \in On(c) : pc[q] \in StorePcs}
Writing(c) == {q \in Storing(c) : pc[q] # "stHas"}
Pinning(c) == {q \in On(c) : upd[q] = "pin"}
Deleting(c) == {q \in On(c) : pc[q] = "dUnlink"}
Undoing(c) == {q \in On(c) : pc[q] \in {"stUndoBlob", "stUndoMeta"}}
Rewriting(c) == {q \in On(c) : \/ pc[q] \in {"uOpen", "uWrite"} \cup StorePcs
                               \/ pc[q] \in {"pHas", "pGet"} \cup UpdatePcs
                                  /\ upd[q] = "unpin"}

\* An unlinked file stays with those who have it open; a renamed one moves.
Fds(c, moved) == [q \in Procs |-> IF cid[q] = c /\ fd[q] \in DOMAIN moved
                                  THEN moved[fd[q]] ELSE fd[q]]

Goto(p, l) == pc' = [pc EXCEPT ![p] = l]

\* The request is answered (or fails) and its locals are gone.
Done(p) ==
  /\ pc' = [pc EXCEPT ![p] = "idle"]
  /\ cid' = [cid EXCEPT ![p] = NoCid]
  /\ upd' = [upd EXCEPT ![p] = "touch"]
  /\ seen' = [seen EXCEPT ![p] = FreshText]
  /\ data' = [data EXCEPT ![p] = "none"]
  /\ pend' = [pend EXCEPT ![p] = {}]

Forget(p) == /\ overtaken' = overtaken \ {p}
             /\ shielded' = shielded \ {p}

\* Mutant: the error is answered but the handler does not return.
FailFallsThrough(p) ==
  /\ cid' = [cid EXCEPT ![p] = NoCid]
  /\ Forget(p)
  /\ UNCHANGED <<disk, cache, pc, fd, locals, bounds, acked, doubled, pinHeld,
                 settled>>

\* p answers and nothing else changes
Fail(p) ==
  /\ Done(p) /\ Forget(p)
  /\ UNCHANGED <<disk, cache, fd, bounds, acked, doubled, pinHeld, settled>>

FirstPc == [store |-> "stHas", get |-> "gStart", pin |-> "pHas",
            unpin |-> "pHas", delete |-> "dGet"]

Begin(p, c, op) ==
  /\ pc[p] = "idle" /\ op \in Ops
  /\ Goto(p, FirstPc[op])
  /\ cid' = [cid EXCEPT ![p] = c]
  /\ upd' = [upd EXCEPT ![p] = IF op \in Updates THEN op ELSE "touch"]
  /\ overtaken' = IF \/ op \in {"store", "pin"} /\ Deleting(c) # {}
                     \/ op = "pin" /\ Undoing(c) # {}
                  THEN overtaken \cup {p} ELSE overtaken
  /\ pinHeld' = IF op = "unpin" THEN pinHeld \ {c} ELSE pinHeld
  /\ settled' = IF op = "unpin" THEN settled \ {c} ELSE settled
  /\ shielded' = IF op = "unpin" THEN shielded \ On(c)
                 ELSE IF op = "delete" /\ c \in settled THEN shielded \cup {p}
                 ELSE shielded
  /\ UNCHANGED <<disk, cache, fd, seen, data, pend, bounds, acked, doubled>>

-----------------------------------------------------------------------------
(* storeBlob.                                                                *)

\* p goes past its look for the blob: alone, or beside another store of the cid.
Pass(p) ==
  doubled' = IF Writing(cid[p]) = {} THEN doubled ELSE doubled \cup {cid[p]}

\* The store of p succeeds.
AckStore(p) ==
  /\ acked' = IF p \in overtaken THEN acked ELSE acked \cup {cid[p]}
  /\ Forget(p) /\ Done(p)
  /\ UNCHANGED <<pinHeld, settled>>

\* checkStorageCapacity throws StorageFullError.
StoreFull(p) == pc[p] = "stHas" /\ Fail(p)

\* hasBlob: an existing c.enc makes the store succeed at once.
StoreExists(p) ==
  /\ pc[p] = "stHas" /\ blob[cid[p]] # "absent"
  /\ Pass(p) /\ AckStore(p)
  /\ UNCHANGED <<disk, cache, fd, bounds>>

\* Mutant: the store goes on although the blob exists.
StoreNewAlways(p) ==
  /\ pc[p] = "stHas"
  /\ Goto(p, "stOpen")
  /\ UNCHANGED <<disk, cache, cid, fd, locals, bounds, history>>

StoreNew(p) ==
  /\ pc[p] = "stHas" /\ blob[cid[p]] = "absent"
  /\ Pass(p) /\ Goto(p, "stOpen")
  /\ UNCHANGED <<disk, cache, cid, fd, locals, bounds, acked, overtaken, pinHeld,
                 settled, shielded>>

\* Mutant: no temp file, c.enc is written in place.
StoreOpenInPlace(p) ==
  /\ pc[p] = "stOpen"
  /\ blob' = [blob EXCEPT ![cid[p]] = "partial"]
  /\ fd' = [fd EXCEPT ![p] = "blob"]
  /\ Goto(p, "stWrite")
  /\ UNCHANGED <<tmp, meta, cache, cid, locals, bounds, history>>

StoreOpen(p) ==
  /\ pc[p] = "stOpen"
  /\ tmp' = [tmp EXCEPT ![cid[p]] = "partial"]
  /\ fd' = [fd EXCEPT ![p] = "tmp"]
  /\ Goto(p, "stWrite")
  /\ UNCHANGED <<blob, meta, cache, cid, locals, bounds, history>>

\* The bytes go to wherever the opened file has moved since.
StoreWrite(p) ==
  /\ pc[p] = "stWrite"
  /\ tmp' = IF fd[p] = "tmp" THEN [tmp EXCEPT ![cid[p]] = "full"] ELSE tmp
  /\ blob' = IF fd[p] = "blob" THEN [blob EXCEPT ![cid[p]] = "full"] ELSE blob
  /\ fd' = [fd EXCEPT ![p] = "none"]
  /\ Goto(p, "stRename")
  /\ UNCHANGED <<meta, cache, cid, locals, bounds, history>>

StoreRename(p) ==
  /\ pc[p] = "stRename" /\ tmp[cid[p]] # "absent"
  /\ blob' = [blob EXCEPT ![cid[p]] = tmp[cid[p]]]
  /\ tmp' = [tmp EXCEPT ![cid[p]] = "absent"]
  /\ fd' = Fds(cid[p], [tmp |-> "blob", blob |-> "gone"])
  /\ Goto(p, "stMetaOpen")
  /\ UNCHANGED <<meta, cache, cid, locals, bounds, history>>

\* rename fails: another store of the cid has moved the shared c.enc.tmp.
StoreRenameFails(p) ==
  /\ pc[p] = "stRename" /\ tmp[cid[p]] = "absent"
  /\ Goto(p, "stUndoBlob")
  /\ overtaken' = overtaken \cup Pinning(cid[p])
  /\ UNCHANGED <<disk, cache, cid, fd, locals, bounds, acked, doubled, pinHeld,
                 settled, shielded>>

StoreMetaOpen(p) ==
  /\ pc[p] = "stMetaOpen"
  /\ meta' = [meta EXCEPT ![cid[p]] = EmptyMeta]
  /\ fd' = [fd EXCEPT ![p] = "meta"]
  /\ Goto(p, "stMetaWrite")
  /\ UNCHANGED <<tmp, blob, cache, cid, locals, bounds, history>>

\* Mutant: the metadata file is created and its text is never written.
StoreMetaLost(p) ==
  /\ pc[p] = "stMetaWrite"
  /\ fd' = [fd EXCEPT ![p] = "none"]
  /\ AckStore(p)
  /\ UNCHANGED <<disk, cache, bounds, doubled>>

StoreMetaWrite(p) ==
  /\ pc[p] = "stMetaWrite"
  /\ meta' = IF fd[p] = "meta"
             THEN [meta EXCEPT ![cid[p]] = WriteText(@, FreshText)] ELSE meta
  /\ fd' = [fd EXCEPT ![p] = "none"]
  /\ AckStore(p)
  /\ UNCHANGED <<tmp, blob, cache, bounds, doubled>>

\* The clean-up of a failed store: two unlinks whose errors are ignored.
StoreUndoBlob(p) ==
  /\ pc[p] = "stUndoBlob"
  /\ blob' = [blob EXCEPT ![cid[p]] = "absent"]
  /\ fd' = Fds(cid[p], [blob |-> "gone"])
  /\ Goto(p, "stUndoMeta")
  /\ UNCHANGED <<tmp, meta, cache, cid, locals, bounds, history>>

StoreUndoMeta(p) ==
  /\ pc[p] = "stUndoMeta"
  /\ meta' = [meta EXCEPT ![cid[p]] = AbsentMeta]
  /\ fd' = Fds(cid[p], [meta |-> "gone"])
  /\ Done(p) /\ Forget(p)
  /\ UNCHANGED <<tmp, blob, cache, bounds, acked, doubled, pinHeld, settled>>

-----------------------------------------------------------------------------
(* getBlob, and the access metrics it rewrites after the answer.             *)

\* Cached: the metadata is read before the answer.
GetCached(p) ==
  /\ pc[p] = "gStart" /\ cache[cid[p]] # "none"
  /\ data' = [data EXCEPT ![p] = cache[cid[p]]]
  /\ Goto(p, "gHitMeta")
  /\ UNCHANGED <<disk, cache, cid, upd, fd, seen, pend, bounds, history>>

\* Not cached: Promise.all of the two reads.
GetUncached(p) ==
  /\ pc[p] = "gStart" /\ cache[cid[p]] = "none"
  /\ pend' = [pend EXCEPT ![p] = {"blob", "meta"}]
  /\ Goto(p, "gRead")
  /\ UNCHANGED <<disk, cache, cid, upd, fd, seen, data, bounds, history>>

GetHitMeta(p) ==
  /\ pc[p] = "gHitMeta" /\ Parses(cid[p])
  /\ data' = [data EXCEPT ![p] = "none"]
  /\ Goto(p, "uRead")
  /\ UNCHANGED <<disk, cache, cid, upd, fd, seen, pend, bounds, history>>

GetReadBlob(p) ==
  /\ pc[p] = "gRead" /\ "blob" \in pend[p] /\ blob[cid[p]] # "absent"
  /\ data' = [data EXCEPT ![p] = blob[cid[p]]]
  /\ pend' = [pend EXCEPT ![p] = @ \ {"blob"}]
  /\ UNCHANGED <<disk, cache, pc, cid, upd, fd, seen, bounds, history>>

GetReadMeta(p) ==
  /\ pc[p] = "gRead" /\ "meta" \in pend[p] /\ Parses(cid[p])
  /\ pend' = [pend EXCEPT ![p] = @ \ {"meta"}]
  /\ UNCHANGED <<disk, cache, pc, cid, upd, fd, seen, data, bounds, history>>

\* A file is missing, the metadata is no JSON, or gunzip rejects the data.
GetFails(p) ==
  /\ \/ pc[p] = "gHitMeta" /\ ~Parses(cid[p])
     \/ pc[p] = "gRead" /\ "blob" \in pend[p] /\ blob[cid[p]] = "absent"
     \/ pc[p] = "gRead" /\ "meta" \in pend[p] /\ ~Parses(cid[p])
     \/ /\ pc[p] = "gRead" /\ pend[p] = {}
        /\ cid[p] \in Compressible /\ data[p] # "full"
  /\ Fail(p)

\* cacheService.set(c, d): too big an item is not kept, a kept one may evict
\* others (CacheService has the accounting).
CacheSets(c, d) ==
  {cache} \cup {[x \in Cids |-> IF x = c THEN d
                                ELSE IF x \in kept THEN cache[x] ELSE "none"] :
                kept \in SUBSET (Cids \ {c})}

GetReturn(p) ==
  /\ pc[p] = "gRead" /\ pend[p] = {}
  /\ cid[p] \in Compressible => data[p] = "full"
  /\ cache' \in CacheSets(cid[p], data[p])
  /\ data' = [data EXCEPT ![p] = "none"]
  /\ Goto(p, "uRead")
  /\ UNCHANGED <<disk, cid, upd, fd, seen, pend, bounds, history>>

-----------------------------------------------------------------------------
(* updateMetadata, by updateAccessMetrics, pinBlob and unpinBlob.            *)

UpdateRead(p) ==
  /\ pc[p] = "uRead" /\ MetaGood(cid[p])
  /\ seen' = [seen EXCEPT ![p] = Updated(meta[cid[p]], upd[p])]
  /\ Goto(p, "uOpen")
  /\ UNCHANGED <<disk, cache, cid, upd, fd, data, pend, bounds, history>>

UpdateFails(p) == pc[p] = "uRead" /\ ~MetaGood(cid[p]) /\ Fail(p)

UpdateOpen(p) ==
  /\ pc[p] = "uOpen"
  /\ meta' = [meta EXCEPT ![cid[p]] = EmptyMeta]
  /\ fd' = [fd EXCEPT ![p] = "meta"]
  /\ Goto(p, "uWrite")
  /\ UNCHANGED <<tmp, blob, cache, cid, locals, bounds, history>>

\* A pin is acknowledged now.  It is settled when nobody else is rewriting the
\* metadata or unpinning, and no removal of the files began while it ran.
UpdateWrite(p) ==
  LET c == cid[p]
      quiet == Rewriting(c) = {p} /\ p \notin overtaken
  IN /\ pc[p] = "uWrite"
     /\ meta' = IF fd[p] = "meta"
                THEN [meta EXCEPT ![c] = WriteText(@, seen[p])] ELSE meta
     /\ fd' = [fd EXCEPT ![p] = "none"]
     /\ pinHeld' = IF upd[p] = "pin" THEN pinHeld \cup {c} ELSE pinHeld
     /\ settled' = IF upd[p] = "pin" /\ quiet THEN settled \cup {c} ELSE settled
     /\ Done(p) /\ Forget(p)
     /\ UNCHANGED <<tmp, blob, cache, bounds, acked, doubled>>

\* The pin and unpin routes ask hasBlob first, and pinBlob reads the metadata
\* once before updateMetadata reads it again.
PinHas(p) ==
  /\ pc[p] = "pHas" /\ blob[cid[p]] # "absent"
  /\ Goto(p, "pGet")
  /\ UNCHANGED <<disk, cache, cid, fd, locals, bounds, history>>

PinGet(p) ==
  /\ pc[p] = "pGet" /\ MetaGood(cid[p])
  /\ Goto(p, "uRead")
  /\ UNCHANGED <<disk, cache, cid, fd, locals, bounds, history>>

PinFails(p) ==
  /\ \/ pc[p] = "pHas" /\ blob[cid[p]] = "absent"
     \/ pc[p] = "pGet" /\ ~MetaGood(cid[p])
  /\ Fail(p)

-----------------------------------------------------------------------------
(* A safe delete: gc.service's canSafelyDelete, then deleteBlob.             *)

DeleteGet(p) ==
  /\ pc[p] = "dGet" /\ MetaGood(cid[p])
  /\ Goto(p, "dCheck")
  /\ UNCHANGED <<disk, cache, cid, fd, locals, bounds, history>>

DeleteRefused(p) ==
  /\ \/ pc[p] = "dGet" /\ ~MetaGood(cid[p])
     \/ /\ pc[p] = "dCheck"
        /\ ~MetaGood(cid[p]) \/ IsPinned(meta[cid[p]]) \/ cid[p] \notin Deletable
  /\ Fail(p)

\* The checks pass on the metadata just read: the delete is decided, the cache
\* entry is dropped and the two unlinks are issued together.
DeleteDecide(p) ==
  LET c == cid[p]
  IN /\ pc[p] = "dCheck" /\ MetaGood(c)
     /\ ~IsPinned(meta[c]) /\ c \in Deletable
     /\ cache' = [cache EXCEPT ![c] = "none"]
     /\ pend' = [pend EXCEPT ![p] = {"blob", "meta"}]
     /\ Goto(p, "dUnlink")
     /\ acked' = acked \ {c}
     /\ overtaken' = overtaken \cup Storing(c) \cup Pinning(c)
     /\ settled' = settled \ {c}
     /\ shielded' = shielded \ On(c)
     /\ UNCHANGED <<disk, cid, upd, fd, seen, data, bounds, doubled, pinHeld>>

\* p has run one call of its Promise.all
Unlinked(p, f) ==
  IF pend[p] = {f} THEN Done(p) /\ Forget(p)
  ELSE /\ pend' = [pend EXCEPT ![p] = @ \ {f}]
       /\ UNCHANGED <<pc, cid, upd, seen, data, overtaken, shielded>>

DeleteUnlinkBlob(p) ==
  /\ pc[p] = "dUnlink" /\ "blob" \in pend[p]
  /\ blob' = [blob EXCEPT ![cid[p]] = "absent"]
  /\ fd' = Fds(cid[p], [blob |-> "gone"])
  /\ Unlinked(p, "blob")
  /\ UNCHANGED <<tmp, meta, cache, bounds, acked, doubled, pinHeld, settled>>

DeleteUnlinkMeta(p) ==
  /\ pc[p] = "dUnlink" /\ "meta" \in pend[p]
  /\ meta' = [meta EXCEPT ![cid[p]] = AbsentMeta]
  /\ fd' = Fds(cid[p], [meta |-> "gone"])
  /\ Unlinked(p, "meta")
  /\ UNCHANGED <<tmp, blob, cache, bounds, acked, doubled, pinHeld, settled>>

-----------------------------------------------------------------------------
(* Failing calls and crashes.                                                *)

\* A call of storeBlob fails inside its try: the handler cleans up.
StoreFault(p) ==
  /\ faults < MaxFaults
  /\ pc[p] \in {"stOpen", "stWrite", "stRename", "stMetaOpen", "stMetaWrite"}
  /\ faults' = faults + 1
  /\ fd' = [fd EXCEPT ![p] = "none"]
  /\ Goto(p, "stUndoBlob")
  /\ overtaken' = overtaken \cup Pinning(cid[p])
  /\ UNCHANGED <<disk, cache, cid, locals, crashes, acked, doubled, pinHeld,
                 settled, shielded>>

\* A call of updateMetadata's writeFile fails: nothing is restored.
UpdateFault(p) ==
  /\ faults < MaxFaults
  /\ pc[p] \in {"uOpen", "uWrite"}
  /\ faults' = faults + 1
  /\ fd' = [fd EXCEPT ![p] = "none"]
  /\ Done(p) /\ Forget(p)
  /\ UNCHANGED <<disk, cache, crashes, acked, doubled, pinHeld, settled>>

\* The process dies and starts again: the disk stays as it is, and start-up
\* (initialize) looks at no blob.
Crash ==
  /\ crashes < MaxCrashes
  /\ crashes' = crashes + 1
  /\ cache' = [c \in Cids |-> "none"]
  /\ pc' = [p \in Procs |-> "idle"] /\ cid' = [p \in Procs |-> NoCid]
  /\ upd' = [p \in Procs |-> "touch"] /\ fd' = [p \in Procs |-> "none"]
  /\ seen' = [p \in Procs |-> FreshText] /\ data' = [p \in Procs |-> "none"]
  /\ pend' = [p \in Procs |-> {}]
  /\ overtaken' = {} /\ shielded' = {}
  /\ UNCHANGED <<disk, faults, acked, doubled, pinHeld, settled>>

-----------------------------------------------------------------------------
Init ==
  /\ tmp = [c \in Cids |-> "absent"] /\ blob = [c \in Cids |-> "absent"]
  /\ meta = [c \in Cids |-> AbsentMeta]
  /\ cache = [c \in Cids |-> "none"]
  /\ pc = [p \in Procs |-> "idle"] /\ cid = [p \in Procs |-> NoCid]
  /\ upd = [p \in Procs |-> "touch"] /\ fd = [p \in Procs |-> "none"]
  /\ seen = [p \in Procs |-> FreshText] /\ data = [p \in Procs |-> "none"]
  /\ pend = [p \in Procs |-> {}]
  /\ crashes = 0 /\ faults = 0
  /\ acked = {} /\ overtaken = {} /\ doubled = {} /\ pinHeld = {} /\ settled = {}
  /\ shielded = {}

StoreStep(p) ==
  \/ StoreFull(p) \/ StoreExists(p) \/ StoreNew(p) \/ StoreOpen(p)
  \/ StoreWrite(p) \/ StoreRename(p) \/ StoreRenameFails(p)
  \/ StoreMetaOpen(p) \/ StoreMetaWrite(p)
  \/ StoreUndoBlob(p) \/ StoreUndoMeta(p)

GetStep(p) ==
  \/ GetCached(p) \/ GetUncached(p) \/ GetHitMeta(p) \/ GetReadBlob(p)
  \/ GetReadMeta(p) \/ GetFails(p) \/ GetReturn(p)

UpdateStep(p) ==
  \/ PinHas(p) \/ PinGet(p) \/ PinFails(p)
  \/ UpdateRead(p) \/ UpdateFails(p) \/ UpdateOpen(p) \/ UpdateWrite(p)

DeleteStep(p) ==
  \/ DeleteGet(p) \/ DeleteRefused(p) \/ DeleteDecide(p)
  \/ DeleteUnlinkBlob(p) \/ DeleteUnlinkMeta(p)

\* What the node does for p once its pending call has run.
Step(p) == StoreStep(p) \/ GetStep(p) \/ UpdateStep(p) \/ DeleteStep(p)

Next ==
  \/ \E p \in Procs, c \in Cids, op \in Ops : Begin(p, c, op)
  \/ \E p \in Procs : Step(p) \/ StoreFault(p) \/ UpdateFault(p)
  \/ Crash

Spec == Init /\ [][Next]_vars

\* libuv runs every call that was issued, and the event loop its callback.
FairSpec == Spec /\ \A p \in Procs : WF_vars(Step(p))

-----------------------------------------------------------------------------
(* Properties.                                                               *)

\* No text that the service itself writes fails verifyMetadataIntegrity:
\* METADATA_TAMPERED is never reported for a file nobody tampered with, also
\* when rewrites of several requests overlap and the node crashes.
NoFalseTamperAlarm ==
  \A c \in Cids : Parses(c) => HashOk(meta[c])

\* storage.service.ts:175, "Write blob atomically (temp file + rename)": the file
\* under its final name is there whole or not at all.
WrittenAtomically == \A c \in Cids : blob[c] # "partial"

\* The temp file and the rename of storeBlob never let a reader or the cache see
\* a blob that is not whole, unless two stores of the cid were past their look
\* for it at once: nothing else, no other overlap, failing call or crash, does it.
BlobAtomic ==
  \A c \in Cids \ doubled : blob[c] # "partial" /\ cache[c] # "partial"

\* The refinement mapping: what a client sees of the files.  A cid two stores of
\* which have been writing at once promises nothing any more.
Promises == INSTANCE AtomicBlobStore WITH
  present <- {c \in Cids \ doubled : blob[c] = "full"},
  promised <- acked \ doubled, void <- doubled

\* The file protocol implements AtomicBlobStore: a store is acknowledged only
\* while its blob is on disk, and an acknowledged blob goes only when a delete
\* of it has been decided, or the cid became void by two stores at once.
KeepsPromises == Promises!Spec

Decides(p) == pc[p] = "dCheck" /\ pc'[p] = "dUnlink"

\* A delete that begins after a pin was acknowledged is refused, whatever
\* readers rewrite meanwhile, provided no other rewrite of the metadata
\* overlapped the end of the pin.
SettledPinHonoured ==
  [][\A p \in Procs : Decides(p) => p \notin shielded]_vars

\* types/index.ts:11 on pinned: "Never delete if true (Requirement 9)".  No
\* delete is decided on a cid whose pin was acknowledged and not undone.
PinnedNeverDeleted ==
  [][\A p \in Procs : Decides(p) => cid[p] \notin pinHeld]_vars

\* An emptied metadata file is filled or removed again, unless a call fails or
\* the node crashes: the window in which every reader of c fails closes.
EmptyMetaFilled ==
  \A c \in Cids :
    meta[c].st = "empty" ~> meta[c].st # "empty" \/ crashes + faults > 0

=============================================================================
