--------------------------- MODULE GarbageCollector ---------------------------
(***************************************************************************)
(* services/gc.service.ts: the periodic and manual collection, the force     *)
(* purge of a development node and the deletion of a single blob, with the   *)
(* requests that change the store meanwhile.                                 *)
(*                                                                         *)
(* A collection lists the store, reads every listed metadata again, takes   *)
(* the statistics, and then checks and unlinks one candidate after the       *)
(* other; it awaits every call, so what it decides on may have changed       *)
(* since.  One pass over the files is one step here (two for the            *)
(* statistics, which fail as a whole when a file is gone since readdir).     *)
(* The blob store is taken as a set of blobs with a pin, of which some have  *)
(* no metadata that can be read: it is being written, or its writing failed  *)
(* or ended with a crash.  BlobStore has the two files, the descriptors and  *)
(* the rewrites behind each operation; metadata whose blob is gone (a crash  *)
(* between the two unlinks) is left out.                                     *)
(*                                                                         *)
(* Ages are abstracted to older than gcMaxBlobAgeDays or not.  The priority  *)
(* of an unpinned blob mixes its age, its last access and its size, so that  *)
(* any order of the unpinned ones occurs; pinned blobs always come last.     *)
(***************************************************************************)
EXTENDS Naturals, FiniteSets, Folds

CONSTANTS
  Cids,
  Collectors,   \* who starts collections: the timer and the admin route
  NoCid,
  Size,         \* metadata.size: the length of what the client stored
  DiskSize,     \* the length of the blob file, less when compressed
  Disk,         \* what the disk can hold
  MinFree, Reserved,   \* the gc configuration, in the same unit
  Configs,      \* gcRetentionMode, gcMaxStorageMB, replicationFactor and the
                \* cids of nodeShards
  Production,   \* NODE_ENV is production
  MaxRuns       \* bound on the collections that start

ASSUME SizeAssumption ==
  Size \in [Cids -> Nat] /\ DiskSize \in [Cids -> Nat]
ASSUME ConfigAssumption ==
  /\ Disk \in Nat /\ MinFree \in Nat /\ Reserved \in Nat
  /\ Configs \subseteq [mode : {"size", "time", "hybrid"}, max : Nat,
                        factor : Nat \ {0},     \* validateConfig
                        shard : SUBSET Cids]
  /\ Production \in BOOLEAN /\ MaxRuns \in Nat
ASSUME CidAssumption == NoCid \notin Cids /\ IsFiniteSet(Cids)

VARIABLES
  config,                \* a member of Configs, fixed at start-up
  blobs,                 \* the store: the cids that have a blob file,
  unreadable,            \* those of them that have no good metadata,
  pinned, old,           \* and what the metadata says of the others, or will
  running, total,        \* the service: this.running, this.totalDeleted
  runs,                  \* collections started so far
  job,                   \* each collector's runGC or forcePurgeAll
  single,                \* deleteSingleBlob, one at a time
  \* history, for the properties only
  gone,                  \* blobs that collections have unlinked
  steady,                \* pinned before the collection under way checked it,
                         \* and since
  quiet,                 \* nobody else has changed the store during it
  excess,                \* what it has found it must free
  refused                \* it has met a candidate that is not in the shard

store == <<blobs, unreadable, pinned, old>>
vars == <<config, blobs, unreadable, pinned, old, running, total, runs, job,
          single, gone, steady, quiet, excess, refused>>

Kinds == {"gc", "dry", "purge"}
JobPcs == {"idle", "list", "inspect", "readdir", "stat", "select", "check",
           "unlink", "purge"}
\* A run: what it lists and still has to look at, the blobs its statistics saw
\* and those of them that were pinned, what it is about to unlink and has unlinked
Jobs == [pc : JobPcs, kind : Kinds, cand : SUBSET Cids, pins : SUBSET Cids,
         todo : SUBSET Cids, seen : SUBSET Cids, held : SUBSET Cids,
         target : Cids \cup {NoCid}, deleted : SUBSET Cids]
NoJob == [pc |-> "idle", kind |-> "gc", cand |-> {}, pins |-> {}, todo |-> {},
          seen |-> {}, held |-> {}, target |-> NoCid, deleted |-> {}]
NoSingle == [pc |-> "idle", cid |-> NoCid]

Total(f, S) == MapThenFoldSet(+, 0, LAMBDA c : f[c], LAMBDA T : CHOOSE c \in T : TRUE, S)
Used == Total(DiskSize, blobs)
Readable == blobs \ unreadable

-----------------------------------------------------------------------------
(* The store, as this module sees it.                                        *)

\* deleteBlob has unlinked the files of the cids in S.
DeleteFiles(S) ==
  /\ blobs' = blobs \ S /\ unreadable' = unreadable \ S
  /\ pinned' = pinned \ S /\ old' = old \ S

Disturb == quiet' = FALSE

\* A step of a request on the store, which no collection takes part in
Elsewhere ==
  Disturb /\ UNCHANGED <<config, running, total, runs, job, single, gone, excess, refused>>

\* A client stores a new blob, not pinned, just created: first its file, ...
Store(c) ==
  /\ c \notin blobs /\ Used + DiskSize[c] <= Disk
  /\ blobs' = blobs \cup {c} /\ unreadable' = unreadable \cup {c}
  /\ Elsewhere /\ UNCHANGED <<pinned, old, steady>>

\* ... then its metadata, unless the node crashes or the write fails.
MetaWritten(c) ==
  /\ c \in unreadable
  /\ unreadable' = unreadable \ {c}
  /\ Elsewhere /\ UNCHANGED <<blobs, pinned, old, steady>>

\* updateMetadata empties the file before it writes the text.
MetaEmptied(c) ==
  /\ c \in Readable
  /\ unreadable' = unreadable \cup {c}
  /\ Elsewhere /\ UNCHANGED <<blobs, pinned, old, steady>>

Pin(c) ==
  /\ c \in Readable \ pinned
  /\ pinned' = pinned \cup {c}
  /\ steady' = IF running /\ \A k \in Collectors : job[k].target # c
               THEN steady \cup {c} ELSE steady
  /\ Elsewhere /\ UNCHANGED <<blobs, unreadable, old>>

Unpin(c) ==
  /\ c \in Readable \cap pinned
  /\ pinned' = pinned \ {c} /\ steady' = steady \ {c}
  /\ Elsewhere /\ UNCHANGED <<blobs, unreadable, old>>

\* A blob becomes older than gcMaxBlobAgeDays, which size mode never looks at.
Age(c) ==
  /\ config.mode # "size" /\ c \in blobs \ old
  /\ old' = old \cup {c}
  /\ UNCHANGED <<config, blobs, unreadable, pinned, running, total, runs, job,
                 single, gone, steady, quiet, excess, refused>>

-----------------------------------------------------------------------------
(* canSafelyDelete.                                                          *)

\* metadata.replication.replicatedTo: storeBlob writes an empty list, and
\* nothing in the service adds to it.
KnownReplicas(c) == 0

\* checkReplicationFactor; with no known replica there is none to verify.
EnoughReplicas(c) == KnownReplicas(c) >= config.factor - 1

Refusal(c) ==
  CASE c \in pinned -> "pinned"
    [] c \notin pinned /\ c \notin config.shard -> "shard_mismatch"
    [] c \notin pinned /\ c \in config.shard /\ ~EnoughReplicas(c) ->
         "insufficient_replicas"
    [] OTHER -> "none"

-----------------------------------------------------------------------------
(* runGC and forcePurgeAll.                                                  *)

\* this.running is tested and set before the first await; the route and the
\* timer reject a second run.
Start(k, kind) ==
  /\ ~running /\ job[k].pc = "idle" /\ runs < MaxRuns
  /\ kind = "purge" => ~Production
  /\ running' = TRUE /\ runs' = runs + 1
  /\ job' = [job EXCEPT ![k] = [NoJob EXCEPT !.pc = "list", !.kind = kind]]
  /\ steady' = pinned /\ quiet' = TRUE /\ excess' = 0 /\ refused' = FALSE
  /\ UNCHANGED <<config, store, total, single, gone>>

Becomes(k, j) ==
  /\ job' = [job EXCEPT ![k] = j]
  /\ UNCHANGED <<config, running, total, runs, single, steady, quiet, excess>>

Reads(k, j) == Becomes(k, j) /\ UNCHANGED <<store, gone, refused>>

\* A run ends: finally resets this.running.
Ends(k) ==
  /\ job' = [job EXCEPT ![k] = NoJob] /\ running' = FALSE
  /\ steady' = {} /\ quiet' = FALSE /\ excess' = 0 /\ refused' = FALSE
  /\ UNCHANGED <<config, store, runs, single, gone>>

\* Mutant: the reset of this.running is not in a finally block.
AbortKeepsMutex(k) ==
  /\ job' = [job EXCEPT ![k] = NoJob]
  /\ UNCHANGED <<config, store, running, total, runs, single, gone, steady,
                 quiet, excess, refused>>

\* A call of runGC throws: nothing is counted.
Abort(k) == Ends(k) /\ UNCHANGED total

\* listBlobs skips the blobs whose metadata it cannot read.
List(k) ==
  LET j == job[k]
  IN /\ j.pc = "list"
     /\ Reads(k, IF j.kind = "purge"
                 THEN [j EXCEPT !.pc = "purge", !.todo = Readable]
                 ELSE [j EXCEPT !.pc = "inspect", !.cand = Readable])

\* getDeletionCandidates reads every listed metadata again, and throws for one
\* that is gone or cannot be read.  Its filter on the age keeps the pinned ones, so that they
\* are counted as skipped.
Inspect(k) ==
  LET j == job[k]
      kept == IF config.mode = "size" THEN j.cand ELSE j.cand \cap (pinned \cup old)
  IN /\ j.pc = "inspect" /\ j.cand \subseteq Readable
     /\ Reads(k, [j EXCEPT !.pins = kept \cap pinned,
                   !.pc = IF config.mode = "time" THEN "check" ELSE "readdir",
                   !.cand = IF config.mode = "time" THEN {} ELSE kept,
                   !.todo = IF config.mode = "time" THEN kept ELSE {}])

InspectThrows(k) ==
  job[k].pc = "inspect" /\ ~(job[k].cand \subseteq Readable) /\ Abort(k)

\* getStats: the directory, then each file.  A file that is gone by then makes
\* it answer zeros, metadata that cannot be read only counts as not pinned.
Readdir(k) ==
  /\ job[k].pc = "readdir"
  /\ Reads(k, [job[k] EXCEPT !.pc = "stat", !.todo = blobs])

Stat(k) ==
  LET j == job[k]
      seen == IF j.todo \subseteq blobs THEN j.todo ELSE {}
  IN /\ j.pc = "stat"
     /\ Reads(k, [j EXCEPT !.pc = "select", !.todo = {},
                           !.seen = seen,
                           !.held = (seen \cap pinned) \ unreadable])

Larger(a, b) == IF a > b THEN a ELSE b
Excess(used) == Larger(IF used > config.max THEN used - config.max ELSE 0,
                       IF Disk - Used < MinFree THEN MinFree - (Disk - Used) ELSE 0)

\* Mutant: what was selected is never added up.
EnoughAll(C, need) == {C}

\* Mutant: stops one candidate early.
EnoughShort(C, need) ==
  {S \in SUBSET C :
     \/ S = C /\ Total(Size, C) <= need
     \/ \E next \in C \ S : /\ Total(Size, S) < need
                            /\ Total(Size, S \cup {next}) >= need}

\* In the order of the priorities, as many of C as free the excess, counted in
\* metadata sizes.
Enough(C, need) ==
  {S \in SUBSET C :
     \/ S = C /\ Total(Size, C) <= need
     \/ \E last \in S : /\ Total(Size, S \ {last}) < need
                        /\ Total(Size, S) >= need}

\* Over the limit, or low on free disk: select.  Otherwise the list is left
\* as it is.
Select(k) ==
  LET j == job[k]
      used == Total(DiskSize, j.seen)
      free == used - Total(DiskSize, j.held)   \* what pins do not hold
      e == Excess(used)
      goesOn(todo) ==
        job' = [job EXCEPT ![k] = [j EXCEPT !.pc = "check", !.cand = {},
                                   !.seen = {}, !.held = {}, !.todo = todo]]
  IN /\ j.pc = "select"
     /\ \/ e = 0 /\ goesOn(j.cand) /\ UNCHANGED excess
        \/ e > 0 /\ free <= Reserved /\ goesOn({}) /\ UNCHANGED excess
        \/ /\ e > 0 /\ free > Reserved /\ excess' = e
           /\ \E S \in Enough(j.cand \ j.pins, e) : goesOn(S \cup j.pins)
     /\ UNCHANGED <<config, store, running, total, runs, single, gone, steady,
                    quiet, refused>>

\* The candidates that may be next: pinned ones come last.
Upcoming(j) == IF j.todo \subseteq j.pins THEN j.todo ELSE j.todo \ j.pins

Skip(k, c) ==
  LET j == job[k]
  IN /\ j.pc = "check" /\ c \in Upcoming(j) \cap Readable
     /\ Refusal(c) # "none"
     /\ Becomes(k, [j EXCEPT !.todo = @ \ {c}])
     /\ refused' = IF Refusal(c) = "shard_mismatch"
                   THEN TRUE ELSE refused
     /\ UNCHANGED <<store, gone>>

\* Mutant: the decision is taken on the pins seen when the candidates were read.
AllowStale(k, c) ==
  LET j == job[k]
  IN /\ j.pc = "check" /\ c \in Upcoming(j) \cap Readable
     /\ c \notin j.pins /\ c \in config.shard /\ EnoughReplicas(c)
     /\ Reads(k, IF j.kind = "dry"
                 THEN [j EXCEPT !.todo = @ \ {c}, !.deleted = @ \cup {c}]
                 ELSE [j EXCEPT !.todo = @ \ {c}, !.pc = "unlink", !.target = c])

Allow(k, c) ==
  LET j == job[k]
  IN /\ j.pc = "check" /\ c \in Upcoming(j) \cap Readable
     /\ Refusal(c) = "none"
     /\ Reads(k, IF j.kind = "dry"
                 THEN [j EXCEPT !.todo = @ \ {c}, !.deleted = @ \cup {c}]
                 ELSE [j EXCEPT !.todo = @ \ {c}, !.pc = "unlink", !.target = c])

CheckThrows(k, c) ==
  job[k].pc = "check" /\ c \in Upcoming(job[k]) \ Readable /\ Abort(k)

Unlink(k) ==
  LET j == job[k]
  IN /\ j.pc = "unlink" /\ j.target \in blobs
     /\ DeleteFiles({j.target}) /\ gone' = gone + 1
     /\ Becomes(k, [j EXCEPT !.pc = "check", !.target = NoCid,
                             !.deleted = @ \cup {j.target}])
     /\ UNCHANGED refused

UnlinkThrows(k) == job[k].pc = "unlink" /\ job[k].target \notin blobs /\ Abort(k)

\* Mutant: a dry run is counted too.
FinishCountsDry(k) ==
  /\ job[k].pc = "check" /\ job[k].todo = {} /\ Ends(k)
  /\ total' = total + Cardinality(job[k].deleted)

Finish(k) ==
  /\ job[k].pc = "check" /\ job[k].todo = {} /\ Ends(k)
  /\ total' = IF job[k].kind = "gc"
              THEN total + Cardinality(job[k].deleted) ELSE total

\* forcePurgeAll deletes whatever was listed; an error is logged, and the loop
\* goes on.  It is not counted in the totals.
Purge(k, c) ==
  /\ job[k].pc = "purge" /\ c \in job[k].todo
  /\ DeleteFiles({c}) /\ steady' = steady \ {c}
  /\ job' = [job EXCEPT ![k].todo = @ \ {c}]
  /\ UNCHANGED <<config, running, total, runs, single, gone, quiet, excess, refused>>

Purged(k) == job[k].pc = "purge" /\ job[k].todo = {} /\ Abort(k)

CollectorStep(k) ==
  \/ List(k) \/ Inspect(k) \/ InspectThrows(k) \/ Readdir(k) \/ Stat(k)
  \/ Select(k) \/ Unlink(k) \/ UnlinkThrows(k) \/ Finish(k) \/ Purged(k)
  \/ \E c \in Cids :
       Skip(k, c) \/ Allow(k, c) \/ CheckThrows(k, c) \/ Purge(k, c)

-----------------------------------------------------------------------------
(* deleteSingleBlob: no mutex.  With force in the request a lack of replicas   *)
(* is no refusal.                                                            *)

SingleGet(c) ==
  /\ single.pc = "idle" /\ c \in Readable
  /\ single' = [pc |-> "check", cid |-> c]
  /\ UNCHANGED <<config, store, running, total, runs, job, gone, steady, quiet,
                 excess, refused>>

SingleEnds ==
  /\ single' = NoSingle
  /\ UNCHANGED <<config, running, total, runs, job, gone, excess, refused>>

SingleAllow ==
  LET c == single.cid
  IN /\ single.pc = "check" /\ c \in Readable
     /\ Refusal(c) \in {"none", "insufficient_replicas"}
     /\ single' = [single EXCEPT !.pc = "unlink"]
     /\ UNCHANGED <<config, store, running, total, runs, job, gone, steady,
                    quiet, excess, refused>>

SingleRefuse ==
  LET c == single.cid
  IN /\ single.pc = "check"
     /\ c \in Readable => Refusal(c) # "none"
     /\ SingleEnds /\ UNCHANGED <<store, steady, quiet>>

\* deleteBlob; a blob that is gone is answered with success = false.
SingleUnlink ==
  /\ single.pc = "unlink"
  /\ DeleteFiles({single.cid}) /\ steady' = steady \ {single.cid}
  /\ IF single.cid \in blobs THEN Disturb ELSE UNCHANGED quiet
  /\ SingleEnds

SingleStep == SingleAllow \/ SingleRefuse \/ SingleUnlink

-----------------------------------------------------------------------------
Init ==
  /\ config \in Configs
  /\ blobs = {} /\ unreadable = {} /\ pinned = {} /\ old = {}
  /\ running = FALSE /\ total = 0 /\ runs = 0
  /\ job = [k \in Collectors |-> NoJob] /\ single = NoSingle
  /\ gone = 0 /\ steady = {} /\ quiet = FALSE /\ excess = 0 /\ refused = FALSE

Next ==
  \/ \E c \in Cids : \/ Store(c) \/ MetaWritten(c) \/ MetaEmptied(c)
                     \/ Pin(c) \/ Unpin(c) \/ Age(c)
                     \/ SingleGet(c)
  \/ \E k \in Collectors :
       CollectorStep(k) \/ \E kind \in Kinds : Start(k, kind)
  \/ SingleStep

Spec == Init /\ [][Next]_vars

-----------------------------------------------------------------------------
(* Properties.                                                               *)

\* The mutex: this.running says whether a collection or purge is under way, and
\* there is one at most.
OneCollector ==
  /\ running <=> \E k \in Collectors : job[k].pc # "idle"
  /\ \A k, l \in Collectors : job[k].pc # "idle" /\ job[l].pc # "idle" => k = l

\* GET /gc/status never reports more deletions than there were: a run that
\* throws half-way is not counted at all, a dry run neither.
TotalsHonest == total <= gone

\* The step by which collection k unlinks c
Unlinks(k, c) == job[k].pc = "unlink" /\ job[k].target = c /\ c \notin blobs'

\* A blob that was pinned when a collection began, or during it before its check
\* as a candidate, and has not been unpinned since is not deleted by it: the pin
\* read when the candidates were listed decides nothing.
PinnedSurvive ==
  [][\A k \in Collectors, c \in Cids : Unlinks(k, c) => c \notin steady]_vars

Finishes(k) == job[k].pc = "check" /\ job[k].todo = {} /\ job'[k].pc = "idle"

\* In size mode, a collection of a single-copy node that nobody disturbed ends
\* with the store within its limits, unless what it did not delete is pinned, of
\* another shard or without readable metadata (which listBlobs leaves out for
\* ever, while getStats goes on counting its bytes), or all that is not pinned was
\* reserved for pins (gc.service.ts:272 "take enough to free up space").  Blobs
\* are not compressed: what is added up is the size before.
Uncompressed == DiskSize = Size
FreesEnough ==
  [][\A k \in Collectors :
       /\ Finishes(k) /\ job[k].kind = "gc" /\ excess > 0
       /\ config.mode = "size" /\ config.factor = 1 /\ quiet /\ ~refused /\ Uncompressed
       => \/ Used <= config.max /\ Disk - Used >= MinFree
          \/ blobs \subseteq pinned \cup unreadable]_vars

\* A collection nobody disturbed that selected blobs to free some excess does
\* not delete so many that it could have spared any one of them.  (Disturbed,
\* it may: a blob seen pinned stays in the list, and is deleted if it is
\* unpinned by the time it is checked.)
FreesNoMore ==
  [][\A k \in Collectors, c \in Cids :
       Unlinks(k, c) /\ excess > 0 /\ quiet
       => LET D == job[k].deleted \cup {c}
          IN  \E x \in D : Total(Size, D \ {x}) < excess]_vars

\* __tests__/garbage-collection.test.ts:437 "should not trigger GC when free disk
\* space is sufficient", with storage under its limit: "Should not delete
\* anything".
NothingWithoutNeed ==
  [][\A k \in Collectors, c \in Cids :
       Unlinks(k, c) /\ config.mode # "time" => excess > 0]_vars

=============================================================================
