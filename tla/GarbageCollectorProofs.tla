------------------------ MODULE GarbageCollectorProofs ------------------------
(***************************************************************************)
(* Safety of GarbageCollector for any blobs, sizes, configuration and number *)
(* of collectors and runs: first who may collect and what survives            *)
(* (SafeInv), then the sums of sizes, and what a collection frees (FreeInv).  *)
(***************************************************************************)
EXTENDS GarbageCollector, ListProofs

\* The types of the variables, as far as both invariants need them
Shape ==
  /\ config \in Configs /\ job \in [Collectors -> Jobs]
  /\ pinned \subseteq blobs /\ unreadable \subseteq blobs
  /\ blobs \subseteq Cids /\ running \in BOOLEAN /\ total \in Nat /\ gone \in Nat
  /\ single.cid \in Cids \cup {NoCid}
  /\ \A k \in Collectors : /\ job[k].pc = "idle" => job[k] = NoJob
                           /\ job[k].pc # "unlink" => job[k].target = NoCid

\* No collection is about to unlink a blob that was pinned in time.
TargetInv ==
  /\ steady \subseteq pinned
  /\ \A k \in Collectors : job[k].pc = "unlink" => job[k].target \notin steady

\* What the run under way will add to the total has been unlinked.
CountInv ==
  /\ total <= gone
  /\ \A k \in Collectors :
       job[k].kind = "gc" => total + Cardinality(job[k].deleted) <= gone

SafeInv == Shape /\ OneCollector /\ TargetInv /\ CountInv

-----------------------------------------------------------------------------
LEMMA DeletedFinite ==
  ASSUME Shape, NEW k \in Collectors
  PROVE  /\ IsFiniteSet(job[k].deleted)
         /\ Cardinality(job[k].deleted) \in Nat
<1>1. job[k].deleted \subseteq Cids
  BY DEF Shape, Jobs
<1> QED
  BY <1>1, CidAssumption, FS_Subset, FS_CardinalityType

LEMMA SafeInit == Init => SafeInv
<1> SUFFICES ASSUME Init PROVE SafeInv
  OBVIOUS
<1>1. NoJob \in Jobs /\ NoJob.deleted = {} /\ NoJob.target = NoCid
  BY DEF NoJob, Jobs, JobPcs, Kinds
<1>2. Shape
  BY <1>1 DEF Init, Shape, NoSingle
<1>3. OneCollector /\ TargetInv
  BY DEF Init, OneCollector, TargetInv, NoJob
<1>4. CountInv
  BY <1>1, FS_EmptySet DEF Init, CountInv
<1> QED
  BY <1>2, <1>3, <1>4 DEF SafeInv

\* The run of k is over, and others were idle.
LEMMA SafeEnds ==
  ASSUME SafeInv, NEW k \in Collectors, job[k].pc # "idle", Ends(k),
         total' \in Nat, total' <= gone
  PROVE  SafeInv'
<1>1. NoJob \in Jobs /\ NoJob.deleted = {} /\ NoJob.target = NoCid /\ NoJob.pc = "idle"
  BY DEF NoJob, Jobs, JobPcs, Kinds
<1>2. /\ job' = [job EXCEPT ![k] = NoJob] /\ running' = FALSE
      /\ UNCHANGED <<config, blobs, unreadable, pinned, single, gone>> /\ steady' = {}
  BY DEF Ends, store
<1>3. \A l \in Collectors : job'[l] = NoJob
  BY <1>2 DEF SafeInv, OneCollector, Shape
<1>4. Shape'
  BY <1>1, <1>2, <1>3 DEF SafeInv, Shape
<1>5. OneCollector' /\ TargetInv'
  BY <1>1, <1>2, <1>3 DEF OneCollector, TargetInv
<1>6. CountInv'
  <2>1. total' \in Nat /\ total' <= gone'
    BY <1>2
  <2>2. ASSUME NEW l \in Collectors
        PROVE  total' + Cardinality(job'[l].deleted) <= gone'
    <3>1. Cardinality(job'[l].deleted) = 0
      BY <1>1, <1>3, FS_EmptySet
    <3> QED
      BY <2>1, <3>1
  <2> QED
    BY <2>1, <2>2 DEF CountInv
<1> QED
  BY <1>4, <1>5, <1>6 DEF SafeInv

\* The run of k goes on, and nothing is unlinked or about to be.
LEMMA SafeGoesOn ==
  ASSUME SafeInv, NEW k \in Collectors, job[k].pc # "idle", NEW j \in Jobs,
         j.pc \notin {"idle", "unlink"}, j.target = NoCid, j.kind = job[k].kind,
         j.kind = "gc" => j.deleted = job[k].deleted,
         job' = [job EXCEPT ![k] = j],
         UNCHANGED <<config, blobs, unreadable, pinned, running, total, single, gone, steady>>
  PROVE  SafeInv'
<1>1. Shape'
  BY DEF SafeInv, Shape
<1>2. OneCollector' /\ TargetInv'
  BY DEF SafeInv, Shape, OneCollector, TargetInv
<1>3. CountInv'
  BY DEF SafeInv, Shape, CountInv
<1> QED
  BY <1>1, <1>2, <1>3 DEF SafeInv

\* Others change the store: what the runs are doing stays.
LEMMA SafeStore ==
  ASSUME SafeInv, UNCHANGED <<config, running, total, job, gone>>,
         pinned' \subseteq blobs', unreadable' \subseteq blobs', blobs' \subseteq Cids,
         single'.cid \in Cids \cup {NoCid},
         steady' \subseteq pinned',
         \A c \in steady' \ steady : \A k \in Collectors : job[k].target # c
  PROVE  SafeInv'
  BY DEF SafeInv, Shape, OneCollector, TargetInv, CountInv

-----------------------------------------------------------------------------
LEMMA SafeStart ==
  ASSUME SafeInv, NEW k \in Collectors, NEW kind \in Kinds, Start(k, kind)
  PROVE  SafeInv'
<1> DEFINE j == [NoJob EXCEPT !.pc = "list", !.kind = kind]
<1>1. j \in Jobs /\ j.deleted = {} /\ j.target = NoCid /\ j.pc = "list"
  BY DEF NoJob, Jobs, JobPcs, Kinds
<1>2. /\ job' = [job EXCEPT ![k] = j] /\ running' = TRUE /\ steady' = pinned
      /\ UNCHANGED <<config, blobs, unreadable, pinned, single, gone, total>>
  BY DEF Start, store
<1>3. \A l \in Collectors : job[l].pc = "idle"
  BY DEF Start, SafeInv, OneCollector
<1> HIDE DEF j
<1>4. Shape'
  BY <1>1, <1>2 DEF SafeInv, Shape
<1>5. OneCollector' /\ TargetInv'
  BY <1>1, <1>2, <1>3 DEF SafeInv, Shape, OneCollector, TargetInv
<1>6. CountInv'
  <2>1. Cardinality(j.deleted) = 0
    BY <1>1, FS_EmptySet
  <2>2. total' = total /\ gone' = gone /\ total <= gone /\ total \in Nat
    BY <1>2 DEF SafeInv, Shape, CountInv
  <2>3. ASSUME NEW l \in Collectors, job'[l].kind = "gc"
        PROVE  total + Cardinality(job'[l].deleted) <= gone
    <3>1. CASE l = k
      <4>1. job'[l] = j
        BY <1>2, <3>1 DEF SafeInv, Shape
      <4> QED
        BY <2>1, <2>2, <4>1
    <3>2. CASE l # k
      <4>1. job'[l] = job[l]
        BY <1>2, <3>2 DEF SafeInv, Shape
      <4> QED
        BY <2>3, <4>1 DEF SafeInv, CountInv
    <3> QED
      BY <3>1, <3>2
  <2> QED
    BY <2>2, <2>3 DEF CountInv
<1> QED
  BY <1>4, <1>5, <1>6 DEF SafeInv

\* The step from the check to the unlink: the candidate is not pinned now.
LEMMA SafeAllow ==
  ASSUME SafeInv, NEW k \in Collectors, NEW c \in Cids, Allow(k, c)
  PROVE  SafeInv'
<1>1. CASE job[k].kind = "dry"
  <2> DEFINE j == [job[k] EXCEPT !.todo = @ \ {c}, !.deleted = @ \cup {c}]
  <2>1. j \in Jobs /\ j.pc = "check" /\ j.target = NoCid /\ j.kind = job[k].kind
    BY <1>1 DEF Allow, SafeInv, Shape, Jobs
  <2>2. job' = [job EXCEPT ![k] = j]
        /\ UNCHANGED <<config, blobs, unreadable, pinned, running, total, single, gone, steady>>
    BY <1>1 DEF Allow, Reads, Becomes, store
  <2> HIDE DEF j
  <2> QED
    BY <1>1, <2>1, <2>2, SafeGoesOn DEF Allow
<1>2. CASE job[k].kind # "dry"
  <2> DEFINE j == [job[k] EXCEPT !.todo = @ \ {c}, !.pc = "unlink", !.target = c]
  <2>0. job[k] \in Jobs
    BY DEF SafeInv, Shape
  <2>1. /\ j \in Jobs /\ j.pc = "unlink" /\ j.target = c
        /\ j.kind = job[k].kind /\ j.deleted = job[k].deleted
    BY <2>0 DEF Jobs, JobPcs
  <2>2. job' = [job EXCEPT ![k] = j] /\ job[k].pc = "check"
        /\ UNCHANGED <<config, blobs, unreadable, pinned, running, total, single, gone, steady>>
    BY <1>2 DEF Allow, Reads, Becomes, store
  <2>3. c \notin pinned
    BY DEF Allow, Refusal
  <2> HIDE DEF j
  <2>4. Shape'
    BY <2>1, <2>2 DEF SafeInv, Shape
  <2>5. OneCollector' /\ TargetInv'
    BY <2>1, <2>2, <2>3 DEF SafeInv, Shape, OneCollector, TargetInv
  <2>6. CountInv'
    BY <2>1, <2>2 DEF SafeInv, Shape, CountInv
  <2> QED
    BY <2>4, <2>5, <2>6 DEF SafeInv
<1> QED
  BY <1>1, <1>2

LEMMA SafeUnlink ==
  ASSUME SafeInv, NEW k \in Collectors, Unlink(k)
  PROVE  SafeInv'
<1> DEFINE c == job[k].target
           j == [job[k] EXCEPT !.pc = "check", !.target = NoCid,
                               !.deleted = @ \cup {c}]
<1>1. job[k].pc = "unlink" /\ c \in Cids
  BY DEF Unlink, SafeInv, Shape
<1>2. /\ j \in Jobs /\ j.pc = "check" /\ j.target = NoCid
      /\ j.kind = job[k].kind /\ j.deleted = job[k].deleted \cup {c}
  <2>1. job[k] \in Jobs
    BY DEF SafeInv, Shape
  <2> QED
    BY <1>1, <2>1 DEF Jobs, JobPcs
<1>3. /\ job' = [job EXCEPT ![k] = j] /\ gone' = gone + 1
      /\ blobs' = blobs \ {c} /\ pinned' = pinned \ {c} /\ unreadable' = unreadable \ {c}
      /\ UNCHANGED <<config, running, total, single, steady>>
  BY DEF Unlink, DeleteFiles, Becomes
<1>4. c \notin steady
  BY <1>1 DEF SafeInv, TargetInv
<1>5. /\ Cardinality(j.deleted) <= Cardinality(job[k].deleted) + 1
      /\ Cardinality(j.deleted) \in Nat /\ Cardinality(job[k].deleted) \in Nat
  <2> DEFINE D == job[k].deleted
  <2>1. IsFiniteSet(D) /\ Cardinality(D) \in Nat
    BY DeletedFinite DEF SafeInv
  <2> HIDE DEF D, c
  <2>2. /\ IsFiniteSet(D \cup {c})
        /\ \/ Cardinality(D \cup {c}) = Cardinality(D)
           \/ Cardinality(D \cup {c}) = Cardinality(D) + 1
    BY <2>1, FS_AddElement
  <2>3. j.deleted = D \cup {c}
    BY <1>2 DEF D
  <2> QED
    BY <2>1, <2>2, <2>3 DEF D
<1>7. \A l \in Collectors : Cardinality(job[l].deleted) \in Nat
  BY DeletedFinite DEF SafeInv
<1> HIDE DEF c, j
<1>8. Shape'
  BY <1>2, <1>3 DEF SafeInv, Shape
<1>9. OneCollector' /\ TargetInv'
  BY <1>1, <1>2, <1>3, <1>4 DEF SafeInv, Shape, OneCollector, TargetInv
<1>10. CountInv'
  <2>1. total' = total /\ total \in Nat /\ gone \in Nat /\ total' <= gone'
    BY <1>3 DEF SafeInv, Shape, CountInv
  <2>2. ASSUME NEW l \in Collectors, job'[l].kind = "gc"
        PROVE  total + Cardinality(job'[l].deleted) <= gone + 1
    <3>1. CASE l = k
      <4>1. job'[l] = j /\ total + Cardinality(job[k].deleted) <= gone
        BY <1>2, <1>3, <2>2, <3>1 DEF SafeInv, Shape, CountInv
      <4> QED
        BY <1>5, <2>1, <4>1
    <3>2. CASE l # k
      <4>1. job'[l] = job[l]
        BY <1>3, <3>2 DEF SafeInv, Shape
      <4>2. total + Cardinality(job[l].deleted) <= gone
        BY <2>2, <4>1 DEF SafeInv, CountInv
      <4> QED
        BY <1>7, <2>1, <4>1, <4>2
    <3> QED
      BY <3>1, <3>2
  <2> QED
    BY <1>3, <2>1, <2>2 DEF CountInv
<1> QED
  BY <1>8, <1>9, <1>10 DEF SafeInv

LEMMA SafeCollector ==
  ASSUME SafeInv, NEW k \in Collectors, CollectorStep(k)
  PROVE  SafeInv'
<1> USE DEF Reads, Becomes, store
<1>0. job[k] \in Jobs /\ (job[k].pc # "unlink" => job[k].target = NoCid)
      /\ total \in Nat /\ total <= gone
  BY DEF SafeInv, Shape, CountInv
<1>1. CASE List(k)
  <2> DEFINE j == IF job[k].kind = "purge"
                  THEN [job[k] EXCEPT !.pc = "purge", !.todo = Readable]
                  ELSE [job[k] EXCEPT !.pc = "inspect", !.cand = Readable]
  <2>1. /\ j \in Jobs /\ j.pc \in {"purge", "inspect"} /\ j.target = NoCid
        /\ j.kind = job[k].kind /\ j.deleted = job[k].deleted
    BY <1>0, <1>1 DEF List, Readable, SafeInv, Shape, Jobs, JobPcs
  <2>2. job' = [job EXCEPT ![k] = j]
    BY <1>1 DEF List
  <2> HIDE DEF j
  <2> QED
    BY <1>1, <2>1, <2>2, SafeGoesOn DEF List
<1>2. CASE Inspect(k)
  <2> PICK j \in Jobs :
        /\ job' = [job EXCEPT ![k] = j] /\ j.pc \in {"check", "readdir"}
        /\ j.target = NoCid /\ j.kind = job[k].kind /\ j.deleted = job[k].deleted
    <3> DEFINE kept == IF config.mode = "size" THEN job[k].cand
                       ELSE job[k].cand \cap (pinned \cup old)
               j == [job[k] EXCEPT !.pins = kept \cap pinned,
                       !.pc = IF config.mode = "time" THEN "check" ELSE "readdir",
                       !.cand = IF config.mode = "time" THEN {} ELSE kept,
                       !.todo = IF config.mode = "time" THEN kept ELSE {}]
    <3>1. kept \subseteq Cids
      BY <1>0 DEF Jobs
    <3>2. /\ j \in Jobs /\ j.pc \in {"check", "readdir"} /\ j.target = NoCid
          /\ j.kind = job[k].kind /\ j.deleted = job[k].deleted
      <4> HIDE DEF kept
      <4> QED
        BY <1>0, <1>2, <3>1 DEF Inspect, Jobs, JobPcs
    <3>3. job' = [job EXCEPT ![k] = j]
      BY <1>2 DEF Inspect
    <3> HIDE DEF j
    <3> QED
      BY <3>2, <3>3
  <2> QED
    BY <1>2, SafeGoesOn DEF Inspect
<1>3. CASE InspectThrows(k) \/ UnlinkThrows(k) \/ Purged(k)
           \/ \E c \in Cids : CheckThrows(k, c)
  BY <1>0, <1>3, SafeEnds DEF InspectThrows, UnlinkThrows, Purged, CheckThrows, Abort
<1>4. CASE Readdir(k)
  <2> DEFINE j == [job[k] EXCEPT !.pc = "stat", !.todo = blobs]
  <2>1. /\ j \in Jobs /\ j.pc = "stat" /\ j.target = NoCid
        /\ j.kind = job[k].kind /\ j.deleted = job[k].deleted
    BY <1>0, <1>4 DEF Readdir, SafeInv, Shape, Jobs, JobPcs
  <2>2. job' = [job EXCEPT ![k] = j]
    BY <1>4 DEF Readdir
  <2> HIDE DEF j
  <2> QED
    BY <1>4, <2>1, <2>2, SafeGoesOn DEF Readdir
<1>5. CASE Stat(k)
  <2> DEFINE seen == IF job[k].todo \subseteq blobs THEN job[k].todo ELSE {}
             j == [job[k] EXCEPT !.pc = "select", !.todo = {},
                                 !.seen = seen, !.held = (seen \cap pinned) \ unreadable]
  <2>1. /\ j \in Jobs /\ j.pc = "select" /\ j.target = NoCid
        /\ j.kind = job[k].kind /\ j.deleted = job[k].deleted
    BY <1>0, <1>5 DEF Stat, Jobs, JobPcs
  <2>2. job' = [job EXCEPT ![k] = j]
    BY <1>5 DEF Stat
  <2> HIDE DEF j
  <2> QED
    BY <1>5, <2>1, <2>2, SafeGoesOn DEF Stat
<1>6. CASE Select(k)
  <2>1. PICK todo \in SUBSET Cids :
          job' = [job EXCEPT ![k] = [job[k] EXCEPT !.pc = "check", !.cand = {},
                                       !.seen = {}, !.held = {}, !.todo = todo]]
    <3>1. job[k].cand \in SUBSET Cids /\ job[k].pins \in SUBSET Cids
      BY <1>0 DEF Jobs
    <3>2. \A need : \A S \in Enough(job[k].cand \ job[k].pins, need) :
            S \cup job[k].pins \in SUBSET Cids
      BY <3>1 DEF Enough
    <3>3. /\ job[k].pc = "select"
          /\ UNCHANGED <<config, blobs, unreadable, pinned, running, total, single, gone, steady>>
      BY <1>6 DEF Select
    <3> DEFINE goesOn(todo) ==
          job' = [job EXCEPT ![k] = [job[k] EXCEPT !.pc = "check", !.cand = {},
                                       !.seen = {}, !.held = {}, !.todo = todo]]
               e == Excess(Total(DiskSize, job[k].seen))
    <3>4. \/ goesOn(job[k].cand) \/ goesOn({})
          \/ \E S \in Enough(job[k].cand \ job[k].pins, e) : goesOn(S \cup job[k].pins)
      BY <1>6 DEF Select
    <3> QED
      <4> HIDE DEF goesOn, e
      <4>1. \E todo \in SUBSET Cids : goesOn(todo)
        BY <3>1, <3>2, <3>4
      <4> QED
        BY <4>1 DEF goesOn
  <2> DEFINE j == [job[k] EXCEPT !.pc = "check", !.cand = {}, !.seen = {},
                                 !.held = {}, !.todo = todo]
  <2>2. /\ j \in Jobs /\ j.pc = "check" /\ j.target = NoCid
        /\ j.kind = job[k].kind /\ j.deleted = job[k].deleted
    BY <1>0, <1>6 DEF Select, Jobs, JobPcs
  <2>3. /\ job' = [job EXCEPT ![k] = j] /\ job[k].pc = "select"
        /\ UNCHANGED <<config, blobs, unreadable, pinned, running, total, single, gone, steady>>
    BY <1>6, <2>1 DEF Select
  <2> HIDE DEF j
  <2> QED
    BY <2>2, <2>3, SafeGoesOn
<1>7. CASE Unlink(k)
  BY <1>7, SafeUnlink
<1>8. CASE Finish(k)
  <2>1. total' \in Nat /\ total' <= gone
    BY <1>0, <1>8, DeletedFinite DEF Finish, SafeInv, CountInv
  <2> QED
    BY <1>8, <2>1, SafeEnds DEF Finish
<1>9. ASSUME NEW c \in Cids, Skip(k, c) PROVE SafeInv'
  <2> DEFINE j == [job[k] EXCEPT !.todo = @ \ {c}]
  <2>1. /\ j \in Jobs /\ j.pc = "check" /\ j.target = NoCid
        /\ j.kind = job[k].kind /\ j.deleted = job[k].deleted
    BY <1>0, <1>9 DEF Skip, Jobs
  <2>2. job' = [job EXCEPT ![k] = j]
    BY <1>9 DEF Skip
  <2> HIDE DEF j
  <2> QED
    BY <1>9, <2>1, <2>2, SafeGoesOn DEF Skip
<1>10. ASSUME NEW c \in Cids, Allow(k, c) PROVE SafeInv'
  BY <1>10, SafeAllow
<1>11. ASSUME NEW c \in Cids, Purge(k, c) PROVE SafeInv'
  <2> DEFINE j == [job[k] EXCEPT !.todo = @ \ {c}]
  <2>1. /\ j \in Jobs /\ j.pc = "purge" /\ j.target = NoCid
        /\ j.kind = job[k].kind /\ j.deleted = job[k].deleted
    BY <1>0, <1>11 DEF Purge, Jobs
  <2>2. /\ job' = [job EXCEPT ![k] = j] /\ job[k].pc = "purge"
        /\ blobs' = blobs \ {c} /\ pinned' = pinned \ {c}
        /\ unreadable' = unreadable \ {c} /\ steady' = steady \ {c}
        /\ UNCHANGED <<config, running, total, single, gone>>
    BY <1>11 DEF Purge, DeleteFiles
  <2> HIDE DEF j
  <2>3. Shape'
    BY <2>1, <2>2 DEF SafeInv, Shape
  <2>4. OneCollector' /\ TargetInv'
    BY <2>1, <2>2 DEF SafeInv, Shape, OneCollector, TargetInv
  <2>5. CountInv'
    BY <2>1, <2>2 DEF SafeInv, Shape, CountInv
  <2> QED
    BY <2>3, <2>4, <2>5 DEF SafeInv
<1> QED
  BY <1>1, <1>2, <1>3, <1>4, <1>5, <1>6, <1>7, <1>8, <1>9, <1>10, <1>11
  DEF CollectorStep

LEMMA SafeStep == SafeInv /\ [Next]_vars => SafeInv'
<1> SUFFICES ASSUME SafeInv, [Next]_vars PROVE SafeInv'
  OBVIOUS
<1>0. /\ pinned \subseteq blobs /\ unreadable \subseteq blobs
      /\ blobs \subseteq Cids /\ steady \subseteq pinned
      /\ single.cid \in Cids \cup {NoCid}
  BY DEF SafeInv, Shape, TargetInv
<1>1. ASSUME NEW c \in Cids,
             Store(c) \/ MetaWritten(c) \/ MetaEmptied(c) \/ Unpin(c) \/ Age(c)
      PROVE  SafeInv'
  <2>1. CASE Store(c) \/ MetaWritten(c) \/ MetaEmptied(c)
    BY <1>0, <2>1, SafeStore DEF Store, MetaWritten, MetaEmptied, Readable, Elsewhere
  <2>2. CASE Unpin(c) \/ Age(c)
    BY <1>0, <2>2, SafeStore DEF Unpin, Age, Elsewhere
  <2> QED
    BY <1>1, <2>1, <2>2
<1>2. ASSUME NEW c \in Cids, Pin(c) PROVE SafeInv'
  BY <1>0, <1>2, SafeStore DEF Pin, Readable, Elsewhere
<1>3. ASSUME NEW c \in Cids, SingleGet(c)
      PROVE  SafeInv'
  BY <1>0, <1>3, SafeStore DEF SingleGet, store
<1>4. CASE SingleStep
  <2>1. CASE SingleAllow
    BY <1>0, <2>1, SafeStore DEF SingleAllow, store
  <2>2. CASE SingleRefuse
    BY <1>0, <2>2, SafeStore DEF SingleRefuse, SingleEnds, NoSingle, store
  <2>3. CASE SingleUnlink
    BY <1>0, <2>3, SafeStore DEF SingleUnlink, SingleEnds, NoSingle, DeleteFiles
  <2> QED
    BY <1>4, <2>1, <2>2, <2>3 DEF SingleStep
<1>5. ASSUME NEW k \in Collectors, CollectorStep(k) PROVE SafeInv'
  BY <1>5, SafeCollector
<1>6. ASSUME NEW k \in Collectors, NEW kind \in Kinds, Start(k, kind)
      PROVE  SafeInv'
  BY <1>6, SafeStart
<1>7. CASE UNCHANGED vars
  BY <1>0, <1>7, SafeStore DEF vars
<1> QED
  BY <1>1, <1>2, <1>3, <1>4, <1>5, <1>6, <1>7 DEF Next

LEMMA Safe == Spec => []SafeInv
  BY SafeInit, SafeStep, PTL DEF Spec

-----------------------------------------------------------------------------
\* There is one collection or purge at most, and this.running says whether.
THEOREM OneAtATime == Spec => []OneCollector
<1>1. SafeInv => OneCollector
  BY DEF SafeInv
<1> QED
  BY <1>1, Safe, PTL

\* The reported number of deletions never exceeds the real one.
THEOREM HonestTotals == Spec => []TotalsHonest
<1>1. SafeInv => TotalsHonest
  BY DEF SafeInv, CountInv, TotalsHonest
<1> QED
  BY <1>1, Safe, PTL

\* A blob pinned before a collection checks it, and not unpinned since, survives
\* the collection, whatever happened to the store between its passes.
THEOREM PinsSurvive == Spec => PinnedSurvive
<1>1. SafeInv /\ [Next]_vars =>
        [\A k \in Collectors, c \in Cids : Unlinks(k, c) => c \notin steady]_vars
  BY DEF SafeInv, TargetInv, Unlinks
<1> QED
  BY <1>1, Safe, PTL DEF Spec, PinnedSurvive

-----------------------------------------------------------------------------
(* Sums of sizes.                                                            *)

AnyOf(S) == CHOOSE c \in S : TRUE
SumTable(g, f) ==
  /\ g \in [SUBSET Cids -> Nat]
  /\ \A S \in SUBSET Cids :
       g[S] = IF S = {} THEN 0 ELSE f[AnyOf(S)] + g[S \ {AnyOf(S)}]

LEMMA Fewer ==
  ASSUME NEW S \in SUBSET Cids
  PROVE  /\ IsFiniteSet(S) /\ Cardinality(S) \in Nat
         /\ Cardinality(S) <= Cardinality(Cids) /\ Cardinality(Cids) \in Nat
         /\ (Cardinality(S) = 0 <=> S = {})
         /\ S # {} => AnyOf(S) \in S
         /\ \A x \in S : S \ {x} \in SUBSET Cids /\ Cardinality(S \ {x}) = Cardinality(S) - 1
<1>1. IsFiniteSet(S) /\ Cardinality(S) <= Cardinality(Cids)
  BY CidAssumption, FS_Subset
<1>2. Cardinality(S) \in Nat /\ Cardinality(Cids) \in Nat
  BY <1>1, CidAssumption, FS_CardinalityType
<1>3. \A x \in S : Cardinality(S \ {x}) = Cardinality(S) - 1
  BY <1>1, FS_RemoveElement
<1>4. Cardinality(S) = 0 <=> S = {}
  BY <1>1, FS_EmptySet
<1>5. S # {} => AnyOf(S) \in S
  BY DEF AnyOf
<1> QED
  BY <1>1, <1>2, <1>3, <1>4, <1>5

LEMMA TableExists ==
  ASSUME NEW f \in [Cids -> Nat]
  PROVE  \E g : SumTable(g, f)
<1> DEFINE X == [SUBSET Cids -> Nat]
           N == Cardinality(Cids)
           next(x) == [S \in SUBSET Cids |-> IF S = {} THEN 0 ELSE f[AnyOf(S)] + x[S \ {AnyOf(S)}]]
           step == [i \in Nat |-> [x \in X |-> next(x)]]
           base == [S \in SUBSET Cids |-> 0]
<1>1. N \in Nat /\ base \in X
  BY CidAssumption, FS_CardinalityType
<1>2. ASSUME NEW x \in X PROVE next(x) \in X
  <2>1. ASSUME NEW S \in SUBSET Cids, S # {} PROVE f[AnyOf(S)] + x[S \ {AnyOf(S)}] \in Nat
    <3>1. AnyOf(S) \in Cids /\ S \ {AnyOf(S)} \in SUBSET Cids
      BY <2>1, Fewer
    <3> QED
      BY <3>1
  <2> QED
    BY <2>1
<1>3. \A i \in Nat, x \in X : step[i][x] = next(x)
  OBVIOUS
<1>4. \A x \in X : \A S \in SUBSET Cids :
        next(x)[S] = IF S = {} THEN 0 ELSE f[AnyOf(S)] + x[S \ {AnyOf(S)}]
  OBVIOUS
<1> HIDE DEF step, base, next, N
<1>5. \A i \in Nat, x \in X : step[i][x] \in X
  BY <1>2, <1>3, Zenon
<1> HIDE DEF X
<1>6. N + 1 \in Nat
  BY <1>1
<1>7. PICK h : Along(h, X, base, step, N + 1)
  BY <1>1, <1>5, <1>6, Recursion
<1>8. /\ \A i \in 0..(N + 1) : h[i] \in X
      /\ \A i \in 1..(N + 1) : h[i] = next(h[i - 1])
  <2>1. /\ h \in [0..(N + 1) -> X]
        /\ \A i \in 1..(N + 1) : h[i] = step[i][h[i - 1]]
    BY <1>7 DEF Along
  <2>2. \A i \in 1..(N + 1) : i \in Nat /\ i - 1 \in 0..(N + 1)
    BY <1>1
  <2> QED
    BY <1>3, <2>1, <2>2
<1> DEFINE T == {k \in Nat : k <= N => \A S \in SUBSET Cids :
                               Cardinality(S) <= k => h[k + 1][S] = h[k][S]}
<1>9. ASSUME NEW k \in Nat, k <= N, NEW S \in SUBSET Cids,
             S # {} => k # 0 /\ h[k][S \ {AnyOf(S)}] = h[k - 1][S \ {AnyOf(S)}]
      PROVE  S # {} \/ k # 0 => h[k + 1][S] = h[k][S]
  <2>1. k + 1 \in 1..(N + 1) /\ (k + 1) - 1 = k /\ k \in 0..(N + 1)
    BY <1>1, <1>9
  <2>2. h[k + 1] = next(h[k]) /\ h[k] \in X
    BY <1>8, <2>1
  <2>3. h[k + 1][S] = IF S = {} THEN 0 ELSE f[AnyOf(S)] + h[k][S \ {AnyOf(S)}]
    BY <1>4, <2>2
  <2> SUFFICES ASSUME k # 0 PROVE h[k + 1][S] = h[k][S]
    BY <1>9
  <2>4. k \in 1..(N + 1) /\ k - 1 \in 0..(N + 1)
    BY <1>1, <1>9
  <2>5. h[k] = next(h[k - 1]) /\ h[k - 1] \in X
    BY <1>8, <2>4
  <2>6. h[k][S] = IF S = {} THEN 0 ELSE f[AnyOf(S)] + h[k - 1][S \ {AnyOf(S)}]
    BY <1>4, <2>5
  <2> QED
    BY <1>9, <2>3, <2>6
<1>10. 0 \in T
  <2> SUFFICES ASSUME NEW S \in SUBSET Cids, Cardinality(S) <= 0 PROVE h[1][S] = h[0][S]
    OBVIOUS
  <2>1. S = {}
    BY Fewer
  <2>2. h[0] = base /\ h[0] \in X /\ h[1] = next(h[0])
    <3>1. 1 \in 1..(N + 1) /\ 0 \in 0..(N + 1) /\ 1 - 1 = 0
      BY <1>1
    <3> QED
      BY <1>7, <1>8, <3>1 DEF Along
  <2>3. h[1][S] = 0 /\ base[S] = 0
    BY <1>4, <2>1, <2>2 DEF base
  <2> QED
    BY <2>2, <2>3
<1>11. ASSUME NEW k \in Nat, k \in T PROVE k + 1 \in T
  <2> SUFFICES ASSUME k + 1 <= N, NEW S \in SUBSET Cids, Cardinality(S) <= k + 1
               PROVE  h[(k + 1) + 1][S] = h[k + 1][S]
    OBVIOUS
  <2>1. k + 1 \in Nat /\ k + 1 # 0 /\ (k + 1) - 1 = k /\ k <= N
    BY <1>1
  <2>2. ASSUME S # {} PROVE h[k + 1][S \ {AnyOf(S)}] = h[k][S \ {AnyOf(S)}]
    <3>1. S \ {AnyOf(S)} \in SUBSET Cids /\ Cardinality(S \ {AnyOf(S)}) <= k
      BY <2>2, Fewer
    <3> QED
      BY <1>11, <2>1, <3>1
  <2> QED
    BY <1>9, <2>1, <2>2
<1> HIDE DEF T
<1>12. N \in T
  BY <1>1, <1>10, <1>11, Induct
<1>13. \A S \in SUBSET Cids : h[N + 1][S] = h[N][S]
  BY <1>1, <1>12, Fewer DEF T, N
<1>14. h[N + 1] \in X /\ h[N] \in X /\ h[N + 1] = next(h[N])
  <2>1. N + 1 \in 1..(N + 1) /\ (N + 1) - 1 = N /\ N \in 0..(N + 1) /\ N + 1 \in 0..(N + 1)
    BY <1>1
  <2> QED
    BY <1>8, <2>1
<1>15. ASSUME NEW S \in SUBSET Cids
       PROVE  h[N + 1][S] = IF S = {} THEN 0 ELSE f[AnyOf(S)] + h[N + 1][S \ {AnyOf(S)}]
  <2>1. h[N + 1][S] = IF S = {} THEN 0 ELSE f[AnyOf(S)] + h[N][S \ {AnyOf(S)}]
    BY <1>4, <1>14
  <2>2. S \ {AnyOf(S)} \in SUBSET Cids
    OBVIOUS
  <2> QED
    BY <1>13, <2>1, <2>2
<1>16. SumTable(h[N + 1], f)
  BY <1>14, <1>15 DEF SumTable, X
<1> QED
  BY <1>16

LEMMA TotalIs ==
  ASSUME NEW f \in [Cids -> Nat], NEW g, SumTable(g, f), NEW S \in SUBSET Cids
  PROVE  Total(f, S) = g[S]
<1> DEFINE Is(i) == i = [s \in SUBSET S |-> IF s = {} THEN 0 ELSE f[AnyOf(s)] + i[s \ {AnyOf(s)}]]
           j == [s \in SUBSET S |-> g[s]]
           iter == CHOOSE i : Is(i)
<1>1. \A s \in SUBSET S : s \in SUBSET Cids /\ s \ {AnyOf(s)} \in SUBSET S
  OBVIOUS
<1>2. Is(j)
  <2>1. \A s \in SUBSET S : j[s] = IF s = {} THEN 0 ELSE f[AnyOf(s)] + j[s \ {AnyOf(s)}]
    BY <1>1 DEF SumTable
  <2> QED
    BY <2>1
<1> HIDE DEF j
<1>3. Is(iter)
  BY <1>2, Zenon
<1>4. Total(f, S) = iter[S]
  BY DEF Total, MapThenFoldSet, AnyOf
<1> HIDE DEF iter
<1>5. \A s \in SUBSET S : iter[s] = IF s = {} THEN 0 ELSE f[AnyOf(s)] + iter[s \ {AnyOf(s)}]
  BY <1>3
<1> DEFINE T == {k \in Nat : \A s \in SUBSET S : Cardinality(s) <= k => iter[s] = g[s]}
<1>6. 0 \in T
  <2> SUFFICES ASSUME NEW s \in SUBSET S, Cardinality(s) <= 0 PROVE iter[s] = g[s]
    OBVIOUS
  <2>1. s = {}
    BY <1>1, Fewer
  <2> QED
    BY <1>1, <1>5, <2>1 DEF SumTable
<1>7. ASSUME NEW k \in Nat, k \in T PROVE k + 1 \in T
  <2> SUFFICES ASSUME NEW s \in SUBSET S, Cardinality(s) <= k + 1 PROVE iter[s] = g[s]
    OBVIOUS
  <2>1. CASE s = {}
    BY <1>1, <1>5, <2>1 DEF SumTable
  <2>2. CASE s # {}
    <3>1. s \ {AnyOf(s)} \in SUBSET S /\ Cardinality(s \ {AnyOf(s)}) <= k
      BY <1>1, <2>2, Fewer
    <3>2. iter[s \ {AnyOf(s)}] = g[s \ {AnyOf(s)}]
      BY <1>7, <3>1
    <3> QED
      BY <1>1, <1>5, <2>2, <3>2 DEF SumTable
  <2> QED
    BY <2>1, <2>2
<1> HIDE DEF T
<1>8. Cardinality(S) \in T
  BY <1>6, <1>7, Fewer, Induct
<1>9. iter[S] = g[S]
  BY <1>8, Fewer DEF T
<1> QED
  BY <1>4, <1>9

\* The sum does not depend on the order in which the elements are taken.
LEMMA TotalWithout ==
  ASSUME NEW f \in [Cids -> Nat], NEW S \in SUBSET Cids
  PROVE  /\ Total(f, {}) = 0 /\ Total(f, S) \in Nat
         /\ \A x \in S : f[x] \in Nat /\ Total(f, S) = f[x] + Total(f, S \ {x})
<1>1. PICK g : SumTable(g, f)
  BY TableExists
<1>2. \A s \in SUBSET Cids : Total(f, s) = g[s] /\ g[s] \in Nat
  <2>1. g \in [SUBSET Cids -> Nat]
    BY <1>1 DEF SumTable
  <2> QED
    BY <1>1, <2>1, TotalIs
<1>3. g[{}] = 0
  BY <1>1 DEF SumTable
<1> DEFINE T == {k \in Nat : \A s \in SUBSET Cids : Cardinality(s) <= k =>
                               \A x \in s : g[s] = f[x] + g[s \ {x}]}
<1>4. 0 \in T
  <2> SUFFICES ASSUME NEW s \in SUBSET Cids, Cardinality(s) <= 0 PROVE s = {}
    OBVIOUS
  <2> QED
    BY Fewer
<1>5. ASSUME NEW k \in Nat, k \in T PROVE k + 1 \in T
  <2> SUFFICES ASSUME NEW s \in SUBSET Cids, Cardinality(s) <= k + 1, NEW x \in s
               PROVE  g[s] = f[x] + g[s \ {x}]
    OBVIOUS
  <2> DEFINE c == AnyOf(s)
  <2>1. c \in s /\ s # {}
    BY Fewer
  <2>2. g[s] = f[c] + g[s \ {c}]
    BY <1>1, <2>1 DEF SumTable
  <2> HIDE DEF c
  <2>3. CASE x = c
    BY <2>2, <2>3
  <2>4. CASE x # c
    <3>1. /\ s \ {c} \in SUBSET Cids /\ Cardinality(s \ {c}) <= k
          /\ s \ {x} \in SUBSET Cids /\ Cardinality(s \ {x}) <= k
      BY <2>1, Fewer
    <3>2. g[s \ {c}] = f[x] + g[(s \ {c}) \ {x}]
      BY <1>5, <2>4, <3>1
    <3>3. g[s \ {x}] = f[c] + g[(s \ {x}) \ {c}]
      BY <1>5, <2>1, <2>4, <3>1
    <3>4. (s \ {c}) \ {x} = (s \ {x}) \ {c} /\ (s \ {c}) \ {x} \in SUBSET Cids
      BY <3>1
    <3> DEFINE rest == g[(s \ {c}) \ {x}]
    <3>5. f[x] \in Nat /\ f[c] \in Nat /\ rest \in Nat
      BY <1>2, <2>1, <3>4
    <3>6. g[s \ {c}] = f[x] + rest /\ g[s \ {x}] = f[c] + rest
      BY <3>2, <3>3, <3>4
    <3> HIDE DEF rest
    <3> QED
      BY <2>2, <3>5, <3>6
  <2> QED
    BY <2>3, <2>4
<1> HIDE DEF T
<1>6. Cardinality(S) \in T
  BY <1>4, <1>5, Fewer, Induct
<1>7. \A x \in S : g[S] = f[x] + g[S \ {x}]
  BY <1>6, Fewer DEF T
<1>8. \A x \in S : f[x] \in Nat /\ S \ {x} \in SUBSET Cids
  OBVIOUS
<1> QED
  BY <1>2, <1>3, <1>7, <1>8

LEMMA TotalSplit ==
  ASSUME NEW f \in [Cids -> Nat], NEW A \in SUBSET Cids, NEW B \in SUBSET Cids, A \cap B = {}
  PROVE  Total(f, A \cup B) = Total(f, A) + Total(f, B)
<1> DEFINE T == {k \in Nat : \A s \in SUBSET B : Cardinality(s) <= k =>
                               Total(f, A \cup s) = Total(f, A) + Total(f, s)}
<1>0. Total(f, {}) = 0 /\ Total(f, A) \in Nat
  BY TotalWithout
<1>1. 0 \in T
  <2> SUFFICES ASSUME NEW s \in SUBSET B, Cardinality(s) <= 0
               PROVE  Total(f, A \cup s) = Total(f, A) + Total(f, s)
    OBVIOUS
  <2>1. s = {}
    BY Fewer
  <2>2. A \cup s = A
    BY <2>1
  <2> QED
    BY <1>0, <2>1, <2>2
<1>2. ASSUME NEW k \in Nat, k \in T PROVE k + 1 \in T
  <2> SUFFICES ASSUME NEW s \in SUBSET B, Cardinality(s) <= k + 1
               PROVE  Total(f, A \cup s) = Total(f, A) + Total(f, s)
    OBVIOUS
  <2>1. CASE s = {}
    <3>1. A \cup s = A
      BY <2>1
    <3> QED
      BY <1>0, <2>1, <3>1
  <2>2. CASE s # {}
    <3>1. PICK x \in s : TRUE
      BY <2>2
    <3>2. s \in SUBSET Cids /\ A \cup s \in SUBSET Cids
      OBVIOUS
    <3>3. s \ {x} \in SUBSET B /\ Cardinality(s \ {x}) <= k
      BY <3>2, Fewer
    <3>4. Total(f, A \cup (s \ {x})) = Total(f, A) + Total(f, s \ {x})
      BY <1>2, <3>3
    <3>5. (A \cup s) \ {x} = A \cup (s \ {x}) /\ x \in A \cup s
      OBVIOUS
    <3>6. /\ f[x] \in Nat /\ Total(f, s \ {x}) \in Nat
          /\ Total(f, A \cup s) = f[x] + Total(f, (A \cup s) \ {x})
          /\ Total(f, s) = f[x] + Total(f, s \ {x})
      BY <3>1, <3>2, <3>3, <3>5, TotalWithout
    <3> DEFINE rest == Total(f, s \ {x})
    <3>7. /\ f[x] \in Nat /\ rest \in Nat /\ Total(f, s) = f[x] + rest
          /\ Total(f, A \cup s) = f[x] + (Total(f, A) + rest)
      BY <3>4, <3>5, <3>6
    <3> HIDE DEF rest
    <3> QED
      BY <1>0, <3>7
  <2> QED
    BY <2>1, <2>2
<1> HIDE DEF T
<1>3. Cardinality(B) \in T
  BY <1>1, <1>2, Fewer, Induct
<1> QED
  BY <1>3, Fewer DEF T

LEMMA TotalGrows ==
  ASSUME NEW f \in [Cids -> Nat], NEW B \in SUBSET Cids, NEW A \in SUBSET B
  PROVE  Total(f, A) \in Nat /\ Total(f, B) \in Nat /\ Total(f, A) <= Total(f, B)
<1>1. A \cup (B \ A) = B /\ A \cap (B \ A) = {} /\ A \in SUBSET Cids /\ B \ A \in SUBSET Cids
  OBVIOUS
<1>2. Total(f, B) = Total(f, A) + Total(f, B \ A)
  BY <1>1, TotalSplit
<1>3. Total(f, A) \in Nat /\ Total(f, B \ A) \in Nat
  BY <1>1, TotalWithout
<1> QED
  BY <1>2, <1>3

\* A sum that is more than nothing has a part that is.
LEMMA TotalHas ==
  ASSUME NEW f \in [Cids -> Nat], NEW S \in SUBSET Cids, Total(f, S) # 0
  PROVE  \E x \in S : Total(f, S \ {x}) < Total(f, S)
<1> DEFINE T == {k \in Nat : \A s \in SUBSET S : Cardinality(s) <= k => Total(f, s) = 0}
<1> SUFFICES ASSUME \A x \in S : ~(Total(f, S \ {x}) < Total(f, S)) PROVE FALSE
  OBVIOUS
<1>1. \A x \in S : f[x] = 0
  <2> TAKE x \in S
  <2>1. f[x] \in Nat /\ Total(f, S) = f[x] + Total(f, S \ {x}) /\ Total(f, S \ {x}) \in Nat
    <3>1. S \ {x} \in SUBSET Cids
      OBVIOUS
    <3> QED
      BY <3>1, TotalWithout
  <2> QED
    BY <2>1
<1>2. Total(f, {}) = 0
  BY TotalWithout
<1>3. 0 \in T
  BY <1>2, Fewer
<1>4. ASSUME NEW k \in Nat, k \in T PROVE k + 1 \in T
  <2> SUFFICES ASSUME NEW s \in SUBSET S, Cardinality(s) <= k + 1 PROVE Total(f, s) = 0
    OBVIOUS
  <2>1. CASE s # {}
    <3>1. PICK x \in s : TRUE
      BY <2>1
    <3>2. s \ {x} \in SUBSET S /\ Cardinality(s \ {x}) <= k
      BY Fewer
    <3>3. Total(f, s) = f[x] + Total(f, s \ {x})
      BY TotalWithout
    <3> QED
      BY <1>1, <1>4, <3>2, <3>3
  <2> QED
    BY <1>2, <2>1
<1> HIDE DEF T
<1>5. Cardinality(S) \in T
  BY <1>3, <1>4, Fewer, Induct
<1> QED
  BY <1>5, Fewer DEF T

-----------------------------------------------------------------------------
(* What a collection that nobody disturbs frees.                             *)

Early == {"list", "inspect", "readdir", "stat", "select"}
Deletes == {"check", "unlink"}

\* What a quiet collection leaves alone, and the pins it sees
Spared == pinned \cup unreadable
SeenPins == pinned \ unreadable

\* What run j has deleted, is deleting, or deletes unless it is refused
Doomed(j) == {c \in Cids : c \in j.deleted \/ c = j.target \/ c \in j.todo \ j.pins}

Frugal(T, need) ==
  \/ Total(Size, T) <= need
  \/ \E last \in T : Total(Size, T \ {last}) < need
Sparing(j, need) == \E T \in SUBSET Cids : Doomed(j) \subseteq T /\ Frugal(T, need)

\* No run deletes more than it has to, ...
Spares(k) ==
  /\ job[k].pc \in Early \cup {"purge"} => excess = 0 /\ job[k].deleted = {}
  /\ quiet /\ job[k].pc \in Deletes \cup {"readdir", "stat", "select"}
     => job[k].pins \subseteq pinned
  /\ quiet /\ job[k].pc = "unlink" => job[k].target \notin Spared
  /\ quiet /\ job[k].pc \in Deletes /\ excess > 0 => Sparing(job[k], excess)

\* ... nor less: what it dooms leaves the store, as it was, within its limits.
Enforces(j) ==
  LET all == blobs \cup j.deleted
  IN /\ blobs \cap j.deleted = {} /\ j.pins = SeenPins
     /\ Doomed(j) \cap Spared = {} /\ Doomed(j) \subseteq all
     /\ Doomed(j) = all \ Spared \/ excess <= Total(Size, Doomed(j))
     /\ Total(DiskSize, all) <= config.max + excess
     /\ MinFree + Total(DiskSize, all) <= Disk + excess

Frees(k) ==
  quiet /\ config.mode = "size" =>
    /\ job[k].pc \in Early \ {"list"} => job[k].cand = Readable
    /\ job[k].pc \in {"readdir", "stat", "select"} => job[k].pins = SeenPins
    /\ job[k].pc = "stat" => job[k].todo = blobs
    /\ job[k].pc = "select" => job[k].seen = blobs
    /\ job[k].pc \in Deletes /\ job[k].kind = "gc" /\ excess > 0 /\ ~refused
       /\ config.factor = 1 /\ Uncompressed => Enforces(job[k])

FreeInv ==
  /\ excess \in Nat /\ quiet \in BOOLEAN
  /\ \A k \in Collectors : Spares(k) /\ Frees(k)


\* Runs that wait for nothing are bound by nothing.
LEMMA FreeIdle ==
  ASSUME excess \in Nat, quiet \in BOOLEAN, \A k \in Collectors : job[k] = NoJob
  PROVE  FreeInv
<1>1. NoJob.pc = "idle"
  BY DEF NoJob
<1> QED
  BY <1>1 DEF FreeInv, Spares, Frees, Early, Deletes

LEMMA FreeInit == Init => FreeInv
<1> SUFFICES ASSUME Init PROVE FreeInv
  OBVIOUS
<1>1. excess \in Nat /\ quiet \in BOOLEAN /\ job = [k \in Collectors |-> NoJob]
  BY DEF Init
<1>2. \A k \in Collectors : job[k] = NoJob
  BY <1>1
<1> QED
  BY <1>1, <1>2, FreeIdle

\* A step of the only run there is
LEMMA FreeRun ==
  ASSUME SafeInv, SafeInv', FreeInv, NEW k \in Collectors, job'[k].pc # "idle",
         excess' \in Nat, quiet' = quiet, Spares(k)', Frees(k)'
  PROVE  FreeInv'
<1>1. ASSUME NEW l \in Collectors, l # k PROVE (job[l].pc = "idle")'
  BY <1>1 DEF SafeInv, OneCollector
<1>2. ASSUME NEW l \in Collectors, l # k PROVE Spares(l)' /\ Frees(l)'
  BY <1>1, <1>2 DEF Spares, Frees, Early, Deletes
<1> QED
  BY <1>2 DEF FreeInv

LEMMA FreeEnds ==
  ASSUME SafeInv, NEW k \in Collectors, job[k].pc # "idle", Ends(k)
  PROVE  FreeInv'
<1>1. \A l \in Collectors : job'[l] = NoJob
  BY DEF Ends, SafeInv, OneCollector, Shape
<1>2. excess' = 0 /\ quiet' = FALSE
  BY DEF Ends
<1>3. NoJob.pc = "idle"
  BY DEF NoJob
<1> QED
  BY <1>1, <1>2, <1>3 DEF FreeInv, Spares, Frees, Early, Deletes

LEMMA FreeStart ==
  ASSUME SafeInv, NEW k \in Collectors, NEW kind \in Kinds, Start(k, kind)
  PROVE  FreeInv'
<1> DEFINE j == [NoJob EXCEPT !.pc = "list", !.kind = kind]
<1>1. j.deleted = {} /\ j.pc = "list"
  BY DEF NoJob
<1>2. job' = [job EXCEPT ![k] = j] /\ excess' = 0 /\ quiet' = TRUE
  BY DEF Start
<1>3. \A l \in Collectors : job[l].pc = "idle"
  BY DEF Start, SafeInv, OneCollector
<1> HIDE DEF j
<1>4. \A l \in Collectors : \/ job'[l].pc = "idle"
                            \/ job'[l].pc = "list" /\ job'[l].deleted = {}
  BY <1>1, <1>2, <1>3 DEF SafeInv, Shape
<1> QED
  BY <1>2, <1>4 DEF FreeInv, Spares, Frees, Early, Deletes

\* Others change the store, or nothing that counts.
LEMMA FreeOthers ==
  ASSUME FreeInv, UNCHANGED <<config, job, excess, refused>>,
         quiet' = FALSE \/ UNCHANGED <<quiet, blobs, unreadable, pinned>>
  PROVE  FreeInv'
<1>1. CASE quiet' = FALSE
  BY <1>1 DEF FreeInv, Spares, Frees
<1>2. CASE UNCHANGED <<quiet, blobs, unreadable, pinned>>
  BY <1>2 DEF FreeInv, Spares, Frees, Enforces, Spared, SeenPins, Readable, Uncompressed
<1> QED
  BY <1>1, <1>2

-----------------------------------------------------------------------------
LEMMA FreeScan ==
  ASSUME SafeInv, SafeInv', FreeInv, NEW k \in Collectors,
         List(k) \/ Inspect(k) \/ Readdir(k) \/ Stat(k)
  PROVE  FreeInv'
<1> USE DEF Reads, Becomes, store
<1>0. /\ job[k] \in Jobs /\ Spares(k) /\ Frees(k) /\ config.mode \in {"size", "time", "hybrid"}
      /\ job[k].pc \in Early
  BY ConfigAssumption DEF SafeInv, Shape, FreeInv, List, Inspect, Readdir, Stat, Early
<1>1. /\ UNCHANGED <<config, blobs, unreadable, pinned, quiet, excess, refused>> /\ excess \in Nat
      /\ excess = 0 /\ job[k].deleted = {}
  BY <1>0 DEF List, Inspect, Readdir, Stat, FreeInv, Spares
<1>2. CASE List(k)
  <2>1. /\ job'[k].pc = "purge" \/ (job'[k].pc = "inspect" /\ job'[k].cand = Readable)
        /\ job'[k].deleted = {}
    BY <1>0, <1>1, <1>2 DEF List, SafeInv, Shape, Jobs, Readable
  <2>2. Spares(k)' /\ Frees(k)'
    BY <1>1, <2>1 DEF Spares, Frees, Early, Deletes, Readable
  <2> QED
    BY <1>1, <2>1, <2>2, FreeRun
<1>3. CASE Inspect(k)
  <2>1. /\ job'[k].pc \in {"check", "readdir"} /\ job'[k].deleted = {}
        /\ job'[k].pins \subseteq pinned
        /\ config.mode = "size" => /\ job'[k].pc = "readdir"
                                   /\ job'[k].cand = job[k].cand
                                   /\ job'[k].pins = job[k].cand \cap pinned
    BY <1>0, <1>1, <1>3 DEF Inspect, SafeInv, Shape, Jobs
  <2>2. Spares(k)'
    BY <1>1, <2>1 DEF Spares, Early, Deletes
  <2>3. quiet /\ config.mode = "size" => job[k].cand = Readable /\ Readable \cap pinned = SeenPins
    BY <1>0, <1>3 DEF Inspect, Frees, Early, SafeInv, Shape, Readable, SeenPins
  <2>4. Frees(k)'
    BY <1>1, <2>1, <2>3 DEF Frees, Early, Deletes, Readable, SeenPins
  <2> QED
    BY <1>1, <2>1, <2>2, <2>4, FreeRun
<1>4. CASE Readdir(k) \/ Stat(k)
  <2>1. /\ job[k].pc \in {"readdir", "stat"} /\ job'[k].pc \in {"stat", "select"}
        /\ job'[k].deleted = {} /\ job'[k].cand = job[k].cand /\ job'[k].pins = job[k].pins
        /\ job'[k].pc = "stat" => job'[k].todo = blobs
        /\ job'[k].pc = "select" /\ job[k].todo = blobs => job'[k].seen = blobs
        /\ job'[k].pc = "select" => job[k].pc = "stat"
    <3>1. CASE Readdir(k)
      BY <1>0, <1>1, <3>1 DEF Readdir, SafeInv, Shape, Jobs
    <3>2. CASE Stat(k)
      BY <1>0, <1>1, <3>2 DEF Stat, SafeInv, Shape, Jobs
    <3> QED
      BY <1>4, <3>1, <3>2
  <2>2. Spares(k)'
    BY <1>0, <1>1, <2>1 DEF Spares, Early, Deletes
  <2>3. Frees(k)'
    BY <1>0, <1>1, <2>1 DEF Frees, Early, Deletes, Readable, SeenPins
  <2> QED
    BY <1>1, <2>1, <2>2, <2>3, FreeRun
<1> QED
  BY <1>2, <1>3, <1>4

LEMMA ExcessCovers ==
  ASSUME Shape, NEW S \in SUBSET Cids
  PROVE  LET used == Total(DiskSize, S)
         IN /\ Excess(used) \in Nat /\ used <= config.max + Excess(used)
            /\ MinFree + Used <= Disk + Excess(used)
<1>1. Total(DiskSize, S) \in Nat /\ Used \in Nat
  BY TotalWithout, SizeAssumption DEF Shape, Used
<1>2. config.max \in Nat /\ Disk \in Nat /\ MinFree \in Nat
  BY ConfigAssumption DEF Shape
<1> QED
  BY <1>1, <1>2 DEF Excess, Larger

LEMMA FreeSelect ==
  ASSUME SafeInv, SafeInv', FreeInv, NEW k \in Collectors, Select(k)
  PROVE  FreeInv'
<1> DEFINE j == job[k]
           e == Excess(Total(DiskSize, j.seen))
           C == j.cand \ j.pins
           to(todo) == [j EXCEPT !.pc = "check", !.cand = {}, !.seen = {}, !.held = {}, !.todo = todo]
<1>1. /\ j \in Jobs /\ Spares(k) /\ Frees(k) /\ j.pc = "select" /\ job \in [Collectors -> Jobs]
      /\ excess = 0 /\ j.deleted = {} /\ j.target = NoCid /\ NoCid \notin Cids
  BY CidAssumption DEF SafeInv, Shape, FreeInv, Select, Spares, Early
<1>2. UNCHANGED <<config, blobs, unreadable, pinned, quiet, refused>>
  BY DEF Select, store
<1>3. e \in Nat
  BY <1>1, ExcessCovers DEF Jobs, SafeInv
<1>4. C \in SUBSET Cids
  BY <1>1 DEF Jobs
<1>5. ASSUME NEW todo, job' = [job EXCEPT ![k] = to(todo)]
      PROVE  /\ job'[k].pc = "check" /\ job'[k].deleted = {} /\ job'[k].target = NoCid
             /\ job'[k].pins = j.pins /\ job'[k].todo = todo /\ job'[k].kind = j.kind
  BY <1>1, <1>5 DEF Jobs
<1>6. \/ UNCHANGED excess /\ job'[k].pc = "check" /\ job'[k].pins = j.pins
      \/ \E S \in Enough(C, e) : excess' = e /\ e > 0 /\ job' = [job EXCEPT ![k] = to(S \cup j.pins)]
  <2> HIDE DEF to
  <2>1. \/ job' = [job EXCEPT ![k] = to(j.cand)] /\ UNCHANGED excess
        \/ job' = [job EXCEPT ![k] = to({})] /\ UNCHANGED excess
        \/ \E S \in Enough(C, e) : excess' = e /\ e > 0 /\ job' = [job EXCEPT ![k] = to(S \cup j.pins)]
    BY DEF Select, to
  <2> QED
    BY <1>5, <2>1
<1> HIDE DEF to, e, C
<1>7. quiet => j.pins \subseteq pinned
  BY <1>1 DEF Spares
<1>8. CASE UNCHANGED excess /\ job'[k].pc = "check" /\ job'[k].pins = j.pins
  <2>1. Spares(k)' /\ Frees(k)'
    BY <1>1, <1>2, <1>7, <1>8 DEF Spares, Frees, Early, Deletes
  <2> QED
    BY <1>1, <1>2, <1>8, <2>1, FreeRun
<1>9. ASSUME NEW S \in Enough(C, e), excess' = e, e > 0,
             job' = [job EXCEPT ![k] = to(S \cup j.pins)]
      PROVE  FreeInv'
  <2> DEFINE d == Doomed(job'[k])
  <2>1. /\ job'[k].pc = "check" /\ job'[k].deleted = {} /\ job'[k].target = NoCid
        /\ job'[k].pins = j.pins /\ job'[k].todo = S \cup j.pins /\ job'[k].kind = j.kind
    BY <1>5, <1>9
  <2>2. /\ S \in SUBSET C
        /\ \/ S = C /\ Total(Size, C) <= e
           \/ \E last \in S : Total(Size, S \ {last}) < e /\ Total(Size, S) >= e
    BY DEF Enough
  <2>3. d = S
    BY <1>1, <1>4, <2>1, <2>2 DEF Doomed, C
  <2>4. Sparing(job'[k], e)
    <3>1. Frugal(S, e)
      BY <2>2 DEF Frugal
    <3> QED
      BY <1>4, <2>2, <2>3, <3>1 DEF Sparing
  <2>5. Spares(k)'
    BY <1>2, <1>7, <1>9, <2>1, <2>4 DEF Spares, Early, Deletes
  <2>6. ASSUME quiet, config.mode = "size" PROVE Enforces(job[k])'
    <3>1. j.cand = Readable /\ j.pins = SeenPins /\ j.seen = blobs
      BY <1>1, <2>6 DEF Frees, Early
    <3>2. d = blobs \ Spared \/ e <= Total(Size, d)
      <4>1. S = C \/ e <= Total(Size, S)
        <5>1. Total(Size, S) \in Nat
          BY <1>4, <2>2, TotalWithout, SizeAssumption
        <5> QED
          BY <1>3, <2>2, <5>1
      <4> QED
        BY <2>3, <3>1, <4>1 DEF C, Readable, SeenPins, Spared
    <3>3. d \cap Spared = {} /\ d \subseteq blobs
      BY <2>2, <2>3, <3>1 DEF C, Readable, SeenPins, Spared
    <3>4. /\ Total(DiskSize, blobs) <= config.max + e
          /\ MinFree + Total(DiskSize, blobs) <= Disk + e
      BY <3>1, ExcessCovers DEF e, Used, SafeInv, Shape
    <3>5. blobs \cup {} = blobs /\ blobs \cap {} = {}
      OBVIOUS
    <3> HIDE DEF d
    <3>6. blobs' \cup job'[k].deleted = blobs /\ blobs' \cap job'[k].deleted = {}
      BY <1>2, <2>1
    <3> QED
      BY <1>2, <1>9, <2>1, <3>1, <3>2, <3>3, <3>4, <3>6 DEF Enforces, Spared, SeenPins, d
  <2>7. Frees(k)'
    BY <1>2, <2>1, <2>6 DEF Frees, Early, Deletes
  <2> QED
    BY <1>2, <1>3, <1>9, <2>1, <2>5, <2>7, FreeRun
<1> QED
  BY <1>6, <1>8, <1>9

\* The candidate that is refused or allowed next, or unlinked, changes nothing
\* of what is doomed, unless another shard saves it.
LEMMA FreeKeeps ==
  ASSUME SafeInv, SafeInv', FreeInv, NEW k \in Collectors,
         job[k].pc \in Deletes, job'[k].pc \in Deletes,
         UNCHANGED <<config, excess, quiet>>,
         job'[k].kind = job[k].kind, job'[k].pins = job[k].pins,
         Doomed(job'[k]) \subseteq Doomed(job[k]),
         ~refused' => ~refused,
         quiet => UNCHANGED <<pinned, unreadable>>,
         quiet /\ job'[k].pc = "unlink" => job'[k].target \notin Spared,
         quiet /\ ~refused' /\ job[k].pins = SeenPins /\ config.factor = 1
           => /\ Doomed(job'[k]) = Doomed(job[k])
              /\ blobs' \cup job'[k].deleted = blobs \cup job[k].deleted,
         blobs \cap job[k].deleted = {} /\ job[k].kind = "gc" => blobs' \cap job'[k].deleted = {}
  PROVE  FreeInv'
<1>1. Spares(k) /\ Frees(k) /\ excess \in Nat
  BY DEF FreeInv
<1>2. Spares(k)'
  <2>1. \A T : Doomed(job[k]) \subseteq T => Doomed(job'[k]) \subseteq T
    OBVIOUS
  <2>2. Sparing(job[k], excess) => Sparing(job'[k], excess)
    BY <2>1 DEF Sparing
  <2> QED
    BY <1>1, <2>2 DEF Spares, Early, Deletes, Spared
<1>3. ASSUME quiet, config.mode = "size", job[k].kind = "gc", excess > 0, ~refused',
             config.factor = 1, Uncompressed
      PROVE  Enforces(job[k])'
  <2>1. Enforces(job[k])
    BY <1>1, <1>3 DEF Frees
  <2>2. job[k].pins = SeenPins /\ blobs \cap job[k].deleted = {}
    BY <2>1 DEF Enforces
  <2>3. /\ Doomed(job'[k]) = Doomed(job[k])
        /\ blobs' \cup job'[k].deleted = blobs \cup job[k].deleted
        /\ blobs' \cap job'[k].deleted = {}
        /\ UNCHANGED <<pinned, unreadable>>
    BY <1>3, <2>2
  <2> QED
    BY <2>1, <2>3 DEF Enforces, Spared, SeenPins
<1>4. Frees(k)'
  BY <1>3 DEF Frees, Early, Deletes, Uncompressed
<1>5. job'[k].pc # "idle"
  BY DEF Deletes
<1> QED
  BY <1>1, <1>2, <1>4, <1>5, FreeRun

LEMMA FreeDelete ==
  ASSUME SafeInv, SafeInv', FreeInv, NEW k \in Collectors,
         Unlink(k) \/ \E c \in Cids : Skip(k, c) \/ Allow(k, c)
  PROVE  FreeInv'
<1> USE DEF Reads, Becomes, store
<1>0. /\ job[k] \in Jobs /\ Spares(k) /\ NoCid \notin Cids
      /\ pinned \subseteq blobs /\ job[k].pc \in Deletes
      /\ (job[k].pc # "unlink" => job[k].target = NoCid)
      /\ job \in [Collectors -> Jobs]
  BY CidAssumption DEF SafeInv, Shape, FreeInv, Unlink, Skip, Allow, Deletes
<1>1. ASSUME NEW c \in Cids, Skip(k, c) PROVE FreeInv'
  <2>1. /\ job'[k].pc = "check" /\ job'[k].kind = job[k].kind /\ job'[k].pins = job[k].pins
        /\ job'[k].deleted = job[k].deleted /\ job'[k].target = job[k].target
        /\ job'[k].todo = job[k].todo \ {c}
    BY <1>0, <1>1 DEF Skip, Jobs
  <2>2. UNCHANGED <<config, blobs, unreadable, pinned, excess, quiet>> /\ c \notin unreadable
    BY <1>1 DEF Skip, Readable
  <2>3. (~refused' => ~refused) /\ (~refused' /\ config.factor = 1 => c \in pinned)
    <3>1. config.factor = 1 => EnoughReplicas(c)
      BY DEF EnoughReplicas, KnownReplicas
    <3>2. Refusal(c) # "none" /\ refused' = IF Refusal(c) = "shard_mismatch" THEN TRUE ELSE refused
      BY <1>1 DEF Skip
    <3>3. CASE c \notin pinned /\ config.factor = 1
      <4>1. c \notin config.shard
        BY <3>1, <3>2, <3>3 DEF Refusal
      <4>2. Refusal(c) = "shard_mismatch"
        BY <3>3, <4>1 DEF Refusal
      <4> QED
        BY <3>2, <4>2
    <3> QED
      BY <3>2, <3>3
  <2>4. Doomed(job'[k]) \subseteq Doomed(job[k])
    BY <2>1 DEF Doomed
  <2>5. job[k].pins = SeenPins /\ c \in pinned => Doomed(job'[k]) = Doomed(job[k])
    BY <2>1, <2>2 DEF Doomed, SeenPins
  <2>6. job'[k].pc \in Deletes /\ job'[k].pc # "unlink"
    BY <2>1 DEF Deletes
  <2> QED
    BY <1>0, <2>1, <2>2, <2>3, <2>4, <2>5, <2>6, FreeKeeps
<1>2. ASSUME NEW c \in Cids, Allow(k, c) PROVE FreeInv'
  <2>1. c \notin Spared /\ c \notin pinned /\ c \in blobs /\ job[k].pc = "check"
    BY <1>2 DEF Allow, Refusal, Readable, Spared
  <2>2. UNCHANGED <<config, blobs, unreadable, pinned, excess, quiet, refused>>
    BY <1>2 DEF Allow
  <2>3. /\ job'[k].pc \in Deletes /\ job'[k].kind = job[k].kind /\ job'[k].pins = job[k].pins
        /\ job'[k].todo = job[k].todo \ {c}
        /\ \/ /\ job'[k].pc = "unlink" /\ job'[k].target = c
              /\ job'[k].deleted = job[k].deleted
           \/ /\ job'[k].pc = "check" /\ job'[k].target = NoCid
              /\ job'[k].deleted = job[k].deleted \cup {c}
              /\ job[k].kind = "dry"
    <3>1. CASE job[k].kind = "dry"
      BY <1>0, <1>2, <2>1, <3>1 DEF Allow, Jobs, Deletes
    <3>2. CASE job[k].kind # "dry"
      BY <1>0, <1>2, <2>1, <3>2 DEF Allow, Jobs, Deletes
    <3> QED
      BY <3>1, <3>2
  <2>4. c \in job[k].todo
    BY <1>2 DEF Allow, Upcoming
  <2>5. c \notin job[k].pins => Doomed(job'[k]) = Doomed(job[k])
    BY <1>0, <2>1, <2>3, <2>4 DEF Doomed
  <2>6. quiet => job[k].pins \subseteq pinned
    BY <1>0, <2>1 DEF Spares, Deletes
  <2>7. CASE quiet
    <3>1. Doomed(job'[k]) = Doomed(job[k])
      BY <2>1, <2>5, <2>6, <2>7
    <3>2. /\ blobs' \cup job'[k].deleted = blobs \cup job[k].deleted
          /\ job[k].kind = "gc" => job'[k].deleted = job[k].deleted
          /\ job'[k].pc = "unlink" => job'[k].target \notin Spared
      BY <2>1, <2>2, <2>3
    <3> QED
      BY <1>0, <2>2, <2>3, <3>1, <3>2, FreeKeeps
  <2>8. CASE ~quiet
    <3>1. Spares(k)' /\ Frees(k)' /\ excess' \in Nat /\ job'[k].pc # "idle"
      BY <2>2, <2>3, <2>8 DEF Spares, Frees, Early, Deletes, FreeInv
    <3> QED
      BY <2>2, <3>1, FreeRun
  <2> QED
    BY <2>7, <2>8 DEF FreeInv
<1>3. CASE Unlink(k)
  <2> DEFINE c == job[k].target
  <2>1. /\ job[k].pc = "unlink" /\ c \in blobs /\ c \in Cids
        /\ blobs' = blobs \ {c} /\ pinned' = pinned \ {c}
        /\ unreadable' = unreadable \ {c}
        /\ UNCHANGED <<config, excess, quiet, refused>>
    BY <1>3 DEF Unlink, DeleteFiles, SafeInv, Shape
  <2>2. /\ job'[k].pc = "check" /\ job'[k].kind = job[k].kind /\ job'[k].pins = job[k].pins
        /\ job'[k].todo = job[k].todo /\ job'[k].target = NoCid
        /\ job'[k].deleted = job[k].deleted \cup {c}
    BY <1>0, <1>3 DEF Unlink, Jobs
  <2>3. Doomed(job'[k]) = Doomed(job[k])
    BY <1>0, <2>1, <2>2 DEF Doomed
  <2>4. quiet => UNCHANGED <<pinned, unreadable>>
    BY <1>0, <2>1 DEF Spares, Spared
  <2>5. job'[k].pc \in Deletes /\ job'[k].pc # "unlink"
    BY <2>2 DEF Deletes
  <2>6. /\ blobs' \cup job'[k].deleted = blobs \cup job[k].deleted
        /\ blobs \cap job[k].deleted = {} => blobs' \cap job'[k].deleted = {}
    BY <2>1, <2>2
  <2> QED
    BY <1>0, <2>1, <2>2, <2>3, <2>4, <2>5, <2>6, FreeKeeps
<1> QED
  BY <1>1, <1>2, <1>3

LEMMA FreeCollector ==
  ASSUME SafeInv, SafeInv', FreeInv, NEW k \in Collectors, CollectorStep(k)
  PROVE  FreeInv'
<1>1. CASE InspectThrows(k) \/ UnlinkThrows(k) \/ Purged(k) \/ Finish(k)
           \/ \E c \in Cids : CheckThrows(k, c)
  BY <1>1, FreeEnds DEF InspectThrows, UnlinkThrows, Purged, Finish, CheckThrows, Abort
<1>2. ASSUME NEW c \in Cids, Purge(k, c) PROVE FreeInv'
  <2>1. /\ job \in [Collectors -> Jobs] /\ job[k].pc = "purge" /\ Spares(k)
        /\ job' = [job EXCEPT ![k].todo = @ \ {c}]
        /\ UNCHANGED <<excess, quiet>>
    BY <1>2 DEF Purge, SafeInv, Shape, FreeInv
  <2>2. job'[k].pc = "purge" /\ job'[k].deleted = job[k].deleted
    BY <2>1 DEF Jobs
  <2>3. Spares(k)' /\ Frees(k)' /\ excess' \in Nat
    BY <2>1, <2>2 DEF Spares, Frees, Early, Deletes, FreeInv
  <2> QED
    BY <2>1, <2>2, <2>3, FreeRun
<1> QED
  BY <1>1, <1>2, FreeScan, FreeSelect, FreeDelete DEF CollectorStep

LEMMA FreeStep == SafeInv /\ SafeInv' /\ FreeInv /\ [Next]_vars => FreeInv'
<1> SUFFICES ASSUME SafeInv, SafeInv', FreeInv, [Next]_vars PROVE FreeInv'
  OBVIOUS
<1>1. ASSUME NEW c \in Cids, \/ Store(c) \/ MetaWritten(c) \/ MetaEmptied(c)
                              \/ Pin(c) \/ Unpin(c) \/ Age(c)
      PROVE  FreeInv'
  BY <1>1, FreeOthers
  DEF Store, MetaWritten, MetaEmptied, Pin, Unpin, Age, Elsewhere, Disturb
<1>2. ASSUME NEW c \in Cids, SingleGet(c) PROVE FreeInv'
  BY <1>2, FreeOthers DEF SingleGet, store
<1>3. CASE SingleStep
  <2>1. CASE SingleAllow \/ SingleRefuse
    BY <2>1, FreeOthers DEF SingleAllow, SingleRefuse, SingleEnds, store
  <2>2. CASE SingleUnlink
    <3>1. /\ blobs' = blobs \ {single.cid} /\ pinned' = pinned \ {single.cid}
          /\ unreadable' = unreadable \ {single.cid}
          /\ pinned \subseteq blobs /\ unreadable \subseteq blobs
      BY <2>2 DEF SingleUnlink, DeleteFiles, SafeInv, Shape
    <3>2. quiet' = FALSE \/ UNCHANGED <<quiet, blobs, unreadable, pinned>>
      BY <2>2, <3>1 DEF SingleUnlink, Disturb
    <3> QED
      BY <2>2, <3>2, FreeOthers DEF SingleUnlink, SingleEnds
  <2> QED
    BY <1>3, <2>1, <2>2 DEF SingleStep
<1>4. ASSUME NEW k \in Collectors, CollectorStep(k) PROVE FreeInv'
  BY <1>4, FreeCollector
<1>5. ASSUME NEW k \in Collectors, NEW kind \in Kinds, Start(k, kind) PROVE FreeInv'
  BY <1>5, FreeStart
<1>6. CASE UNCHANGED vars
  BY <1>6, FreeOthers DEF vars, store
<1> QED
  BY <1>1, <1>2, <1>3, <1>4, <1>5, <1>6 DEF Next

LEMMA Free == Spec => [](SafeInv /\ FreeInv)
<1>1. Init => FreeInv
  BY FreeInit
<1> QED
  BY <1>1, SafeInit, SafeStep, FreeStep, PTL DEF Spec

-----------------------------------------------------------------------------
\* A part of what is frugal could spare one of its blobs, if it has one.
LEMMA PartSpares ==
  ASSUME NEW T \in SUBSET Cids, NEW need \in Nat, need > 0, Frugal(T, need),
         NEW D \in SUBSET T, D # {}
  PROVE  \E x \in D : Total(Size, D \ {x}) < need
<1>1. Size \in [Cids -> Nat] /\ D \in SUBSET Cids
  BY SizeAssumption
<1>2. CASE Total(Size, D) < need
  <2>1. PICK x \in D : TRUE
    OBVIOUS
  <2>2. D \ {x} \in SUBSET D
    OBVIOUS
  <2>3. Total(Size, D \ {x}) <= Total(Size, D) /\ Total(Size, D \ {x}) \in Nat /\ Total(Size, D) \in Nat
    BY <1>1, <2>2, TotalGrows
  <2> QED
    BY <1>2, <2>1, <2>3
<1>3. CASE Total(Size, T) <= need
  <2>1. Total(Size, D) \in Nat /\ Total(Size, T) \in Nat /\ Total(Size, D) <= Total(Size, T)
    BY <1>1, TotalGrows
  <2>2. CASE Total(Size, D) = need
    <3>1. PICK x \in D : Total(Size, D \ {x}) < Total(Size, D)
      BY <1>1, <2>2, TotalHas
    <3> QED
      BY <2>2, <3>1
  <2> QED
    BY <1>2, <1>3, <2>1, <2>2
<1>4. ASSUME NEW last \in T, Total(Size, T \ {last}) < need
      PROVE  \E x \in D : Total(Size, D \ {x}) < need
  <2> DEFINE R == T \ {last}
  <2>1. R \in SUBSET Cids /\ Total(Size, R) < need
    BY <1>4
  <2> HIDE DEF R
  <2>2. ASSUME NEW E \in SUBSET R PROVE Total(Size, E) < need
    <3>1. Total(Size, E) \in Nat /\ Total(Size, R) \in Nat /\ Total(Size, E) <= Total(Size, R)
      BY <1>1, <2>1, TotalGrows
    <3> QED
      BY <2>1, <3>1
  <2>3. CASE last \in D
    <3>1. D \ {last} \in SUBSET R
      BY DEF R
    <3> QED
      BY <2>2, <2>3, <3>1
  <2>4. CASE last \notin D
    <3>1. D \in SUBSET R
      BY <2>4 DEF R
    <3> QED
      BY <1>2, <2>2, <3>1
  <2> QED
    BY <2>3, <2>4
<1> QED
  BY <1>3, <1>4 DEF Frugal

\* No quiet collection that needs to free deletes a set of blobs that could spare
\* any of them.
THEOREM SparesTheRest == Spec => FreesNoMore
<1>1. ASSUME SafeInv, FreeInv, NEW k \in Collectors, NEW c \in Cids,
             Unlinks(k, c), excess > 0, quiet
      PROVE  LET D == job[k].deleted \cup {c} IN \E x \in D : Total(Size, D \ {x}) < excess
  <2> DEFINE D == job[k].deleted \cup {c}
  <2>1. /\ job[k] \in Jobs /\ job[k].pc = "unlink" /\ job[k].target = c
        /\ Sparing(job[k], excess) /\ excess \in Nat
    BY <1>1 DEF Unlinks, SafeInv, Shape, FreeInv, Spares, Deletes
  <2>2. D \subseteq Doomed(job[k])
    BY <2>1 DEF Doomed, Jobs
  <2>3. PICK T \in SUBSET Cids : Doomed(job[k]) \subseteq T /\ Frugal(T, excess)
    BY <2>1 DEF Sparing
  <2>4. D \in SUBSET T /\ D # {}
    BY <2>2, <2>3
  <2> HIDE DEF D
  <2>5. \E x \in D : Total(Size, D \ {x}) < excess
    BY <1>1, <2>1, <2>3, <2>4, PartSpares
  <2> QED
    BY <2>5 DEF D
<1>2. SafeInv /\ FreeInv /\ [Next]_vars =>
        [\A k \in Collectors, c \in Cids :
           Unlinks(k, c) /\ excess > 0 /\ quiet
           => LET D == job[k].deleted \cup {c}
              IN  \E x \in D : Total(Size, D \ {x}) < excess]_vars
  BY <1>1
<1> QED
  BY <1>2, Free, PTL DEF Spec, FreesNoMore

\* A quiet collection of blobs that are not compressed frees what it found it
\* must, unless it is pinned, of another shard or without metadata.
THEOREM FreesWhatItMust == Spec => FreesEnough
<1>1. ASSUME SafeInv, FreeInv, [Next]_vars, NEW k \in Collectors, Finishes(k),
             job[k].kind = "gc", excess > 0, config.mode = "size", config.factor = 1,
             quiet, ~refused, Uncompressed
      PROVE  \/ Used <= config.max /\ Disk - Used >= MinFree
             \/ blobs \subseteq Spared
  <2> DEFINE D == job[k].deleted
  <2>1. /\ job[k].pc = "check" /\ job[k].todo = {} /\ job[k].target = NoCid
        /\ D \in SUBSET Cids /\ blobs \in SUBSET Cids /\ NoCid \notin Cids
    BY <1>1, CidAssumption DEF Finishes, SafeInv, Shape, Jobs
  <2>2. Enforces(job[k])
    BY <1>1, <2>1 DEF FreeInv, Frees, Deletes
  <2>3. Doomed(job[k]) = D
    BY <2>1 DEF Doomed
  <2> HIDE DEF D
  <2>4. /\ blobs \cap D = {}
        /\ D = (blobs \cup D) \ Spared \/ excess <= Total(Size, D)
        /\ Total(DiskSize, blobs \cup D) <= config.max + excess
        /\ MinFree + Total(DiskSize, blobs \cup D) <= Disk + excess
    BY <2>2, <2>3 DEF Enforces, D
  <2>5. CASE D = (blobs \cup D) \ Spared
    BY <2>4, <2>5
  <2>6. CASE excess <= Total(Size, D)
    <3>1. DiskSize \in [Cids -> Nat] /\ Total(Size, D) = Total(DiskSize, D)
      BY <1>1, SizeAssumption DEF Uncompressed
    <3>2. /\ Total(DiskSize, blobs \cup D) = Used + Total(DiskSize, D)
          /\ Used \in Nat /\ Total(DiskSize, D) \in Nat
      BY <2>1, <2>4, <3>1, TotalSplit, TotalWithout DEF Used
    <3>3. config.max \in Nat /\ Disk \in Nat /\ MinFree \in Nat /\ excess \in Nat
      BY <1>1, ConfigAssumption DEF SafeInv, Shape, FreeInv
    <3> QED
      BY <2>4, <2>6, <3>1, <3>2, <3>3
  <2> QED
    BY <2>4, <2>5, <2>6
<1>2. SafeInv /\ FreeInv /\ [Next]_vars =>
        [\A k \in Collectors :
           /\ Finishes(k) /\ job[k].kind = "gc" /\ excess > 0
           /\ config.mode = "size" /\ config.factor = 1 /\ quiet /\ ~refused /\ Uncompressed
           => \/ Used <= config.max /\ Disk - Used >= MinFree
              \/ blobs \subseteq pinned \cup unreadable]_vars
  BY <1>1 DEF Spared
<1> QED
  BY <1>2, Free, PTL DEF Spec, FreesEnough

=============================================================================
