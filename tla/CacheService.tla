----------------------------- MODULE CacheService -----------------------------
(***************************************************************************)
(* services/cache.service.ts: the blobs in memory.  The entries are a        *)
(* sequence in the order of the Map; the data is left out.                   *)
(***************************************************************************)
EXTENDS Naturals, Sequences, SequencesExt

CONSTANTS
  CacheKeys,
  SizeOf,        \* of the blobs: a key is a cid
  MaxSize,       \* maxSizeBytes
  Fraction,      \* 10: a blob may take one tenth of the cache
  MaxMillis      \* bound on the clock

ASSUME CacheAssumption ==
  SizeOf \in [CacheKeys -> Nat] /\ MaxSize \in Nat /\ Fraction \in Nat \ {0} /\ MaxMillis \in Nat

VARIABLES
  entries,    \* [key, size, at]: at is the timestamp
  totalSize,
  millis      \* Date.now

memoryVars == <<entries, totalSize, millis>>

MemoryInit == entries = <<>> /\ totalSize = 0 /\ millis = 0

\* Calls come in the same millisecond or later.
Clock == millis' \in {millis} \cup (IF millis < MaxMillis THEN {millis + 1} ELSE {})

\* get
GetCached(k) ==
  /\ Clock
  /\ entries' = [i \in DOMAIN entries |->
       IF entries[i].key = k THEN [entries[i] EXCEPT !.at = millis'] ELSE entries[i]]
  /\ UNCHANGED totalSize

\* evictLRU: of the oldest ones the first in the Map.
Oldest(list) ==
  CHOOSE i \in DOMAIN list : \A j \in DOMAIN list :
    list[i].at < list[j].at \/ (list[i].at = list[j].at /\ i <= j)
EvictLRU(m) ==
  LET i == Oldest(m.list)
  IN [list |-> RemoveAt(m.list, i), total |-> m.total - m.list[i].size]

EvictOnce(m, size) ==
  IF m.total + size > MaxSize /\ m.list # <<>> THEN EvictLRU(m) ELSE m
MakeRoomOnce(m, size) == EvictOnce(m, size)
\* The loop of set: until the blob fits or nothing is left.
MakeRoom(m, size) ==
  LET room[n \in 0..Len(m.list)] == IF n = 0 THEN m ELSE EvictOnce(room[n - 1], size)
  IN room[Len(m.list)]

\* Map.set: a key that is there keeps its place.
Put(list, e) ==
  IF \E i \in DOMAIN list : list[i].key = e.key
  THEN [i \in DOMAIN list |-> IF list[i].key = e.key THEN e ELSE list[i]]
  ELSE Append(list, e)

\* set: the size of an entry that is replaced is not taken off.
SetCached(k) ==
  LET size == SizeOf[k] IN
  /\ MaxSize > 0 /\ size * Fraction <= MaxSize /\ Clock
  /\ LET m == MakeRoom([list |-> entries, total |-> totalSize], size)
     IN /\ entries' = Put(m.list, [key |-> k, size |-> size, at |-> millis'])
        /\ totalSize' = m.total + size

\* delete
DeleteCached(k) ==
  /\ \E i \in DOMAIN entries :
       /\ entries[i].key = k
       /\ entries' = RemoveAt(entries, i) /\ totalSize' = totalSize - entries[i].size
  /\ UNCHANGED millis

\* clear
ClearCache == entries' = <<>> /\ totalSize' = 0 /\ UNCHANGED millis

MemoryNext ==
  \/ \E k \in CacheKeys :
       GetCached(k) \/ SetCached(k) \/ DeleteCached(k)
  \/ ClearCache

MemorySpec == MemoryInit /\ [][MemoryNext]_memoryVars

-----------------------------------------------------------------------------
\* The sizes of the blobs taken together.
Held(list) ==
  LET sum[n \in 0..Len(list)] == IF n = 0 THEN 0 ELSE sum[n - 1] + list[n].size
  IN sum[Len(list)]

\* What is held never takes more than the cache may, although the size of a
\* replaced entry stays in the sum that set looks at: the sum is wrong only upwards.
CacheFits == Held(entries) <= totalSize /\ Held(entries) <= MaxSize

===============================================================================
