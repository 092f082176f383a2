------------------------------- MODULE PeerCache -------------------------------
(***************************************************************************)
(* services/peer-cache.service.ts: the peers once connected, in memory and   *)
(* in peer-cache.json, which is written thirty seconds after the last change *)
(* and when the node stops.  removePeer and cleanup have no callers.         *)
(***************************************************************************)
EXTENDS Naturals, FiniteSets, JsonFile

CONSTANTS
  MaxCached,  \* MAX_CACHED_PEERS
  MaxWrites,  \* bound on the writes under way at once
  Timer       \* who writes when no stopping node does

VARIABLES
  cache,        \* this.cache.peers
  cacheFile,    \* peer-cache.json
  cacheWrites,  \* writes of that file under way
  dirty,
  saveTimer,    \* the timer is set
  cacheRaced,   \* history: a write was under way at the last change, or two have
                \* been under way at once since
  overtaken,    \* history: a write begun before the last change has opened the
                \* file or landed after it
  saveFailed    \* history: a write failed since the last change

cacheVars ==
  <<cache, cacheFile, cacheWrites, dirty, saveTimer, cacheRaced, overtaken, saveFailed>>

CacheInit ==
  /\ cache = <<>> /\ cacheFile = Absent /\ cacheWrites = <<>>
  /\ dirty = FALSE /\ saveTimer = FALSE
  /\ cacheRaced = FALSE /\ overtaken = FALSE /\ saveFailed = FALSE

Peers(list) == {list[i].peer : i \in DOMAIN list}
FileList == IF cacheFile \in {Absent, Empty, Garbled} THEN <<>> ELSE cacheFile
Saved == ToSet(cache) \subseteq ToSet(FileList)

\* addPeer: a new one is put last and the list sorted (sort is stable) and cut.
Updated(list, p) ==
  [i \in DOMAIN list |-> IF list[i].peer # p THEN list[i]
                         ELSE [list[i] EXCEPT !.times = @ + 1]]
Ahead(list, i) == {j \in DOMAIN list :
  list[j].times > list[i].times \/ (list[j].times = list[i].times /\ j < i)}
Sorted(list) == Arranged(list, [i \in DOMAIN list |-> Ahead(list, i)])
Cut(list) == SubSeq(Sorted(list), 1, IF Len(list) > MaxCached THEN MaxCached ELSE Len(list))

AddPeerSetting(timer, p) ==
  /\ cache' = IF p \in Peers(cache) THEN Updated(cache, p)
              ELSE Cut(Append(cache, [peer |-> p, times |-> 1]))
  /\ dirty' = TRUE /\ saveTimer' = timer
  /\ cacheWrites' = [i \in DOMAIN cacheWrites |-> [cacheWrites[i] EXCEPT !.old = TRUE]]
  /\ cacheRaced' = (cacheWrites # <<>>) /\ overtaken' = FALSE /\ saveFailed' = FALSE
  /\ UNCHANGED cacheFile

AddPeerOnce(p) == AddPeerSetting(saveTimer \/ ~dirty, p)
\* scheduleSave sets the timer anew at every change.
AddPeer(p) == AddPeerSetting(TRUE, p)

\* save, called by the timer or by a stopping node; old is history: a change has
\* come since.
SaveCache(by) ==
  /\ Len(cacheWrites) < MaxWrites
  /\ cacheWrites' =
       Append(cacheWrites, [text |-> cache, open |-> FALSE, by |-> by, old |-> FALSE])
  /\ cacheRaced' = (cacheRaced \/ cacheWrites # <<>>)
  /\ UNCHANGED <<cache, cacheFile, dirty, overtaken, saveFailed>>

Written == <<cache, cacheFile, cacheWrites, dirty, cacheRaced, overtaken, saveFailed>>
TimerFires ==
  /\ saveTimer /\ saveTimer' = FALSE
  /\ \/ dirty /\ SaveCache(Timer)
     \/ ~dirty /\ UNCHANGED Written

CacheOpens(i) ==
  /\ ~cacheWrites[i].open
  /\ cacheWrites' = [cacheWrites EXCEPT ![i] = Opened(@)]
  /\ cacheFile' = Empty /\ overtaken' = (overtaken \/ cacheWrites[i].old)
  /\ UNCHANGED <<cache, dirty, saveTimer, cacheRaced, saveFailed>>

\* writeFile returns; then, and only then, dirty is taken off.
CacheLands(i) ==
  /\ cacheWrites[i].open
  /\ cacheFile' \in Landings(cacheFile, cacheWrites[i].text)
  /\ cacheWrites' = RemoveAt(cacheWrites, i)
  /\ dirty' = FALSE /\ overtaken' = (overtaken \/ cacheWrites[i].old)
  /\ UNCHANGED <<cache, saveTimer, cacheRaced, saveFailed>>

\* save logs what writeFile throws; dirty stays, but no timer is set.
CacheFailsClean(i) ==
  /\ cacheWrites' = RemoveAt(cacheWrites, i) /\ saveFailed' = TRUE /\ dirty' = FALSE
  /\ UNCHANGED <<cache, cacheFile, saveTimer, cacheRaced, overtaken>>
CacheFails(i) ==
  /\ cacheWrites' = RemoveAt(cacheWrites, i) /\ saveFailed' = TRUE
  /\ UNCHANGED <<cache, cacheFile, dirty, saveTimer, cacheRaced, overtaken>>

\* flush up to its await. It waits for a write of its own only.
FlushCache(by) ==
  /\ saveTimer' = FALSE
  /\ \/ dirty /\ SaveCache(by)
     \/ ~dirty /\ UNCHANGED Written
FlushedAtOnce(by) == TRUE
Flushed(by) == \A i \in DOMAIN cacheWrites : cacheWrites[i].by # by

\* The process is gone, its writes with it.
StopCache ==
  /\ cacheWrites' = <<>> /\ saveTimer' = FALSE
  /\ UNCHANGED <<cache, cacheFile, dirty, cacheRaced, overtaken, saveFailed>>

\* load by a new process: expired are the peers not seen for a week. A file that
\* cannot be parsed is taken for none.
LoadCache(expired) ==
  /\ cache' = Filtered(FileList, {i \in DOMAIN FileList : FileList[i].peer \notin expired})
  /\ dirty' = FALSE /\ cacheRaced' = FALSE /\ overtaken' = FALSE /\ saveFailed' = FALSE
  /\ UNCHANGED <<cacheFile, cacheWrites, saveTimer>>

-----------------------------------------------------------------------------
\* What is in memory and not in the file is marked dirty: save takes the mark off
\* only when its text has landed. It is lost all the same when a peer is added, or
\* a second save begins, while a write is under way.
DirtyOrSaved ==
  cacheWrites # <<>> \/ dirty \/ cacheRaced \/ Saved

===============================================================================
