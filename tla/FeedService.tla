----------------------------- MODULE FeedService -----------------------------
(***************************************************************************)
(* One feed of services/feed.service.ts: createFeed and addEntry on its      *)
(* files, and resolveForks on what they hold.                                *)
(*                                                                         *)
(* A feed is a directory with metadata.json and a file per entry.  addEntry  *)
(* reads the metadata, awaits the blob store, writes the entry and writes    *)
(* the metadata it read, changed; no lock is held.  One action is one of     *)
(* these calls with the code up to the next; writeFile is two, the open that *)
(* truncates and the write.  Whether the signature, the writer list and the  *)
(* blob store admit an entry is left open: AddFails may happen instead.      *)
(***************************************************************************)
EXTENDS Naturals, FiniteSets, Sequences

CONSTANTS
  Cids,        \* entries
  NoCid,       \* null
  Stamp, Rank, \* the timestamp of each entry, the place of its cid among strings
  Procs,       \* requests in flight at once
  MaxAdds,     \* bound on the calls of addEntry
  MaxCreates,  \* bound on the calls of createFeed
  MaxCrashes,  \* bound on the crashes and failing writes
  Modes        \* the values of serial

\* A cid is a hash of a fixed length.
ASSUME CidAssumption == NoCid \notin Cids /\ IsFiniteSet(Cids)
ASSUME OrderAssumption ==
  /\ Stamp \in [Cids -> Nat] /\ Rank \in [Cids -> Nat]
  /\ \A c, d \in Cids : c # d => Rank[c] # Rank[d]
ASSUME BoundAssumption ==
  /\ MaxAdds \in Nat /\ MaxCreates \in Nat /\ MaxCrashes \in Nat
  /\ Modes \subseteq BOOLEAN

MaybeCid == Cids \cup {NoCid}

VARIABLES
  serial,      \* clients send the next request for the feed after an answer
  meta,        \* metadata.json: its state, rootCid and entryCount
  event,       \* each entry's file: its state and parentCid
  pc, req, reg,\* what each request awaits, what it asks, the metadata it holds
  adds, creates, crashes,
  \* history, for the properties only
  acks,        \* entries acknowledged since the feed was last created
  first        \* the first root written since then

files == <<meta, event>>
vars == <<serial, meta, event, pc, req, reg, adds, creates, crashes, acks, first>>

Text == [root : MaybeCid, count : Nat]
Pcs == {"idle", "meta", "blob", "evOpen", "evWrite", "mOpen", "mWrite"}
FileStates == {"absent", "empty", "ok", "mixed"}
Fresh == [root |-> NoCid, count |-> 0]
\* cid = NoCid: a createFeed
NoReq == [cid |-> NoCid, parent |-> NoCid]

TypeOK ==
  /\ serial \in Modes
  /\ meta \in [st : FileStates, root : MaybeCid, count : Nat]
  /\ event \in [Cids -> [st : FileStates, parent : MaybeCid]]
  /\ pc \in [Procs -> Pcs]
  /\ req \in [Procs -> [cid : MaybeCid, parent : MaybeCid]]
  /\ \A p \in Procs : pc[p] \in {"meta", "blob", "evOpen", "evWrite"} =>
                        req[p].cid \in Cids
  /\ reg \in [Procs -> Text]
  /\ adds \in 0..MaxAdds /\ creates \in 0..MaxCreates /\ crashes \in 0..MaxCrashes
  /\ acks \in Nat /\ first \in MaybeCid

-----------------------------------------------------------------------------
(* Files.                                                                    *)

\* A text with null is shorter than one with a cid.  What a longer text leaves
\* behind its end makes the file no JSON.
Longer(f, old, new) == f.st \in {"ok", "mixed"} /\ old # NoCid /\ new = NoCid

WriteMeta(r) ==
  IF Longer(meta, meta.root, r.root)
  THEN [meta EXCEPT !.st = "mixed"]
  ELSE [st |-> "ok", root |-> r.root, count |-> r.count]

WriteEvent(c, par) ==
  IF Longer(event[c], event[c].parent, par)
  THEN [event[c] EXCEPT !.st = "mixed"]
  ELSE [st |-> "ok", parent |-> par]

-----------------------------------------------------------------------------
(* Requests.                                                                 *)

Goto(p, l) == pc' = [pc EXCEPT ![p] = l]

Done(p) ==
  /\ Goto(p, "idle")
  /\ req' = [req EXCEPT ![p] = NoReq] /\ reg' = [reg EXCEPT ![p] = Fresh]

MayBegin(p) ==
  /\ pc[p] = "idle"
  /\ serial => \A q \in Procs : pc[q] = "idle"

\* createFeed asks nothing and writes a fresh text.
Create(p) ==
  /\ MayBegin(p) /\ creates < MaxCreates
  /\ creates' = creates + 1
  /\ Goto(p, "mOpen")
  /\ req' = [req EXCEPT ![p] = NoReq] /\ reg' = [reg EXCEPT ![p] = Fresh]
  /\ UNCHANGED <<serial, files, adds, crashes, acks, first>>

Add(p, c, par) ==
  /\ MayBegin(p) /\ adds < MaxAdds
  /\ adds' = adds + 1
  /\ Goto(p, "meta")
  /\ req' = [req EXCEPT ![p] = [cid |-> c, parent |-> par]]
  /\ UNCHANGED <<serial, files, reg, creates, crashes, acks, first>>

AddMeta(p) ==
  /\ pc[p] = "meta" /\ meta.st = "ok"
  /\ reg' = [reg EXCEPT ![p] = [root |-> meta.root, count |-> meta.count]]
  /\ Goto(p, "blob")
  /\ UNCHANGED <<serial, files, req, adds, creates, crashes, acks, first>>

\* Mutant: the error is answered but the handler does not return.
AddFailsFallsThrough(p) ==
  /\ pc[p] \in {"meta", "blob"} /\ Goto(p, "evOpen")
  /\ req' = [req EXCEPT ![p] = NoReq]
  /\ UNCHANGED <<serial, files, reg, adds, creates, crashes, acks, first>>

\* There is no feed, its file is no JSON, the author is not a writer, or the
\* blob is missing.
AddFails(p) ==
  /\ pc[p] \in {"meta", "blob"} /\ Done(p)
  /\ UNCHANGED <<serial, files, adds, creates, crashes, acks, first>>

\* Mutant: any entry without a parent becomes the root.
AddBlobAnyRoot(p) ==
  /\ pc[p] = "blob"
  /\ reg' = IF req[p].parent = NoCid
            THEN [reg EXCEPT ![p].root = req[p].cid] ELSE reg
  /\ Goto(p, "evOpen")
  /\ UNCHANGED <<serial, files, req, adds, creates, crashes, acks, first>>

\* Mutant: the metadata is written before the entry.
AddBlobMetaFirst(p) ==
  /\ pc[p] = "blob"
  /\ reg' = [reg EXCEPT ![p] =
               [root |-> IF @.root = NoCid /\ req[p].parent = NoCid
                         THEN req[p].cid ELSE @.root,
                count |-> @.count + 1]]
  /\ Goto(p, "mOpen")
  /\ UNCHANGED <<serial, files, req, adds, creates, crashes, acks, first>>

\* The blob is there: the first entry without a parent becomes the root.
AddBlob(p) ==
  /\ pc[p] = "blob"
  /\ reg' = IF reg[p].root = NoCid /\ req[p].parent = NoCid
            THEN [reg EXCEPT ![p].root = req[p].cid] ELSE reg
  /\ Goto(p, "evOpen")
  /\ UNCHANGED <<serial, files, req, adds, creates, crashes, acks, first>>

EventOpen(p) ==
  /\ pc[p] = "evOpen"
  /\ event' = [event EXCEPT ![req[p].cid] = [st |-> "empty", parent |-> NoCid]]
  /\ Goto(p, "evWrite")
  /\ UNCHANGED <<serial, meta, req, reg, adds, creates, crashes, acks, first>>

\* Mutant: the count goes up for an entry that is new only.
EventWriteCountsNew(p) ==
  LET c == req[p].cid
  IN /\ pc[p] = "evWrite"
     /\ event' = [event EXCEPT ![c] = WriteEvent(c, req[p].parent)]
     /\ reg' = IF c = reg[p].root /\ reg[p].count > 0
               THEN reg ELSE [reg EXCEPT ![p].count = @ + 1]
     /\ Goto(p, "mOpen")
     /\ UNCHANGED <<serial, meta, req, adds, creates, crashes, acks, first>>

EventWrite(p) ==
  LET c == req[p].cid
  IN /\ pc[p] = "evWrite"
     /\ event' = [event EXCEPT ![c] = WriteEvent(c, req[p].parent)]
     /\ reg' = [reg EXCEPT ![p].count = @ + 1]
     /\ Goto(p, "mOpen")
     /\ UNCHANGED <<serial, meta, req, adds, creates, crashes, acks, first>>

MetaOpen(p) ==
  /\ pc[p] = "mOpen"
  /\ meta' = [st |-> "empty", root |-> NoCid, count |-> 0]
  /\ Goto(p, "mWrite")
  /\ UNCHANGED <<serial, event, req, reg, adds, creates, crashes, acks, first>>

\* saveFeedMetadata is done, and the request is acknowledged.
MetaWrite(p) ==
  LET created == req[p].cid = NoCid
  IN /\ pc[p] = "mWrite"
     /\ meta' = WriteMeta(reg[p])
     /\ acks' = IF created THEN 0 ELSE acks + 1
     /\ first' = IF created THEN NoCid
                 ELSE IF first = NoCid THEN reg[p].root ELSE first
     /\ Done(p)
     /\ UNCHANGED <<serial, event, adds, creates, crashes>>

-----------------------------------------------------------------------------
(* Failures.                                                                 *)

\* A writeFile fails before or after the file is truncated: the request fails.
WriteFails(p) ==
  /\ crashes < MaxCrashes /\ crashes' = crashes + 1
  /\ pc[p] \in {"evOpen", "evWrite", "mOpen", "mWrite"} /\ Done(p)
  /\ UNCHANGED <<serial, files, adds, creates, acks, first>>

\* The node dies and starts again.
Crash ==
  /\ crashes < MaxCrashes /\ crashes' = crashes + 1
  /\ pc' = [p \in Procs |-> "idle"] /\ req' = [p \in Procs |-> NoReq]
  /\ reg' = [p \in Procs |-> Fresh]
  /\ UNCHANGED <<serial, files, adds, creates, acks, first>>

-----------------------------------------------------------------------------
Init ==
  /\ serial \in Modes
  /\ meta = [st |-> "absent", root |-> NoCid, count |-> 0]
  /\ event = [c \in Cids |-> [st |-> "absent", parent |-> NoCid]]
  /\ pc = [p \in Procs |-> "idle"] /\ req = [p \in Procs |-> NoReq]
  /\ reg = [p \in Procs |-> Fresh]
  /\ adds = 0 /\ creates = 0 /\ crashes = 0 /\ acks = 0 /\ first = NoCid

Step(p) ==
  \/ AddMeta(p) \/ AddFails(p) \/ AddBlob(p) \/ EventOpen(p) \/ EventWrite(p)
  \/ MetaOpen(p) \/ MetaWrite(p)

Next ==
  \/ \E p \in Procs :
       \/ Create(p) \/ \E c \in Cids, par \in MaybeCid : Add(p, c, par)
       \/ Step(p) \/ WriteFails(p)
  \/ Crash

Spec == Init /\ [][Next]_vars

-----------------------------------------------------------------------------
(* resolveForks.                                                             *)

\* loadAllEvents throws for a file that is no JSON.
Readable == \A c \in Cids : event[c].st \in {"absent", "ok"}
Listed == {c \in Cids : event[c].st = "ok"}
Children(c) == {d \in Listed : event[d].parent = c}
Roots == {c \in Listed : event[c].parent = NoCid \/ c = meta.root}

\* buildChains from root r: the place of the chain after n steps, NoCid when it
\* has ended.  Of several children the first that readdir listed is taken.
Place(r, before) ==
  LET at[n \in 0..Cardinality(Cids)] ==
        IF n = 0 THEN r
        ELSE LET next == Children(at[n - 1])
             IN IF at[n - 1] = NoCid \/ next = {} THEN NoCid
                ELSE CHOOSE c \in next : \A d \in next : before[c] <= before[d]
  IN at
Length(r, before) ==
  Cardinality({n \in 0..Cardinality(Cids) : Place(r, before)[n] # NoCid})

\* Mutant: the sort is in ascending order of length.
SortsFirstAscending(a, b, before) ==
  \/ Length(a, before) < Length(b, before)
  \/ Length(a, before) = Length(b, before)
     /\ (Stamp[a] < Stamp[b] \/ (Stamp[a] = Stamp[b] /\ Rank[a] < Rank[b]))

\* The comparison of the sort: the chain from a goes before the chain from b.
SortsFirst(a, b, before) ==
  \/ Length(a, before) > Length(b, before)
  \/ Length(a, before) = Length(b, before)
     /\ (Stamp[a] < Stamp[b] \/ (Stamp[a] = Stamp[b] /\ Rank[a] < Rank[b]))

Winner(before) ==
  CHOOSE r \in Roots : \A q \in Roots \ {r} : SortsFirst(r, q, before)

-----------------------------------------------------------------------------
(* Properties.                                                               *)

\* A readable feed with a root has the root's entry file, also when requests
\* overlap and the node crashes: validateFeed never finds "Root entry not found".
RootHasEvent ==
  meta.st = "ok" /\ meta.root # NoCid => event[meta.root].st # "absent"

\* With requests one at a time, entryCount is the number of acknowledged entries,
\* whatever crashed or failed between the two files.
CountHonest == serial /\ meta.st = "ok" => meta.count = acks

\* With requests one at a time, the root stays what it first was until the feed
\* is created again.
RootStable ==
  serial /\ meta.st = "ok" /\ first # NoCid => meta.root = first

\* Paths of the tree of entries, longest first in the rule of resolveForks.
Paths == {s \in UNION {[1..n -> Listed] : n \in 1..(Cardinality(Cids) + 1)} :
            \A i \in 2..Len(s) : event[s[i]].parent = s[i - 1]}
Acyclic == \A s \in Paths : Len(s) <= Cardinality(Cids)
PathLengths(r) == {Len(s) : s \in {t \in Paths : t[1] = r}}

\* The rule of feed.service.ts:268: longest chain, then earliest root, then
\* lowest cid.
RuleWinner ==
  LET longest == {r \in Roots : \E m \in PathLengths(r) :
                    \A q \in Roots : \A n \in PathLengths(q) : n <= m}
      earliest == {r \in longest : \A q \in longest : Stamp[r] <= Stamp[q]}
  IN CHOOSE r \in earliest : \A q \in earliest : Rank[r] <= Rank[q]

Listings == {f \in [Cids -> 1..Cardinality(Cids)] :
             \A c, d \in Cids : c # d => f[c] # f[d]}
AtRest == \A p \in Procs : pc[p] = "idle"
Resolvable == meta.st = "ok" /\ meta.root # NoCid /\ Roots # {} /\ Readable

\* When no entry has two children, resolveForks lets the chain win that the rule
\* names, whatever order the files are listed in.
ForkRule ==
  AtRest /\ Resolvable /\ Acyclic /\ (\A c \in Cids : Cardinality(Children(c)) <= 1) =>
    \A before \in Listings : Winner(before) = RuleWinner

\* feed.service.ts:268 "Longest valid chain wins".
LongestWins ==
  AtRest /\ Resolvable /\ Acyclic =>
    \A before \in Listings :
      \A r \in Roots : \A n \in PathLengths(r) :
        Length(Winner(before), before) >= n

=============================================================================
