----------------------------- MODULE IndexService -----------------------------
(***************************************************************************)
(* services/index.service.ts: the lists of indexed blobs by type, thread and *)
(* guild and the queries that page through them.  A reader walks through one *)
(* list page by page while blobs are indexed and removed.                    *)
(***************************************************************************)
EXTENDS Naturals, FiniteSets, Sequences, SequencesExt, Lists

CONSTANTS
  IndexCids,
  Metas,        \* the metadata blobs may have: [type, thread, guild, parent, time]
  NoGuild,
  Limit,        \* of a page
  NoCursor, NoWalk,
  MaxChanges    \* bound on the calls of indexBlob and removeFromIndex

ASSUME IndexAssumption ==
  /\ Limit \in Nat \ {0} /\ MaxChanges \in Nat
  /\ NoCursor \notin IndexCids /\ \A m \in Metas : m.time \in Nat

VARIABLES
  lists,    \* globalIndex, byType, byThread and byGuild: the entries under each key
  byCid,    \* the entries by their cid
  walk,     \* a reader: the query, its next cursor, what it was given
  changes,
  walkers   \* history: of the blobs in the walk's list those there since its start;
            \* and whether the entry under the cursor was removed

indexVars == <<lists, byCid, walk, changes, walkers>>

Everything == <<"all", "all">>
Keys(m) == {Everything, <<"type", m.type>>, <<"thread", m.thread>>}
             \cup (IF m.guild = NoGuild THEN {} ELSE {<<"guild", m.guild>>})
AllKeys == UNION {Keys(m) : m \in Metas}

IndexInit ==
  /\ lists = [k \in AllKeys |-> <<>>] /\ byCid = <<>> /\ changes = 0
  /\ walk = NoWalk /\ walkers = [there |-> {}, lost |-> FALSE]

\* A query names a list and, for posts and comments of a guild, a filter; comments
\* come oldest first.
Kept(q, e) ==
  CASE q.only = "any" -> TRUE
    [] q.only = "posts" -> e.meta.type = "post"
    [] q.only = "comments" -> e.meta.type = "comment" /\ e.meta.parent = q.parent
Queries ==
  {[key |-> k, only |-> "any", parent |-> NoCursor] : k \in AllKeys}
    \cup {[key |-> <<"guild", m.guild>>, only |-> "posts", parent |-> NoCursor] :
            m \in {m \in Metas : m.guild # NoGuild}}
    \cup {[key |-> <<"guild", m.guild>>, only |-> "comments", parent |-> m.parent] :
            m \in {m \in Metas : m.guild # NoGuild /\ m.type = "comment"}}
Chosen(q) ==
  LET list == lists[q.key] IN Filtered(list, {i \in DOMAIN list : Kept(q, list[i])})

\* Array.prototype.sort keeps the order of equal ones.
Before(q, list, i, j) ==
  LET a == list[i].meta.time
      b == list[j].meta.time
  IN IF a = b THEN i < j ELSE IF q.only = "comments" THEN a < b ELSE a > b
Ordered(q) ==
  LET list == Chosen(q)
  IN Arranged(list, [i \in DOMAIN list |-> {j \in DOMAIN list : Before(q, list, j, i)}])

FromCursorItself(list, cursor) ==
  LET at == {i \in DOMAIN list : list[i].cid = cursor}
  IN IF at = {} THEN list ELSE SubSeq(list, CHOOSE i \in at : TRUE, Len(list))
\* A cursor that is not in the list is ignored: the walk starts again.
AfterCursor(list, cursor) ==
  LET at == {i \in DOMAIN list : list[i].cid = cursor}
  IN IF at = {} THEN list ELSE SubSeq(list, (CHOOSE i \in at : TRUE) + 1, Len(list))

CidsOf(list) == {list[i].cid : i \in DOMAIN list}

\* One query; without a cursor in its answer the reader is done.
StartWalk(q) ==
  /\ walk = NoWalk
  /\ walk' = [query |-> q, cursor |-> NoCursor, given |-> <<>>, done |-> FALSE]
  /\ walkers' = [there |-> CidsOf(Chosen(q)), lost |-> FALSE]
  /\ UNCHANGED <<lists, byCid, changes>>

NextPage ==
  /\ walk # NoWalk /\ ~walk.done
  /\ LET rest == AfterCursor(Ordered(walk.query), walk.cursor)
         more == Len(rest) > Limit
         page == IF more THEN SubSeq(rest, 1, Limit) ELSE rest
     IN walk' = [walk EXCEPT !.given = @ \o [i \in DOMAIN page |-> page[i].cid], !.done = ~more,
                             !.cursor = IF more THEN Last(page).cid ELSE NoCursor]
  /\ UNCHANGED <<lists, byCid, changes, walkers>>

EndWalk ==
  /\ walk # NoWalk /\ walk.done /\ walk' = NoWalk
  /\ walkers' = [there |-> {}, lost |-> FALSE]
  /\ UNCHANGED <<lists, byCid, changes>>

Change == changes < MaxChanges /\ changes' = changes + 1

\* indexBlob: nothing for a cid that is indexed.
IndexBlob(c, m) ==
  /\ c \notin DOMAIN byCid /\ Change
  /\ LET e == [cid |-> c, meta |-> m]
     IN /\ lists' = [k \in AllKeys |-> IF k \in Keys(m) THEN Append(lists[k], e) ELSE lists[k]]
        /\ byCid' = [d \in DOMAIN byCid \cup {c} |-> IF d = c THEN e ELSE byCid[d]]
  /\ UNCHANGED <<walk, walkers>>

\* findIndex and splice.
Without(list, c) ==
  LET at == {i \in DOMAIN list : list[i].cid = c}
  IN IF at = {} THEN list
     ELSE RemoveAt(list, CHOOSE i \in at : \A j \in at : i <= j)

WithoutGuild(e) == Keys(e.meta) \ {<<"guild", e.meta.guild>>}
KeysOf(e) == Keys(e.meta)
RemoveFromIndex(c) ==
  /\ c \in DOMAIN byCid /\ Change
  /\ lists' = [k \in AllKeys |->
       IF k \in KeysOf(byCid[c]) THEN Without(lists[k], c) ELSE lists[k]]
  /\ byCid' = [d \in DOMAIN byCid \ {c} |-> byCid[d]]
  /\ walkers' = [there |-> walkers.there \ {c},
                 lost |-> walkers.lost \/ (walk # NoWalk /\ walk.cursor = c)]
  /\ UNCHANGED walk

IndexNext ==
  \/ \E q \in Queries : StartWalk(q)
  \/ NextPage \/ EndWalk
  \/ \E c \in IndexCids : RemoveFromIndex(c) \/ \E m \in Metas : IndexBlob(c, m)

IndexSpec == IndexInit /\ [][IndexNext]_indexVars

-----------------------------------------------------------------------------
\* The lists never disagree with the lookup by cid: each has exactly the entries of
\* its key, once, whatever is indexed, removed and indexed again in between.
IndexesAgree ==
  \A k \in AllKeys :
    /\ ToSet(lists[k]) = {byCid[c] : c \in {c \in DOMAIN byCid : k \in Keys(byCid[c].meta)}}
    /\ Len(lists[k]) = Cardinality(ToSet(lists[k]))

\* A walk gives every blob that was in its list from the first page to the last
\* exactly once, however blobs are indexed and removed between the pages, unless
\* the very blob that the cursor names is removed.
WalkComplete ==
  walk # NoWalk /\ walk.done /\ ~walkers.lost =>
    \A c \in walkers.there :
      Cardinality({i \in DOMAIN walk.given : walk.given[i] = c}) = 1

===============================================================================
