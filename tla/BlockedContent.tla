---------------------------- MODULE BlockedContent ----------------------------
(***************************************************************************)
(* services/blocked-content.service.ts: the operator's list of blocked cids  *)
(* and peers, a file that is read again when a check finds the copy older    *)
(* than RELOAD_INTERVAL.  Checks of one node overlap.  The add and remove    *)
(* functions have no callers; the operator edits the file.                   *)
(***************************************************************************)
EXTENDS Naturals, JsonFile

CONSTANTS
  Blockable,       \* cids and peers
  ReloadInterval,  \* RELOAD_INTERVAL
  MaxLoad,         \* assumed: how long the file calls of one load take at most
  Checks,          \* checks at a time; the load of initialize is one of them
  NoAnswer, NoCopy,
  MaxNow, MaxEdits \* bounds on the clock and the edits

ASSUME BlockedAssumption ==
  /\ ReloadInterval \in Nat /\ MaxLoad \in Nat \ {0} /\ MaxNow \in Nat /\ MaxEdits \in Nat

VARIABLES
  now,
  listFile,  \* blocked-content.json
  copy,      \* this.blockedContent
  lastLoad,
  loads,     \* the load of each check: its step and what it has read
  answer,    \* history: what the last step answered, see AnswerNow
  edits, editedAt,
  fellOpen   \* history: a load has failed since the last good one

blockedVars == <<now, listFile, copy, lastLoad, loads, answer, edits, editedAt, fellOpen>>

Idle == [step |-> "idle", since |-> 0, text |-> NoCopy]

BlockedInit ==
  /\ now = 0 /\ listFile = Absent /\ copy = NoCopy /\ lastLoad = 0
  /\ loads = [p \in Checks |-> Idle] /\ answer = NoAnswer
  /\ edits = 0 /\ editedAt = 0 /\ fellOpen = FALSE

\* How long ago the file was changed, and what a check answers from against what
\* the file says; unknown while a load has failed since the last good one.
AnswerNow ==
  answer' = [from |-> copy, file |-> listFile, age |-> now - editedAt,
             known |-> copy # NoCopy /\ ~fellOpen]

Silent == answer' = NoAnswer

StaleAfterTwo == now - lastLoad > 2 * ReloadInterval
Stale == now - lastLoad > ReloadInterval

\* isBlocked and isPeerBlocked. initialize loads before there are checks.
Check(p) ==
  /\ loads[p].step = "idle" /\ (copy = NoCopy => \A o \in Checks : loads[o] = Idle)
  /\ IF copy # NoCopy /\ ~Stale THEN AnswerNow /\ UNCHANGED loads
     ELSE /\ loads' = [loads EXCEPT ![p] = [step |-> "access", since |-> now, text |-> NoCopy]]
          /\ Silent
  /\ UNCHANGED <<now, listFile, copy, lastLoad, edits, editedAt, fellOpen>>

At(p, step) == loads[p].step = step
Goes(p, step) == loads' = [loads EXCEPT ![p].step = step]

\* load: access, then createDefault when there is no file.
Access(p) ==
  /\ At(p, "access") /\ Goes(p, IF listFile = Absent THEN "create" ELSE "read")
  /\ Silent /\ UNCHANGED <<now, listFile, copy, lastLoad, edits, editedAt, fellOpen>>

\* The default list is written over what the operator has put there meanwhile.
CreateOpens(p) ==
  /\ At(p, "create") /\ Goes(p, "created") /\ listFile' = Empty /\ editedAt' = now
  /\ Silent /\ UNCHANGED <<now, copy, lastLoad, edits, fellOpen>>
CreateLands(p) ==
  /\ At(p, "created") /\ Goes(p, "read")
  /\ listFile' \in Landings(listFile, {}) /\ editedAt' = now
  /\ Silent /\ UNCHANGED <<now, copy, lastLoad, edits, fellOpen>>

Read(p) ==
  /\ At(p, "read") /\ listFile # Absent
  /\ loads' = [loads EXCEPT ![p].step = "parse", ![p].text = listFile]
  /\ Silent /\ UNCHANGED <<now, listFile, copy, lastLoad, edits, editedAt, fellOpen>>

\* The file call fails (also readFile, when the operator has deleted the file).
LoadFails(p) ==
  /\ loads[p].step \in {"create", "created", "read"} /\ edits < MaxEdits
  /\ edits' = edits + 1
  /\ loads' = [loads EXCEPT ![p] = [@ EXCEPT !.step = "parse", !.text = Garbled]]
  /\ Silent /\ UNCHANGED <<now, listFile, copy, lastLoad, editedAt, fellOpen>>

\* What was read becomes the copy; without a text that can be parsed the copy is the
\* empty default and lastLoad stays.
Parse(p) ==
  /\ At(p, "parse") /\ Goes(p, "answer")
  /\ IF loads[p].text \in Unreadable
     THEN copy' = {} /\ fellOpen' = TRUE /\ UNCHANGED lastLoad
     ELSE copy' = loads[p].text /\ fellOpen' = FALSE /\ lastLoad' = now
  /\ Silent /\ UNCHANGED <<now, listFile, edits, editedAt>>

\* The check goes on after its load, with the copy there is by then.
Answered(p) ==
  /\ At(p, "answer") /\ loads' = [loads EXCEPT ![p] = Idle] /\ AnswerNow
  /\ UNCHANGED <<now, listFile, copy, lastLoad, edits, editedAt, fellOpen>>

\* An editor opens the file and writes it, or puts a whole one in its place.
Edit(text) ==
  /\ edits < MaxEdits /\ edits' = edits + 1
  /\ listFile' = text /\ editedAt' = now
  /\ Silent /\ UNCHANGED <<now, copy, lastLoad, loads, fellOpen>>

\* Time passes, but no load takes longer than MaxLoad.
Tick ==
  /\ now < MaxNow /\ now' = now + 1
  /\ \A p \in Checks : loads[p].step = "idle" \/ now' - loads[p].since <= MaxLoad
  /\ Silent /\ UNCHANGED <<listFile, copy, lastLoad, loads, edits, editedAt, fellOpen>>

BlockedNext ==
  \/ \E p \in Checks :
       \/ Check(p) \/ Access(p) \/ CreateOpens(p) \/ CreateLands(p) \/ Read(p)
       \/ LoadFails(p) \/ Parse(p) \/ Answered(p)
  \/ \E text \in {Absent, Empty} \cup SUBSET Blockable : Edit(text)
  \/ Tick

BlockedSpec == BlockedInit /\ [][BlockedNext]_blockedVars

-----------------------------------------------------------------------------
\* An edit of the list is honoured by every check that is answered once the interval
\* and the time of one load have passed (the time of two, where a load may take longer
\* than the interval), whichever of the overlapping loads came last with whichever
\* text, unless a load has failed since the last good one.
EditHonoured ==
  answer # NoAnswer /\ answer.known
    /\ answer.age > ReloadInterval + MaxLoad /\ answer.age > 2 * MaxLoad
    => answer.from = answer.file

===============================================================================
