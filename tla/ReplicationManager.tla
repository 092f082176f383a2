-------------------------- MODULE ReplicationManager --------------------------
(***************************************************************************)
(* services/replication-manager.service.ts with the integrity hash of        *)
(* utils/cid.ts and the reputation events its results make: who is known to  *)
(* hold a cid, in memory and in replication-state.json.                      *)
(*                                                                         *)
(* A round is one call of startReplication, an action what runs between two  *)
(* awaits.  trackReplication comes from ReplicationService when a push of    *)
(* its own has settled; it names the peers by their URLs, a round names its  *)
(* nodes by their ids, and both kinds of names go into confirmedNodes.  src/ *)
(* has no caller of startReplication; rounds are what the class allows.      *)
(***************************************************************************)
EXTENDS Reputation, NodeSelection

CONSTANTS
  NoState, NoHash,
  Registered,  \* the nodes, each of them its id: startReplication is called with them
  Urls, NodeAt,  \* the URLs of nodes, by which trackReplication is told of them
  Factor,      \* config.replicationFactor
  Rounds,      \* calls of startReplication at a time
  Saves,       \* writes of the state file at a time
  NoRound,
  LowSets,     \* what a round may find of the scores: the nodes with a low one
  MaxCalls,    \* bound on calls of startReplication and trackReplication
  MaxTroubles  \* bound on crashes and failing writes

\* confirmedNodes is an array: its members and its length.
Names == Replicas \cup Urls
Hashes == [confirmed : SUBSET Names, length : Nat, complete : BOOLEAN]
States == [confirmed : SUBSET Names, length : Nat, failed : SUBSET Replicas,
           complete : BOOLEAN, hash : Hashes \cup {NoHash}]
Texts == [Contents -> States \cup {NoState}]

ASSUME ManagerAssumption ==
  NoRound \notin Rounds /\ Factor \in Nat /\ IsFiniteSet(Replicas)
  /\ Registered \subseteq Replicas
  /\ NoState \notin States /\ \A f \in {Absent, Empty, Garbled} : f \notin Texts

\* A node has one URL, and no id is a URL.
ASSUME NamesAssumption ==
  /\ IsFiniteSet(Urls) /\ Urls \cap Replicas = {} /\ NodeAt \in [Urls -> Registered]
  /\ \A u, v \in Urls : NodeAt[u] = NodeAt[v] => u = v

VARIABLES
  node,        \* down, up, or failed: initialize threw and the process exited
  states,      \* this.states
  stateFile,   \* replication-state.json
  saves,       \* writes of that file under way
  rounds,      \* calls of startReplication under way
  accepted,    \* history: nodes that took a cid
  calls, troubles,
  stateRaced   \* history: two of the writes were under way at once, or one was
               \* hit by a crash or an error

managerVars ==
  <<node, states, stateFile, saves, rounds, accepted, calls, troubles, stateRaced,
    reputationVars>>

NoText == [c \in Contents |-> NoState]
FreeSave == [step |-> "free", text |-> NoText, by |-> NoRound]
IdleRound(c) == [step |-> "idle", cid |-> c, wait |-> {}, ok |-> {}, bad |-> {}]

\* generateReplicationStateHash: of the sorted nodes, the factor and complete.
StateHash(s) == [confirmed |-> s.confirmed, length |-> s.length, complete |-> s.complete]
\* verifyReplicationStateIntegrity
Intact(s) == s.hash \in {NoHash, StateHash(s)}

ManagerInit ==
  /\ node = "down" /\ states = NoText /\ stateFile = Absent
  /\ saves = [i \in Saves |-> FreeSave]
  /\ rounds \in [Rounds -> {IdleRound(c) : c \in Contents}]
  /\ accepted = [c \in Contents |-> {}] /\ calls = 0 /\ troubles = 0 /\ stateRaced = FALSE
  /\ ReputationInit

\* saveStates: the text is taken when it is called.
Save(i, text, by) ==
  /\ saves[i].step = "free"
  /\ saves' = [saves EXCEPT ![i] = [step |-> "waiting", text |-> text, by |-> by]]
  /\ stateRaced' = (stateRaced \/ \E j \in Saves : saves[j].step # "free")

Complete(c) == states[c] # NoState /\ states[c].complete

\* startReplication up to its first await. Nodes that failed before are not asked.
StartReplication(r, c, low, i) ==
  /\ node = "up" /\ rounds[r].step = "idle" /\ calls < MaxCalls /\ calls' = calls + 1
  /\ ~Complete(c)
  /\ LET failed == IF states[c] = NoState THEN {} ELSE states[c].failed
         s == [confirmed |-> {}, length |-> 0, failed |-> failed,
               complete |-> FALSE, hash |-> NoHash]
     IN /\ rounds' = [rounds EXCEPT ![r] =
             [step |-> "saving", cid |-> c, ok |-> {}, bad |-> {},
              wait |-> Select(c, Registered, low, Factor, failed)]]
        /\ states' = [states EXCEPT ![c] = s]
  /\ Save(i, states', r)
  /\ UNCHANGED <<node, stateFile, accepted, troubles, reputationVars>>

\* replicateToNode: the answer of the peer, or an error. A timeout is an error
\* whether or not the peer takes the blob.
Reply(r, n) ==
  /\ rounds[r].step = "sending" /\ n \in rounds[r].wait
  /\ \E took, told \in BOOLEAN :
       /\ told => took
       /\ LET p == [rounds[r] EXCEPT !.wait = @ \ {n}]
          IN rounds' = [rounds EXCEPT ![r] =
               IF told THEN [p EXCEPT !.ok = @ \cup {n}] ELSE [p EXCEPT !.bad = @ \cup {n}]]
       /\ accepted' = IF took THEN [accepted EXCEPT ![rounds[r].cid] = @ \cup {n}] ELSE accepted
  /\ UNCHANGED <<node, states, stateFile, saves, calls, troubles, stateRaced, reputationVars>>

ConfirmTwice(s, ok, bad) ==
  LET length == s.length + Cardinality(ok)
  IN [s EXCEPT !.confirmed = @ \cup ok, !.length = length, !.failed = @ \cup bad,
               !.complete = length >= Factor]

\* What the results of a round make of the state the cid has by then.
Confirm(s, ok, bad) ==
  LET length == s.length + Cardinality(ok \ s.confirmed)
  IN [s EXCEPT !.confirmed = @ \cup ok, !.length = length, !.failed = @ \cup bad,
               !.complete = length >= Factor]

\* replicateToNodes once every node has answered; each result is an event.
SettleSaving(r, i, text) ==
  /\ rounds[r].step = "sending" /\ rounds[r].wait = {}
  /\ LET p == rounds[r]
     IN /\ states' = [states EXCEPT ![p.cid] = Confirm(@, p.ok, p.bad)]
        /\ rounds' = [rounds EXCEPT ![r] = IdleRound(p.cid)]
        /\ Record(Cardinality(p.ok) + Cardinality(p.bad))
  /\ Save(i, text, NoRound)
  /\ UNCHANGED <<node, stateFile, accepted, calls, troubles>>
SettleSavesFirst(r, i) == SettleSaving(r, i, states)
Settle(r, i) == SettleSaving(r, i, states')

\* The nodes that a state counts, under either name.
HoldersOf(s) == (s.confirmed \cap Replicas) \cup {NodeAt[u] : u \in s.confirmed \cap Urls}

\* trackReplication: the URLs of a push that has settled; the save is not awaited.
TrackReplication(c, peers, i) ==
  /\ node = "up" /\ calls < MaxCalls /\ peers # {}
  /\ calls' = calls + 1
  /\ accepted' = [accepted EXCEPT ![c] = @ \cup {NodeAt[u] : u \in peers}]
  /\ LET n == Cardinality(peers)
         s == [confirmed |-> peers, length |-> n, failed |-> {}, complete |-> n >= Factor,
               hash |-> NoHash]
     IN states' = [states EXCEPT ![c] = [s EXCEPT !.hash = StateHash(s)]]
  /\ Save(i, states', NoRound)
  /\ UNCHANGED <<node, stateFile, rounds, troubles, reputationVars>>

\* The write is over and the call that awaits it goes on.
Finish(i) ==
  LET r == saves[i].by
  IN /\ saves' = [saves EXCEPT ![i] = FreeSave]
     /\ rounds' = IF r = NoRound THEN rounds ELSE [rounds EXCEPT ![r].step = "sending"]

SaveOpens(i) ==
  /\ saves[i].step = "waiting"
  /\ saves' = [saves EXCEPT ![i].step = "open"]
  /\ stateFile' = Empty
  /\ UNCHANGED <<node, states, rounds, accepted, calls, troubles, stateRaced, reputationVars>>

SaveLands(i) ==
  /\ saves[i].step = "open"
  /\ stateFile' \in Landings(stateFile, saves[i].text)
  /\ Finish(i)
  /\ UNCHANGED <<node, states, accepted, calls, troubles, stateRaced, reputationVars>>

\* writeFile throws before or after it has opened the file; saveStates logs it.
SaveFails(i) ==
  /\ saves[i].step # "free" /\ troubles < MaxTroubles
  /\ troubles' = troubles + 1 /\ stateRaced' = TRUE
  /\ Finish(i)
  /\ UNCHANGED <<node, states, stateFile, accepted, calls, reputationVars>>

EventsWrites ==
  /\ \E i \in DOMAIN eventWrites :
       \/ EventsOpen(i) /\ UNCHANGED troubles
       \/ EventsLand(i) /\ UNCHANGED troubles
       \/ EventsFail(i) /\ troubles < MaxTroubles /\ troubles' = troubles + 1
  /\ UNCHANGED <<node, states, stateFile, saves, rounds, accepted, calls, stateRaced>>

ManagerCrash ==
  /\ node = "up" /\ troubles < MaxTroubles
  /\ troubles' = troubles + 1 /\ node' = "down"
  /\ stateRaced' = (stateRaced \/ \E i \in Saves : saves[i].step # "free")
  /\ states' = NoText /\ saves' = [i \in Saves |-> FreeSave]
  /\ rounds' = [r \in Rounds |-> IdleRound(rounds[r].cid)]
  /\ ForgetEvents
  /\ UNCHANGED <<stateFile, accepted, calls>>

\* loadStates: what does not match its hash is left out.
LoadStates(file) ==
  IF file = Absent THEN NoText
  ELSE [c \in Contents |-> IF file[c] # NoState /\ Intact(file[c]) THEN file[c] ELSE NoState]

\* initialize of both services: only a missing file is taken for none.
ManagerStart ==
  /\ node = "down"
  /\ \/ /\ {stateFile, eventsFile} \cap Unreadable = {}
        /\ node' = "up" /\ states' = LoadStates(stateFile) /\ LoadEvents
     \/ /\ {stateFile, eventsFile} \cap Unreadable # {}
        /\ node' = "failed" /\ UNCHANGED <<states, reputationVars>>
  /\ UNCHANGED <<stateFile, saves, rounds, accepted, calls, troubles, stateRaced>>

ManagerNext ==
  \/ \E r \in Rounds, i \in Saves :
       (\E c \in Contents, low \in LowSets : StartReplication(r, c, low, i))
         \/ Settle(r, i)
  \/ \E r \in Rounds, n \in Registered : Reply(r, n)
  \/ \E c \in Contents, peers \in SUBSET Urls, i \in Saves : TrackReplication(c, peers, i)
  \/ \E i \in Saves : SaveOpens(i) \/ SaveLands(i) \/ SaveFails(i)
  \/ EventsWrites \/ ManagerCrash \/ ManagerStart

ManagerSpec == ManagerInit /\ [][ManagerNext]_managerVars

-----------------------------------------------------------------------------
NamedTwice(s) == \E u \in s.confirmed \cap Urls : NodeAt[u] \in s.confirmed
Honest(text) ==
  \A c \in Contents : text[c] # NoState /\ text[c].complete =>
    /\ HoldersOf(text[c]) \subseteq accepted[c]
    /\ \/ Cardinality(HoldersOf(text[c])) >= Factor
       \/ NamedTwice(text[c]) /\ 2 * Cardinality(HoldersOf(text[c])) >= Factor

\* A cid is called complete, in memory, in the file and in every text on its way
\* there, only when replicationFactor different nodes have taken it: also when two
\* rounds of one cid overlap and the second has replaced the state the first one
\* fills, and after any restart.  Where a round ends in the state of a push, a node
\* may count under its URL and its id, and half as many nodes are enough.
CompleteIsReplicated ==
  /\ Honest(states)
  /\ \A i \in Saves : Honest(saves[i].text)
  /\ stateFile \in {Absent, Empty, Garbled} \/ Honest(stateFile)

\* With no write under way and none that failed or overlapped another, a restart
\* finds every state that is now in memory, but for those whose integrity hash a
\* later round has made stale.
SettledIsSaved ==
  node = "up" /\ ~stateRaced /\ (\A i \in Saves : saves[i].step = "free")
    => LoadStates(stateFile) = LoadStates(states)

===============================================================================
