----------------------- MODULE ReplicationManagerProofs -----------------------
(***************************************************************************)
(* For any nodes and cids and any number of overlapping rounds and writes of *)
(* the two files, crashes and errors: a complete cid is a replicated one,    *)
(* the states are on disk once every save has ended well, and so are all the *)
(* events but for the last SaveEvery - 1.  And for any order of the nodes and *)
(* any shards: holders replaced one by one agree with what a selection gives. *)
(***************************************************************************)
EXTENDS ReplicationManager, Placement, ListProofs, Integers

RoundStates == [step : {"idle", "saving", "sending"}, cid : Contents, wait : SUBSET Registered,
                ok : SUBSET Registered, bad : SUBSET Registered]
SaveStates == [step : {"free", "waiting", "open"}, text : Texts, by : Rounds \cup {NoRound}]

\* A state counts its names and the node of each has taken the cid, complete or not.
Counted(s, took) ==
  /\ HoldersOf(s) \subseteq took
  /\ s.length = Cardinality(s.confirmed)
  /\ s.complete => s.length >= Factor
SoundFor(text, took) ==
  text \in Texts /\ \A c \in Contents : text[c] # NoState => Counted(text[c], took[c])
Sound(text) == SoundFor(text, accepted)

ShapeInv ==
  /\ accepted \in [Contents -> SUBSET Registered]
  /\ saves \in [Saves -> SaveStates] /\ rounds \in [Rounds -> RoundStates]
TextsInv ==
  /\ Sound(states)
  /\ \A i \in Saves : Sound(saves[i].text)
  /\ stateFile \in {Absent, Empty, Garbled} \/ Sound(stateFile)
\* A round has its state until a restart, what it counts has been taken, and its one
\* save is what it waits for.
RoundsInv ==
  /\ \A r \in Rounds :
       /\ rounds[r].ok \subseteq accepted[rounds[r].cid]
       /\ rounds[r].step # "idle" => node = "up" /\ states[rounds[r].cid] # NoState
  /\ \A i \in Saves : saves[i].step # "free" /\ saves[i].by # NoRound =>
       /\ rounds[saves[i].by].step = "saving"
       /\ \A j \in Saves : saves[j].step # "free" /\ saves[j].by = saves[i].by => j = i
ManagerInv == ShapeInv /\ TextsInv /\ RoundsInv

-----------------------------------------------------------------------------
(* States.                                                                   *)

LEMMA Few ==
  ASSUME NEW S, S \subseteq Registered
  PROVE  IsFiniteSet(S) /\ Cardinality(S) \in Nat
<1>1. IsFiniteSet(S)
  BY FS_Subset, ManagerAssumption
<1> QED
  BY <1>1, FS_CardinalityType

\* Finite sets of names.
LEMMA FewNames ==
  ASSUME NEW S, S \subseteq Registered \cup Urls
  PROVE  IsFiniteSet(S) /\ Cardinality(S) \in Nat
<1>1. IsFiniteSet(Registered) /\ IsFiniteSet(Urls)
  BY Few, NamesAssumption
<1>2. IsFiniteSet(Registered \cup Urls)
  BY <1>1, FS_Union
<1>3. IsFiniteSet(S)
  BY <1>2, FS_Subset
<1> QED
  BY <1>3, FS_CardinalityType

\* Where each node took the cid the ids are of nodes.
LEMMA NamesKnown ==
  ASSUME NEW took \in SUBSET Registered, NEW s, s.confirmed \subseteq Names,
         HoldersOf(s) \subseteq took
  PROVE  s.confirmed \subseteq Registered \cup Urls
  BY DEF HoldersOf, Names

\* As many nodes as names, or half as many when one has both its names there.
LEMMA NamesAndNodes ==
  ASSUME NEW s, s.confirmed \subseteq Registered \cup Urls
  PROVE  LET held == Cardinality(HoldersOf(s))
         IN  /\ held \in Nat /\ Cardinality(s.confirmed) \in Nat
             /\ Cardinality(s.confirmed) <= 2 * held
             /\ NamedTwice(s) \/ Cardinality(s.confirmed) <= held
<1> DEFINE ids == s.confirmed \cap Replicas
           urls == s.confirmed \cap Urls
           at == {NodeAt[u] : u \in urls}
           H == HoldersOf(s)
<1>1. H = ids \cup at /\ s.confirmed = ids \cup urls /\ ids \cap urls = {}
  <2>1. Registered \subseteq Replicas
    BY ManagerAssumption
  <2>2. Urls \cap Replicas = {}
    BY NamesAssumption
  <2> QED
    BY <2>1, <2>2 DEF HoldersOf
<1>2. ids \subseteq Registered /\ at \subseteq Registered /\ urls \subseteq Urls
  BY ManagerAssumption, NamesAssumption
<1>3. /\ IsFiniteSet(ids) /\ Cardinality(ids) \in Nat
      /\ IsFiniteSet(urls) /\ Cardinality(urls) \in Nat
      /\ IsFiniteSet(at) /\ Cardinality(at) \in Nat
      /\ IsFiniteSet(H) /\ Cardinality(H) \in Nat
  BY <1>1, <1>2, Few, FewNames
<1>4. Cardinality(urls) <= Cardinality(at)
  <2> DEFINE f == [u \in urls |-> NodeAt[u]]
  <2>1. f \in [urls -> at] /\ \A u, v \in urls : f[u] = f[v] => u = v
    BY NamesAssumption
  <2>2. f \in Injection(urls, at)
    BY <2>1, Fun_IsInj
  <2> HIDE DEF f, urls, at
  <2> QED
    BY <2>2, <1>3, FS_Injection
<1>5. Cardinality(ids) <= Cardinality(H) /\ Cardinality(at) <= Cardinality(H)
  BY <1>1, <1>3, FS_Subset
<1>6. Cardinality(s.confirmed) = Cardinality(ids) + Cardinality(urls)
  <2>1. Cardinality(ids \cap urls) = 0
    BY <1>1, FS_EmptySet
  <2>2. Cardinality(ids \cup urls)
          = Cardinality(ids) + Cardinality(urls) - Cardinality(ids \cap urls)
    BY <1>3, FS_Union
  <2> HIDE DEF ids, urls
  <2> QED
    BY <1>1, <1>3, <2>1, <2>2
<1>7. ASSUME ~NamedTwice(s)
      PROVE  Cardinality(H) = Cardinality(ids) + Cardinality(at)
  <2>1. ids \cap at = {}
    BY <1>7 DEF NamedTwice
  <2>2. Cardinality(ids \cap at) = 0
    BY <2>1, FS_EmptySet
  <2>3. Cardinality(ids \cup at)
          = Cardinality(ids) + Cardinality(at) - Cardinality(ids \cap at)
    BY <1>3, FS_Union
  <2> HIDE DEF ids, at, H
  <2> QED
    BY <1>1, <1>3, <2>2, <2>3
<1> HIDE DEF ids, urls, at, H
<1>8. Cardinality(s.confirmed) \in Nat /\ Cardinality(s.confirmed) <= 2 * Cardinality(H)
  BY <1>3, <1>4, <1>5, <1>6
<1>9. NamedTwice(s) \/ Cardinality(s.confirmed) <= Cardinality(H)
  BY <1>3, <1>4, <1>6, <1>7
<1> QED
  BY <1>3, <1>8, <1>9 DEF H

LEMMA EmptyFits ==
  ASSUME NEW failed \in SUBSET Replicas, NEW took
  PROVE  LET s == [confirmed |-> {}, length |-> 0, failed |-> failed,
                   complete |-> FALSE, hash |-> NoHash]
         IN s \in States /\ Counted(s, took)
<1> DEFINE s == [confirmed |-> {}, length |-> 0, failed |-> failed,
                 complete |-> FALSE, hash |-> NoHash]
<1>1. Cardinality({}) = 0
  BY FS_EmptySet
<1>2. HoldersOf(s) = {}
  BY DEF HoldersOf
<1> QED
  BY <1>1, <1>2 DEF States, Counted

\* The members of an array that pushes only what it does not include.
LEMMA ConfirmFits ==
  ASSUME NEW took \in SUBSET Registered, NEW s \in States, Counted(s, took),
         NEW ok \in SUBSET took, NEW bad \in SUBSET Registered
  PROVE  Confirm(s, ok, bad) \in States /\ Counted(Confirm(s, ok, bad), took)
<1> DEFINE new == ok \ s.confirmed
           length == s.length + Cardinality(new)
           t == Confirm(s, ok, bad)
<1>1. /\ s.confirmed \in SUBSET Names /\ s.length \in Nat /\ s.failed \in SUBSET Replicas
      /\ s.hash \in Hashes \cup {NoHash}
  BY DEF States
<1>2. HoldersOf(s) \subseteq took /\ s.length = Cardinality(s.confirmed)
  BY DEF Counted
<1>3. /\ IsFiniteSet(s.confirmed) /\ IsFiniteSet(new)
      /\ Cardinality(s.confirmed) \in Nat /\ Cardinality(new) \in Nat
  <2>1. s.confirmed \subseteq Registered \cup Urls /\ new \subseteq Registered
    BY <1>1, <1>2, NamesKnown
  <2> QED
    BY <2>1, Few, FewNames
<1>4. length = Cardinality(s.confirmed \cup ok) /\ length \in Nat
  <2>1. s.confirmed \cap new = {} /\ s.confirmed \cup new = s.confirmed \cup ok
    OBVIOUS
  <2>2. Cardinality(s.confirmed \cup new)
          = Cardinality(s.confirmed) + Cardinality(new) - Cardinality(s.confirmed \cap new)
    BY <1>3, FS_Union
  <2>3. Cardinality(s.confirmed \cap new) = 0
    BY <2>1, FS_EmptySet
  <2> QED
    BY <1>2, <1>3, <2>1, <2>2, <2>3
<1>5. t = [s EXCEPT !.confirmed = s.confirmed \cup ok, !.length = length,
                    !.failed = s.failed \cup bad, !.complete = length >= Factor]
  BY DEF Confirm
<1>6. s.confirmed \cup ok \in SUBSET Names /\ s.failed \cup bad \in SUBSET Replicas
  BY <1>1, ManagerAssumption DEF Names
<1>7. (length >= Factor) \in BOOLEAN
  OBVIOUS
<1> HIDE DEF length, t, new
<1>8. t \in States
  BY <1>4, <1>5, <1>6, <1>7 DEF States
<1>9. t.confirmed = s.confirmed \cup ok /\ t.length = length
  BY <1>5 DEF States
<1>10. t.complete = (length >= Factor)
  BY <1>5 DEF States
<1>11. t.complete => t.length >= Factor
  BY <1>9, <1>10
<1>12. Counted(t, took)
  <2>1. HoldersOf(t) \subseteq HoldersOf(s) \cup ok
    BY <1>9, ManagerAssumption, NamesAssumption DEF HoldersOf
  <2> QED
    BY <1>2, <1>4, <1>9, <1>11, <2>1 DEF Counted
<1> QED
  BY <1>8, <1>12 DEF t

LEMMA TrackedFits ==
  ASSUME NEW peers \in SUBSET Urls, NEW took, {NodeAt[u] : u \in peers} \subseteq took
  PROVE  LET n == Cardinality(peers)
             s == [confirmed |-> peers, length |-> n, failed |-> {}, complete |-> n >= Factor,
                   hash |-> NoHash]
             t == [s EXCEPT !.hash = StateHash(s)]
         IN t \in States /\ Counted(t, took)
<1> DEFINE n == Cardinality(peers)
           s == [confirmed |-> peers, length |-> n, failed |-> {}, complete |-> n >= Factor,
                 hash |-> NoHash]
           h == StateHash(s)
           t == [s EXCEPT !.hash = h]
<1>1. n \in Nat /\ peers \in SUBSET Names
  BY FewNames DEF Names
<1>2. h \in Hashes
  BY <1>1 DEF StateHash, Hashes
<1>3. t = [confirmed |-> peers, length |-> n, failed |-> {}, complete |-> n >= Factor,
           hash |-> h]
  OBVIOUS
<1> HIDE DEF h, t
<1>4. t \in States
  BY <1>1, <1>2, <1>3 DEF States
<1>5. Counted(t, took)
  <2>1. HoldersOf(t) = {NodeAt[u] : u \in peers}
    BY <1>3, NamesAssumption DEF HoldersOf
  <2> QED
    BY <1>3, <2>1 DEF Counted
<1> QED
  BY <1>4, <1>5 DEF t, h

-----------------------------------------------------------------------------
(* Steps.                                                                    *)

LEMMA InitInv == ManagerInit => ManagerInv
<1> SUFFICES ASSUME ManagerInit PROVE ManagerInv
  OBVIOUS
<1>1. Sound(NoText)
  BY DEF Sound, SoundFor, NoText, Texts
<1>2. /\ states = NoText /\ stateFile = Absent /\ saves = [i \in Saves |-> FreeSave]
      /\ rounds \in [Rounds -> {IdleRound(c) : c \in Contents}]
      /\ accepted = [c \in Contents |-> {}]
  BY DEF ManagerInit
<1>3. FreeSave \in SaveStates /\ FreeSave.text = NoText /\ FreeSave.step = "free"
  BY <1>1 DEF FreeSave, SaveStates, Sound, SoundFor
<1>4. \A r \in Rounds : \E c \in Contents : rounds[r] = IdleRound(c)
  BY <1>2
<1>5. \A c \in Contents : IdleRound(c) \in RoundStates /\ IdleRound(c).step = "idle"
                           /\ IdleRound(c).ok = {}
  BY DEF IdleRound, RoundStates
<1>6. rounds \in [Rounds -> RoundStates]
      /\ \A r \in Rounds : rounds[r].step = "idle" /\ rounds[r].ok = {}
  BY <1>2, <1>4, <1>5
<1>7. ShapeInv
  BY <1>2, <1>3, <1>6 DEF ShapeInv
<1>8. TextsInv
  BY <1>1, <1>2, <1>3 DEF TextsInv
<1>9. RoundsInv
  BY <1>2, <1>3, <1>6 DEF RoundsInv
<1> QED
  BY <1>7, <1>8, <1>9 DEF ManagerInv

\* A write that is taken on carries a sound text.
LEMMA SaveFits ==
  ASSUME ManagerInv, NEW i \in Saves, NEW text, Sound(text)', NEW by \in Rounds \cup {NoRound},
         Save(i, text, by), \A c \in Contents : accepted[c] \subseteq accepted'[c]
  PROVE  /\ saves' \in [Saves -> SaveStates] /\ \A j \in Saves : Sound(saves[j].text)'
         /\ saves[i].step = "free" /\ saves'[i].step = "waiting" /\ saves'[i].by = by
         /\ \A j \in Saves : j # i => saves'[j] = saves[j]
<1>1. /\ saves[i].step = "free"
      /\ saves' = [saves EXCEPT ![i] = [step |-> "waiting", text |-> text, by |-> by]]
  BY DEF Save
<1>2. saves \in [Saves -> SaveStates]
  BY DEF ManagerInv, ShapeInv
<1>3. text \in Texts
  BY DEF Sound, SoundFor
<1>4. [step |-> "waiting", text |-> text, by |-> by] \in SaveStates
  BY <1>3 DEF SaveStates
<1>5. /\ saves' \in [Saves -> SaveStates]
      /\ saves'[i] = [step |-> "waiting", text |-> text, by |-> by]
      /\ \A j \in Saves : j # i => saves'[j] = saves[j]
  BY <1>1, <1>2, <1>4
<1>6. ASSUME NEW j \in Saves PROVE Sound(saves[j].text)'
  <2>1. CASE j = i
    BY <1>5, <2>1
  <2>2. CASE j # i
    <3>1. Sound(saves[j].text)
      BY DEF ManagerInv, TextsInv
    <3>2. saves'[j].text = saves[j].text
      BY <1>5, <2>2
    <3> QED
      BY <3>1, <3>2 DEF Sound, SoundFor, Counted
  <2> QED
    BY <2>1, <2>2
<1> QED
  BY <1>1, <1>5, <1>6

\* What is in the file stays sound while the sets of holders grow.
LEMMA FileStays ==
  ASSUME ManagerInv, stateFile' = stateFile,
         \A c \in Contents : accepted[c] \subseteq accepted'[c]
  PROVE  (stateFile \in {Absent, Empty, Garbled} \/ Sound(stateFile))'
  BY DEF ManagerInv, TextsInv, Sound, SoundFor, Counted

\* A text that differs from a sound one in the state of one cid.
StatePut(text, c, s) == [text EXCEPT ![c] = s]
LEMMA OneChanged ==
  ASSUME NEW text, NEW before, SoundFor(text, before), NEW c \in Contents, NEW s \in States,
         NEW after, \A d \in Contents : before[d] \subseteq after[d], Counted(s, after[c])
  PROVE  /\ SoundFor(StatePut(text, c, s), after) /\ StatePut(text, c, s)[c] # NoState
         /\ \A d \in Contents : d # c => StatePut(text, c, s)[d] = text[d]
<1> DEFINE changed == StatePut(text, c, s)
<1>1. text \in [Contents -> States \cup {NoState}]
  BY DEF SoundFor, Texts
<1>2. changed \in [Contents -> States \cup {NoState}] /\ changed[c] = s
      /\ \A d \in Contents : d # c => changed[d] = text[d]
  BY <1>1 DEF StatePut
<1>3. ASSUME NEW d \in Contents, d # c, changed[d] # NoState PROVE Counted(changed[d], after[d])
  BY <1>2, <1>3 DEF SoundFor, Counted
<1>4. s # NoState
  BY ManagerAssumption
<1> QED
  BY <1>2, <1>3, <1>4 DEF Texts, SoundFor

LEMMA StartKeeps ==
  ASSUME ManagerInv, NEW r \in Rounds, NEW c \in Contents, NEW low, NEW i \in Saves,
         StartReplication(r, c, low, i)
  PROVE  ManagerInv'
<1> DEFINE failed == IF states[c] = NoState THEN {} ELSE states[c].failed
           s == [confirmed |-> {}, length |-> 0, failed |-> failed,
                 complete |-> FALSE, hash |-> NoHash]
           wait == Select(c, Registered, low, Factor, failed)
           new == [step |-> "saving", cid |-> c, ok |-> {}, bad |-> {}, wait |-> wait]
<1>1. /\ node = "up" /\ rounds[r].step = "idle"
      /\ rounds' = [rounds EXCEPT ![r] = new]
      /\ states' = [states EXCEPT ![c] = s] /\ Save(i, states', r)
      /\ UNCHANGED <<node, stateFile, accepted>>
  BY DEF StartReplication
<1>2. /\ accepted \in [Contents -> SUBSET Registered] /\ rounds \in [Rounds -> RoundStates]
      /\ Sound(states)
  BY DEF ManagerInv, ShapeInv, TextsInv
<1>3. failed \in SUBSET Replicas
  BY <1>2 DEF Sound, SoundFor, Texts, States
<1>4. s \in States /\ Counted(s, accepted'[c])
  BY <1>3, EmptyFits
<1>5. new \in RoundStates
  <2>1. wait \subseteq Registered
    BY DEF Select, First
  <2> QED
    BY <2>1 DEF RoundStates
<1> HIDE DEF failed, s, wait
<1>6. /\ SoundFor(states', accepted') /\ states'[c] # NoState
      /\ \A d \in Contents : d # c => states'[d] = states[d]
  <2>1. /\ \A d \in Contents : accepted[d] \subseteq accepted'[d]
        /\ states' = StatePut(states, c, s)
    BY <1>1 DEF StatePut
  <2>2. SoundFor(states, accepted)
    BY <1>2 DEF Sound
  <2>3. /\ SoundFor(StatePut(states, c, s), accepted') /\ StatePut(states, c, s)[c] # NoState
        /\ \A d \in Contents : d # c => StatePut(states, c, s)[d] = states[d]
    BY <1>4, <2>1, <2>2, OneChanged
  <2> QED
    BY <2>1, <2>3
<1>7. Sound(states)'
  BY <1>6 DEF Sound
<1>8. /\ saves' \in [Saves -> SaveStates] /\ \A j \in Saves : Sound(saves[j].text)'
      /\ saves[i].step = "free" /\ saves'[i].step = "waiting" /\ saves'[i].by = r
      /\ \A j \in Saves : j # i => saves'[j] = saves[j]
  BY <1>1, <1>7, SaveFits DEF Sound, SoundFor
<1>9. rounds' \in [Rounds -> RoundStates] /\ rounds'[r] = new
      /\ \A q \in Rounds : q # r => rounds'[q] = rounds[q]
  BY <1>1, <1>2, <1>5
<1>10. ShapeInv'
  BY <1>1, <1>2, <1>8, <1>9 DEF ShapeInv
<1>11. TextsInv'
  BY <1>1, <1>7, <1>8, FileStays DEF TextsInv
<1>12. RoundsInv'
  <2>1. ASSUME NEW q \in Rounds
        PROVE  /\ rounds'[q].ok \subseteq accepted'[rounds'[q].cid]
               /\ rounds'[q].step # "idle" => node' = "up" /\ states'[rounds'[q].cid] # NoState
    <3>1. CASE q = r
      BY <1>1, <1>6, <1>9, <3>1
    <3>2. CASE q # r
      <4>1. rounds'[q] = rounds[q] /\ rounds[q].cid \in Contents
        BY <1>2, <1>9, <3>2 DEF RoundStates
      <4>2. /\ rounds[q].ok \subseteq accepted[rounds[q].cid]
            /\ rounds[q].step # "idle" => node = "up" /\ states[rounds[q].cid] # NoState
        BY DEF ManagerInv, RoundsInv
      <4> QED
        BY <1>1, <1>6, <4>1, <4>2
    <3> QED
      BY <3>1, <3>2
  <2>2. ASSUME NEW j \in Saves, saves'[j].step # "free", saves'[j].by # NoRound
        PROVE  /\ rounds'[saves'[j].by].step = "saving"
               /\ \A k \in Saves : saves'[k].step # "free" /\ saves'[k].by = saves'[j].by => k = j
    <3>1. ASSUME NEW k \in Saves, k # i, saves'[k].step # "free" PROVE saves'[k].by # r
      <4>1. saves'[k] = saves[k]
        BY <1>8, <3>1
      <4>2. saves[k].by = r => rounds[r].step = "saving"
        BY <3>1, <4>1, ManagerAssumption DEF ManagerInv, RoundsInv
      <4> QED
        BY <1>1, <4>1, <4>2
    <3>2. CASE j = i
      BY <1>8, <1>9, <3>1, <3>2
    <3>3. CASE j # i
      <4>1. saves'[j] = saves[j] /\ saves[j].by \in Rounds /\ saves[j].by # r
        BY <1>8, <2>2, <3>1, <3>3 DEF SaveStates
      <4>2. /\ rounds[saves[j].by].step = "saving"
            /\ \A k \in Saves : saves[k].step # "free" /\ saves[k].by = saves[j].by => k = j
        BY <2>2, <4>1 DEF ManagerInv, RoundsInv
      <4> QED
        BY <1>8, <1>9, <4>1, <4>2
    <3> QED
      BY <3>2, <3>3
  <2> QED
    BY <2>1, <2>2 DEF RoundsInv
<1> QED
  BY <1>10, <1>11, <1>12 DEF ManagerInv

\* A text that nobody touches stays sound.
LEMMA SoundStays ==
  ASSUME NEW text, NEW before, NEW after, SoundFor(text, before),
         \A d \in Contents : before[d] \subseteq after[d]
  PROVE  SoundFor(text, after)
  BY DEF SoundFor, Counted

LEMMA ReplyKeeps ==
  ASSUME ManagerInv, NEW r \in Rounds, NEW n \in Registered, Reply(r, n)
  PROVE  ManagerInv'
<1>1. PICK took \in BOOLEAN, told \in BOOLEAN :
        /\ told => took
        /\ LET p == [rounds[r] EXCEPT !.wait = @ \ {n}]
           IN rounds' = [rounds EXCEPT ![r] =
                IF told THEN [p EXCEPT !.ok = @ \cup {n}] ELSE [p EXCEPT !.bad = @ \cup {n}]]
        /\ accepted' = IF took THEN [accepted EXCEPT ![rounds[r].cid] = @ \cup {n}] ELSE accepted
  BY DEF Reply
<1>2. /\ rounds[r].step = "sending" /\ UNCHANGED <<node, states, stateFile, saves>>
  BY DEF Reply
<1>3. /\ accepted \in [Contents -> SUBSET Registered] /\ rounds \in [Rounds -> RoundStates]
      /\ saves \in [Saves -> SaveStates]
  BY DEF ManagerInv, ShapeInv
<1> DEFINE p == rounds[r]
           q == [p EXCEPT !.wait = p.wait \ {n}]
           new == IF told THEN [q EXCEPT !.ok = q.ok \cup {n}] ELSE [q EXCEPT !.bad = q.bad \cup {n}]
<1>4. p \in RoundStates
  BY <1>3
<1>5. /\ q \in RoundStates /\ q.step = p.step /\ q.cid = p.cid /\ q.ok = p.ok /\ q.bad = p.bad
  BY <1>4 DEF RoundStates
<1>6. rounds' = [rounds EXCEPT ![r] = new]
  BY <1>1
<1> HIDE DEF q, p
<1>7. /\ new \in RoundStates /\ new.step = q.step /\ new.cid = q.cid
      /\ new.ok \subseteq q.ok \cup (IF told THEN {n} ELSE {})
  <2>1. CASE told
    BY <1>5, <2>1 DEF RoundStates
  <2>2. CASE ~told
    BY <1>5, <2>2 DEF RoundStates
  <2> QED
    BY <2>1, <2>2
<1> HIDE DEF new
<1>8. /\ rounds' \in [Rounds -> RoundStates] /\ rounds'[r] = new
      /\ \A o \in Rounds : o # r => rounds'[o] = rounds[o]
  BY <1>3, <1>6, <1>7
<1>9. /\ accepted' \in [Contents -> SUBSET Registered]
      /\ \A c \in Contents : accepted[c] \subseteq accepted'[c]
      /\ told => n \in accepted'[p.cid]
  <2>1. p.cid \in Contents
    BY <1>4 DEF RoundStates
  <2>2. CASE took
    BY <1>1, <1>3, <2>1, <2>2 DEF p
  <2>3. CASE ~took
    BY <1>1, <1>3, <2>3
  <2> QED
    BY <2>2, <2>3
<1>10. ShapeInv'
  BY <1>2, <1>3, <1>8, <1>9 DEF ShapeInv
<1>11. TextsInv'
  <2>1. ASSUME NEW text, Sound(text) PROVE SoundFor(text, accepted')
    BY <1>9, <2>1, SoundStays DEF Sound
  <2>2. SoundFor(states, accepted')
    BY <2>1 DEF ManagerInv, TextsInv
  <2>3. \A i \in Saves : SoundFor(saves[i].text, accepted')
    BY <2>1 DEF ManagerInv, TextsInv
  <2>4. (stateFile \in {Absent, Empty, Garbled} \/ Sound(stateFile))'
    BY <1>2, <1>9, FileStays
  <2> QED
    BY <1>2, <2>2, <2>3, <2>4 DEF TextsInv, Sound
<1>12. ASSUME NEW o \in Rounds
       PROVE  /\ rounds'[o].ok \subseteq accepted'[rounds'[o].cid]
              /\ rounds'[o].step = rounds[o].step /\ rounds'[o].cid = rounds[o].cid
  <2>1. rounds[o].ok \subseteq accepted[rounds[o].cid] /\ rounds[o].cid \in Contents
    BY <1>3 DEF ManagerInv, RoundsInv, RoundStates
  <2>2. CASE o = r
    BY <1>5, <1>7, <1>8, <1>9, <2>1, <2>2 DEF p
  <2>3. CASE o # r
    BY <1>8, <1>9, <2>1, <2>3
  <2> QED
    BY <2>2, <2>3
<1>13. RoundsInv'
  <2>1. ASSUME NEW i \in Saves, saves[i].step # "free", saves[i].by # NoRound
        PROVE  saves[i].by \in Rounds
    BY <1>3, <2>1 DEF SaveStates
  <2> QED
    BY <1>2, <1>12, <2>1 DEF ManagerInv, RoundsInv
<1> QED
  BY <1>10, <1>11, <1>13 DEF ManagerInv

\* A save that no round waits for leaves the others to theirs; rounds that saves wait
\* for have not moved.
LEMMA LooseSave ==
  ASSUME ManagerInv, NEW i \in Saves, saves'[i].by = NoRound,
         \A j \in Saves : j # i => saves'[j] = saves[j],
         \A r \in Rounds : rounds[r].step = "saving" => rounds'[r] = rounds[r],
         \A r \in Rounds :
           /\ rounds'[r].ok \subseteq accepted'[rounds'[r].cid]
           /\ rounds'[r].step # "idle" => node' = "up" /\ states'[rounds'[r].cid] # NoState
  PROVE  RoundsInv'
<1> SUFFICES ASSUME NEW j \in Saves, saves'[j].step # "free", saves'[j].by # NoRound
             PROVE  /\ rounds'[saves'[j].by].step = "saving"
                    /\ \A k \in Saves : saves'[k].step # "free" /\ saves'[k].by = saves'[j].by => k = j
  BY DEF RoundsInv
<1>1. j # i /\ saves'[j] = saves[j]
  OBVIOUS
<1>2. saves[j].by \in Rounds
  BY <1>1 DEF ManagerInv, ShapeInv, SaveStates
<1>3. /\ rounds[saves[j].by].step = "saving"
      /\ \A k \in Saves : saves[k].step # "free" /\ saves[k].by = saves[j].by => k = j
  BY <1>1 DEF ManagerInv, RoundsInv
<1>4. rounds'[saves'[j].by].step = "saving"
  BY <1>1, <1>2, <1>3
<1>5. ASSUME NEW k \in Saves, saves'[k].step # "free", saves'[k].by = saves'[j].by PROVE k = j
  BY <1>1, <1>3, <1>5
<1> QED
  BY <1>4, <1>5

LEMMA SettleKeeps ==
  ASSUME ManagerInv, NEW r \in Rounds, NEW i \in Saves, Settle(r, i)
  PROVE  ManagerInv'
<1> DEFINE p == rounds[r]
           s == Confirm(states[p.cid], p.ok, p.bad)
<1>1. /\ p.step = "sending" /\ states' = [states EXCEPT ![p.cid] = s]
      /\ rounds' = [rounds EXCEPT ![r] = IdleRound(p.cid)]
      /\ Save(i, states', NoRound) /\ UNCHANGED <<node, stateFile, accepted>>
  BY DEF Settle, SettleSaving
<1>2. /\ accepted \in [Contents -> SUBSET Registered] /\ rounds \in [Rounds -> RoundStates]
      /\ SoundFor(states, accepted)
  BY DEF ManagerInv, ShapeInv, TextsInv, Sound
<1>3. /\ p.cid \in Contents /\ p.ok \subseteq accepted[p.cid] /\ p.bad \in SUBSET Registered
      /\ states[p.cid] # NoState
  BY <1>1, <1>2 DEF ManagerInv, RoundsInv, RoundStates
<1>4. states[p.cid] \in States /\ Counted(states[p.cid], accepted[p.cid])
      /\ accepted[p.cid] \in SUBSET Registered
  BY <1>2, <1>3 DEF SoundFor, Texts
<1> HIDE DEF p
<1>5. s \in States /\ Counted(s, accepted[p.cid])
  BY <1>3, <1>4, ConfirmFits
<1> HIDE DEF s
<1>6. /\ SoundFor(states', accepted') /\ states'[p.cid] # NoState
      /\ \A d \in Contents : d # p.cid => states'[d] = states[d]
  <2>1. states' = StatePut(states, p.cid, s) /\ accepted' = accepted
        /\ \A d \in Contents : accepted[d] \subseteq accepted'[d]
    BY <1>1 DEF StatePut
  <2>2. Counted(s, accepted'[p.cid])
    BY <1>5, <2>1
  <2>3. /\ SoundFor(StatePut(states, p.cid, s), accepted') /\ StatePut(states, p.cid, s)[p.cid] # NoState
        /\ \A d \in Contents : d # p.cid => StatePut(states, p.cid, s)[d] = states[d]
    BY <1>2, <1>3, <1>5, <2>1, <2>2, OneChanged
  <2> QED
    BY <2>1, <2>3
<1>7. Sound(states)'
  BY <1>6 DEF Sound
<1>8. /\ saves' \in [Saves -> SaveStates] /\ \A j \in Saves : Sound(saves[j].text)'
      /\ saves'[i].by = NoRound /\ \A j \in Saves : j # i => saves'[j] = saves[j]
  BY <1>1, <1>7, SaveFits DEF Sound, SoundFor
<1>9. IdleRound(p.cid) \in RoundStates /\ IdleRound(p.cid).step = "idle" /\ IdleRound(p.cid).ok = {}
  BY <1>3 DEF IdleRound, RoundStates
<1>10. /\ rounds' \in [Rounds -> RoundStates] /\ rounds'[r] = IdleRound(p.cid)
       /\ \A q \in Rounds : q # r => rounds'[q] = rounds[q]
  BY <1>1, <1>2, <1>9
<1>11. ShapeInv'
  BY <1>1, <1>2, <1>8, <1>10 DEF ShapeInv
<1>12. TextsInv'
  BY <1>1, <1>7, <1>8, FileStays DEF TextsInv
<1>13. RoundsInv'
  <2>1. ASSUME NEW q \in Rounds
        PROVE  /\ rounds'[q].ok \subseteq accepted'[rounds'[q].cid]
               /\ rounds'[q].step # "idle" => node' = "up" /\ states'[rounds'[q].cid] # NoState
    <3>1. CASE q = r
      BY <1>9, <1>10, <3>1
    <3>2. CASE q # r
      <4>1. rounds'[q] = rounds[q] /\ rounds[q].cid \in Contents
        BY <1>2, <1>10, <3>2 DEF RoundStates
      <4>2. /\ rounds[q].ok \subseteq accepted[rounds[q].cid]
            /\ rounds[q].step # "idle" => node = "up" /\ states[rounds[q].cid] # NoState
        BY DEF ManagerInv, RoundsInv
      <4> QED
        BY <1>1, <1>6, <4>1, <4>2
    <3> QED
      BY <3>1, <3>2
  <2>2. \A q \in Rounds : rounds[q].step = "saving" => rounds'[q] = rounds[q]
    BY <1>1, <1>10 DEF p
  <2> QED
    BY <1>8, <2>1, <2>2, LooseSave
<1> QED
  BY <1>11, <1>12, <1>13 DEF ManagerInv

LEMMA TrackKeeps ==
  ASSUME ManagerInv, NEW c \in Contents, NEW peers \in SUBSET Urls, NEW i \in Saves,
         TrackReplication(c, peers, i)
  PROVE  ManagerInv'
<1> DEFINE n == Cardinality(peers)
           s == [confirmed |-> peers, length |-> n, failed |-> {}, complete |-> n >= Factor,
                 hash |-> NoHash]
           t == [s EXCEPT !.hash = StateHash(s)]
           nodes == {NodeAt[u] : u \in peers}
<1>0. nodes \in SUBSET Registered
  BY NamesAssumption
<1>1. /\ states' = [states EXCEPT ![c] = t] /\ Save(i, states', NoRound)
      /\ accepted' = [accepted EXCEPT ![c] = @ \cup nodes]
      /\ UNCHANGED <<node, stateFile, rounds>>
  BY DEF TrackReplication
<1>2. /\ accepted \in [Contents -> SUBSET Registered] /\ rounds \in [Rounds -> RoundStates]
      /\ SoundFor(states, accepted)
  BY DEF ManagerInv, ShapeInv, TextsInv, Sound
<1>3. /\ accepted' \in [Contents -> SUBSET Registered]
      /\ \A d \in Contents : accepted[d] \subseteq accepted'[d]
      /\ nodes \subseteq accepted'[c]
  BY <1>0, <1>1, <1>2
<1>4. t \in States /\ Counted(t, accepted'[c])
  BY <1>3, TrackedFits
<1> HIDE DEF t
<1>5. /\ SoundFor(states', accepted') /\ states'[c] # NoState
      /\ \A d \in Contents : d # c => states'[d] = states[d]
  <2>1. states' = StatePut(states, c, t)
    BY <1>1 DEF StatePut
  <2>2. /\ SoundFor(StatePut(states, c, t), accepted') /\ StatePut(states, c, t)[c] # NoState
        /\ \A d \in Contents : d # c => StatePut(states, c, t)[d] = states[d]
    BY <1>2, <1>3, <1>4, OneChanged
  <2> QED
    BY <2>1, <2>2
<1>6. Sound(states)'
  BY <1>5 DEF Sound
<1>7. /\ saves' \in [Saves -> SaveStates] /\ \A j \in Saves : Sound(saves[j].text)'
      /\ saves'[i].by = NoRound /\ \A j \in Saves : j # i => saves'[j] = saves[j]
  BY <1>1, <1>3, <1>6, SaveFits DEF Sound, SoundFor
<1>8. ShapeInv'
  BY <1>1, <1>2, <1>3, <1>7 DEF ShapeInv
<1>9. TextsInv'
  BY <1>1, <1>3, <1>6, <1>7, FileStays DEF TextsInv
<1>10. RoundsInv'
  <2>1. ASSUME NEW q \in Rounds
        PROVE  /\ rounds'[q].ok \subseteq accepted'[rounds'[q].cid]
               /\ rounds'[q].step # "idle" => node' = "up" /\ states'[rounds'[q].cid] # NoState
    <3>1. rounds[q].cid \in Contents
      BY <1>2 DEF RoundStates
    <3>2. /\ rounds[q].ok \subseteq accepted[rounds[q].cid]
          /\ rounds[q].step # "idle" => node = "up" /\ states[rounds[q].cid] # NoState
      BY DEF ManagerInv, RoundsInv
    <3> QED
      BY <1>1, <1>3, <1>5, <3>1, <3>2
  <2> QED
    BY <1>1, <1>7, <2>1, LooseSave
<1> QED
  BY <1>8, <1>9, <1>10 DEF ManagerInv

\* A write ends, landed or not, and the round that waits for it goes on.
LEMMA FinishKeeps ==
  ASSUME ManagerInv, NEW i \in Saves, saves[i].step # "free", Finish(i),
         UNCHANGED <<node, states, accepted>>
  PROVE  /\ ShapeInv' /\ RoundsInv' /\ Sound(states)'
         /\ \A j \in Saves : Sound(saves[j].text)'
<1> DEFINE r == saves[i].by
<1>1. /\ saves' = [saves EXCEPT ![i] = FreeSave]
      /\ rounds' = IF r = NoRound THEN rounds ELSE [rounds EXCEPT ![r].step = "sending"]
  BY DEF Finish
<1>2. /\ accepted \in [Contents -> SUBSET Registered] /\ rounds \in [Rounds -> RoundStates]
      /\ saves \in [Saves -> SaveStates] /\ Sound(states) /\ \A j \in Saves : Sound(saves[j].text)
  BY DEF ManagerInv, ShapeInv, TextsInv
<1>3. NoText \in Texts /\ \A took : SoundFor(NoText, took)
  BY DEF SoundFor, NoText, Texts
<1>4. FreeSave \in SaveStates /\ FreeSave.text = NoText /\ FreeSave.step = "free"
  BY <1>3 DEF FreeSave, SaveStates
<1>5. /\ saves' \in [Saves -> SaveStates] /\ saves'[i] = FreeSave
      /\ \A j \in Saves : j # i => saves'[j] = saves[j]
  BY <1>1, <1>2, <1>4
<1>6. \A j \in Saves : SoundFor(saves'[j].text, accepted)
  BY <1>2, <1>3, <1>4, <1>5 DEF Sound
<1>7. r # NoRound => r \in Rounds /\ rounds[r].step = "saving"
  BY <1>2 DEF ManagerInv, RoundsInv, SaveStates
<1> HIDE DEF r
<1>8. /\ rounds' \in [Rounds -> RoundStates]
      /\ \A q \in Rounds : /\ q # r => rounds'[q] = rounds[q]
                           /\ rounds'[q].cid = rounds[q].cid /\ rounds'[q].ok = rounds[q].ok
                           /\ rounds'[q].step # "idle" => rounds[q].step # "idle"
  <2>1. CASE r = NoRound
    BY <1>1, <1>2, <2>1
  <2>2. CASE r # NoRound
    <3> DEFINE new == [rounds[r] EXCEPT !.step = "sending"]
    <3>1. rounds[r] \in RoundStates
      BY <1>2, <1>7, <2>2
    <3>2. new \in RoundStates /\ new.cid = rounds[r].cid /\ new.ok = rounds[r].ok
      BY <3>1 DEF RoundStates
    <3>3. rounds' = [rounds EXCEPT ![r] = new]
      BY <1>1, <1>2, <1>7, <2>2
    <3> HIDE DEF new
    <3>4. /\ rounds' \in [Rounds -> RoundStates] /\ rounds'[r] = new
          /\ \A q \in Rounds : q # r => rounds'[q] = rounds[q]
      BY <1>2, <1>7, <2>2, <3>2, <3>3
    <3>5. ASSUME NEW q \in Rounds
          PROVE  /\ q # r => rounds'[q] = rounds[q]
                 /\ rounds'[q].cid = rounds[q].cid /\ rounds'[q].ok = rounds[q].ok
                 /\ rounds'[q].step # "idle" => rounds[q].step # "idle"
      BY <1>7, <2>2, <3>2, <3>4
    <3> QED
      BY <3>4, <3>5
  <2> QED
    BY <2>1, <2>2
<1>9. ShapeInv'
  BY <1>2, <1>5, <1>8 DEF ShapeInv
<1>10. ASSUME NEW q \in Rounds
       PROVE  /\ rounds'[q].ok \subseteq accepted'[rounds'[q].cid]
              /\ rounds'[q].step # "idle" => node' = "up" /\ states'[rounds'[q].cid] # NoState
  BY <1>8 DEF ManagerInv, RoundsInv
<1>11. ASSUME NEW j \in Saves, saves'[j].step # "free", saves'[j].by # NoRound
       PROVE  /\ rounds'[saves'[j].by].step = "saving"
              /\ \A k \in Saves : saves'[k].step # "free" /\ saves'[k].by = saves'[j].by => k = j
  <2>1. j # i /\ saves'[j] = saves[j] /\ saves[j].by \in Rounds
    BY <1>2, <1>4, <1>5, <1>11 DEF SaveStates
  <2>2. /\ rounds[saves[j].by].step = "saving"
        /\ \A k \in Saves : saves[k].step # "free" /\ saves[k].by = saves[j].by => k = j
    BY <1>11, <2>1 DEF ManagerInv, RoundsInv
  <2>3. saves[j].by # r
    BY <2>1, <2>2 DEF r
  <2>4. rounds'[saves'[j].by].step = "saving"
    BY <1>8, <2>1, <2>2, <2>3
  <2>5. ASSUME NEW k \in Saves, saves'[k].step # "free", saves'[k].by = saves'[j].by PROVE k = j
    BY <1>4, <1>5, <2>1, <2>2, <2>5
  <2> QED
    BY <2>4, <2>5
<1>12. RoundsInv'
  BY <1>10, <1>11 DEF RoundsInv
<1> QED
  BY <1>2, <1>6, <1>9, <1>12 DEF Sound

LEMMA OpensKeeps ==
  ASSUME ManagerInv, NEW i \in Saves, SaveOpens(i)
  PROVE  ManagerInv'
<1>1. /\ saves[i].step = "waiting" /\ saves' = [saves EXCEPT ![i].step = "open"]
      /\ stateFile' = Empty /\ UNCHANGED <<node, states, rounds, accepted>>
  BY DEF SaveOpens
<1>2. saves \in [Saves -> SaveStates]
  BY DEF ManagerInv, ShapeInv
<1> DEFINE new == [saves[i] EXCEPT !.step = "open"]
<1>3. /\ new \in SaveStates /\ new.text = saves[i].text /\ new.by = saves[i].by
      /\ new.step = "open"
  <2>1. saves[i] \in SaveStates
    BY <1>2
  <2> QED
    BY <2>1 DEF SaveStates
<1>4. saves' = [saves EXCEPT ![i] = new]
  BY <1>1, <1>2
<1> HIDE DEF new
<1>5. /\ saves' \in [Saves -> SaveStates] /\ saves'[i] = new
      /\ \A j \in Saves : j # i => saves'[j] = saves[j]
  BY <1>2, <1>3, <1>4
<1>6. \A j \in Saves : /\ saves'[j].text = saves[j].text /\ saves'[j].by = saves[j].by
                       /\ saves'[j].step # "free" <=> saves[j].step # "free"
  <2> TAKE j \in Saves
  <2>1. CASE j = i
    BY <1>1, <1>3, <1>5, <2>1
  <2>2. CASE j # i
    BY <1>5, <2>2
  <2> QED
    BY <2>1, <2>2
<1>7. ShapeInv'
  BY <1>1, <1>5 DEF ManagerInv, ShapeInv
<1>8. TextsInv'
  BY <1>1, <1>6 DEF ManagerInv, TextsInv, Sound
<1>9. RoundsInv'
  BY <1>1, <1>6 DEF ManagerInv, RoundsInv
<1> QED
  BY <1>7, <1>8, <1>9 DEF ManagerInv

LEMMA LandsKeeps ==
  ASSUME ManagerInv, NEW i \in Saves, SaveLands(i)
  PROVE  ManagerInv'
<1>1. /\ saves[i].step # "free" /\ Finish(i) /\ UNCHANGED <<node, states, accepted>>
      /\ stateFile' \in Landings(stateFile, saves[i].text)
  BY DEF SaveLands
<1>2. /\ ShapeInv' /\ RoundsInv' /\ Sound(states)' /\ \A j \in Saves : Sound(saves[j].text)'
  BY <1>1, FinishKeeps
<1>3. stateFile' \in {Garbled, saves[i].text}
  BY <1>1 DEF Landings
<1>4. SoundFor(saves[i].text, accepted')
  BY <1>1 DEF ManagerInv, TextsInv, Sound
<1> QED
  BY <1>2, <1>3, <1>4 DEF ManagerInv, TextsInv, Sound

LEMMA FailsKeeps ==
  ASSUME ManagerInv, NEW i \in Saves, SaveFails(i)
  PROVE  ManagerInv'
<1>1. /\ saves[i].step # "free" /\ Finish(i) /\ UNCHANGED <<node, states, accepted, stateFile>>
  BY DEF SaveFails
<1>2. /\ ShapeInv' /\ RoundsInv' /\ Sound(states)' /\ \A j \in Saves : Sound(saves[j].text)'
  BY <1>1, FinishKeeps
<1>3. (stateFile \in {Absent, Empty, Garbled} \/ Sound(stateFile))'
  BY <1>1, FileStays
<1> QED
  BY <1>2, <1>3 DEF ManagerInv, TextsInv

\* A node that has just started knows nothing, and that is sound.
LEMMA EmptySound == NoText \in Texts /\ \A took : SoundFor(NoText, took)
  BY DEF SoundFor, NoText, Texts

LEMMA CrashKeeps ==
  ASSUME ManagerInv, ManagerCrash
  PROVE  ManagerInv'
<1>1. /\ states' = NoText /\ saves' = [i \in Saves |-> FreeSave]
      /\ rounds' = [r \in Rounds |-> IdleRound(rounds[r].cid)]
      /\ UNCHANGED <<stateFile, accepted>>
  BY DEF ManagerCrash
<1>2. FreeSave \in SaveStates /\ FreeSave.text = NoText /\ FreeSave.step = "free"
  BY EmptySound DEF FreeSave, SaveStates
<1>3. accepted \in [Contents -> SUBSET Registered] /\ rounds \in [Rounds -> RoundStates]
  BY DEF ManagerInv, ShapeInv
<1>4. ASSUME NEW r \in Rounds
      PROVE  /\ rounds'[r] \in RoundStates /\ rounds'[r].step = "idle" /\ rounds'[r].ok = {}
  <2>1. rounds[r].cid \in Contents
    BY <1>3 DEF RoundStates
  <2>2. rounds'[r] = IdleRound(rounds[r].cid)
    BY <1>1
  <2> QED
    BY <2>1, <2>2 DEF IdleRound, RoundStates
<1>5. ShapeInv'
  BY <1>1, <1>2, <1>3, <1>4 DEF ShapeInv
<1>6. TextsInv'
  <2>1. (stateFile \in {Absent, Empty, Garbled} \/ Sound(stateFile))'
    BY <1>1, FileStays
  <2> QED
    BY <1>1, <1>2, <2>1, EmptySound DEF TextsInv, Sound
<1>7. RoundsInv'
  BY <1>1, <1>2, <1>4 DEF RoundsInv
<1> QED
  BY <1>5, <1>6, <1>7 DEF ManagerInv

\* loadStates: nothing the file does not have.
LEMMA LoadsKeeps ==
  ASSUME ManagerInv, ManagerStart
  PROVE  ManagerInv'
<1>1. /\ node = "down" /\ UNCHANGED <<stateFile, saves, rounds, accepted>>
      /\ \/ stateFile \notin Unreadable /\ states' = LoadStates(stateFile)
         \/ UNCHANGED states
  BY DEF ManagerStart
<1>2. ASSUME stateFile \notin Unreadable PROVE Sound(LoadStates(stateFile))
  <2>1. CASE stateFile = Absent
    BY <2>1, EmptySound DEF LoadStates, Sound
  <2>2. CASE stateFile # Absent
    <3>1. SoundFor(stateFile, accepted)
      BY <1>2, <2>2 DEF ManagerInv, TextsInv, Unreadable, Sound
    <3>2. LoadStates(stateFile) = [c \in Contents |->
            IF stateFile[c] # NoState /\ Intact(stateFile[c]) THEN stateFile[c] ELSE NoState]
      BY <2>2 DEF LoadStates
    <3>3. LoadStates(stateFile) \in Texts
      BY <3>1, <3>2 DEF SoundFor, Texts
    <3>4. ASSUME NEW c \in Contents, LoadStates(stateFile)[c] # NoState
          PROVE  Counted(LoadStates(stateFile)[c], accepted[c])
      <4>1. LoadStates(stateFile)[c] = stateFile[c]
        BY <3>2, <3>4
      <4> QED
        BY <3>1, <3>4, <4>1 DEF SoundFor
    <3> QED
      BY <3>3, <3>4 DEF Sound, SoundFor
  <2> QED
    BY <2>1, <2>2
<1>3. SoundFor(states', accepted')
  BY <1>1, <1>2 DEF ManagerInv, TextsInv, Sound
<1>4. \A r \in Rounds : rounds[r].step = "idle"
  BY <1>1 DEF ManagerInv, RoundsInv
<1>5. ShapeInv' /\ RoundsInv'
  BY <1>1, <1>4 DEF ManagerInv, ShapeInv, RoundsInv
<1>6. TextsInv'
  BY <1>1, <1>3 DEF ManagerInv, TextsInv, Sound
<1> QED
  BY <1>5, <1>6 DEF ManagerInv

-----------------------------------------------------------------------------
LEMMA StepKeeps == ManagerInv /\ [ManagerNext]_managerVars => ManagerInv'
<1> SUFFICES ASSUME ManagerInv, [ManagerNext]_managerVars PROVE ManagerInv'
  OBVIOUS
<1>1. ASSUME NEW r \in Rounds, NEW i \in Saves, NEW c \in Contents, NEW low \in LowSets,
             StartReplication(r, c, low, i)
      PROVE  ManagerInv'
  BY <1>1, StartKeeps
<1>2. ASSUME NEW r \in Rounds, NEW i \in Saves, Settle(r, i) PROVE ManagerInv'
  BY <1>2, SettleKeeps
<1>3. ASSUME NEW r \in Rounds, NEW n \in Registered, Reply(r, n) PROVE ManagerInv'
  BY <1>3, ReplyKeeps
<1>4. ASSUME NEW c \in Contents, NEW peers \in SUBSET Urls, NEW i \in Saves,
             TrackReplication(c, peers, i)
      PROVE  ManagerInv'
  BY <1>4, TrackKeeps
<1>5. ASSUME NEW i \in Saves, SaveOpens(i) \/ SaveLands(i) \/ SaveFails(i) PROVE ManagerInv'
  BY <1>5, OpensKeeps, LandsKeeps, FailsKeeps
<1>6. CASE EventsWrites \/ UNCHANGED managerVars
  <2>1. UNCHANGED <<node, states, stateFile, saves, rounds, accepted>>
    BY <1>6 DEF EventsWrites, managerVars
  <2> QED
    BY <2>1 DEF ManagerInv, ShapeInv, TextsInv, RoundsInv, Sound
<1>7. CASE ManagerCrash
  BY <1>7, CrashKeeps
<1>8. CASE ManagerStart
  BY <1>8, LoadsKeeps
<1> QED
  BY <1>1, <1>2, <1>3, <1>4, <1>5, <1>6, <1>7, <1>8 DEF ManagerNext

\* Complete means replicated, in memory, in the file and on the way to it, for any
\* nodes and cids, any replicationFactor and any number of overlapping rounds of one
\* cid, of writes, crashes, restarts and errors; by half as many nodes where one counts
\* under both its names.
THEOREM CompleteMeansReplicated == ManagerSpec => []CompleteIsReplicated
<1>1. ManagerInv => CompleteIsReplicated
  <2> SUFFICES ASSUME ManagerInv PROVE CompleteIsReplicated
    OBVIOUS
  <2>1. ASSUME NEW text, Sound(text) PROVE Honest(text)
    <3> SUFFICES ASSUME NEW c \in Contents, text[c] # NoState, text[c].complete
                 PROVE  /\ HoldersOf(text[c]) \subseteq accepted[c]
                        /\ \/ Cardinality(HoldersOf(text[c])) >= Factor
                           \/ NamedTwice(text[c]) /\ 2 * Cardinality(HoldersOf(text[c])) >= Factor
      BY DEF Honest
    <3>1. Counted(text[c], accepted[c]) /\ text[c] \in States
      BY <2>1 DEF Sound, SoundFor, Texts
    <3>2. accepted[c] \in SUBSET Registered
      BY DEF ManagerInv, ShapeInv
    <3>3. HoldersOf(text[c]) \subseteq accepted[c] /\ Cardinality(text[c].confirmed) >= Factor
      BY <3>1 DEF Counted
    <3>4. text[c].confirmed \subseteq Registered \cup Urls
      BY <3>1, <3>2, <3>3, NamesKnown DEF States
    <3>5. /\ Cardinality(HoldersOf(text[c])) \in Nat /\ Cardinality(text[c].confirmed) \in Nat
          /\ Cardinality(text[c].confirmed) <= 2 * Cardinality(HoldersOf(text[c]))
          /\ NamedTwice(text[c])
               \/ Cardinality(text[c].confirmed) <= Cardinality(HoldersOf(text[c]))
      BY <3>4, NamesAndNodes
    <3> QED
      BY <3>3, <3>5, ManagerAssumption
  <2> QED
    BY <2>1 DEF ManagerInv, TextsInv, CompleteIsReplicated
<1> QED
  BY <1>1, InitInv, StepKeeps, PTL DEF ManagerSpec

-----------------------------------------------------------------------------
(* What a restart finds.                                                     *)

\* Without a race one write at most is under way, of the states there are now, into a
\* file that is empty once it is open; a node that is not up has none under way.
SettledInv ==
  /\ node # "up" => \A i \in Saves : saves[i].step = "free"
  /\ node = "up" /\ ~stateRaced =>
       /\ \A i \in Saves : saves[i].step # "free" =>
            /\ saves[i].text = states
            /\ saves[i].step = "open" => stateFile = Empty
            /\ \A j \in Saves : saves[j].step # "free" => j = i
       /\ (\A i \in Saves : saves[i].step = "free")
            => LoadStates(stateFile) = LoadStates(states)

\* Without a race the text on its way to the file, or else the file, is at most SaveEvery
\* events behind.
EventTexts == [text : Seq(Nat), open : BOOLEAN]
FileLength == IF eventsFile = Absent THEN 0 ELSE Len(eventsFile)
Near(length) ==
  /\ length % SaveEvery = 0 /\ Len(events) < length + SaveEvery
  /\ node = "up" => length <= Len(events)
EventsInv ==
  /\ events \in Seq(Nat) /\ recorded \in Nat /\ eventWrites \in Seq(EventTexts)
  /\ eventsFile \in Seq(Nat) \cup {Absent, Empty, Garbled}
  /\ node # "up" => eventWrites = <<>> /\ events = <<>>
  /\ ~eventsRaced =>
       /\ Len(eventWrites) <= 1
       /\ eventWrites # <<>> =>
            /\ Near(Len(eventWrites[1].text))
            /\ eventWrites[1].open => eventsFile = Empty
       /\ eventWrites = <<>> => eventsFile \notin Unreadable /\ Near(FileLength)

LEMMA Multiples ==
  ASSUME NEW n \in Nat, n % SaveEvery = 0
  PROVE  (n + SaveEvery) % SaveEvery = 0
<1> DEFINE q == n \div SaveEvery
           p == (n + SaveEvery) \div SaveEvery
           r == (n + SaveEvery) % SaveEvery
<1>0. SaveEvery \in Nat \ {0}
  BY SaveEveryAssumption
<1>1. n = SaveEvery * q /\ q \in Int
  BY <1>0
<1>2. n + SaveEvery = SaveEvery * p + r /\ r \in 0..(SaveEvery - 1) /\ p \in Int
  BY <1>0
<1> HIDE DEF q, p, r
<1>3. r = SaveEvery * ((q + 1) - p)
  <2>1. SaveEvery * (q + 1) = SaveEvery * q + SaveEvery
    BY <1>0, <1>1
  <2>2. SaveEvery * (q + 1) - SaveEvery * p = SaveEvery * ((q + 1) - p)
    BY <1>0, <1>1, <1>2
  <2> QED
    BY <1>0, <1>1, <1>2, <2>1, <2>2
<1> DEFINE d == (q + 1) - p
<1>4. d \in Int
  BY <1>1, <1>2
<1>5. r = SaveEvery * d
  BY <1>3
<1> HIDE DEF d
<1>6. d >= 1 => SaveEvery * d >= SaveEvery
  BY <1>0, <1>4
<1>7. d <= -1 => SaveEvery * d <= -SaveEvery
  BY <1>0, <1>4
<1>8. d = 0
  BY <1>0, <1>2, <1>4, <1>5, <1>6, <1>7
<1> QED
  BY <1>0, <1>5, <1>8 DEF r

\* The lengths at which a loop of k recordEvents saves.
LEMMA DueIs ==
  ASSUME NEW n \in Nat, NEW k \in Nat
  PROVE  LET due == DueAmong([i \in 1..k |-> n + i])
         IN /\ due \in Seq(Nat)
            /\ ToSet(due) = {m \in (n + 1)..(n + k) : m % SaveEvery = 0}
<1> DEFINE lengths == [i \in 1..k |-> n + i]
           kept == {i \in DOMAIN lengths : lengths[i] % SaveEvery = 0}
           due == DueAmong(lengths)
<1>1. lengths \in Seq(Nat) /\ DOMAIN lengths = 1..k
  OBVIOUS
<1>2. \A i \in 1..k : lengths[i] = n + i
  OBVIOUS
<1>3. due = Filtered(lengths, kept)
  BY DEF DueAmong
<1>4. kept = {i \in 1..k : (n + i) % SaveEvery = 0}
  BY <1>1, <1>2
<1> HIDE DEF kept, lengths
<1>5. due \in Seq(Nat) /\ ToSet(due) = {lengths[i] : i \in kept}
  <2>1. kept \in SUBSET DOMAIN lengths
    BY <1>1, <1>4
  <2> QED
    BY <1>1, <1>3, <2>1, Filtering
<1>6. {lengths[i] : i \in kept} = {m \in (n + 1)..(n + k) : m % SaveEvery = 0}
  <2>1. ASSUME NEW i \in kept
        PROVE  lengths[i] \in (n + 1)..(n + k) /\ lengths[i] % SaveEvery = 0
    <3>1. i \in 1..k /\ lengths[i] = n + i /\ (n + i) % SaveEvery = 0
      BY <1>2, <1>4
    <3>2. n + i \in (n + 1)..(n + k)
      BY <3>1
    <3> QED
      BY <3>1, <3>2
  <2>2. ASSUME NEW m \in (n + 1)..(n + k), m % SaveEvery = 0
        PROVE  m \in {lengths[i] : i \in kept}
    <3>1. (m - n) \in 1..k /\ n + (m - n) = m
      OBVIOUS
    <3>2. (m - n) \in kept /\ lengths[m - n] = m
      BY <1>2, <1>4, <2>2, <3>1
    <3> QED
      BY <3>2
  <2> QED
    BY <2>1, <2>2
<1> QED
  BY <1>5, <1>6 DEF lengths

\* recordEvent in a loop: either no length in it was a multiple, and what there was is
\* near enough; or one was and its text is near enough; or there is a race.
LEMMA RecordKeeps ==
  ASSUME EventsInv, node = "up", node' = "up", NEW k \in Nat, Record(k)
  PROVE  EventsInv'
<1> DEFINE n == Len(events)
           due == DueAmong([i \in 1..k |-> n + i])
           more == [i \in DOMAIN due |-> Waiting(SubSeq(events', 1, due[i]))]
<1>1. /\ events' = events \o [i \in 1..k |-> recorded + i]
      /\ eventWrites' = eventWrites \o more
      /\ recorded' = recorded + k /\ eventsRaced' = (eventsRaced \/ Len(eventWrites') > 1)
      /\ UNCHANGED eventsFile
  BY DEF Record
<1>2. /\ events \in Seq(Nat) /\ n \in Nat /\ recorded \in Nat /\ SaveEvery \in Nat \ {0}
      /\ eventWrites \in Seq(EventTexts) /\ Len(eventWrites) \in Nat
  BY SaveEveryAssumption DEF EventsInv
<1>3. events' \in Seq(Nat) /\ Len(events') = n + k
  <2>1. [i \in 1..k |-> recorded + i] \in Seq(Nat) /\ Len([i \in 1..k |-> recorded + i]) = k
    BY <1>2
  <2> QED
    BY <1>1, <1>2, <2>1
<1>4. due \in Seq(Nat) /\ ToSet(due) = {m \in (n + 1)..(n + k) : m % SaveEvery = 0}
  BY <1>2, DueIs
<1> HIDE DEF n, due
<1>5. Len(due) \in Nat /\ DOMAIN due = 1..Len(due)
      /\ \A i \in 1..Len(due) : due[i] \in (n + 1)..(n + k) /\ due[i] % SaveEvery = 0
  BY <1>4 DEF ToSet
<1>6. \A i \in 1..Len(due) :
        /\ SubSeq(events', 1, due[i]) \in Seq(Nat)
        /\ Len(SubSeq(events', 1, due[i])) = due[i]
  <2> TAKE i \in 1..Len(due)
  <2>1. due[i] \in 1..Len(events') /\ due[i] \in Nat
    BY <1>2, <1>3, <1>5
  <2> QED
    BY <1>3, <2>1
<1>7. /\ more \in Seq(EventTexts) /\ Len(more) = Len(due)
      /\ \A i \in 1..Len(due) : more[i] = Waiting(SubSeq(events', 1, due[i]))
  <2>1. \A i \in 1..Len(due) : Waiting(SubSeq(events', 1, due[i])) \in EventTexts
    BY <1>6 DEF Waiting, EventTexts
  <2> QED
    BY <1>5, <2>1
<1> HIDE DEF more
<1>8. /\ eventWrites' \in Seq(EventTexts) /\ Len(eventWrites') = Len(eventWrites) + Len(due)
  <2>1. /\ eventWrites \o more \in Seq(EventTexts)
        /\ Len(eventWrites \o more) = Len(eventWrites) + Len(more)
    BY <1>2, <1>7, ConcatProperties, Zenon
  <2> QED
    BY <1>1, <1>7, <2>1
<1>9. ~eventsRaced' => ~eventsRaced /\ Len(eventWrites') <= 1
  <2>1. ~eventsRaced' => ~eventsRaced /\ ~(Len(eventWrites') > 1)
    BY <1>1, Zenon
  <2>2. Len(eventWrites') \in Nat
    BY <1>8
  <2> QED
    BY <2>1, <2>2
<1>10. ASSUME NEW length \in Nat, Near(length), ToSet(due) = {}
      PROVE  /\ length % SaveEvery = 0 /\ Len(events') < length + SaveEvery
             /\ length <= Len(events')
  <2>1. length % SaveEvery = 0 /\ n < length + SaveEvery /\ length <= n
    BY <1>10 DEF Near, n
  <2>2. (length + SaveEvery) % SaveEvery = 0
    BY <2>1, Multiples
  <2>3. length + SaveEvery \notin (n + 1)..(n + k)
    BY <1>4, <1>10, <2>2
  <2>4. n + k < length + SaveEvery
    BY <1>2, <2>1, <2>3
  <2>5. length <= n + k
    BY <1>2, <2>1
  <2> QED
    BY <1>3, <2>1, <2>4, <2>5
<1>11. CASE ~eventsRaced' /\ Len(due) = 0
  <2>1. due = <<>> /\ ToSet(due) = {} /\ eventWrites' = eventWrites
    <3>1. due = <<>> /\ more = <<>>
      BY <1>4, <1>7, <1>11, EmptySeq
    <3> QED
      BY <1>1, <1>2, <3>1 DEF ToSet
  <2>2. Len(eventWrites) <= 1 /\ ~eventsRaced
    BY <1>11, <1>9, <2>1
  <2>3. CASE eventWrites = <<>>
    <3>1. eventsFile \notin Unreadable /\ Near(FileLength)
      BY <2>2, <2>3 DEF EventsInv
    <3>2. FileLength \in Nat
      BY <3>1 DEF FileLength, EventsInv, Unreadable
    <3>3. Near(FileLength)'
      BY <1>1, <1>10, <2>1, <3>1, <3>2 DEF Near, FileLength
    <3> QED
      BY <1>1, <1>2, <1>3, <1>8, <2>1, <2>2, <2>3, <3>1, <3>3 DEF EventsInv, FileLength
  <2>4. CASE eventWrites # <<>>
    <3>1. /\ Near(Len(eventWrites[1].text))
          /\ eventWrites[1].open => eventsFile = Empty
      BY <2>2, <2>4 DEF EventsInv
    <3>2. Len(eventWrites[1].text) \in Nat
      <4>1. eventWrites[1] \in EventTexts
        BY <1>2, <2>4
      <4> QED
        BY <4>1 DEF EventTexts
    <3> DEFINE t == Len(eventWrites[1].text)
    <3>3. t \in Nat /\ Near(t)
      BY <3>1, <3>2
    <3>4. /\ t % SaveEvery = 0 /\ Len(events') < t + SaveEvery /\ t <= Len(events')
      <4> HIDE DEF t
      <4> QED
        BY <1>10, <2>1, <3>3
    <3>5. Near(Len(eventWrites[1].text))'
      BY <2>1, <3>4 DEF Near
    <3> QED
      BY <1>1, <1>2, <1>3, <1>8, <2>1, <2>2, <2>4, <3>1, <3>5 DEF EventsInv
  <2> QED
    BY <2>3, <2>4
<1>12. CASE ~eventsRaced' /\ Len(due) # 0
  <2>1. Len(eventWrites) = 0 /\ Len(due) = 1
    <3>1. Len(eventWrites) + Len(due) <= 1
      BY <1>8, <1>12, <1>9
    <3> QED
      BY <1>2, <1>5, <1>12, <3>1
  <2>2. eventWrites = <<>>
    BY <1>2, <2>1, EmptySeq
  <2>3. eventWrites' = more /\ Len(eventWrites') = 1
        /\ eventWrites'[1] = Waiting(SubSeq(events', 1, due[1]))
    BY <1>1, <1>7, <2>1, <2>2
  <2>4. /\ Len(eventWrites'[1].text) = due[1] /\ ~eventWrites'[1].open
        /\ due[1] \in (n + 1)..(n + k) /\ due[1] % SaveEvery = 0 /\ due[1] \in Nat
    BY <1>2, <1>5, <1>6, <2>1, <2>3 DEF Waiting
  <2>5. ToSet(due) = {due[1]}
    BY <1>5, <2>1 DEF ToSet
  <2>6. (due[1] + SaveEvery) % SaveEvery = 0
    BY <2>4, Multiples
  <2>7. due[1] + SaveEvery \notin (n + 1)..(n + k)
    BY <1>2, <1>4, <2>4, <2>5, <2>6
  <2>8. n + k < due[1] + SaveEvery /\ due[1] <= n + k
    BY <1>2, <2>4, <2>7
  <2>9. /\ due[1] % SaveEvery = 0 /\ Len(events') < due[1] + SaveEvery
        /\ due[1] <= Len(events')
    BY <1>3, <2>4, <2>8
  <2>10. Near(Len(eventWrites[1].text))'
    BY <2>4, <2>9 DEF Near
  <2>11. eventWrites' # <<>>
    BY <2>3
  <2>12. Len(eventWrites') <= 1
    BY <2>3
  <2> QED
    BY SMTT(30), <1>1, <1>2, <1>3, <1>8, <2>4, <2>10, <2>11, <2>12 DEF EventsInv
<1>13. CASE eventsRaced'
  BY <1>1, <1>2, <1>3, <1>8, <1>13 DEF EventsInv
<1> QED
  BY <1>11, <1>12, <1>13

LEMMA WriteRemoved ==
  ASSUME EventsInv, NEW i \in DOMAIN eventWrites
  PROVE  /\ RemoveAt(eventWrites, i) \in Seq(EventTexts)
         /\ Len(eventWrites) <= 1 => i = 1 /\ RemoveAt(eventWrites, i) = <<>>
         /\ node = "up"
<1>1. /\ eventWrites \in Seq(EventTexts) /\ i \in 1..Len(eventWrites)
      /\ Len(eventWrites) \in Nat
  BY DEF EventsInv
<1>2. /\ RemoveAt(eventWrites, i) \in Seq(EventTexts)
      /\ Len(RemoveAt(eventWrites, i)) = Len(eventWrites) - 1
  BY <1>1, Removing
<1>3. ASSUME Len(eventWrites) <= 1 PROVE i = 1 /\ RemoveAt(eventWrites, i) = <<>>
  <2>1. i = 1 /\ Len(RemoveAt(eventWrites, i)) = 0
    BY <1>1, <1>2, <1>3
  <2> QED
    BY <1>2, <2>1, EmptySeq
<1>4. eventWrites # <<>>
  BY <1>1
<1> QED
  BY <1>2, <1>3, <1>4 DEF EventsInv

LEMMA EventsOpenKeeps ==
  ASSUME EventsInv, NEW i \in DOMAIN eventWrites, EventsOpen(i), UNCHANGED node
  PROVE  EventsInv'
<1> DEFINE w == eventWrites[i]
           v == [w EXCEPT !.open = TRUE]
<1>1. /\ eventWrites' = [eventWrites EXCEPT ![i] = v] /\ eventsFile' = Empty
      /\ UNCHANGED <<events, recorded, eventsRaced>>
  BY DEF EventsOpen, Opened
<1>2. /\ eventWrites \in Seq(EventTexts) /\ i \in 1..Len(eventWrites)
      /\ Len(eventWrites) \in Nat
  BY DEF EventsInv
<1>3. w \in EventTexts
  BY <1>2
<1>4. v \in EventTexts /\ v.text = w.text
  BY <1>3 DEF EventTexts
<1> HIDE DEF v
<1>5. /\ eventWrites' \in Seq(EventTexts) /\ Len(eventWrites') = Len(eventWrites)
      /\ \A j \in 1..Len(eventWrites) :
           eventWrites'[j] = IF j = i THEN v ELSE eventWrites[j]
  BY <1>1, <1>2, <1>4
<1>6. eventWrites # <<>> /\ eventWrites' # <<>> /\ 1 \in 1..Len(eventWrites)
  BY <1>2, <1>5
<1>7. eventWrites'[1].text = eventWrites[1].text
  BY <1>4, <1>5, <1>6
<1>8. ASSUME ~eventsRaced' PROVE Len(eventWrites') <= 1 /\ Near(Len(eventWrites[1].text))'
  <2>1. Len(eventWrites) <= 1 /\ Near(Len(eventWrites[1].text))
    BY <1>1, <1>6, <1>8 DEF EventsInv
  <2> QED
    BY <1>1, <1>5, <1>7, <2>1 DEF Near
<1> QED
  BY <1>1, <1>5, <1>6, <1>8 DEF EventsInv

LEMMA EventsLandKeeps ==
  ASSUME EventsInv, NEW i \in DOMAIN eventWrites, EventsLand(i), UNCHANGED node
  PROVE  EventsInv'
<1>1. /\ eventWrites[i].open /\ eventsFile' \in Landings(eventsFile, eventWrites[i].text)
      /\ eventWrites' = RemoveAt(eventWrites, i)
      /\ UNCHANGED <<events, recorded, eventsRaced>>
  BY DEF EventsLand
<1>2. /\ eventWrites' \in Seq(EventTexts) /\ node = "up" /\ eventWrites # <<>>
      /\ Len(eventWrites) <= 1 => i = 1 /\ eventWrites' = <<>>
  BY <1>1, WriteRemoved DEF EventsInv
<1>3. eventWrites[i].text \in Seq(Nat)
  <2>1. eventWrites[i] \in EventTexts
    BY DEF EventsInv
  <2> QED
    BY <2>1 DEF EventTexts
<1>4. eventsFile' \in Seq(Nat) \cup {Absent, Empty, Garbled}
  BY <1>1, <1>3 DEF Landings
<1>5. ASSUME ~eventsRaced'
      PROVE  eventWrites' = <<>> /\ eventsFile' \notin Unreadable /\ Near(FileLength)'
  <2>1. /\ Len(eventWrites) <= 1 /\ Near(Len(eventWrites[1].text))
        /\ eventWrites[1].open => eventsFile = Empty
    BY <1>1, <1>2, <1>5 DEF EventsInv
  <2>2. i = 1 /\ eventWrites' = <<>>
    BY <1>2, <2>1
  <2>3. eventsFile' = eventWrites[1].text
    BY <1>1, <2>1, <2>2 DEF Landings
  <2>4. eventsFile' \notin {Absent, Empty, Garbled}
    BY <1>3, <2>2, <2>3, SaveEveryAssumption
  <2>5. FileLength' = Len(eventWrites[1].text)
    BY <2>3, <2>4 DEF FileLength
  <2>6. Near(FileLength)'
    BY <1>1, <2>1, <2>5 DEF Near
  <2> QED
    BY <2>2, <2>4, <2>6 DEF Unreadable
<1>6. Len(<<>>) <= 1
  OBVIOUS
<1> QED
  BY <1>1, <1>2, <1>4, <1>5, <1>6 DEF EventsInv

LEMMA EventsFailKeeps ==
  ASSUME EventsInv, NEW i \in DOMAIN eventWrites, EventsFail(i), UNCHANGED node
  PROVE  EventsInv'
<1>1. /\ eventWrites' = RemoveAt(eventWrites, i) /\ eventsRaced'
      /\ UNCHANGED <<events, eventsFile, recorded>>
  BY DEF EventsFail
<1> QED
  BY <1>1, WriteRemoved DEF EventsInv

LEMMA ForgetKeeps ==
  ASSUME EventsInv, ForgetEvents, node' = "down"
  PROVE  EventsInv'
<1>1. /\ events' = <<>> /\ eventWrites' = <<>> /\ UNCHANGED <<eventsFile, recorded>>
      /\ eventsRaced' = (eventsRaced \/ eventWrites # <<>>)
  BY DEF ForgetEvents
<1>2. ASSUME ~eventsRaced' PROVE eventsFile' \notin Unreadable /\ Near(FileLength)'
  <2>1. ~eventsRaced /\ eventWrites = <<>>
    BY <1>1, <1>2
  <2>2. eventsFile \notin Unreadable /\ Near(FileLength)
    BY <2>1 DEF EventsInv
  <2>3. FileLength' = FileLength /\ FileLength \in Nat
    BY <1>1, <2>2 DEF FileLength, EventsInv, Unreadable
  <2>4. Len(events') = 0 /\ 0 < FileLength + SaveEvery
    BY <1>1, <2>3, SaveEveryAssumption
  <2>5. Near(FileLength)'
    BY <2>2, <2>3, <2>4 DEF Near
  <2> QED
    BY <1>1, <2>2, <2>5
<1>3. <<>> \in Seq(Nat) /\ <<>> \in Seq(EventTexts) /\ Len(<<>>) <= 1
  OBVIOUS
<1> QED
  BY <1>1, <1>2, <1>3 DEF EventsInv

LEMMA LoadKeeps ==
  ASSUME EventsInv, node = "down", node' = "up", eventsFile \notin Unreadable, LoadEvents
  PROVE  EventsInv'
<1>1. /\ events' = (IF eventsFile = Absent THEN <<>> ELSE eventsFile)
      /\ UNCHANGED <<eventsFile, eventWrites, recorded, eventsRaced>>
  BY DEF LoadEvents
<1>2. eventWrites = <<>>
  BY DEF EventsInv
<1>3. events' \in Seq(Nat) /\ Len(events') = FileLength /\ FileLength \in Nat
  BY <1>1 DEF EventsInv, FileLength, Unreadable
<1>4. FileLength' = FileLength
  BY <1>1 DEF FileLength
<1>5. ~eventsRaced => Near(FileLength)'
  <2>1. SUFFICES ASSUME ~eventsRaced PROVE Near(FileLength)'
    OBVIOUS
  <2>2. FileLength % SaveEvery = 0
    BY <1>2, <2>1 DEF EventsInv, Near
  <2>3. FileLength < FileLength + SaveEvery /\ FileLength <= FileLength
    BY <1>3, SaveEveryAssumption
  <2> QED
    BY <1>3, <1>4, <2>2, <2>3 DEF Near
<1> QED
  <2>1. Len(<<>>) <= 1
    OBVIOUS
  <2> QED
    BY <1>1, <1>2, <1>3, <1>5, <2>1 DEF EventsInv

LEMMA EventsStay ==
  ASSUME EventsInv, UNCHANGED reputationVars,
         node' = node \/ (node' # "up" /\ node # "up")
  PROVE  EventsInv'
<1>1. UNCHANGED <<events, eventsFile, eventWrites, recorded, eventsRaced>>
  BY DEF reputationVars
<1>2. FileLength' = FileLength
  BY <1>1 DEF FileLength
<1> QED
  BY <1>1, <1>2 DEF EventsInv, Near

LEMMA EventsStart == ManagerInit => EventsInv
<1> SUFFICES ASSUME ManagerInit PROVE EventsInv
  OBVIOUS
<1>1. /\ node = "down" /\ events = <<>> /\ eventsFile = Absent /\ eventWrites = <<>>
      /\ recorded = 0
  BY DEF ManagerInit, ReputationInit
<1>2. FileLength = 0 /\ 0 % SaveEvery = 0 /\ Len(events) = 0 /\ 0 < 0 + SaveEvery
  BY <1>1, SaveEveryAssumption DEF FileLength
<1>3. <<>> \in Seq(Nat) /\ <<>> \in Seq(EventTexts) /\ Len(<<>>) <= 1
  OBVIOUS
<1>4. Near(FileLength) /\ eventsFile \notin Unreadable
  BY <1>1, <1>2, FileAssumption DEF Near, Unreadable
<1> QED
  BY <1>1, <1>3, <1>4 DEF EventsInv

LEMMA EventsStepKeeps ==
  ManagerInv /\ EventsInv /\ [ManagerNext]_managerVars => EventsInv'
<1> SUFFICES ASSUME ManagerInv, EventsInv, [ManagerNext]_managerVars PROVE EventsInv'
  OBVIOUS
<1>1. ASSUME NEW r \in Rounds, NEW i \in Saves, NEW c \in Contents, NEW low \in LowSets,
             StartReplication(r, c, low, i)
      PROVE  EventsInv'
  BY <1>1, EventsStay DEF StartReplication
<1>2. ASSUME NEW r \in Rounds, NEW i \in Saves, Settle(r, i) PROVE EventsInv'
  <2> DEFINE k == Cardinality(rounds[r].ok) + Cardinality(rounds[r].bad)
  <2>1. Record(k) /\ UNCHANGED node /\ rounds[r].step = "sending"
    BY <1>2 DEF Settle, SettleSaving
  <2>2. rounds[r] \in RoundStates
    BY DEF ManagerInv, ShapeInv
  <2>3. rounds[r].ok \subseteq Registered /\ rounds[r].bad \subseteq Registered
    BY <2>2 DEF RoundStates
  <2>4. k \in Nat
    BY <2>3, Few
  <2>5. node = "up"
    BY <2>1 DEF ManagerInv, RoundsInv
  <2> HIDE DEF k
  <2> QED
    BY <2>1, <2>4, <2>5, RecordKeeps
<1>3. ASSUME NEW r \in Rounds, NEW n \in Registered, Reply(r, n) PROVE EventsInv'
  BY <1>3, EventsStay DEF Reply
<1>4. ASSUME NEW c \in Contents, NEW peers \in SUBSET Urls, NEW i \in Saves,
             TrackReplication(c, peers, i)
      PROVE  EventsInv'
  BY <1>4, EventsStay DEF TrackReplication
<1>5. ASSUME NEW i \in Saves, SaveOpens(i) \/ SaveLands(i) \/ SaveFails(i) PROVE EventsInv'
  BY <1>5, EventsStay DEF SaveOpens, SaveLands, SaveFails
<1>6. CASE EventsWrites
  BY <1>6, EventsOpenKeeps, EventsLandKeeps, EventsFailKeeps DEF EventsWrites
<1>7. CASE ManagerCrash
  BY <1>7, ForgetKeeps DEF ManagerCrash
<1>8. CASE ManagerStart
  <2>1. CASE {stateFile, eventsFile} \cap Unreadable = {} /\ node' = "up" /\ LoadEvents
    BY <1>8, <2>1, LoadKeeps DEF ManagerStart
  <2>2. CASE node' = "failed" /\ UNCHANGED reputationVars
    BY <1>8, <2>2, EventsStay DEF ManagerStart
  <2> QED
    BY <1>8, <2>1, <2>2 DEF ManagerStart
<1>9. CASE UNCHANGED managerVars
  BY <1>9, EventsStay DEF managerVars, reputationVars
<1> QED
  BY <1>1, <1>2, <1>3, <1>4, <1>5, <1>6, <1>7, <1>8, <1>9 DEF ManagerNext

\* recordEvent saves at each multiple of ten (reputation.service.ts), looking at the length
\* after every event of a loop: without a race a crash loses fewer events than that, for
\* any number of nodes in a round, of rounds and of restarts.
THEOREM FewEventsLost == ManagerSpec => []LossBounded
<1>1. ManagerInit => ManagerInv /\ EventsInv
  BY InitInv, EventsStart
<1>2. ManagerInv /\ EventsInv /\ [ManagerNext]_managerVars => (ManagerInv /\ EventsInv)'
  BY StepKeeps, EventsStepKeeps
<1>3. EventsInv => LossBounded
  <2> SUFFICES ASSUME EventsInv, ~eventsRaced, eventWrites = <<>>
               PROVE  Len(events) < SaveEvery + FileLength
    BY DEF LossBounded, FileLength
  <2>1. eventsFile \notin Unreadable /\ Near(FileLength)
    BY DEF EventsInv
  <2>2. FileLength \in Nat /\ Len(events) \in Nat
    BY <2>1 DEF FileLength, EventsInv, Unreadable
  <2> QED
    BY <2>1, <2>2, SaveEveryAssumption DEF Near
<1> QED
  BY <1>1, <1>2, <1>3, PTL DEF ManagerSpec

-----------------------------------------------------------------------------
\* A save of the states as they will be, the only one under way or the race has begun.
LEMMA SaveSettles ==
  ASSUME SettledInv, NEW i \in Saves, NEW by, saves \in [Saves -> SaveStates],
         Save(i, states', by), UNCHANGED <<node, stateFile>>, node = "up"
  PROVE  SettledInv'
<1> DEFINE new == [step |-> "waiting", text |-> states', by |-> by]
<1>1. /\ saves' = [saves EXCEPT ![i] = new]
      /\ stateRaced' = (stateRaced \/ \E j \in Saves : saves[j].step # "free")
  BY DEF Save
<1>2. saves'[i] = new /\ \A j \in Saves : j # i => saves'[j] = saves[j]
  BY <1>1
<1>3. new.step = "waiting" /\ new.text = states'
  OBVIOUS
<1> HIDE DEF new
<1>4. ASSUME ~stateRaced', NEW j \in Saves, saves'[j].step # "free" PROVE j = i
  BY <1>1, <1>2, <1>4
<1>5. ASSUME ~stateRaced'
      PROVE  /\ \A j \in Saves : saves'[j].step # "free" =>
                  /\ saves'[j].text = states'
                  /\ saves'[j].step = "open" => stateFile' = Empty
                  /\ \A k \in Saves : saves'[k].step # "free" => k = j
             /\ ~\A j \in Saves : saves'[j].step = "free"
  BY <1>2, <1>3, <1>4, <1>5
<1> QED
  BY <1>5 DEF SettledInv

LEMMA SettleStays ==
  ASSUME SettledInv, UNCHANGED <<node, states, stateFile, saves, stateRaced>>
  PROVE  SettledInv'
<1>1. LoadStates(stateFile)' = LoadStates(stateFile) /\ LoadStates(states)' = LoadStates(states)
  BY DEF LoadStates, NoText, Intact, StateHash
<1> QED
  BY <1>1 DEF SettledInv

LEMMA OpensSettles ==
  ASSUME SettledInv, saves \in [Saves -> SaveStates], NEW i \in Saves, SaveOpens(i)
  PROVE  SettledInv'
<1> DEFINE new == [saves[i] EXCEPT !.step = "open"]
<1>1. /\ saves[i].step = "waiting" /\ saves' = [saves EXCEPT ![i] = new]
      /\ stateFile' = Empty /\ UNCHANGED <<node, states, stateRaced>>
  BY DEF SaveOpens
<1>2. saves[i] \in SaveStates
  OBVIOUS
<1>3. new.text = saves[i].text /\ new.step = "open"
  BY <1>2 DEF SaveStates
<1> HIDE DEF new
<1>4. saves'[i] = new /\ \A j \in Saves : j # i => saves'[j] = saves[j]
  BY <1>1
<1>5. \A j \in Saves : saves'[j].step # "free" <=> saves[j].step # "free"
  BY <1>1, <1>3, <1>4
<1>6. \A j \in Saves : saves'[j].text = saves[j].text
  BY <1>3, <1>4
<1> QED
  BY <1>1, <1>3, <1>4, <1>5, <1>6 DEF SettledInv

\* The only write lands in the file it has opened: the file has what is in memory.
LEMMA LandsSettles ==
  ASSUME SettledInv, saves \in [Saves -> SaveStates], NEW i \in Saves, SaveLands(i)
  PROVE  SettledInv'
<1>1. /\ saves[i].step = "open" /\ saves' = [saves EXCEPT ![i] = FreeSave]
      /\ stateFile' \in Landings(stateFile, saves[i].text)
      /\ UNCHANGED <<node, states, stateRaced>>
  BY DEF SaveLands, Finish
<1>2. saves'[i].step = "free" /\ \A j \in Saves : j # i => saves'[j] = saves[j]
  BY <1>1 DEF FreeSave
<1>3. node = "up"
  BY <1>1 DEF SettledInv
<1>4. ASSUME ~stateRaced'
      PROVE  (\A j \in Saves : saves'[j].step = "free") /\ stateFile' = states'
  <2>1. /\ saves[i].text = states /\ stateFile = Empty
        /\ \A j \in Saves : saves[j].step # "free" => j = i
    BY <1>1, <1>3, <1>4 DEF SettledInv
  <2> QED
    BY <1>1, <1>2, <2>1 DEF Landings
<1>5. stateFile' = states' => LoadStates(stateFile)' = LoadStates(states)'
  OBVIOUS
<1> QED
  BY <1>1, <1>3, <1>4, <1>5 DEF SettledInv

LEMMA FailsSettles ==
  ASSUME SettledInv, NEW i \in Saves, SaveFails(i)
  PROVE  SettledInv'
<1>1. saves[i].step # "free" /\ stateRaced' /\ UNCHANGED node
  BY DEF SaveFails
<1>2. node = "up"
  BY <1>1 DEF SettledInv
<1> QED
  BY <1>1, <1>2 DEF SettledInv

LEMMA CrashSettles ==
  ASSUME ManagerCrash
  PROVE  SettledInv'
BY DEF ManagerCrash, FreeSave, SettledInv

\* What has been loaded is loaded again as it is.
LEMMA LoadedTwice ==
  ASSUME NEW file, file = Absent \/ file \in Texts
  PROVE  LoadStates(LoadStates(file)) = LoadStates(file)
<1>1. ASSUME NEW text \in Texts
      PROVE  /\ text # Absent
             /\ LoadStates(text) = [c \in Contents |->
                  IF text[c] # NoState /\ Intact(text[c]) THEN text[c] ELSE NoState]
  <2>1. text # Absent
    BY ManagerAssumption
  <2> QED
    BY <2>1 DEF LoadStates
<1>2. LoadStates(file) \in Texts
  <2>1. CASE file = Absent
    BY <2>1, EmptySound DEF LoadStates
  <2>2. CASE file \in Texts
    BY <1>1, <2>2 DEF Texts
  <2> QED
    BY <2>1, <2>2
<1>3. \A c \in Contents : LoadStates(file)[c] = NoState \/ Intact(LoadStates(file)[c])
  <2>1. CASE file = Absent
    BY <2>1 DEF LoadStates, NoText
  <2>2. CASE file \in Texts
    BY <1>1, <2>2
  <2> QED
    BY <2>1, <2>2
<1>4. ASSUME NEW text \in Texts, \A c \in Contents : text[c] = NoState \/ Intact(text[c])
      PROVE  LoadStates(text) = text
  <2>1. \A c \in Contents :
          (IF text[c] # NoState /\ Intact(text[c]) THEN text[c] ELSE NoState) = text[c]
    BY <1>4
  <2>2. text = [c \in Contents |-> text[c]]
    BY DEF Texts
  <2> QED
    BY <1>1, <2>1, <2>2
<1> QED
  BY <1>2, <1>3, <1>4

LEMMA StartSettles ==
  ASSUME ManagerInv, SettledInv, ManagerStart
  PROVE  SettledInv'
<1>1. node = "down" /\ UNCHANGED <<saves, stateFile, stateRaced>>
  BY DEF ManagerStart
<1>2. \A i \in Saves : saves'[i].step = "free"
  BY <1>1 DEF SettledInv
<1>3. CASE stateFile \notin Unreadable /\ node' = "up" /\ states' = LoadStates(stateFile)
  <2>1. stateFile = Absent \/ stateFile \in Texts
    BY <1>3 DEF ManagerInv, TextsInv, Sound, SoundFor, Unreadable
  <2>2. LoadStates(stateFile') = LoadStates(states')
    BY <1>1, <1>3, <2>1, LoadedTwice
  <2>3. LoadStates(stateFile)' = LoadStates(states)'
    BY <2>2
  <2> QED
    BY <1>2, <2>3 DEF SettledInv
<1>4. CASE node' = "failed"
  BY <1>2, <1>4 DEF SettledInv
<1> QED
  BY <1>3, <1>4 DEF ManagerStart

LEMMA SettledStepKeeps ==
  ManagerInv /\ SettledInv /\ [ManagerNext]_managerVars => SettledInv'
<1> SUFFICES ASSUME ManagerInv, SettledInv, [ManagerNext]_managerVars PROVE SettledInv'
  OBVIOUS
<1>0. saves \in [Saves -> SaveStates]
  BY DEF ManagerInv, ShapeInv
<1>1. ASSUME NEW r \in Rounds, NEW i \in Saves, NEW c \in Contents, NEW low \in LowSets,
             StartReplication(r, c, low, i)
      PROVE  SettledInv'
  <2>1. node = "up" /\ Save(i, states', r) /\ UNCHANGED <<node, stateFile>>
    BY <1>1 DEF StartReplication
  <2> QED
    BY <1>0, <2>1, SaveSettles
<1>2. ASSUME NEW r \in Rounds, NEW i \in Saves, Settle(r, i) PROVE SettledInv'
  <2>1. /\ rounds[r].step = "sending" /\ Save(i, states', NoRound)
        /\ UNCHANGED <<node, stateFile>>
    BY <1>2 DEF Settle, SettleSaving
  <2>2. node = "up"
    BY <2>1 DEF ManagerInv, RoundsInv
  <2> QED
    BY <1>0, <2>1, <2>2, SaveSettles
<1>3. ASSUME NEW r \in Rounds, NEW n \in Registered, Reply(r, n) PROVE SettledInv'
  BY <1>3, SettleStays DEF Reply
<1>4. ASSUME NEW c \in Contents, NEW peers \in SUBSET Urls, NEW i \in Saves,
             TrackReplication(c, peers, i)
      PROVE  SettledInv'
  <2>1. node = "up" /\ Save(i, states', NoRound) /\ UNCHANGED <<node, stateFile>>
    BY <1>4 DEF TrackReplication
  <2> QED
    BY <1>0, <2>1, SaveSettles
<1>5. ASSUME NEW i \in Saves, SaveOpens(i) \/ SaveLands(i) \/ SaveFails(i) PROVE SettledInv'
  BY <1>0, <1>5, OpensSettles, LandsSettles, FailsSettles
<1>6. CASE EventsWrites \/ UNCHANGED managerVars
  BY <1>6, SettleStays DEF EventsWrites, managerVars
<1>7. CASE ManagerCrash
  BY <1>7, CrashSettles
<1>8. CASE ManagerStart
  BY <1>8, StartSettles
<1> QED
  BY <1>1, <1>2, <1>3, <1>4, <1>5, <1>6, <1>7, <1>8 DEF ManagerNext

\* saveStates takes its text when it is called (replication-manager.service.ts): with no
\* write under way and none that raced or failed, a restart finds every state there is, but
\* for those loadStates leaves out as tampered, for any nodes, cids and rounds.
THEOREM SettledStatesAreSaved == ManagerSpec => []SettledIsSaved
<1>1. ManagerInit => ManagerInv /\ SettledInv
  BY InitInv DEF ManagerInit, SettledInv, FreeSave
<1>2. ManagerInv /\ SettledInv /\ [ManagerNext]_managerVars => (ManagerInv /\ SettledInv)'
  BY StepKeeps, SettledStepKeeps
<1>3. SettledInv => SettledIsSaved
  BY DEF SettledInv, SettledIsSaved
<1> QED
  BY <1>1, <1>2, <1>3, PTL DEF ManagerSpec

-----------------------------------------------------------------------------
(* Placement.                                                                *)

\* F are the nodes of S with the lowest hashes, count of them unless there are fewer.
Lowest(F, c, S, count) ==
  /\ F \subseteq S
  /\ \A m \in S, n \in F : Hash[c][m] < Hash[c][n] => m \in F
  /\ Cardinality(F) <= count /\ (F = S \/ Cardinality(F) = count)

LEMMA FirstLowest ==
  ASSUME NEW c \in Contents, NEW S, S \subseteq Replicas, NEW count \in Nat
  PROVE  Lowest(First(c, S, count), c, S, count)
<1> DEFINE ahead == [n \in S |-> {m \in S : Hash[c][m] < Hash[c][n]}]
           F == First(c, S, count)
           rank(n) == Cardinality(ahead[n])
           f == [n \in F |-> rank(n) + 1]
<1>1. /\ \A n \in S : Hash[c][n] \in Nat
      /\ \A m, n \in S : m # n => Hash[c][m] # Hash[c][n]
  BY HashAssumption
<1>2. IsFiniteSet(S)
  BY FS_Subset, PlacementAssumption
<1>3. Orders(ahead)
  <2>1. DOMAIN ahead = S
    OBVIOUS
  <2>2. \A n \in S : ahead[n] \subseteq S /\ n \notin ahead[n]
    BY <1>1
  <2>3. \A m, n \in S : m = n \/ m \in ahead[n] \/ n \in ahead[m]
    BY <1>1
  <2>4. \A m, n \in S : m \in ahead[n] => ahead[m] \subseteq ahead[n]
    BY <1>1
  <2> QED
    BY <1>2, <2>1, <2>2, <2>3, <2>4 DEF Orders
<1>4. DOMAIN ahead = S /\ F = {n \in S : rank(n) < count}
  BY DEF First
<1> DEFINE size == Cardinality(S)
<1>5. /\ size \in Nat
      /\ \A n \in S : rank(n) + 1 \in 1..size
      /\ \A m, n \in S : m \in ahead[n] <=> rank(m) < rank(n)
      /\ \A m, n \in S : rank(m) = rank(n) => m = n
      /\ \A k \in 1..size : \E n \in S : rank(n) = k - 1
  BY <1>3, <1>4, Ranks
<1>6. \A n \in S : rank(n) \in Nat
  <2>1. \A n \in S : ahead[n] \in SUBSET S
    OBVIOUS
  <2>2. \A n \in S : IsFiniteSet(ahead[n])
    BY <1>2, <2>1, FS_Subset
  <2> QED
    BY <2>2, FS_CardinalityType
<1>7. \A m, n \in S : Hash[c][m] < Hash[c][n] => m \in ahead[n]
  OBVIOUS
<1> HIDE DEF ahead, F, rank, size
<1>8. f \in Injection(F, 1..count)
  <2>1. \A n \in F : n \in S /\ rank(n) + 1 \in 1..count
    BY <1>4, <1>6
  <2>2. \A m, n \in F : rank(m) + 1 = rank(n) + 1 => m = n
    BY <1>4, <1>5, <1>6
  <2> QED
    BY <2>1, <2>2 DEF Injection, IsInjective
<1>9. IsFiniteSet(1..count) /\ Cardinality(1..count) = count
  BY FS_Interval
<1>10. Cardinality(F) <= count /\ (Cardinality(F) = count <=> f \in Surjection(F, 1..count))
  BY <1>8, <1>9, FS_Injection
<1>11. CASE size <= count
  <2>1. F = S
    BY <1>4, <1>5, <1>6, <1>11
  <2> QED
    BY <1>10, <2>1 DEF Lowest, F
<1>12. CASE count < size
  <2>1. ASSUME NEW k \in 1..count PROVE \E n \in F : f[n] = k
    <3>1. k \in 1..size /\ k - 1 < count /\ (k - 1) + 1 = k
      BY <1>5, <1>12
    <3>2. PICK n \in S : rank(n) = k - 1
      BY <1>5, <3>1
    <3>3. n \in F
      BY <1>4, <3>1, <3>2
    <3> QED
      BY <3>1, <3>2, <3>3
  <2>2. f \in [F -> 1..count]
    BY <1>8 DEF Injection
  <2> HIDE DEF f
  <2>3. Cardinality(F) = count
    BY <1>10, <2>1, <2>2 DEF Surjection
  <2>4. \A m \in S, n \in F : Hash[c][m] < Hash[c][n] => m \in F
    BY <1>4, <1>5, <1>6, <1>7
  <2> QED
    BY <1>4, <2>3, <2>4 DEF Lowest, F
<1> QED
  BY <1>5, <1>11, <1>12

LEMMA LowestIsOne ==
  ASSUME NEW c \in Contents, NEW S, S \subseteq Replicas, NEW count \in Nat,
         NEW F, NEW G, Lowest(F, c, S, count), Lowest(G, c, S, count)
  PROVE  F = G
<1>1. /\ \A n \in S : Hash[c][n] \in Nat
      /\ \A m, n \in S : m # n => Hash[c][m] # Hash[c][n]
  BY HashAssumption
<1>2. IsFiniteSet(F) /\ IsFiniteSet(G)
  BY FS_Subset, PlacementAssumption DEF Lowest
<1>3. F \subseteq G \/ G \subseteq F
  <2> SUFFICES ASSUME NEW x \in F \ G, NEW y \in G \ F PROVE FALSE
    OBVIOUS
  <2>1. x \in S /\ y \in S /\ x # y
    BY DEF Lowest
  <2>2. Hash[c][x] < Hash[c][y] \/ Hash[c][y] < Hash[c][x]
    BY <1>1, <2>1
  <2> QED
    BY <2>1, <2>2 DEF Lowest
<1>4. ASSUME NEW A, NEW B, Lowest(A, c, S, count), Lowest(B, c, S, count),
             IsFiniteSet(A), IsFiniteSet(B), A \subseteq B
      PROVE  A = B
  <2>1. A \in SUBSET B /\ Cardinality(A) \in Nat /\ Cardinality(B) \in Nat
    BY <1>4, FS_CardinalityType
  <2>2. Cardinality(A) <= Cardinality(B) /\ (Cardinality(B) = Cardinality(A) => B = A)
    BY <1>4, <2>1, FS_Subset
  <2>3. CASE A = S
    BY <1>4, <2>3 DEF Lowest
  <2>4. CASE Cardinality(A) = count
    <3>1. Cardinality(B) <= count
      BY <1>4 DEF Lowest
    <3> QED
      BY <2>1, <2>2, <2>4, <3>1
  <2> QED
    BY <1>4, <2>3, <2>4 DEF Lowest
<1> QED
  BY <1>2, <1>3, <1>4

\* A holder fails: the lowest of the others take its place.
Filling(c, A, H, count) == First(c, A \ H, count - (Cardinality(H) - 1))
Refilled(c, A, H, count, n) == (H \ {n}) \cup Filling(c, A, H, count)
LEMMA OneReplaced ==
  ASSUME NEW c \in Contents, NEW A, A \subseteq Replicas, NEW count \in Nat, NEW H,
         H \subseteq A, Cardinality(H) <= count, NEW n \in H
  PROVE  /\ Cardinality(H) \in Nat
         /\ Filling(c, A, H, count) \subseteq A \ H
         /\ Refilled(c, A, H, count, n) \subseteq A \ {n}
         /\ Cardinality(Refilled(c, A, H, count, n)) <= count
         /\ \/ Refilled(c, A, H, count, n) = A \ {n}
            \/ Cardinality(Refilled(c, A, H, count, n)) = count
         /\ \A x \in Filling(c, A, H, count), y \in (A \ H) \ Filling(c, A, H, count) :
              Hash[c][x] < Hash[c][y]
<1> DEFINE h == Cardinality(H)
           more == First(c, A \ H, count - (h - 1))
           G == (H \ {n}) \cup more
<1>1. IsFiniteSet(A) /\ IsFiniteSet(H)
  BY FS_Subset, PlacementAssumption
<1>2. h \in Nat /\ h <= count
  BY <1>1, FS_CardinalityType
<1>3. IsFiniteSet(H \ {n}) /\ Cardinality(H \ {n}) = h - 1
  BY <1>1, FS_RemoveElement
<1>4. h - 1 \in Nat
  BY <1>3, FS_CardinalityType
<1>5. count - (h - 1) \in Nat
  BY <1>2, <1>4
<1> HIDE DEF h
<1>6. Lowest(more, c, A \ H, count - (h - 1))
  BY <1>5, FirstLowest
<1> HIDE DEF more
<1>7. more \subseteq A \ H
  BY <1>6 DEF Lowest
<1>8. IsFiniteSet(more) /\ Cardinality(more) \in Nat
  <2>1. more \in SUBSET A
    BY <1>7
  <2> QED
    BY <1>1, <2>1, FS_Subset, FS_CardinalityType
<1>9. Cardinality(G) = (h - 1) + Cardinality(more)
  <2>1. Cardinality(G) =
          Cardinality(H \ {n}) + Cardinality(more) - Cardinality((H \ {n}) \cap more)
    BY <1>3, <1>8, FS_Union
  <2>2. (H \ {n}) \cap more = {}
    BY <1>7
  <2>3. Cardinality((H \ {n}) \cap more) = 0
    BY <2>2, FS_EmptySet
  <2> HIDE DEF G
  <2> QED
    BY <1>3, <1>4, <1>8, <2>1, <2>3
<1>10. Cardinality(G) <= count
  <2>1. Cardinality(more) <= count - (h - 1)
    BY <1>6 DEF Lowest
  <2> QED
    BY <1>4, <1>8, <1>9, <2>1
<1>11. G = A \ {n} \/ Cardinality(G) = count
  <2>1. CASE more = A \ H
    BY <2>1
  <2>2. CASE Cardinality(more) = count - (h - 1)
    BY <1>4, <1>9, <2>2
  <2> QED
    BY <1>6, <2>1, <2>2 DEF Lowest
<1>12. G \subseteq A \ {n}
  BY <1>7
<1>13. ASSUME NEW x \in more, NEW y \in (A \ H) \ more PROVE Hash[c][x] < Hash[c][y]
  <2>1. x \in Replicas /\ y \in Replicas /\ x # y /\ x \in A \ H
    BY <1>7
  <2>2. ~(Hash[c][y] < Hash[c][x])
    BY <1>6 DEF Lowest
  <2>3. Hash[c][x] \in Nat /\ Hash[c][y] \in Nat /\ Hash[c][x] # Hash[c][y]
    BY <2>1, HashAssumption
  <2> QED
    BY <2>2, <2>3
<1> HIDE DEF G
<1> QED
  BY <1>2, <1>7, <1>10, <1>11, <1>12, <1>13 DEF G, more, h, Filling, Refilled

\* A range and the numbers it is expanded to.
LEMMA NumbersOf ==
  ASSUME NEW r, r[1] \in Nat \cup {NaN}, r[2] \in Nat \cup {NaN}
  PROVE  /\ Numbers(r) \in Seq(Nat) /\ Distinct(Numbers(r))
         /\ \A k \in Nat : k \in ToSet(Numbers(r)) <=> InRange(k, r)
<1>1. CASE NaN \in {r[1], r[2]}
  <2>1. Numbers(r) = <<>> /\ \A k : ~InRange(k, r)
    BY <1>1 DEF Numbers, InRange
  <2>2. ToSet(<<>>) = {} /\ <<>> \in Seq(Nat) /\ Len(<<>>) = 0
    BY DEF ToSet
  <2> QED
    BY <2>1, <2>2 DEF Distinct
<1>2. CASE NaN \notin {r[1], r[2]}
  <2>1. r[1] \in Nat /\ r[2] \in Nat
    BY <1>2
  <2> DEFINE a == r[1]
             b == r[2]
  <2>2. Numbers(r) = IF a > b THEN <<>> ELSE [i \in 1..(b - a + 1) |-> a + i - 1]
    BY <1>2 DEF Numbers
  <2>3. \A k \in Nat : InRange(k, r) <=> a <= k /\ k <= b
    BY <1>2 DEF InRange
  <2> HIDE DEF a, b
  <2>4. a \in Nat /\ b \in Nat
    BY <2>1 DEF a, b
  <2>5. CASE a > b
    <3>1. ToSet(<<>>) = {} /\ <<>> \in Seq(Nat) /\ Len(<<>>) = 0
      BY DEF ToSet
    <3> QED
      BY <2>2, <2>3, <2>4, <2>5, <3>1 DEF Distinct
  <2>6. CASE a <= b
    <3> DEFINE s == [i \in 1..(b - a + 1) |-> a + i - 1]
    <3>1. Numbers(r) = s
      BY <2>2, <2>4, <2>6
    <3>2. b - a + 1 \in Nat /\ \A i \in 1..(b - a + 1) : a + i - 1 \in Nat
      BY <2>4, <2>6
    <3>3. s \in Seq(Nat) /\ Len(s) = b - a + 1
      BY <3>2
    <3>4. Distinct(s)
      BY <2>4, <3>2, <3>3 DEF Distinct
    <3>5. ToSet(s) = {a + i - 1 : i \in 1..(b - a + 1)}
      BY DEF ToSet
    <3> HIDE DEF s
    <3>6. \A k \in Nat : k \in ToSet(s) <=> a <= k /\ k <= b
      <4> SUFFICES ASSUME NEW k \in Nat PROVE k \in ToSet(s) <=> a <= k /\ k <= b
        OBVIOUS
      <4>1. k \in ToSet(s) => a <= k /\ k <= b
        BY <2>4, <3>5
      <4>2. ASSUME a <= k, k <= b PROVE k \in ToSet(s)
        <5>1. k - a + 1 \in 1..(b - a + 1) /\ a + (k - a + 1) - 1 = k
          BY <2>4, <4>2
        <5> QED
          BY <3>5, <5>1
      <4> QED
        BY <4>1, <4>2
    <3> QED
      BY <2>3, <3>1, <3>3, <3>4, <3>6
  <2> QED
    BY <2>4, <2>5, <2>6
<1> QED
  BY <1>1, <1>2

LEMMA WithinCount ==
  ASSUME NEW list, list \in Seq(Nat), Distinct(list), \A k \in ToSet(list) : k < ShardCount
  PROVE  Len(list) <= ShardCount
<1>1. ToSet(list) \in SUBSET (0..(ShardCount - 1)) /\ ShardCount \in Nat
  <2>1. ToSet(list) = {list[i] : i \in 1..Len(list)} /\ \A i \in 1..Len(list) : list[i] \in Nat
    BY DEF ToSet
  <2>2. \A k \in ToSet(list) : k \in Nat /\ k < ShardCount
    BY <2>1
  <2>3. ShardCount \in Nat
    BY PlacementAssumption
  <2> QED
    BY <2>2, <2>3
<1>2. IsFiniteSet(0..(ShardCount - 1)) /\ Cardinality(0..(ShardCount - 1)) = ShardCount
  BY PlacementAssumption, FS_Interval
<1>3. Cardinality(ToSet(list)) <= ShardCount
  BY <1>1, <1>2, FS_Subset
<1>4. Len(list) = Cardinality(ToSet(list))
  BY DistinctCount DEF Distinct
<1> QED
  BY <1>3, <1>4

\* However a configuration is parsed, its parts have the same form: ranges or numbers.
IsConfigured(a) ==
  \E n \in Nat :
    /\ a = [i \in 1..n |-> a[i]]
    /\ \/ \A i \in 1..n : Len(a[i]) = 1
       \/ \A i \in 1..n : Len(a[i]) = 2 /\ a[i][1] \in Nat \cup {NaN}
                          /\ a[i][2] \in Nat \cup {NaN}

LEMMA ParsedForm ==
  ASSUME NEW a \in Configured
  PROVE  IsConfigured(a)
<1>1. PICK p \in Assignments, bracket \in BOOLEAN : a = ParseShards(p, bracket)
  BY DEF Configured
<1>2. p \in Seq([1..1 -> Nat] \cup [1..2 -> Nat])
  BY PlacementAssumption
<1> DEFINE n == Len(p)
           ranges == \E i \in DOMAIN p : Len(p[i]) = 2
           first(i) == IF bracket /\ i = 1 THEN NaN ELSE p[i][1]
           second(i) == IF Len(p[i]) = 2 THEN p[i][2] ELSE NaN
<1>3. n \in Nat /\ DOMAIN p = 1..n
  BY <1>2
<1>4. a = [i \in 1..n |-> IF ~ranges THEN <<first(i)>> ELSE <<first(i), second(i)>>]
  BY <1>1, <1>3 DEF ParseShards
<1>5. ASSUME NEW i \in 1..n PROVE first(i) \in Nat \cup {NaN} /\ second(i) \in Nat \cup {NaN}
  <2>1. p[i] \in [1..1 -> Nat] \cup [1..2 -> Nat]
    BY <1>2, <1>3, <1>5
  <2>2. p[i][1] \in Nat
    BY <2>1
  <2>3. Len(p[i]) = 2 => p[i][2] \in Nat
    <3>1. CASE p[i] \in [1..2 -> Nat]
      BY <3>1
    <3>2. CASE p[i] \in [1..1 -> Nat]
      <4>1. Len(p[i]) = 1
        BY <3>2
      <4> QED
        BY <4>1
    <3> QED
      BY <2>1, <3>1, <3>2
  <2> QED
    BY <2>2, <2>3
<1> HIDE DEF first, second, ranges, n
<1>6. a = [i \in 1..n |-> a[i]]
  BY <1>4
<1>7. CASE ~ranges
  <2>1. \A i \in 1..n : a[i] = <<first(i)>>
    BY <1>4, <1>7
  <2>2. \A i \in 1..n : Len(a[i]) = 1
    BY <2>1
  <2> QED
    BY <1>3, <1>6, <2>2 DEF IsConfigured, n
<1>8. CASE ranges
  <2>1. \A i \in 1..n : a[i] = <<first(i), second(i)>>
    BY <1>4, <1>8
  <2>2. \A i \in 1..n : Len(a[i]) = 2 /\ a[i][1] = first(i) /\ a[i][2] = second(i)
    BY <2>1
  <2> QED
    BY <1>3, <1>5, <1>6, <2>2 DEF IsConfigured, n
<1> QED
  BY <1>7, <1>8

\* What a node is counted for is what it is responsible for.
LEMMA ExpandedAgrees ==
  ASSUME NEW a, IsConfigured(a), Proper(a), NEW k \in 0..(ShardCount - 1)
  PROVE  k \in ToSet(Expanded(a)) <=> Responsible(k, a)
<1>1. PICK n \in Nat :
        /\ a = [i \in 1..n |-> a[i]]
        /\ \/ \A i \in 1..n : Len(a[i]) = 1
           \/ \A i \in 1..n : Len(a[i]) = 2 /\ a[i][1] \in Nat \cup {NaN}
                              /\ a[i][2] \in Nat \cup {NaN}
  BY DEF IsConfigured
<1>2. DOMAIN a = 1..n
  BY <1>1
<1>0. CASE a = <<>>
  <2>1. ToSet(<<>>) = {}
    BY DEF ToSet
  <2> QED
    BY <1>0, <2>1 DEF Expanded, Responsible
<1>3. ASSUME a # <<>> PROVE n # 0
  BY <1>1, <1>3
<1>4. ASSUME a # <<>> PROVE k \in Nat /\ 1 \in 1..n
  BY <1>1, <1>3, <1>4, PlacementAssumption
<1>5. CASE a # <<>> /\ \A i \in 1..n : Len(a[i]) = 1
  <2>0. Len(a[1]) = 1
    <3>1. 1 \in 1..n
      BY <1>4, <1>5
    <3> QED
      BY <1>5, <3>1, Zenon
  <2>1. ~IsRanges(a)
    BY <2>0 DEF IsRanges
  <2>2. Expanded(a) = [i \in 1..n |-> a[i][1]]
    BY <1>2, <1>5, <2>1 DEF Expanded
  <2>3. ToSet(Expanded(a)) = {a[i][1] : i \in 1..n}
    BY <2>2 DEF ToSet
  <2>4. Responsible(k, a) <=> \E i \in 1..n : a[i][1] = k
    BY <1>2, <1>5, <2>1 DEF Responsible
  <2> QED
    BY <2>3, <2>4
<1>6. CASE /\ a # <<>>
           /\ \A i \in 1..n : Len(a[i]) = 2 /\ a[i][1] \in Nat \cup {NaN}
                              /\ a[i][2] \in Nat \cup {NaN}
  <2> DEFINE s == [i \in 1..n |-> Numbers(a[i])]
             list == FlattenSeq(s)
  <2>1. IsRanges(a)
    BY <1>4, <1>6 DEF IsRanges
  <2>2. Expanded(a) = SubSeq(list, 1, IF Len(list) > ShardCount THEN ShardCount ELSE Len(list))
    BY <1>2, <1>6, <2>1 DEF Expanded
  <2>3. Responsible(k, a) <=> \E i \in 1..n : InRange(k, a[i])
    BY <1>2, <1>6, <2>1 DEF Responsible
  <2>4. \A i \in 1..n : /\ Numbers(a[i]) \in Seq(Nat) /\ Distinct(Numbers(a[i]))
                        /\ \A x \in Nat : x \in ToSet(Numbers(a[i])) <=> InRange(x, a[i])
    BY <1>6, NumbersOf
  <2>5. /\ \A i \in 1..n : \A x \in ToSet(Numbers(a[i])) : x < ShardCount
        /\ \A i, j \in 1..n : i # j => ToSet(Numbers(a[i])) \cap ToSet(Numbers(a[j])) = {}
    BY <1>2, <1>6, <2>1 DEF Proper
  <2>6. s = [i \in 1..n |-> s[i]] /\ \A i \in 1..n : s[i] = Numbers(a[i])
    OBVIOUS
  <2> HIDE DEF s
  <2>7. list \in Seq(Nat) /\ Distinct(list) /\ MadeOf(list, s, n)
    <3>1. \A i \in 1..n : s[i] \in Seq(Nat) /\ Distinct(s[i])
      BY <2>4, <2>6
    <3>2. \A i, j \in 1..n : i # j => ToSet(s[i]) \cap ToSet(s[j]) = {}
      BY <2>5, <2>6
    <3> HIDE DEF list
    <3> QED
      BY <1>3, <1>6, <2>6, <3>1, <3>2, FlattenDistinct DEF list
  <2> HIDE DEF list
  <2>8. \A x \in ToSet(list) : x < ShardCount
    BY <2>5, <2>6, <2>7 DEF MadeOf
  <2>9. Len(list) <= ShardCount
    BY <2>7, <2>8, WithinCount
  <2>10. Expanded(a) = list
    <3>1. ShardCount \in Nat /\ Len(list) \in Nat
      BY <2>7, PlacementAssumption
    <3>2. Expanded(a) = SubSeq(list, 1, Len(list))
      BY <2>2, <2>9, <3>1
    <3> QED
      BY <2>7, <3>2
  <2>11. k \in ToSet(list) <=> \E i \in 1..n : k \in ToSet(Numbers(a[i]))
    BY <2>6, <2>7 DEF MadeOf
  <2> QED
    BY <1>4, <1>6, <2>3, <2>4, <2>10, <2>11
<1> QED
  BY <1>1, <1>0, <1>5, <1>6

\* The nodes that may hold the cid, and those of them that have its shard.
Usable == placed.active \ placed.low
UsableInShard == (placed.active \cap InShard(placed.cid, placed.shards)) \ placed.low

\* The holders come before every other node of the shard, and there are as many as wanted
\* unless no other node of the shard is left.
PlacedInv ==
  placed # NoPlacement =>
    /\ placed.cid \in Contents /\ placed.active \subseteq Replicas
    /\ placed.shards \in [Replicas -> Configured \cup {AnyShard}]
    /\ placed.holders \subseteq Usable
    /\ \A x \in placed.holders, y \in UsableInShard \ placed.holders :
         Hash[placed.cid][x] < Hash[placed.cid][y]
    /\ Cardinality(placed.holders) <= Wanted
    /\ UsableInShard \subseteq placed.holders \/ Cardinality(placed.holders) = Wanted

LEMMA PlaceFirstKeeps ==
  ASSUME NEW c \in Contents, PlaceFirst(c)
  PROVE  PlacedInv'
<1>1. PICK low \in SUBSET Replicas, shards \in [Replicas -> Configured \cup {AnyShard}] :
        placed' = [cid |-> c, shards |-> shards, low |-> low, active |-> Replicas,
                   holders |-> PlaceOn(c, shards, low, Replicas)]
  BY DEF PlaceFirst
<1> DEFINE S == (Replicas \cap InShard(c, shards)) \ low
           H == First(c, S, Wanted)
<1>2. PlaceOn(c, shards, low, Replicas) = H
  <2>1. low \cup {} = low
    OBVIOUS
  <2> QED
    BY <2>1 DEF PlaceOn, SelectInShard, Select
<1>3. S \subseteq Replicas \ low /\ Wanted \in Nat
  BY PlacementAssumption
<1>4. /\ placed'.cid = c /\ placed'.shards = shards /\ placed'.low = low
      /\ placed'.active = Replicas /\ placed'.holders = H
  BY <1>1, <1>2
<1>5. UsableInShard' = S /\ Usable' = Replicas \ low
  BY <1>4 DEF UsableInShard, Usable
<1> HIDE DEF S
<1>6. Lowest(H, c, S, Wanted)
  BY <1>3, FirstLowest
<1> HIDE DEF H
<1>7. ASSUME NEW x \in H, NEW y \in S \ H PROVE Hash[c][x] < Hash[c][y]
  <2>1. x \in S /\ ~(Hash[c][y] < Hash[c][x])
    BY <1>6 DEF Lowest
  <2>2. x \in Replicas /\ y \in Replicas /\ x # y
    BY <1>3, <2>1
  <2>3. Hash[c][x] \in Nat /\ Hash[c][y] \in Nat /\ Hash[c][x] # Hash[c][y]
    BY <2>2, HashAssumption
  <2> QED
    BY <2>1, <2>3
<1>8. H \subseteq S /\ Cardinality(H) <= Wanted /\ (S \subseteq H \/ Cardinality(H) = Wanted)
  BY <1>6 DEF Lowest
<1> QED
  BY <1>3, <1>4, <1>5, <1>7, <1>8 DEF PlacedInv

LEMMA HolderFailsKeeps ==
  ASSUME NEW n \in Replicas, HolderFails(n), PlacedInv
  PROVE  PlacedInv'
<1>1. PICK p : p = placed
  OBVIOUS
<1> DEFINE c == p.cid
           H == p.holders
           A == p.active \ p.low
           inShard == InShard(c, p.shards)
           S == (p.active \cap inShard) \ p.low
           more == Replacements(c, p.active \ {n}, p.low, Wanted, H, {n})
           G == (H \ {n}) \cup more
<1>2. /\ placed # NoPlacement /\ n \in H
      /\ placed' = [p EXCEPT !.active = p.active \ {n}, !.holders = G]
  BY <1>1 DEF HolderFails
<1>3. /\ c \in Contents /\ p.active \subseteq Replicas
      /\ p.shards \in [Replicas -> Configured \cup {AnyShard}] /\ H \subseteq A
      /\ \A x \in H, y \in S \ H : Hash[c][x] < Hash[c][y]
      /\ Cardinality(H) <= Wanted
  BY <1>1, <1>2 DEF PlacedInv, Usable, UsableInShard
<1>4. A \subseteq Replicas /\ Wanted \in Nat /\ S \subseteq A
  BY <1>3, PlacementAssumption
<1>5. Cardinality({n}) = 1
  BY FS_Singleton
<1>6. (p.active \ {n}) \ (p.low \cup (H \cup {n})) = A \ H
  BY <1>2
<1>7. /\ (p.active \ {n}) \ p.low = A \ {n}
      /\ ((p.active \ {n}) \cap inShard) \ p.low = S \ {n}
  OBVIOUS
<1> HIDE DEF A, S, inShard
<1> DEFINE chosen == Filling(c, A, H, Wanted)
           K == Refilled(c, A, H, Wanted, n)
<1>8. /\ Cardinality(H) \in Nat
      /\ chosen \subseteq A \ H /\ K \subseteq A \ {n}
      /\ Cardinality(K) <= Wanted /\ (K = A \ {n} \/ Cardinality(K) = Wanted)
      /\ \A x \in chosen, y \in (A \ H) \ chosen : Hash[c][x] < Hash[c][y]
  <2>1. c \in Contents /\ H \subseteq A /\ Cardinality(H) <= Wanted /\ n \in H
    BY <1>2, <1>3
  <2> HIDE DEF c, H
  <2> QED
    BY <1>4, <2>1, OneReplaced
<1>9. more = chosen
  <2>1. ~(Cardinality(H) - Cardinality({n}) >= Wanted)
    BY <1>3, <1>4, <1>5, <1>8
  <2>2. more = Select(c, p.active \ {n}, p.low, Wanted - (Cardinality(H) - Cardinality({n})),
                      H \cup {n})
    BY <2>1 DEF Replacements
  <2> QED
    BY <1>5, <1>6, <2>2 DEF Select, Filling
<1>10. G = K
  BY <1>9 DEF Refilled
<1> HIDE DEF more
<1>11. /\ placed'.cid = c /\ placed'.shards = p.shards /\ placed'.low = p.low
       /\ placed'.active = p.active \ {n} /\ placed'.holders = K
  BY <1>1, <1>2, <1>10 DEF PlacedInv
<1>12. Usable' = A \ {n} /\ UsableInShard' = S \ {n}
  BY <1>7, <1>11 DEF Usable, UsableInShard, inShard
<1>13. K = (H \ {n}) \cup chosen
  BY DEF Refilled
<1> HIDE DEF chosen, K
<1>14. ASSUME NEW x \in K, NEW y \in (S \ {n}) \ K PROVE Hash[c][x] < Hash[c][y]
  <2>1. y \in S \ H /\ y \in (A \ H) \ chosen
    BY <1>4, <1>13
  <2> QED
    BY <1>3, <1>8, <1>13, <2>1
<1>15. S \ {n} \subseteq K \/ Cardinality(K) = Wanted
  BY <1>4, <1>8
<1> QED
  BY <1>3, <1>8, <1>11, <1>12, <1>14, <1>15 DEF PlacedInv

LEMMA PlacedInvAgrees == PlacedInv => PlacementAgrees
<1> SUFFICES ASSUME PlacedInv, placed # NoPlacement
             PROVE  ReplacedAsSelected /\ CoveredAsHeld
  BY DEF PlacementAgrees
<1> DEFINE c == placed.cid
           H == placed.holders
           S == UsableInShard
           kept == H \cap S
<1>1. /\ c \in Contents /\ placed.active \subseteq Replicas
      /\ placed.shards \in [Replicas -> Configured \cup {AnyShard}]
      /\ H \subseteq Usable /\ Cardinality(H) <= Wanted
      /\ S \subseteq H \/ Cardinality(H) = Wanted
      /\ \A x \in H, y \in S \ H : Hash[c][x] < Hash[c][y]
  BY DEF PlacedInv
<1>2. S \subseteq Replicas /\ Wanted \in Nat
  BY <1>1, PlacementAssumption DEF UsableInShard
<1>3. PlaceOn(c, placed.shards, placed.low, placed.active) = First(c, S, Wanted)
  <2>1. placed.low \cup {} = placed.low
    OBVIOUS
  <2> QED
    BY <2>1 DEF PlaceOn, SelectInShard, Select, UsableInShard
<1> HIDE DEF S
<1>4. ASSUME NEW m \in S, NEW x \in kept, Hash[c][m] < Hash[c][x] PROVE m \in kept
  <2> SUFFICES ASSUME m \notin H PROVE FALSE
    OBVIOUS
  <2>1. Hash[c][x] < Hash[c][m]
    BY <1>1
  <2>2. Hash[c][x] \in Nat /\ Hash[c][m] \in Nat
    BY <1>1, <1>2, HashAssumption
  <2> QED
    BY <1>4, <2>1, <2>2
<1>5. kept = First(c, S, Cardinality(kept))
  <2>1. Cardinality(kept) \in Nat
    BY <1>2, PlacementAssumption, FS_Subset, FS_CardinalityType
  <2>2. Lowest(kept, c, S, Cardinality(kept))
    BY <1>4, <2>1 DEF Lowest
  <2> HIDE DEF kept
  <2> QED
    BY <1>1, <1>2, <2>1, <2>2, FirstLowest, LowestIsOne
<1>6. ASSUME Usable \subseteq S PROVE H = First(c, S, Wanted)
  <2>1. kept = H
    BY <1>1, <1>6
  <2>2. Lowest(H, c, S, Wanted)
    BY <1>1, <1>4, <2>1 DEF Lowest
  <2> QED
    BY <1>1, <1>2, <2>2, FirstLowest, LowestIsOne
<1>7. CoveredAsHeld
  <2> SUFFICES ASSUME \A n \in Replicas : placed.shards[n] # AnyShard => Proper(placed.shards[n])
               PROVE  Covered(placed.shards) =
                        {k \in 0..(ShardCount - 1) : EligibleFor(k, placed.shards) # {}}
    BY DEF CoveredAsHeld
  <2>1. DOMAIN placed.shards = Replicas
    BY <1>1
  <2>2. ASSUME NEW k \in 0..(ShardCount - 1), NEW n \in Replicas, placed.shards[n] # AnyShard
        PROVE  k \in ToSet(Expanded(placed.shards[n])) <=> Responsible(k, placed.shards[n])
    <3>1. placed.shards[n] \in Configured
      BY <1>1, <2>2
    <3>2. IsConfigured(placed.shards[n]) /\ Proper(placed.shards[n])
      BY <2>2, <3>1, ParsedForm
    <3> QED
      BY <3>2, ExpandedAgrees
  <2> QED
    BY <2>1, <2>2 DEF Covered, EligibleFor
<1> QED
  BY <1>3, <1>6, <1>7, <1>5 DEF ReplacedAsSelected, S, Usable, UsableInShard

\* sharding.ts and node-selection.ts: for any nodes, shards and failures, the holders that
\* have the shard of the cid come first in a selection among the nodes left, all holders are
\* that selection when every node has the shard, and the statistics count the shards that
\* some node is eligible for.
THEOREM PlacementsAgree == PlacementSpec => []PlacementAgrees
<1>1. PlacementInit => PlacedInv
  BY DEF PlacementInit, PlacedInv
<1>2. PlacedInv /\ [PlacementNext]_placed => PlacedInv'
  <2>1. ASSUME PlacedInv, PlacementNext PROVE PlacedInv'
    BY <2>1, PlaceFirstKeeps, HolderFailsKeeps DEF PlacementNext
  <2>2. ASSUME PlacedInv, UNCHANGED placed PROVE PlacedInv'
    BY <2>2 DEF PlacedInv, Usable, UsableInShard
  <2> QED
    BY <2>1, <2>2
<1>3. PlacedInv => PlacementAgrees
  BY PlacedInvAgrees
<1> QED
  BY <1>1, <1>2, <1>3, PTL DEF PlacementSpec

===============================================================================
