----------------------------- MODULE NodeDiscovery -----------------------------
(***************************************************************************)
(* services/node-discovery.service.ts: what is observed of the nodes, the    *)
(* bans and the choice of nodes for an upload.  The clock counts in units of *)
(* a short ban, latencies in seconds.  Proof freshness is never set by the   *)
(* code, so that part of the score is 0; no shard is asked for.              *)
(***************************************************************************)
EXTENDS Naturals, FiniteSets

CONSTANTS
  Nodes,
  NoRecord,
  Latencies,    \* of the answers, none 0
  ShortBan, LongBan,  \* SOFT_10MIN, SOFT_1HOUR
  Expiry,       \* CACHE_EXPIRY_MS
  Listed,       \* the place of a node in the list the caller has
  UploadCount,  \* how many nodes it wants
  MaxLatency,   \* maxLatency in calculateLatencyScore: 5
  MaxClock, MaxReports

\* NodeMisbehavior and NodeObservations, as far as a decision reads them.
BanRecords == [proofs : Nat, until : Nat, permanent : BOOLEAN]
Observations == [requests : Nat, failures : Nat, good : Nat, total : Nat, at : Nat]

ASSUME DiscoveryAssumption ==
  /\ NoRecord \notin BanRecords /\ NoRecord \notin Observations /\ ShortBan <= LongBan
  /\ Latencies \subseteq Nat \ {0} /\ MaxLatency \in Nat \ {0}
  /\ ShortBan \in Nat /\ LongBan \in Nat /\ Expiry \in Nat /\ MaxClock \in Nat /\ MaxReports \in Nat

VARIABLES
  clock,
  obs,      \* this.observations
  record,   \* this.misbehavior
  asked,    \* the nodes that discoverNodes still waits for, or NoRecord
  reports,  \* how many calls there were
  caught,   \* history: until when the reports of a node keep it out
  failing   \* history: nodes whose third or later failure has been recorded

discoveryVars == <<clock, obs, record, asked, reports, caught, failing>>

Forever == MaxClock + LongBan + 1
FreshRecord == [proofs |-> 0, until |-> 0, permanent |-> FALSE]

DiscoveryInit ==
  /\ clock = 0 /\ obs = [n \in Nodes |-> NoRecord] /\ record = [n \in Nodes |-> NoRecord]
  /\ asked = NoRecord /\ reports = 0 /\ caught = [n \in Nodes |-> 0] /\ failing = {}

\* updateObservations: good is the numerator of successRate, total of avgLatency.
NewObs == [requests |-> 0, failures |-> 0, good |-> 0, total |-> 0, at |-> clock]
ObservedWith(o, success, latency, rateFirst) ==
  LET failures == IF success THEN o.failures ELSE o.failures + 1
  IN [o EXCEPT !.requests = @ + 1, !.failures = failures, !.total = @ + latency,
               !.good = o.requests + 1 - (IF rateFirst THEN o.failures ELSE failures)]
ObservedRateFirst(o, success, latency) == ObservedWith(o, success, latency, TRUE)
Observed(o, success, latency) == ObservedWith(o, success, latency, FALSE)
UpdateObservations(n, success, latency) ==
  obs' = [obs EXCEPT ![n] = Observed(IF @ = NoRecord THEN NewObs ELSE @, success, latency)]

Count == reports < MaxReports /\ reports' = reports + 1

RecordSuccess(n, latency) ==
  /\ UpdateObservations(n, TRUE, latency)
  /\ UNCHANGED <<record, caught, failing>>

\* recordFailure: from the third failure on applyBan, which does nothing for a node
\* without a record and replaces any other end of its ban.
RecordFailure(n) ==
  /\ UpdateObservations(n, FALSE, 0)
  /\ IF obs'[n].failures >= 3
     THEN /\ failing' = failing \cup {n}
          /\ record' = IF record[n] = NoRecord THEN record
                       ELSE [record EXCEPT ![n].until = clock + ShortBan]
     ELSE UNCHANGED <<record, failing>>
  /\ UNCHANGED caught

\* What a report makes of a record: a ban that grows with the invalid proofs, one
\* for good for a wrong cid or blob, nothing for a timeout.
Banned(r, type) ==
  LET proofs == r.proofs + 1
  IN CASE type = "invalid_proof" ->
            IF proofs >= 3 THEN [r EXCEPT !.proofs = proofs, !.permanent = TRUE]
            ELSE [r EXCEPT !.proofs = proofs,
                           !.until = clock + (IF proofs = 1 THEN ShortBan ELSE LongBan)]
       [] type \in {"cid_mismatch", "corrupt_blob"} -> [r EXCEPT !.permanent = TRUE]
       [] OTHER -> r

ReportedLate(r, type) == IF r = NoRecord THEN FreshRecord ELSE Banned(r, type)
\* A node without a record gets one first: applyBan changes only what the map has.
Reported(r, type) == Banned(IF r = NoRecord THEN FreshRecord ELSE r, type)

\* History: until when a report keeps a node out, by the comments on the bans.
Sentence(old, type) ==
  CASE type = "timeout" -> 0
    [] type = "invalid_proof" /\ (old = NoRecord \/ old.proofs = 0) -> clock + ShortBan
    [] type = "invalid_proof" /\ old # NoRecord /\ old.proofs = 1 -> clock + LongBan
    [] OTHER -> Forever
Later(a, b) == IF a > b THEN a ELSE b

RecordMisbehavior(n, type) ==
  /\ record' = [record EXCEPT ![n] = Reported(@, type)]
  /\ caught' = [caught EXCEPT ![n] = Later(@, Sentence(record[n], type))]
  /\ UNCHANGED <<obs, failing>>

\* The callers of the record functions come when they like.
Report ==
  /\ Count
  /\ \E n \in Nodes :
       \/ \E latency \in Latencies : RecordSuccess(n, latency)
       \/ RecordFailure(n)
       \/ \E type \in {"invalid_proof", "cid_mismatch", "corrupt_blob", "timeout"} :
            RecordMisbehavior(n, type)
  /\ UNCHANGED <<clock, asked>>

\* discoverNodes asks all active nodes at once.
DiscoverNodes(active) ==
  /\ asked = NoRecord /\ active # {} /\ asked' = active
  /\ UNCHANGED <<clock, obs, record, reports, caught, failing>>

\* fetchNodeMetadata: an answer, an answer under another id, or an error.
Answer(n) ==
  /\ asked # NoRecord /\ n \in asked /\ asked' = asked \ {n} /\ Count
  /\ \/ RecordSuccess(n, 0)
     \/ RecordMisbehavior(n, "cid_mismatch")
     \/ RecordFailure(n)
  /\ UNCHANGED clock

\* cleanExpiredCache, when all have answered.
CleanExpired ==
  /\ asked = {} /\ asked' = NoRecord
  /\ obs' = [n \in Nodes |-> IF obs[n] # NoRecord /\ clock - obs[n].at > Expiry THEN NoRecord
                             ELSE obs[n]]
  /\ UNCHANGED <<clock, record, reports, caught, failing>>

PassTime ==
  /\ clock < MaxClock /\ clock' = clock + 1
  /\ UNCHANGED <<obs, record, asked, reports, caught, failing>>

DiscoveryNext ==
  \/ Report \/ CleanExpired \/ PassTime
  \/ \E active \in SUBSET Nodes : DiscoverNodes(active)
  \/ \E n \in Nodes : Answer(n)

DiscoverySpec == DiscoveryInit /\ [][DiscoveryNext]_discoveryVars

\* calculateNodeScore, times the number of requests; 0 while banned or not observed.
Barred(n) == record[n] # NoRecord /\ (record[n].permanent \/ clock < record[n].until)
LatencyPart(o) ==
  IF o.total = 0 THEN 10 * o.requests
  ELSE IF o.total > MaxLatency * o.requests THEN 0
  ELSE 20 * o.requests - (20 * o.total) \div MaxLatency
Weight(o) == 20 * o.good + LatencyPart(o) + 10 * o.requests
ScoreLess(o, p) ==
  \/ o = NoRecord /\ p # NoRecord
  \/ o # NoRecord /\ p # NoRecord /\ Weight(o) * p.requests < Weight(p) * o.requests

\* selectUploadNodes, with ties in the order of the registry.
Eligible == {n \in Nodes : ~Barred(n)}
Better(m, n) ==
  ScoreLess(obs[n], obs[m]) \/ (~ScoreLess(obs[m], obs[n]) /\ Listed[m] < Listed[n])
SelectUploadNodes ==
  {n \in Eligible : Cardinality({m \in Eligible : Better(m, n)}) < UploadCount}

-----------------------------------------------------------------------------
\* A node that was reported is not chosen before its ban is over, and never after a
\* wrong cid or blob or a third invalid proof: whatever answers, discoveries and
\* expiring observations come between. Only the ten minutes of a repeated failure
\* can end an hour's ban early.
CaughtNeverSelected ==
  \A n \in SelectUploadNodes :
    clock < caught[n] => n \in failing /\ caught[n] # Forever

\* The first failure of a node that answered every request does not raise its
\* score, although it goes into the mean latency as an answer that took no time.
FailureNoGain ==
  [][\A n \in Nodes :
       obs[n] # NoRecord /\ obs[n].failures = 0 /\ obs'[n] # NoRecord /\ obs'[n].failures = 1
         => ~ScoreLess(obs[n], obs'[n])]_discoveryVars

===============================================================================
