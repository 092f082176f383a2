------------------------------- MODULE Consensus -------------------------------
(***************************************************************************)
(* services/consensus.service.ts: a client asks several random holders of a  *)
(* blob for it, hashes what they send and takes the hash that most of them   *)
(* sent; without a consensus it asks others. The audit log is left out.      *)
(***************************************************************************)
EXTENDS Naturals, FiniteSets

CONSTANTS
  Holders,      \* availableNodes of the call
  PanelSize,    \* replicationFactor
  MaxTries,     \* maxRetries
  RightHash, WrongHashes,
  Refusal, Failure,  \* null instead of the blob; an error or a timeout
  NoReply, NoVerdict

\* ConsensusResult: what one attempt came to.
Verdicts == [consensus : BOOLEAN, accepted : {RightHash, Failure} \cup WrongHashes,
             matching : Nat, asked : Nat]

ASSUME ConsensusAssumption ==
  /\ IsFiniteSet(Holders) /\ PanelSize \in Nat \ {0} /\ MaxTries \in Nat
  /\ RightHash \notin WrongHashes
  /\ NoReply \notin {RightHash, Refusal, Failure} \cup WrongHashes
  /\ NoVerdict \notin Verdicts

VARIABLES
  pool,      \* availableNodes now
  panel,     \* the nodes of this attempt
  reply,     \* what they sent so far
  tries,
  dispute,   \* disputes.get(cid): the hashes and who sent them
  suspects,  \* nodes with a censorship event
  verdict,   \* the result of the last attempt
  struck     \* history: the nodes taken out of the pool

consensusVars == <<pool, panel, reply, tries, dispute, suspects, verdict, struck>>

HashesSent == {RightHash} \cup WrongHashes
Replies == HashesSent \cup {Refusal, Failure}
NoReplies == [n \in Holders |-> NoReply]

ConsensusInit ==
  /\ pool = Holders /\ panel = {} /\ reply = NoReplies /\ tries = 0
  /\ dispute = {} /\ suspects = {} /\ verdict = NoVerdict /\ struck = {}

Agreed == verdict # NoVerdict /\ verdict.consensus

\* selectRandomNodes: a shuffle, so any set of that size.
SelectRandomNodes ==
  /\ ~Agreed /\ tries < MaxTries /\ panel = {} /\ pool # {}
  /\ \E chosen \in SUBSET pool :
       /\ Cardinality(chosen) = IF Cardinality(pool) < PanelSize THEN Cardinality(pool)
                                ELSE PanelSize
       /\ panel' = chosen
  /\ UNCHANGED <<pool, reply, tries, dispute, suspects, verdict, struck>>

\* One of the parallel fetches; what is not a blob is a censorship event.
Fetched(n) ==
  /\ n \in panel /\ reply[n] = NoReply
  /\ \E r \in Replies :
       /\ reply' = [reply EXCEPT ![n] = r]
       /\ suspects' = IF r \in {Refusal, Failure} THEN suspects \cup {n} ELSE suspects
  /\ UNCHANGED <<pool, panel, tries, dispute, verdict, struck>>

\* performConsensus
Senders(h) == {n \in panel : reply[n] = h}
Votes(h) == Cardinality(Senders(h))
Leading == {h \in HashesSent : Votes(h) > 0 /\ \A g \in HashesSent : Votes(g) <= Votes(h)}
EnoughOfHalf(votes, asked) == votes >= 2 \/ 2 * votes >= asked
Enough(votes, asked) == votes >= 2 \/ 2 * votes > asked

\* Of the hashes that most nodes sent the first one is taken, and the nodes come in
\* the order of the shuffle.
PerformConsensus ==
  /\ panel # {} /\ \A n \in panel : reply[n] # NoReply
  /\ \/ \E h \in Leading :
          verdict' = [consensus |-> Enough(Votes(h), Cardinality(panel)), accepted |-> h,
                      matching |-> Votes(h), asked |-> Cardinality(panel)]
     \/ /\ Leading = {}
        /\ verdict' = [consensus |-> FALSE, accepted |-> Failure, matching |-> 0,
                       asked |-> Cardinality(panel)]
  /\ LET censoring == Senders(Refusal) \cup Senders(Failure)
         disputed == (panel \ censoring) \ Senders(verdict'.accepted)
         sent == {h \in HashesSent : Votes(h) > 0}
     IN /\ dispute' = IF Cardinality(sent) > 1 THEN {<<h, Senders(h)>> : h \in sent} ELSE dispute
        /\ IF verdict'.consensus THEN UNCHANGED <<pool, struck, tries>>
           ELSE /\ pool' = pool \ (censoring \cup disputed)
                /\ struck' = struck \cup censoring \cup disputed
                /\ tries' = tries + 1
  /\ panel' = {} /\ reply' = NoReplies
  /\ UNCHANGED suspects

\* With nobody left the remaining attempts are made of no node.
AskNobody ==
  /\ ~Agreed /\ tries < MaxTries /\ panel = {} /\ pool = {} /\ tries' = tries + 1
  /\ verdict' = [consensus |-> FALSE, accepted |-> Failure, matching |-> 0, asked |-> 0]
  /\ UNCHANGED <<pool, panel, reply, dispute, suspects, struck>>

ConsensusNext ==
  \/ SelectRandomNodes \/ PerformConsensus \/ AskNobody
  \/ \E n \in Holders : Fetched(n)

ConsensusSpec == ConsensusInit /\ [][ConsensusNext]_consensusVars

-----------------------------------------------------------------------------
\* fetchWithAntiCensorship takes the word of a single node only when every other
\* holder has refused, failed or been outvoted in an earlier attempt, or when the
\* caller wanted one replica; the node it takes it from was never struck itself, and
\* who is suspected or outvoted without a consensus is not asked again.
LoneVoice ==
  /\ Agreed /\ verdict.matching = 1 => PanelSize = 1 \/ Cardinality(Holders \ struck) = 1
  /\ panel \cap struck = {}
  /\ \A n \in suspects : n \in struck \cup panel \/ Agreed

===============================================================================
