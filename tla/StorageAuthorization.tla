------------------------- MODULE StorageAuthorization -------------------------
(***************************************************************************)
(* verifyAuthorization of services/storage-authorization.service.ts: when a  *)
(* signed storage request is accepted, and how long its nonce is kept.       *)
(*                                                                         *)
(* A request is checked in two synchronous parts: one from the answer of the *)
(* app registry to the call of the contract that knows the sender, one from  *)
(* the answer of that contract.  Date.now() is read in each.  What the       *)
(* contracts answer, and whether the signature is valid, is not decided by   *)
(* this code: either answer may come.                                        *)
(***************************************************************************)
EXTENDS Naturals, FiniteSets

CONSTANTS
  Auths,        \* signed authorizations
  Nonces,       \* a signer's address and a nonce
  NonceOf,      \* those of each authorization
  Spellings,    \* of an address: it is written in hexadecimal digits
  Procs,        \* requests in flight at once
  NoAuth,       \* "serves no request"
  Tolerance,    \* TIMESTAMP_TOLERANCE_MS
  NonceExpiry,  \* NONCE_EXPIRY_MS
  MaxTime,      \* bound on the clock
  MaxRestarts   \* bound on the restarts of the node

ASSUME AuthAssumption == NonceOf \in [Auths -> Nonces] /\ NoAuth \notin Auths \X Spellings
\* 5 and 10 minutes
ASSUME WindowAssumption ==
  /\ Tolerance \in Nat /\ NonceExpiry \in Nat
  /\ NonceExpiry >= Tolerance + Tolerance
ASSUME BoundAssumption ==
  MaxTime \in Nat /\ MaxRestarts \in Nat

VARIABLES
  now,          \* Date.now()
  stamp,        \* the timestamp each authorization was signed with
  usedNonces,   \* the recorded keys
  recordedAt,   \* and when each was recorded
  pc, auth,     \* what each request awaits, and what it bears
  restarts,
  \* history, since the last start
  accepted,     \* how often each authorization was accepted in each spelling
  raced         \* keys that passed the check while another request with the
                \* same key awaited the contract
vars == <<now, stamp, usedNonces, recordedAt, pc, auth, restarts,
          accepted, raced>>

\* The text that is signed has no sender, and the signer is compared with the sender
\* in lower case; the nonce is kept under the sender as it was sent.
Sent == Auths \X Spellings
Keys == Nonces \X Spellings
KeyOf(x) == <<NonceOf[x[1]], x[2]>>
Key(p) == KeyOf(auth[p])

TypeOK ==
  /\ now \in 0..MaxTime /\ stamp \in [Auths -> 0..MaxTime]
  /\ usedNonces \subseteq Keys /\ recordedAt \in [Keys -> 0..now]
  /\ pc \in [Procs -> {"idle", "registry", "chain"}]
  /\ auth \in [Procs -> Sent \cup {NoAuth}]
  /\ \A p \in Procs : pc[p] # "idle" => auth[p] \in Sent
  /\ restarts \in 0..MaxRestarts
  /\ accepted \in [Sent -> Nat] /\ raced \subseteq Keys

\* Math.abs(now - timestamp) <= TIMESTAMP_TOLERANCE_MS
InTolerance(t) == t <= now + Tolerance /\ now <= t + Tolerance

-----------------------------------------------------------------------------
(* Requests.                                                                 *)

Ends(p) == /\ pc' = [pc EXCEPT ![p] = "idle"]
           /\ auth' = [auth EXCEPT ![p] = NoAuth]

\* A request arrives and awaits AppRegistry.isAuthorized.
Arrive(p, x) ==
  /\ pc[p] = "idle"
  /\ pc' = [pc EXCEPT ![p] = "registry"]
  /\ auth' = [auth EXCEPT ![p] = x]
  /\ UNCHANGED <<now, stamp, usedNonces, recordedAt, restarts, accepted, raced>>

\* The app registry says no or fails, the content hash or the signature is
\* wrong, or the contract call fails or says no.
Reject(p) ==
  /\ pc[p] # "idle" /\ Ends(p)
  /\ UNCHANGED <<now, stamp, usedNonces, recordedAt, restarts, accepted, raced>>

\* The timestamp and the nonce are checked now, the contract is asked next.
Check(p) ==
  /\ pc[p] = "registry" /\ InTolerance(stamp[auth[p][1]])
  /\ Key(p) \notin usedNonces
  /\ pc' = [pc EXCEPT ![p] = "chain"]
  /\ raced' = IF \E q \in Procs : pc[q] = "chain" /\ Key(q) = Key(p)
              THEN raced \cup {Key(p)} ELSE raced
  /\ UNCHANGED <<now, stamp, usedNonces, recordedAt, auth, restarts, accepted>>

\* The nonce is used from now on.
Recorded(p) == /\ usedNonces' = usedNonces \cup {Key(p)}
               /\ accepted' = [accepted EXCEPT ![auth[p]] = @ + 1]
               /\ Ends(p)

\* Mutant: the nonce is recorded with the time it was signed at.
AcceptStamped(p) ==
  /\ pc[p] = "chain" /\ Recorded(p)
  /\ recordedAt' = [recordedAt EXCEPT ![Key(p)] = stamp[auth[p][1]]]
  /\ UNCHANGED <<now, stamp, restarts, raced>>

\* The contract says yes: the nonce is recorded.
Accept(p) ==
  /\ pc[p] = "chain" /\ Recorded(p)
  /\ recordedAt' = [recordedAt EXCEPT ![Key(p)] = now]
  /\ UNCHANGED <<now, stamp, restarts, raced>>

-----------------------------------------------------------------------------
(* Time.                                                                     *)

Tick ==
  /\ now < MaxTime /\ now' = now + 1
  /\ UNCHANGED <<stamp, usedNonces, recordedAt, pc, auth, restarts, accepted, raced>>

\* Mutant: a nonce is kept for the tolerance only.
ExpiredEarly == {k \in usedNonces : recordedAt[k] + Tolerance < now}

Expired == {k \in usedNonces : recordedAt[k] + NonceExpiry < now}

\* cleanupExpiredNonces, on its interval.
Cleanup ==
  /\ Expired # {}
  /\ usedNonces' = usedNonces \ Expired
  /\ UNCHANGED <<now, stamp, recordedAt, pc, auth, restarts, accepted, raced>>

\* The nonces are in memory only.
Restart ==
  /\ restarts < MaxRestarts
  /\ restarts' = restarts + 1
  /\ usedNonces' = {} /\ accepted' = [x \in Sent |-> 0] /\ raced' = {}
  /\ recordedAt' = [k \in Keys |-> 0]
  /\ pc' = [p \in Procs |-> "idle"] /\ auth' = [p \in Procs |-> NoAuth]
  /\ UNCHANGED <<now, stamp>>

-----------------------------------------------------------------------------
Init ==
  /\ now = 0 /\ stamp \in [Auths -> 0..MaxTime]
  /\ usedNonces = {} /\ recordedAt = [k \in Keys |-> 0]
  /\ pc = [p \in Procs |-> "idle"] /\ auth = [p \in Procs |-> NoAuth]
  /\ restarts = 0 /\ accepted = [x \in Sent |-> 0] /\ raced = {}

Next ==
  \/ \E p \in Procs :
       \/ \E x \in Sent : Arrive(p, x)
       \/ Reject(p) \/ Check(p) \/ Accept(p)
  \/ Tick \/ Cleanup \/ Restart

Spec == Init /\ [][Next]_vars

-----------------------------------------------------------------------------
(* Properties.                                                               *)

\* What the nonces of storage-authorization.service.ts:330-359 give: under one
\* spelling of its sender an authorization is accepted once between two starts
\* of the node, unless its key passed the check twice before the contract had
\* answered.  The clean-up never forgets a nonce while its timestamp can still
\* pass, however long the contract took and however far ahead the signer's clock
\* is.  Under another spelling the code accepts the authorization again.
AcceptedOnce ==
  \A x \in Sent : accepted[x] <= 1 \/ KeyOf(x) \in raced

=============================================================================
