---------------------- MODULE StorageAuthorizationProofs ----------------------
(***************************************************************************)
(* The nonce window of StorageAuthorization, for any authorizations, keys,   *)
(* clock readings and expiry times with NonceExpiry >= 2 * Tolerance.        *)
(***************************************************************************)
EXTENDS StorageAuthorization, TLAPS

\* When what x bears was signed
Signed(x) == stamp[x[1]]

\* The nonce of an accepted authorization is on record, recently enough to
\* outlive its timestamp, or the timestamp is already too old to pass.
WindowInv ==
  \A x \in Sent : accepted[x] > 0 =>
    \/ /\ KeyOf(x) \in usedNonces
       /\ Signed(x) <= recordedAt[KeyOf(x)] + Tolerance
    \/ Signed(x) + Tolerance < now

\* A request that awaits the contract bears a timestamp at most Tolerance ahead
\* of the clock, and unless its key raced it is alone with it and was never
\* accepted.
ChainInv ==
  \A p \in Procs : pc[p] = "chain" =>
    /\ Signed(auth[p]) <= now + Tolerance
    /\ accepted[auth[p]] = 0 \/ Key(p) \in raced
    /\ \A q \in Procs : /\ q # p /\ pc[q] = "chain" /\ Key(q) = Key(p)
                       => Key(p) \in raced

OnceInv == WindowInv /\ ChainInv /\ AcceptedOnce

LEMMA SentParts ==
  ASSUME TypeOK, NEW x \in Sent
  PROVE  KeyOf(x) \in Keys /\ Signed(x) \in Nat
  BY AuthAssumption, BoundAssumption DEF TypeOK, Sent, Keys, KeyOf, Signed

-----------------------------------------------------------------------------
(* Types.                                                                    *)

LEMMA TypesInit == Init => TypeOK
  BY BoundAssumption DEF Init, TypeOK

LEMMA TypeStep == TypeOK /\ [Next]_vars => TypeOK'
<1> SUFFICES ASSUME TypeOK, [Next]_vars PROVE TypeOK'
  OBVIOUS
<1> USE AuthAssumption, BoundAssumption DEF TypeOK, Ends, Key
<1>1. ASSUME NEW p \in Procs, NEW x \in Sent, Arrive(p, x) PROVE TypeOK'
  BY <1>1 DEF Arrive
<1>2. ASSUME NEW p \in Procs, Reject(p) PROVE TypeOK'
  BY <1>2 DEF Reject
<1>3. ASSUME NEW p \in Procs, Check(p) PROVE TypeOK'
  <2>1. KeyOf(auth[p]) \in Keys
    BY <1>3, SentParts DEF Check
  <2> QED
    BY <1>3, <2>1 DEF Check
<1>4. ASSUME NEW p \in Procs, Accept(p) PROVE TypeOK'
  <2>1. auth[p] \in Sent /\ KeyOf(auth[p]) \in Keys
    BY <1>4, SentParts DEF Accept
  <2>2. accepted' \in [Sent -> Nat] /\ recordedAt' \in [Keys -> 0..now']
    BY <1>4, <2>1 DEF Accept, Recorded
  <2> QED
    BY <1>4, <2>1, <2>2 DEF Accept, Recorded
<1>5. CASE Tick
  BY <1>5 DEF Tick
<1>6. CASE Cleanup
  BY <1>6 DEF Cleanup, Expired
<1>7. CASE Restart
  BY <1>7 DEF Restart
<1>8. CASE UNCHANGED vars
  BY <1>8 DEF vars
<1> QED
  BY <1>1, <1>2, <1>3, <1>4, <1>5, <1>6, <1>7, <1>8 DEF Next

\* Every variable of the nonce check keeps its type; no nonce bears a record
\* time in the future.
THEOREM Types == Spec => []TypeOK
  BY TypesInit, TypeStep, PTL DEF Spec

-----------------------------------------------------------------------------
(* Once.                                                                     *)

LEMMA OnceInit == Init => OnceInv
  BY DEF Init, OnceInv, WindowInv, ChainInv, AcceptedOnce

\* Only the window of the accepted authorization changes, and only for the
\* better: its key is on record from now on.
LEMMA AcceptOnce ==
  ASSUME TypeOK, OnceInv, NEW p \in Procs, Accept(p)
  PROVE  OnceInv'
<1> DEFINE b == auth[p]
<1>1. b \in Sent /\ pc[p] = "chain" /\ Key(p) = KeyOf(b)
  BY DEF Accept, Key, TypeOK
<1>2. /\ accepted[b] = 0 \/ KeyOf(b) \in raced
      /\ Signed(b) <= now + Tolerance
  BY <1>1 DEF OnceInv, ChainInv
<1>3. /\ usedNonces' = usedNonces \cup {KeyOf(b)}
      /\ recordedAt' = [recordedAt EXCEPT ![KeyOf(b)] = now]
      /\ accepted' = [accepted EXCEPT ![b] = @ + 1]
      /\ pc' = [pc EXCEPT ![p] = "idle"]
      /\ auth' = [auth EXCEPT ![p] = NoAuth]
      /\ now' = now /\ stamp' = stamp /\ raced' = raced
  BY <1>1 DEF Accept, Recorded, Ends
<1>4. /\ KeyOf(b) \in Keys /\ now \in Nat /\ recordedAt \in [Keys -> 0..now]
      /\ pc \in [Procs -> {"idle", "registry", "chain"}]
      /\ auth \in [Procs -> Sent \cup {NoAuth}] /\ accepted \in [Sent -> Nat]
      /\ Tolerance \in Nat
  BY <1>1, SentParts, BoundAssumption, WindowAssumption DEF TypeOK
<1>5. \A x \in Sent : Signed(x)' = Signed(x) /\ KeyOf(x) \in Keys /\ Signed(x) \in Nat
  BY <1>3, SentParts DEF Signed
<1> HIDE DEF b
<1>6. ASSUME NEW x \in Sent, accepted'[x] > 0
      PROVE  \/ /\ KeyOf(x) \in usedNonces'
                /\ Signed(x) <= recordedAt'[KeyOf(x)] + Tolerance
             \/ Signed(x) + Tolerance < now
  <2>1. CASE x = b
    BY <1>1, <1>2, <1>3, <1>4, <2>1
  <2>2. CASE x # b
    <3>1. accepted[x] > 0
      BY <1>3, <1>4, <1>6, <2>2
    <3>2. recordedAt'[KeyOf(x)] >= recordedAt[KeyOf(x)] /\ recordedAt'[KeyOf(x)] \in Nat
      BY <1>3, <1>4, <1>5
    <3>3. recordedAt[KeyOf(x)] \in Nat /\ Signed(x) \in Nat
      BY <1>4, <1>5
    <3> QED
      BY <1>3, <1>4, <3>1, <3>2, <3>3 DEF OnceInv, WindowInv
  <2> QED
    BY <2>1, <2>2
<1>7. WindowInv'
  BY <1>3, <1>5, <1>6 DEF WindowInv
<1>8. ASSUME NEW q \in Procs, pc'[q] = "chain"
      PROVE  /\ pc[q] = "chain" /\ auth'[q] = auth[q] /\ auth[q] \in Sent
             /\ accepted'[auth[q]] = 0 \/ KeyOf(auth[q]) \in raced
  <2>1. q # p /\ pc[q] = "chain" /\ auth'[q] = auth[q] /\ auth[q] \in Sent
    BY <1>3, <1>4, <1>8 DEF TypeOK
  <2>2. CASE auth[q] = b
    BY <1>1, <2>1, <2>2 DEF OnceInv, ChainInv, Key
  <2>3. CASE auth[q] # b
    BY <1>3, <1>4, <2>1, <2>3 DEF OnceInv, ChainInv, Key
  <2> QED
    BY <2>1, <2>2, <2>3
<1>9. ChainInv'
  BY <1>3, <1>5, <1>8 DEF OnceInv, ChainInv, Key
<1>10. AcceptedOnce'
  <2> SUFFICES ASSUME NEW x \in Sent PROVE accepted'[x] <= 1 \/ KeyOf(x) \in raced
    BY <1>3 DEF AcceptedOnce
  <2> QED
    BY <1>2, <1>3, <1>4 DEF OnceInv, AcceptedOnce
<1> QED
  BY <1>7, <1>9, <1>10 DEF OnceInv

\* What passes the nonce and the timestamp check was not accepted before; if
\* another request awaits the contract with its key, the key has raced.
LEMMA CheckOnce ==
  ASSUME TypeOK, OnceInv, NEW p \in Procs, Check(p)
  PROVE  OnceInv'
<1>1. /\ auth[p] \in Sent /\ Signed(auth[p]) <= now + Tolerance
      /\ now <= Signed(auth[p]) + Tolerance /\ Key(p) \notin usedNonces
      /\ pc' = [pc EXCEPT ![p] = "chain"] /\ pc[p] = "registry"
      /\ UNCHANGED <<now, stamp, usedNonces, recordedAt, auth, accepted>>
      /\ raced \subseteq raced'
      /\ (\E q \in Procs : pc[q] = "chain" /\ Key(q) = Key(p)) => Key(p) \in raced'
  BY DEF Check, InTolerance, TypeOK, Signed
<1>2. accepted[auth[p]] = 0
  <2>1. now \in Nat /\ Tolerance \in Nat /\ Signed(auth[p]) \in Nat /\ accepted[auth[p]] \in Nat
    BY <1>1, SentParts, BoundAssumption, WindowAssumption DEF TypeOK
  <2>2. ~(accepted[auth[p]] > 0)
    BY <1>1, <2>1 DEF OnceInv, WindowInv, Key
  <2> QED
    BY <2>1, <2>2
<1>3. \A q \in Procs : /\ Key(q)' = Key(q) /\ Signed(auth[q])' = Signed(auth[q])
                      /\ pc'[q] = "chain" => q = p \/ pc[q] = "chain"
  BY <1>1 DEF TypeOK, Key, KeyOf, Signed
<1>4. ChainInv'
  <2> SUFFICES ASSUME NEW q \in Procs, pc'[q] = "chain"
               PROVE  /\ Signed(auth[q]) <= now + Tolerance
                      /\ accepted[auth[q]] = 0 \/ Key(q) \in raced'
                      /\ \A o \in Procs : /\ o # q /\ pc'[o] = "chain" /\ Key(o) = Key(q)
                                         => Key(q) \in raced'
    BY <1>1, <1>3 DEF ChainInv, Key, KeyOf, Signed
  <2> QED
    BY <1>1, <1>2, <1>3 DEF OnceInv, ChainInv
<1>5. WindowInv' /\ AcceptedOnce'
  BY <1>1 DEF OnceInv, WindowInv, AcceptedOnce, Signed
<1> QED
  BY <1>4, <1>5 DEF OnceInv

LEMMA OnceStep ==
  ASSUME TypeOK, OnceInv, [Next]_vars
  PROVE  OnceInv'
<1> USE DEF OnceInv, WindowInv, ChainInv, AcceptedOnce, Signed, Key
<1>1. ASSUME NEW p \in Procs, NEW x \in Sent, Arrive(p, x) PROVE OnceInv'
  BY <1>1 DEF Arrive, TypeOK
<1>2. ASSUME NEW p \in Procs, Reject(p) PROVE OnceInv'
  BY <1>2 DEF Reject, Ends, TypeOK
<1>3. ASSUME NEW p \in Procs, Check(p) PROVE OnceInv'
  BY <1>3, CheckOnce
<1>4. ASSUME NEW p \in Procs, Accept(p) PROVE OnceInv'
  BY <1>4, AcceptOnce
<1>5. CASE Tick
  <2>1. /\ now \in Nat /\ now' = now + 1 /\ Tolerance \in Nat
        /\ UNCHANGED <<stamp, usedNonces, recordedAt, pc, auth, accepted, raced>>
        /\ \A x \in Sent : Signed(x) \in Nat
        /\ \A p \in Procs : pc[p] = "chain" => auth[p] \in Sent
    BY <1>5, SentParts, BoundAssumption, WindowAssumption DEF Tick, TypeOK
  <2>2. WindowInv'
    BY <2>1
  <2>3. ChainInv'
    BY <2>1
  <2> QED
    BY <2>1, <2>2, <2>3
<1>6. CASE Cleanup
  \* What is forgotten was recorded more than twice the tolerance ago.
  <2>1. /\ usedNonces' = usedNonces \ Expired
        /\ UNCHANGED <<now, stamp, recordedAt, pc, auth, accepted, raced>>
    BY <1>6 DEF Cleanup
  <2>2. ASSUME NEW x \in Sent, accepted[x] > 0, KeyOf(x) \in Expired
        PROVE  Signed(x) + Tolerance < now
    <3>1. KeyOf(x) \in Keys /\ recordedAt[KeyOf(x)] + NonceExpiry < now /\ Signed(x) \in Nat
      BY <2>2, SentParts DEF Expired
    <3>2. recordedAt[KeyOf(x)] \in Nat /\ now \in Nat
      BY <3>1, BoundAssumption DEF TypeOK
    <3> QED
      BY <2>2, <3>1, <3>2, WindowAssumption
  <2>3. WindowInv'
    BY <2>1, <2>2
  <2> QED
    BY <2>1, <2>3
<1>7. CASE Restart
  BY <1>7 DEF Restart
<1>8. CASE UNCHANGED vars
  BY <1>8 DEF vars
<1> QED
  BY <1>1, <1>2, <1>3, <1>4, <1>5, <1>6, <1>7, <1>8 DEF Next

\* Between two starts of the node no authorization is accepted twice under one
\* spelling of its sender, unless its key raced: for any tolerance, and any
\* expiry of at least twice the tolerance.
THEOREM Once == Spec => []AcceptedOnce
<1>1. Spec => [](TypeOK /\ OnceInv)
  <2>1. Init => TypeOK /\ OnceInv
    BY TypesInit, OnceInit
  <2>2. TypeOK /\ OnceInv /\ [Next]_vars => (TypeOK /\ OnceInv)'
    BY TypeStep, OnceStep
  <2> QED
    BY <2>1, <2>2, PTL DEF Spec
<1>2. TypeOK /\ OnceInv => AcceptedOnce
  BY DEF OnceInv
<1> QED
  BY <1>1, <1>2, PTL

=============================================================================
