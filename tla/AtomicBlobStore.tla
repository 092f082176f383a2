--------------------------- MODULE AtomicBlobStore ---------------------------
(***************************************************************************)
(* What a client of the blob store relies on, with files, requests and      *)
(* crashes left out: a blob is on disk or it is not, as a whole; a store is  *)
(* acknowledged only while its blob is there; and a blob that was            *)
(* acknowledged disappears only after a delete of it has been decided.       *)
(* Nothing is said any more of a cid that became void.                       *)
(***************************************************************************)
CONSTANT Cids

VARIABLES
  present,   \* the cids whose blob is on disk, whole
  promised,  \* the cids acknowledged and not given up by a delete
  void       \* the cids of which nothing is promised any more

vars == <<present, promised, void>>

Init == present = {} /\ promised = {} /\ void = {}

\* A blob appears, whole.
Put(c) ==
  /\ c \notin void
  /\ present' = present \cup {c}
  /\ UNCHANGED <<promised, void>>

\* A store of c is acknowledged.
Promise(c) ==
  /\ c \in present
  /\ promised' = promised \cup {c}
  /\ UNCHANGED <<present, void>>

\* A delete of c is decided; its file is still there.
GiveUp(c) ==
  /\ promised' = promised \ {c}
  /\ UNCHANGED <<present, void>>

\* A blob disappears: a delete, or the clean-up of a store that failed.
Remove(c) ==
  /\ c \notin promised
  /\ present' = present \ {c}
  /\ UNCHANGED <<promised, void>>

\* Two stores of c write at once.
Void(c) ==
  /\ present' = present \ {c} /\ promised' = promised \ {c}
  /\ void' = void \cup {c}

Next ==
  \E c \in Cids : Put(c) \/ Promise(c) \/ GiveUp(c) \/ Remove(c) \/ Void(c)

Spec == Init /\ [][Next]_vars

=============================================================================
