----------------------------- MODULE PeerExchange -----------------------------
(***************************************************************************)
(* services/p2p-protocols.service.ts: one request of a peer and its answer   *)
(* over a libp2p stream, each a JSON text behind a prefix with its length.   *)
(* The stream cuts the bytes into chunks as it likes and may be reset.       *)
(*                                                                         *)
(* A message is its meaning and its length; a byte is its place in it.  What *)
(* a replicate request does to the peer is in Replication.                   *)
(***************************************************************************)
EXTENDS Naturals, Sequences, SequencesExt

CONSTANTS
  PrefixBytes,  \* 4
  Lengths,      \* of the messages
  Pending,      \* nothing has been read or written yet
  NoMessage     \* null

Ways == {"request", "answer"}
Protocols == {"replicate", "blob", "health", "info", "have-list"}
Messages == [says : Protocols \cup {"done", "error"}, length : Lengths]

ASSUME ExchangeAssumption ==
  /\ PrefixBytes \in Nat \ {0} /\ Lengths \subseteq Nat \ {0}
  /\ Pending # NoMessage /\ Pending \notin Messages /\ NoMessage \notin Messages

VARIABLES
  protocol,
  caller,   \* idle, waiting for the answer, or done
  handler,  \* idle, reading, serving, done, or failed: it threw and wrote nothing
  sent,     \* the message written each way
  passed,   \* how many bytes of it have come through
  reading,  \* readMessage of each side
  reset,
  result    \* what the caller returns

exchangeVars == <<protocol, caller, handler, sent, passed, reading, reset, result>>

Fresh == [prefix |-> 0, body |-> <<>>, got |-> Pending]

ExchangeInit ==
  /\ protocol = "info" /\ caller = "idle" /\ handler = "idle"
  /\ sent = [w \in Ways |-> Pending] /\ passed = [w \in Ways |-> 0]
  /\ reading = [w \in Ways |-> Fresh] /\ reset = FALSE /\ result = Pending

\* Without a node, or when dialProtocol throws, a request ends at once.
NotDialled ==
  /\ caller = "idle" /\ caller' = "done" /\ result' = NoMessage
  /\ UNCHANGED <<protocol, handler, sent, passed, reading, reset>>

\* writeMessage; the handler of the other side reads.
Dial(p, length) ==
  /\ caller = "idle" /\ caller' = "waiting" /\ handler' = "reading"
  /\ protocol' = p
  /\ sent' = [sent EXCEPT !["request"] = [says |-> p, length |-> length]]
  /\ UNCHANGED <<passed, reading, reset, result>>

\* JSON.parse of the buffer: the bytes that did not come are zeros.
Parsed(m, body) ==
  IF body = [i \in 1..m.length |-> PrefixBytes + i] THEN m ELSE NoMessage

Least(a, b) == IF a < b THEN a ELSE b

TakenWithoutRest(r, m, from, n) ==
  IF r.prefix < PrefixBytes THEN [r EXCEPT !.prefix = Least(PrefixBytes, @ + n)]
  ELSE [r EXCEPT !.body = @ \o [i \in 1..Least(n, m.length - Len(@)) |-> from + i]]
\* What a chunk with the n bytes after from adds: first to the prefix, the rest to
\* the body.
Taken(r, m, from, n) ==
  LET copied == Least(PrefixBytes - r.prefix, n)
      rest == Least(n - copied, m.length - Len(r.body))
  IN [r EXCEPT !.prefix = @ + copied,
               !.body = @ \o [i \in 1..rest |-> from + copied + i]]

\* readMessage takes a chunk and returns once it has the length the prefix names.
Chunk(w, n) ==
  /\ sent[w] # Pending /\ reading[w].got = Pending /\ ~reset
  /\ passed[w] + n <= PrefixBytes + sent[w].length
  /\ passed' = [passed EXCEPT ![w] = @ + n]
  /\ LET r == Taken(reading[w], sent[w], passed[w], n)
     IN reading' = [reading EXCEPT ![w] =
          IF r.prefix = PrefixBytes /\ Len(r.body) >= sent[w].length
          THEN [r EXCEPT !.got = Parsed(sent[w], r.body)] ELSE r]
  /\ UNCHANGED <<protocol, caller, handler, sent, reset, result>>

\* The stream ends early: both sides that read are left with what they have, which
\* is a message for neither.
Reset ==
  /\ ~reset /\ caller = "waiting" /\ reset' = TRUE
  /\ reading' = [w \in Ways |->
       IF reading[w].got = Pending THEN [reading[w] EXCEPT !.got = NoMessage] ELSE reading[w]]
  /\ UNCHANGED <<protocol, caller, handler, sent, passed, result>>

HandlerReads ==
  /\ handler = "reading" /\ reading["request"].got # Pending /\ handler' = "serving"
  /\ UNCHANGED <<protocol, caller, sent, passed, reading, reset, result>>

\* handleReplicate and handleBlob tell an error when they could not read or do what
\* is asked; handleHealth and handleInfo do not look at the request, handleHaveList
\* lists from the start without one, and when these three throw nothing is written.
Answers ==
  IF protocol \in {"replicate", "blob"}
  THEN IF reading["request"].got = NoMessage THEN {"error"} ELSE {"done", "error"}
  ELSE {"done", Pending}

HandlerAnswers(length) ==
  /\ handler = "serving"
  /\ \E a \in Answers :
       IF a = Pending \/ reset
       THEN handler' = "failed" /\ UNCHANGED sent
       ELSE /\ handler' = "done"
            /\ sent' = [sent EXCEPT !["answer"] = [says |-> a, length |-> length]]
  /\ UNCHANGED <<protocol, caller, passed, reading, reset, result>>

\* replicateToPeer, retrieveFromPeer and the others return.
CallerReturns ==
  /\ caller = "waiting" /\ reading["answer"].got # Pending /\ caller' = "done"
  /\ LET answer == reading["answer"].got
     IN result' = IF answer = NoMessage \/ answer.says = "error" THEN NoMessage ELSE answer
  /\ UNCHANGED <<protocol, handler, sent, passed, reading, reset>>

ExchangeNext ==
  \/ NotDialled \/ Reset \/ HandlerReads \/ CallerReturns
  \/ \E length \in Lengths :
       HandlerAnswers(length) \/ \E p \in Protocols : Dial(p, length)
  \/ \E w \in Ways : sent[w] # Pending /\
       \E n \in 1..(PrefixBytes + sent[w].length) : Chunk(w, n)

ExchangeSpec == ExchangeInit /\ [][ExchangeNext]_exchangeVars

-----------------------------------------------------------------------------
\* However the bytes are cut into chunks, whoever has been sent all of a message has
\* read just that message; a caller is told that its blob was stored, or gets a blob,
\* only after the other side has read the whole of its request and has done it.
ExchangeSound ==
  /\ \A w \in Ways :
       sent[w] # Pending /\ passed[w] = PrefixBytes + sent[w].length
         => reading[w].got = sent[w]
  /\ result \notin {Pending, NoMessage} =>
       /\ result = sent["answer"] /\ handler = "done"
       /\ protocol \in {"replicate", "blob"} => reading["request"].got = sent["request"]

===============================================================================
