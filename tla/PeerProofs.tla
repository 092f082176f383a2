------------------------------ MODULE PeerProofs ------------------------------
(***************************************************************************)
(* What a node may rely on of other nodes: one request and its answer over a *)
(* stream, the hash that holders of a blob agree on, bans and scores; and of *)
(* its own restarts: config.json and the cache of known peers.               *)
(***************************************************************************)
EXTENDS PeerExchange, Consensus, NodeDiscovery, PeerNode, ListProofs, Integers

-----------------------------------------------------------------------------
(* PeerExchange                                                              *)

\* What a side that reads has of the bytes that have come through: the prefix first,
\* then the body byte for byte; and it has its message once, and only once, all bytes
\* have come.
Body(bytes) == [i \in 1..bytes |-> PrefixBytes + i]
ReadingInv(w) ==
  LET r == reading[w]
      m == sent[w]
      body == IF passed[w] <= PrefixBytes THEN 0 ELSE passed[w] - PrefixBytes
  IN /\ m \in Messages \cup {Pending} /\ passed[w] \in Nat
     /\ r = [prefix |-> r.prefix, body |-> r.body, got |-> r.got]
     /\ r.prefix = Least(PrefixBytes, passed[w])
     /\ r.body = Body(body)
     /\ m = Pending => passed[w] = 0 /\ r.got \in {Pending, NoMessage}
     /\ m # Pending => passed[w] <= PrefixBytes + m.length
     /\ r.got \in {Pending, NoMessage, m}
     /\ m # Pending =>
          (r.got = m <=> passed[w] = PrefixBytes + m.length)

\* An answer is written once, and a good one to a request that was read.
CourseInv ==
  /\ sent = [w \in Ways |-> sent[w]] /\ passed = [w \in Ways |-> passed[w]]
  /\ reading = [w \in Ways |-> reading[w]]
  /\ caller = "idle" => handler = "idle" /\ result = Pending
  /\ handler \in {"idle", "reading", "serving", "done", "failed"}
  /\ handler = "serving" => reading["request"].got # Pending
  /\ handler = "idle" <=> sent["request"] = Pending
  /\ sent["answer"] # Pending <=> handler = "done"
  /\ handler = "done" /\ sent["answer"].says # "error" /\ protocol \in {"replicate", "blob"}
       => reading["request"].got = sent["request"]
  /\ result \notin {Pending, NoMessage} =>
       result = sent["answer"] /\ handler = "done" /\ result.says # "error"

ExchangeInv == CourseInv /\ \A w \in Ways : ReadingInv(w)

LEMMA Joined ==
  ASSUME NEW s \in Seq(Nat), NEW t \in Seq(Nat), NEW u \in Seq(Nat),
         Len(u) = Len(s) + Len(t), \A i \in 1..Len(s) : u[i] = s[i],
         \A i \in 1..Len(t) : u[Len(s) + i] = t[i]
  PROVE  s \o t = u
<1>1. \A i \in 1..Len(u) : (s \o t)[i] = u[i]
  <2> SUFFICES ASSUME NEW i \in 1..Len(u) PROVE (s \o t)[i] = u[i]
    OBVIOUS
  <2>1. CASE i <= Len(s)
    BY <2>1
  <2>2. CASE i > Len(s)
    <3>1. i - Len(s) \in 1..Len(t) /\ Len(s) + (i - Len(s)) = i
      BY <2>2
    <3>2. u[Len(s) + (i - Len(s))] = t[i - Len(s)]
      BY <3>1
    <3>3. (s \o t)[i] = t[i - Len(s)]
      BY <2>2
    <3> QED
      BY <3>1, <3>2, <3>3
  <2> QED
    BY <2>1, <2>2
<1> QED
  BY SMTT(30), <1>1, SeqEqual

LEMMA BodyGrows ==
  ASSUME NEW b \in Nat, NEW k \in Nat, NEW from \in Nat, k > 0 => from = PrefixBytes + b
  PROVE  Body(b) \o [i \in 1..k |-> from + i] = Body(b + k)
<1> DEFINE more == [i \in 1..k |-> from + i]
<1>1. /\ Body(b) \in Seq(Nat) /\ more \in Seq(Nat) /\ Body(b + k) \in Seq(Nat)
      /\ Len(Body(b)) = b /\ Len(more) = k /\ Len(Body(b + k)) = b + k
  BY ExchangeAssumption DEF Body
<1>2. \A i \in 1..b : Body(b + k)[i] = Body(b)[i]
  BY DEF Body
<1>3. \A i \in 1..k : Body(b + k)[b + i] = more[i]
  BY ExchangeAssumption DEF Body
<1> HIDE DEF more
<1>4. /\ Len(Body(b + k)) = Len(Body(b)) + Len(more)
      /\ \A i \in 1..Len(Body(b)) : Body(b + k)[i] = Body(b)[i]
      /\ \A i \in 1..Len(more) : Body(b + k)[Len(Body(b)) + i] = more[i]
  BY <1>1, <1>2, <1>3
<1>5. Body(b) \o more = Body(b + k)
  BY <1>1, <1>4, Joined, Zenon
<1> QED
  BY <1>5 DEF more

\* A chunk may end inside the prefix, with it, or bring some of the body.
LEMMA ChunkTaken ==
  ASSUME NEW w, ReadingInv(w), sent[w] # Pending, reading[w].got = Pending,
         NEW n \in Nat \ {0}, passed[w] + n <= PrefixBytes + sent[w].length
  PROVE  LET r == Taken(reading[w], sent[w], passed[w], n)
             after == passed[w] + n
             body == IF after <= PrefixBytes THEN 0 ELSE after - PrefixBytes
         IN /\ r = [prefix |-> r.prefix, body |-> r.body, got |-> r.got] /\ r.got = Pending
            /\ r.prefix = Least(PrefixBytes, after)
            /\ r.body = Body(body) /\ Len(r.body) = body
<1> DEFINE p == passed[w]
           length == sent[w].length
           b == IF p <= PrefixBytes THEN 0 ELSE p - PrefixBytes
           copied == Least(PrefixBytes - reading[w].prefix, n)
           rest == Least(n - copied, length - Len(reading[w].body))
           more == [i \in 1..rest |-> p + copied + i]
           r == Taken(reading[w], sent[w], passed[w], n)
           after == p + n
           body == IF after <= PrefixBytes THEN 0 ELSE after - PrefixBytes
<1>1. /\ p \in Nat /\ length \in Nat /\ after <= PrefixBytes + length
      /\ PrefixBytes \in Nat \ {0}
  BY ExchangeAssumption DEF ReadingInv, Messages
<1>2. /\ reading[w].prefix = Least(PrefixBytes, p) /\ reading[w].body = Body(b)
      /\ reading[w] = [prefix |-> reading[w].prefix, body |-> reading[w].body, got |-> Pending]
  BY DEF ReadingInv
<1>3. b \in Nat /\ Len(reading[w].body) = b
  BY <1>1, <1>2 DEF Body
<1>4. /\ copied \in Nat /\ rest \in Nat /\ b + rest = body
      /\ reading[w].prefix + copied = Least(PrefixBytes, after)
      /\ rest > 0 => p + copied = PrefixBytes + b
  <2>0. /\ copied = Least(PrefixBytes - Least(PrefixBytes, p), n)
        /\ rest = Least(n - copied, length - b)
    BY <1>2, <1>3
  <2> HIDE DEF p, length, copied, rest
  <2>1. CASE after <= PrefixBytes
    <3>1. copied = n /\ b = 0
      BY <1>1, <2>0, <2>1 DEF Least
    <3>2. rest = 0
      BY <1>1, <2>0, <3>1 DEF Least
    <3> QED
      BY <1>1, <1>2, <2>1, <3>1, <3>2 DEF Least
  <2>2. CASE after > PrefixBytes /\ p <= PrefixBytes
    <3>1. copied = PrefixBytes - p /\ b = 0
      BY <1>1, <2>0, <2>2 DEF Least
    <3>2. rest = after - PrefixBytes
      BY <1>1, <2>0, <2>2, <3>1 DEF Least
    <3> QED
      BY <1>1, <1>2, <2>2, <3>1, <3>2 DEF Least
  <2>3. CASE p > PrefixBytes
    <3>1. copied = 0 /\ b = p - PrefixBytes
      BY <1>1, <2>0, <2>3 DEF Least
    <3>2. rest = n
      BY <1>1, <2>0, <2>3, <3>1 DEF Least
    <3> QED
      BY <1>1, <1>2, <2>3, <3>1, <3>2 DEF Least
  <2> QED
    BY <1>1, <2>1, <2>2, <2>3
<1>5. reading[w].body \o more = Body(body)
  <2>1. p + copied \in Nat
    BY <1>1, <1>4
  <2> HIDE DEF copied, rest, body, b, p
  <2>2. Body(b) \o [i \in 1..rest |-> (p + copied) + i] = Body(b + rest)
    BY <1>3, <1>4, <2>1, BodyGrows
  <2> QED
    BY <1>2, <1>4, <2>2
<1>6. r = [prefix |-> reading[w].prefix + copied, body |-> reading[w].body \o more,
           got |-> Pending]
  <2>1. r = [reading[w] EXCEPT !.prefix = reading[w].prefix + copied,
                               !.body = reading[w].body \o more]
    BY DEF Taken
  <2> HIDE DEF r, copied, more
  <2> QED
    BY <1>2, <2>1
<1>7. body \in Nat /\ Len(Body(body)) = body
  BY <1>1 DEF Body
<1> HIDE DEF r, copied, more, body
<1>8. /\ r = [prefix |-> r.prefix, body |-> r.body, got |-> r.got] /\ r.got = Pending
      /\ r.prefix = Least(PrefixBytes, after)
      /\ r.body = Body(body) /\ Len(r.body) = body
  BY <1>4, <1>5, <1>6, <1>7
<1> QED
  BY <1>8 DEF r, body

\* JSON.parse gives the message of a whole body, and only of that.
LEMMA ParsedBody ==
  ASSUME NEW m \in Messages, NEW b \in Nat
  PROVE  Parsed(m, Body(b)) = IF b = m.length THEN m ELSE NoMessage
<1>1. m.length \in Nat
  BY ExchangeAssumption DEF Messages
<1>2. Len(Body(b)) = b /\ Len(Body(m.length)) = m.length
  BY <1>1 DEF Body
<1>3. Body(m.length) = [i \in 1..m.length |-> PrefixBytes + i]
  BY DEF Body
<1>4. Body(b) = Body(m.length) <=> b = m.length
  BY <1>2
<1> HIDE DEF Body
<1> QED
  BY <1>3, <1>4 DEF Parsed

LEMMA ExchangeStarts == ExchangeInit => ExchangeInv
<1> SUFFICES ASSUME ExchangeInit PROVE ExchangeInv
  OBVIOUS
<1>1. CourseInv
  BY ExchangeAssumption DEF ExchangeInit, CourseInv, Ways
<1>2. Body(0) = <<>>
  BY DEF Body
<1>3. ASSUME NEW w \in Ways PROVE ReadingInv(w)
  BY <1>2, ExchangeAssumption DEF ExchangeInit, ReadingInv, Fresh, Least
<1> QED
  BY <1>1, <1>3 DEF ExchangeInv

LEMMA ReadingStays ==
  ASSUME NEW w, ReadingInv(w), sent'[w] = sent[w], passed'[w] = passed[w],
         reading'[w] = reading[w]
  PROVE  ReadingInv(w)'
BY DEF ReadingInv

LEMMA DialKeeps ==
  ASSUME ExchangeInv, NEW p \in Protocols, NEW length \in Lengths, Dial(p, length)
  PROVE  ExchangeInv'
<1>1. CourseInv /\ ReadingInv("request") /\ ReadingInv("answer")
  BY DEF ExchangeInv, Ways
<1>2. /\ sent["request"] = Pending /\ sent["answer"] = Pending /\ handler = "idle"
      /\ result = Pending
  BY <1>1 DEF Dial, CourseInv
<1> DEFINE m == [says |-> p, length |-> length]
<1>3. m \in Messages /\ m.length = length /\ m # Pending /\ m # NoMessage
  BY ExchangeAssumption DEF Messages
<1>4. sent' = [w \in Ways |-> IF w = "request" THEN m ELSE sent[w]]
  BY <1>1 DEF Dial, CourseInv, Ways
<1>5. /\ passed' = passed /\ reading' = reading /\ handler' = "reading" /\ caller' = "waiting"
      /\ result' = result
  BY DEF Dial
<1> HIDE DEF m
<1>6. sent'["request"] = m /\ sent'["answer"] = Pending
  BY <1>2, <1>4 DEF Ways
<1>7. CourseInv'
  BY <1>1, <1>2, <1>3, <1>4, <1>5, <1>6 DEF CourseInv, Ways
<1>8. ReadingInv("answer")'
  BY <1>1, <1>2, <1>5, <1>6, ReadingStays, Zenon
<1>9. ReadingInv("request")'
  BY <1>1, <1>2, <1>3, <1>5, <1>6, ExchangeAssumption DEF ReadingInv
<1> QED
  BY <1>7, <1>8, <1>9 DEF ExchangeInv, Ways

LEMMA ChunkKeeps ==
  ASSUME ExchangeInv, NEW w \in Ways, NEW n \in Nat \ {0}, Chunk(w, n)
  PROVE  ExchangeInv'
<1> DEFINE m == sent[w]
           r == Taken(reading[w], sent[w], passed[w], n)
           after == passed[w] + n
           body == IF after <= PrefixBytes THEN 0 ELSE after - PrefixBytes
           s == IF r.prefix = PrefixBytes /\ Len(r.body) >= m.length
                THEN [r EXCEPT !.got = Parsed(m, r.body)] ELSE r
<1>1. CourseInv /\ \A v \in Ways : ReadingInv(v)
  BY DEF ExchangeInv
<1>2. /\ m \in Messages /\ m # Pending /\ reading[w].got = Pending /\ passed[w] \in Nat
      /\ after <= PrefixBytes + m.length
  BY <1>1 DEF Chunk, ReadingInv
<1>3. PrefixBytes \in Nat \ {0} /\ m.length \in Nat \ {0} /\ after \in Nat /\ body \in Nat
  <2> HIDE DEF m
  <2>1. m.length \in Lengths
    BY <1>2 DEF Messages
  <2>2. PrefixBytes \in Nat \ {0} /\ m.length \in Nat \ {0}
    BY <2>1, ExchangeAssumption
  <2>3. passed[w] \in Nat /\ n \in Nat
    BY <1>2
  <2>4. after \in Nat
    BY <2>3
  <2> HIDE DEF after
  <2> QED
    BY <2>2, <2>4
<1>4. /\ passed' = [v \in Ways |-> IF v = w THEN after ELSE passed[v]]
      /\ reading' = [v \in Ways |-> IF v = w THEN s ELSE reading[v]]
      /\ UNCHANGED <<protocol, caller, handler, sent, reset, result>>
  BY <1>1 DEF Chunk, CourseInv
<1>5. /\ r = [prefix |-> r.prefix, body |-> r.body, got |-> r.got] /\ r.got = Pending
      /\ r.prefix = Least(PrefixBytes, after)
      /\ r.body = Body(body) /\ Len(r.body) = body
  BY <1>1, <1>2, ChunkTaken, Zenon
<1>6. Parsed(m, r.body) = IF body = m.length THEN m ELSE NoMessage
  <2> HIDE DEF m, r, body
  <2>1. Parsed(m, Body(body)) = IF body = m.length THEN m ELSE NoMessage
    BY <1>2, <1>3, ParsedBody
  <2> QED
    BY <1>5, <2>1
<1> HIDE DEF m, r
<1>7. /\ s = [prefix |-> r.prefix, body |-> r.body, got |-> s.got]
      /\ s.prefix = r.prefix /\ s.body = r.body
      /\ s.got = IF after = PrefixBytes + m.length THEN m ELSE Pending
  <2>1. r.prefix = PrefixBytes /\ Len(r.body) >= m.length <=> after = PrefixBytes + m.length
    BY <1>2, <1>3, <1>5 DEF Least
  <2>2. CASE after = PrefixBytes + m.length
    <3>1. body = m.length
      BY <1>3, <2>2
    <3>2. s = [r EXCEPT !.got = m]
      BY <1>6, <2>1, <2>2, <3>1
    <3> HIDE DEF s
    <3> QED
      BY <1>5, <2>2, <3>2
  <2>3. CASE after # PrefixBytes + m.length
    <3>1. s = r
      BY <2>1, <2>3
    <3> HIDE DEF s
    <3> QED
      BY <1>5, <2>3, <3>1
  <2> QED
    BY <2>2, <2>3
<1> HIDE DEF s, after
<1>8. ReadingInv(w)'
  <2>1. passed'[w] = after /\ reading'[w] = s /\ sent'[w] = m
    BY <1>4 DEF m
  <2>2. m # NoMessage
    BY <1>2, ExchangeAssumption
  <2> QED
    BY <1>2, <1>3, <1>5, <1>7, <2>1, <2>2 DEF ReadingInv
<1>9. ASSUME NEW v \in Ways, v # w PROVE ReadingInv(v)'
  <2>1. sent'[v] = sent[v] /\ passed'[v] = passed[v] /\ reading'[v] = reading[v]
    BY <1>4, <1>9
  <2> QED
    BY <1>1, <2>1, ReadingStays, Zenon
<1>10. \/ reading'["request"].got = reading["request"].got
       \/ reading["request"].got = Pending /\ w = "request" /\ sent["request"] # Pending
  <2>1. CASE w = "request"
    BY <1>2, <2>1 DEF m
  <2>2. CASE w # "request"
    <3>1. "request" \in Ways
      BY DEF Ways
    <3> HIDE DEF s, after
    <3>2. reading'["request"] = reading["request"]
      BY <1>4, <2>2, <3>1
    <3> QED
      BY <3>2
  <2> QED
    BY <2>1, <2>2
<1>11. CourseInv'
  BY <1>1, <1>4, <1>10 DEF CourseInv, Ways
<1> QED
  BY <1>8, <1>9, <1>11 DEF ExchangeInv

LEMMA ResetKeeps ==
  ASSUME ExchangeInv, Reset
  PROVE  ExchangeInv'
<1>1. CourseInv /\ \A w \in Ways : ReadingInv(w)
  BY DEF ExchangeInv
<1>2. ASSUME NEW w \in Ways PROVE ReadingInv(w)'
  <2>0. ReadingInv(w) /\ sent'[w] = sent[w] /\ passed'[w] = passed[w]
    BY <1>1 DEF Reset
  <2>1. CASE reading[w].got = Pending
    <3>1. reading'[w] = [reading[w] EXCEPT !.got = NoMessage]
      BY <2>1 DEF Reset
    <3>2. reading[w] = [prefix |-> reading[w].prefix, body |-> reading[w].body, got |-> Pending]
      BY <2>0, <2>1 DEF ReadingInv
    <3>3. reading'[w] = [prefix |-> reading[w].prefix, body |-> reading[w].body,
                         got |-> NoMessage]
      BY <3>1, <3>2
    <3>4. sent[w] # NoMessage
      BY <2>0, ExchangeAssumption DEF ReadingInv
    <3> QED
      BY <2>0, <2>1, <3>3, <3>4 DEF ReadingInv
  <2>2. CASE reading[w].got # Pending
    <3>1. reading'[w] = reading[w]
      BY <2>2 DEF Reset
    <3> QED
      BY <2>0, <3>1, ReadingStays, Zenon
  <2> QED
    BY <2>1, <2>2
<1>3. \A w \in Ways : reading[w].got = Pending \/ reading'[w].got = reading[w].got
  BY DEF Reset
<1>4. reading' = [w \in Ways |-> reading'[w]]
  BY DEF Reset
<1>5. reading'["request"].got # Pending \/ reading["request"].got = Pending
  BY <1>3 DEF Ways
<1>6. CourseInv'
  BY <1>1, <1>3, <1>4, <1>5 DEF Reset, CourseInv, Ways
<1> QED
  BY <1>2, <1>6 DEF ExchangeInv

LEMMA HandlerAnswersKeeps ==
  ASSUME ExchangeInv, NEW length \in Lengths, HandlerAnswers(length)
  PROVE  ExchangeInv'
<1>1. CourseInv /\ ReadingInv("request") /\ ReadingInv("answer")
  BY DEF ExchangeInv, Ways
<1>2. PICK a \in Answers :
        IF a = Pending \/ reset
        THEN handler' = "failed" /\ UNCHANGED sent
        ELSE /\ handler' = "done"
             /\ sent' = [sent EXCEPT !["answer"] = [says |-> a, length |-> length]]
  BY DEF HandlerAnswers
<1>3. /\ handler = "serving" /\ UNCHANGED <<protocol, caller, passed, reading, reset, result>>
      /\ sent["answer"] = Pending /\ sent["request"] # Pending
      /\ reading["request"].got \in {NoMessage, sent["request"]}
      /\ result \in {Pending, NoMessage}
  BY <1>1 DEF HandlerAnswers, CourseInv, ReadingInv
<1>4. CASE a = Pending \/ reset
  <2>1. handler' = "failed" /\ sent' = sent
    BY <1>2, <1>4
  <2>2. CourseInv'
    BY <1>1, <1>3, <2>1 DEF CourseInv
  <2>3. ReadingInv("request")' /\ ReadingInv("answer")'
    BY <1>1, <1>3, <2>1, ReadingStays
  <2> QED
    BY <2>2, <2>3 DEF ExchangeInv, Ways
<1>5. CASE ~(a = Pending \/ reset)
  <2> DEFINE m == [says |-> a, length |-> length]
  <2>0. /\ a \in {"done", "error"}
        /\ a = "done" /\ protocol \in {"replicate", "blob"}
             => reading["request"].got # NoMessage
    BY <1>2, <1>5 DEF Answers
  <2>1. m \in Messages /\ m.says = a /\ m # Pending /\ m # NoMessage /\ m.length \in Nat \ {0}
    BY <2>0, ExchangeAssumption DEF Messages
  <2>2. handler' = "done" /\ sent' = [w \in Ways |-> IF w = "answer" THEN m ELSE sent[w]]
    BY <1>1, <1>2, <1>5 DEF CourseInv, Ways
  <2> HIDE DEF m
  <2>3. sent'["answer"] = m /\ sent'["request"] = sent["request"]
    BY <2>2 DEF Ways
  <2>4. CourseInv'
    BY <1>1, <1>3, <2>0, <2>1, <2>2, <2>3 DEF CourseInv
  <2>5. ReadingInv("request")'
    BY <1>1, <1>3, <2>3, ReadingStays
  <2>6. ReadingInv("answer")'
    BY <1>1, <1>3, <2>1, <2>3, ExchangeAssumption DEF ReadingInv
  <2> QED
    BY <2>4, <2>5, <2>6 DEF ExchangeInv, Ways
<1> QED
  BY <1>4, <1>5

LEMMA CallerReturnsKeeps ==
  ASSUME ExchangeInv, CallerReturns
  PROVE  ExchangeInv'
<1>1. CourseInv /\ ReadingInv("request") /\ ReadingInv("answer")
  BY DEF ExchangeInv, Ways
<1>2. ReadingInv("request")' /\ ReadingInv("answer")'
  BY <1>1, ReadingStays DEF CallerReturns
<1>3. /\ caller' = "done" /\ UNCHANGED <<protocol, handler, sent, passed, reading, reset>>
      /\ result' # NoMessage => result' = reading["answer"].got /\ result'.says # "error"
      /\ reading["answer"].got \in {NoMessage, sent["answer"]}
  BY <1>1 DEF CallerReturns, ReadingInv
<1>4. result' \notin {Pending, NoMessage} =>
        result' = sent["answer"] /\ handler = "done" /\ result'.says # "error"
  BY <1>1, <1>3 DEF CourseInv
<1>5. CourseInv'
  BY <1>1, <1>3, <1>4 DEF CourseInv
<1> QED
  BY <1>2, <1>5 DEF ExchangeInv, Ways

LEMMA ExchangeStepKeeps == ExchangeInv /\ [ExchangeNext]_exchangeVars => ExchangeInv'
<1> SUFFICES ASSUME ExchangeInv, [ExchangeNext]_exchangeVars PROVE ExchangeInv'
  OBVIOUS
<1>1. CourseInv /\ \A w \in Ways : ReadingInv(w)
  BY DEF ExchangeInv
<1>2. ASSUME sent' = sent, passed' = passed, reading' = reading, CourseInv'
      PROVE  ExchangeInv'
  BY <1>1, <1>2, ReadingStays DEF ExchangeInv
<1>3. CASE NotDialled
  BY <1>1, <1>2, <1>3 DEF NotDialled, CourseInv
<1>4. CASE HandlerReads
  BY <1>1, <1>2, <1>4 DEF HandlerReads, CourseInv
<1>5. CASE UNCHANGED exchangeVars
  BY <1>1, <1>2, <1>5 DEF exchangeVars, CourseInv
<1>6. CASE \E w \in Ways : sent[w] # Pending /\
             \E n \in 1..(PrefixBytes + sent[w].length) : Chunk(w, n)
  <2>1. PICK w \in Ways : sent[w] # Pending /\
             \E n \in 1..(PrefixBytes + sent[w].length) : Chunk(w, n)
    BY <1>6
  <2>2. PICK n \in 1..(PrefixBytes + sent[w].length) : Chunk(w, n)
    BY <2>1
  <2>3. sent[w] \in Messages
    BY <1>1, <2>1 DEF ReadingInv
  <2>4. n \in Nat \ {0}
    BY <2>3, ExchangeAssumption DEF Messages
  <2> QED
    BY <2>2, <2>4, ChunkKeeps
<1> QED
  BY <1>3, <1>4, <1>5, <1>6, ResetKeeps, CallerReturnsKeeps, HandlerAnswersKeeps, DialKeeps
  DEF ExchangeNext

LEMMA InvIsSound == ExchangeInv => ExchangeSound
<1> SUFFICES ASSUME ExchangeInv PROVE ExchangeSound
  OBVIOUS
<1>1. CourseInv /\ \A w \in Ways : ReadingInv(w)
  BY DEF ExchangeInv
<1>2. \A w \in Ways :
        sent[w] # Pending /\ passed[w] = PrefixBytes + sent[w].length
          => reading[w].got = sent[w]
  BY <1>1 DEF ReadingInv
<1> QED
  BY <1>1, <1>2 DEF CourseInv, ExchangeSound

\* For every length of the prefix and of the messages, and however the stream cuts them:
\* whoever was sent a whole message has read just that, and a caller is told of a stored
\* blob, or given one, only by a side that read the whole request and did it
\* (readMessage, the handlers and callers of p2p-protocols.service.ts).
THEOREM ExchangeIsSound == ExchangeSpec => []ExchangeSound
<1>1. ExchangeSpec => []ExchangeInv
  BY ExchangeStarts, ExchangeStepKeeps, PTL DEF ExchangeSpec
<1> QED
  BY <1>1, InvIsSound, PTL

-----------------------------------------------------------------------------
(* Consensus: for any holders, panel size and number of attempts.            *)

\* Who may still be asked are the holders that were never struck; a panel has all of
\* them or as many as were wanted; a suspect of the running attempt is on its panel
\* with the answer that made it one.
PanelInv ==
  /\ struck \subseteq Holders /\ pool = Holders \ struck /\ panel \subseteq pool
  /\ panel # {} => ~Agreed /\ Cardinality(panel) = Least(Cardinality(pool), PanelSize)
  /\ DOMAIN reply = Holders
SuspectsInv ==
  ~Agreed => \A n \in suspects :
    n \in struck \/ (n \in panel /\ reply[n] \in {Refusal, Failure})
VerdictInv ==
  Agreed /\ verdict.matching = 1 => PanelSize = 1 \/ Cardinality(pool) = 1
ConsensusInv == PanelInv /\ SuspectsInv /\ VerdictInv

LEMMA HolderSizes ==
  ASSUME NEW S \in SUBSET Holders
  PROVE  IsFiniteSet(S) /\ Cardinality(S) \in Nat /\ (S # {} => Cardinality(S) > 0)
<1>1. IsFiniteSet(S)
  BY FS_Subset, ConsensusAssumption
<1>2. Cardinality(S) \in Nat /\ (Cardinality(S) = 0 <=> S = {})
  BY <1>1, FS_CardinalityType, FS_EmptySet
<1> QED
  BY <1>1, <1>2

LEMMA ConsensusStarts == ConsensusInit => ConsensusInv
  BY DEF ConsensusInit, ConsensusInv, PanelInv, SuspectsInv, VerdictInv, Agreed, NoReplies

\* One vote is enough only on a panel of one node.
LEMMA OneVote ==
  ASSUME NEW votes \in Nat, NEW size \in Nat, size > 0, Enough(votes, size), votes = 1
  PROVE  size = 1
  BY DEF Enough

LEMMA SelectKeeps ==
  ASSUME ConsensusInv, SelectRandomNodes
  PROVE  ConsensusInv'
<1>1. PICK chosen \in SUBSET pool :
        /\ Cardinality(chosen) = IF Cardinality(pool) < PanelSize THEN Cardinality(pool)
                                 ELSE PanelSize
        /\ panel' = chosen
  BY DEF SelectRandomNodes
<1>2. UNCHANGED <<pool, reply, tries, dispute, suspects, verdict, struck>> /\ ~Agreed /\ panel = {}
  BY DEF SelectRandomNodes
<1>3. Agreed' = Agreed
  BY <1>2 DEF Agreed
<1>4. PanelInv'
  BY <1>1, <1>2, <1>3 DEF ConsensusInv, PanelInv, Least
<1>5. SuspectsInv' /\ VerdictInv'
  BY <1>2, <1>3 DEF ConsensusInv, SuspectsInv, VerdictInv
<1> QED
  BY <1>4, <1>5 DEF ConsensusInv

LEMMA FetchKeeps ==
  ASSUME ConsensusInv, NEW n \in Holders, Fetched(n)
  PROVE  ConsensusInv'
<1>1. PICK r \in Replies :
        /\ reply' = [reply EXCEPT ![n] = r]
        /\ suspects' = IF r \in {Refusal, Failure} THEN suspects \cup {n} ELSE suspects
  BY DEF Fetched
<1>2. UNCHANGED <<pool, panel, tries, dispute, verdict, struck>> /\ n \in panel /\ reply[n] = NoReply
  BY DEF Fetched
<1>3. Agreed' = Agreed
  BY <1>2 DEF Agreed
<1>4. ~Agreed /\ DOMAIN reply = Holders
  BY <1>2 DEF ConsensusInv, PanelInv
<1>5. PanelInv' /\ VerdictInv'
  BY <1>1, <1>2, <1>3 DEF ConsensusInv, PanelInv, VerdictInv
<1>6. SuspectsInv'
  <2> SUFFICES ASSUME NEW s \in suspects'
               PROVE  (s \in struck \/ (s \in panel /\ reply[s] \in {Refusal, Failure}))'
    BY DEF SuspectsInv
  <2>1. CASE s = n /\ r \in {Refusal, Failure}
    BY <1>1, <1>2, <1>4, <2>1
  <2>2. CASE s = n /\ r \notin {Refusal, Failure}
    <3>1. s \in suspects
      BY <1>1, <2>2
    <3>2. s \notin struck
      BY <1>2, <2>2 DEF ConsensusInv, PanelInv
    <3>3. reply[n] \in {Refusal, Failure}
      BY <3>1, <3>2, <1>4, <2>2 DEF ConsensusInv, SuspectsInv
    <3> QED
      BY <1>2, <3>3, ConsensusAssumption
  <2>3. CASE s # n
    <3>1. s \in suspects /\ (s \in Holders => reply'[s] = reply[s])
      BY <1>1, <1>4, <2>3
    <3>2. s \in struck \/ (s \in panel /\ reply[s] \in {Refusal, Failure})
      BY <3>1, <1>4 DEF ConsensusInv, SuspectsInv
    <3> QED
      BY <1>2, <3>1, <3>2 DEF ConsensusInv, PanelInv
  <2> QED
    BY <2>1, <2>2, <2>3
<1> QED
  BY <1>5, <1>6 DEF ConsensusInv

\* A verdict of one vote comes from a panel of one node; without a consensus every
\* suspect of the panel is struck.
LEMMA PerformKeeps ==
  ASSUME ConsensusInv, PerformConsensus
  PROVE  ConsensusInv'
<1> DEFINE size == Cardinality(panel)
           censoring == Senders(Refusal) \cup Senders(Failure)
           disputed == (panel \ censoring) \ Senders(verdict'.accepted)
<1>1. /\ panel # {} /\ panel' = {} /\ reply' = NoReplies /\ suspects' = suspects
      /\ verdict'.consensus => UNCHANGED <<pool, struck>>
      /\ ~verdict'.consensus => /\ pool' = pool \ (censoring \cup disputed)
                                /\ struck' = struck \cup censoring \cup disputed
  BY DEF PerformConsensus
<1>2. /\ pool \subseteq Holders /\ panel \subseteq pool /\ panel \subseteq Holders
      /\ ~Agreed /\ size = Least(Cardinality(pool), PanelSize)
  BY <1>1 DEF ConsensusInv, PanelInv
<1>3. size \in Nat /\ size > 0
  BY <1>1, <1>2, HolderSizes
<1>4. censoring \subseteq panel /\ disputed \subseteq panel
  BY DEF Senders
<1>5. verdict' \in Verdicts
  <2>1. \A h : Senders(h) \in SUBSET Holders
    BY <1>2 DEF Senders
  <2>2. \A h : Votes(h) \in Nat
    BY <2>1, HolderSizes DEF Votes
  <2>3. Leading \subseteq HashesSent
    BY DEF Leading
  <2>4. Cardinality(panel) \in Nat
    BY <1>3
  <2>5. CASE \E h \in Leading :
          verdict' = [consensus |-> Enough(Votes(h), Cardinality(panel)), accepted |-> h,
                      matching |-> Votes(h), asked |-> Cardinality(panel)]
    <3>1. PICK h \in Leading :
            verdict' = [consensus |-> Enough(Votes(h), Cardinality(panel)), accepted |-> h,
                        matching |-> Votes(h), asked |-> Cardinality(panel)]
      BY <2>5
    <3>2. Enough(Votes(h), Cardinality(panel)) \in BOOLEAN
      BY DEF Enough
    <3>3. Votes(h) \in Nat /\ h \in {RightHash, Failure} \cup WrongHashes
      BY <2>2, <2>3 DEF HashesSent
    <3> QED
      BY <2>4, <3>1, <3>2, <3>3 DEF Verdicts
  <2>6. CASE verdict' = [consensus |-> FALSE, accepted |-> Failure, matching |-> 0,
                         asked |-> Cardinality(panel)]
    BY <2>4, <2>6 DEF Verdicts
  <2> QED
    BY <2>5, <2>6 DEF PerformConsensus
<1> HIDE DEF size, censoring, disputed
<1>6. PanelInv'
  <2>1. CASE verdict'.consensus
    BY <1>1, <1>2, <2>1 DEF ConsensusInv, PanelInv, NoReplies
  <2>2. CASE ~verdict'.consensus
    BY <1>1, <1>2, <1>4, <2>2 DEF ConsensusInv, PanelInv, NoReplies
  <2> QED
    BY <2>1, <2>2
<1>7. SuspectsInv'
  <2> SUFFICES ASSUME ~Agreed', NEW n \in suspects PROVE n \in struck'
    BY <1>1 DEF SuspectsInv
  <2>1. n \in struck \/ (n \in panel /\ reply[n] \in {Refusal, Failure})
    BY <1>2 DEF ConsensusInv, SuspectsInv
  <2>2. n \in struck \/ n \in censoring
    BY <2>1 DEF censoring, Senders
  <2>3. ~verdict'.consensus
    BY <1>5, ConsensusAssumption DEF Agreed
  <2> QED
    BY <1>1, <2>2, <2>3
<1>8. VerdictInv'
  <2> SUFFICES ASSUME Agreed', verdict'.matching = 1
               PROVE  PanelSize = 1 \/ Cardinality(pool') = 1
    BY DEF VerdictInv
  <2>1. verdict'.consensus /\ pool' = pool
    BY <1>1 DEF Agreed
  <2>2. PICK h \in Leading :
          verdict' = [consensus |-> Enough(Votes(h), Cardinality(panel)), accepted |-> h,
                      matching |-> Votes(h), asked |-> Cardinality(panel)]
    BY <2>1 DEF PerformConsensus
  <2>3. Enough(Votes(h), size) /\ Votes(h) = 1
    BY <2>1, <2>2 DEF size
  <2>4. size = 1
    BY <2>3, <1>3, OneVote
  <2> QED
    BY <2>1, <2>4, <1>2 DEF Least
<1> QED
  BY <1>6, <1>7, <1>8 DEF ConsensusInv

LEMMA NobodyKeeps ==
  ASSUME ConsensusInv, AskNobody
  PROVE  ConsensusInv'
<1>1. ~Agreed /\ ~Agreed' /\ panel = {} /\ UNCHANGED <<pool, panel, reply, suspects, struck>>
  BY DEF AskNobody, Agreed
<1> QED
  BY <1>1 DEF ConsensusInv, PanelInv, SuspectsInv, VerdictInv

LEMMA ConsensusStepKeeps == ConsensusInv /\ [ConsensusNext]_consensusVars => ConsensusInv'
<1> SUFFICES ASSUME ConsensusInv, [ConsensusNext]_consensusVars PROVE ConsensusInv'
  OBVIOUS
<1>1. CASE SelectRandomNodes
  BY <1>1, SelectKeeps
<1>2. ASSUME NEW n \in Holders, Fetched(n) PROVE ConsensusInv'
  BY <1>2, FetchKeeps
<1>3. CASE PerformConsensus
  BY <1>3, PerformKeeps
<1>4. CASE AskNobody
  BY <1>4, NobodyKeeps
<1>5. CASE UNCHANGED consensusVars
  BY <1>5 DEF consensusVars, ConsensusInv, PanelInv, SuspectsInv, VerdictInv, Agreed
<1> QED
  BY <1>1, <1>2, <1>3, <1>4, <1>5 DEF ConsensusNext

\* fetchWithAntiCensorship accepts the word of one node only when no other is left to
\* ask or only one was wanted, and never asks again who censored or was outvoted: for
\* any holders, any number of attempts and whatever the nodes answer.
THEOREM OnlyLoneVoice == ConsensusSpec => []LoneVoice
<1>1. ConsensusInv => LoneVoice
  <2> SUFFICES ASSUME ConsensusInv PROVE LoneVoice
    OBVIOUS
  <2>1. pool = Holders \ struck /\ panel \cap struck = {}
    BY DEF ConsensusInv, PanelInv
  <2> QED
    BY <2>1 DEF ConsensusInv, SuspectsInv, VerdictInv, LoneVoice
<1> QED
  BY <1>1, ConsensusStarts, ConsensusStepKeeps, PTL DEF ConsensusSpec

-----------------------------------------------------------------------------
(* NodeDiscovery: for any nodes, ban lengths and latencies.                  *)

\* A node is kept out by its record at least as long as its reports ask for, and the
\* number of its invalid proofs bounds how long that is; so a later report, which sets
\* the end of the ban anew, never shortens it.
RecordInv(n) ==
  /\ caught[n] \in 0..Forever
  /\ record[n] = NoRecord => caught[n] = 0
  /\ record[n] # NoRecord =>
       /\ record[n] \in BanRecords
       /\ caught[n] = Forever => record[n].permanent
       /\ record[n].proofs = 0 => caught[n] \in {0, Forever}
       /\ record[n].proofs = 1 => caught[n] <= clock + ShortBan \/ caught[n] = Forever
       /\ n \in failing \/ record[n].permanent \/ record[n].until >= caught[n]

\* Every request was answered or failed.
ObservationInv(n) ==
  obs[n] # NoRecord =>
    /\ obs[n] \in Observations /\ obs[n].requests > 0
    /\ obs[n].failures <= obs[n].requests
    /\ obs[n].good = obs[n].requests - obs[n].failures

DiscoveryInv ==
  /\ clock \in 0..MaxClock
  /\ record = [n \in Nodes |-> record[n]] /\ caught = [n \in Nodes |-> caught[n]]
  /\ obs = [n \in Nodes |-> obs[n]]
  /\ \A n \in Nodes : RecordInv(n) /\ ObservationInv(n)

LEMMA DiscoveryStarts == DiscoveryInit => DiscoveryInv
<1> SUFFICES ASSUME DiscoveryInit PROVE DiscoveryInv
  OBVIOUS
<1>1. /\ clock = 0 /\ record = [n \in Nodes |-> NoRecord] /\ caught = [n \in Nodes |-> 0]
      /\ obs = [n \in Nodes |-> NoRecord]
  BY DEF DiscoveryInit
<1>2. ASSUME NEW n \in Nodes PROVE RecordInv(n) /\ ObservationInv(n)
  BY <1>1, DiscoveryAssumption DEF RecordInv, ObservationInv, Forever
<1> QED
  BY <1>1, <1>2, DiscoveryAssumption DEF DiscoveryInv

-----------------------------------------------------------------------------
(* Records.                                                                  *)

\* A ban record with another count and another end, or one for good.
Until(r, k, u) == [r EXCEPT !.proofs = k, !.until = u]
ForGood(r, k) == [r EXCEPT !.proofs = k, !.permanent = TRUE]

LEMMA UntilFits ==
  ASSUME NEW r \in BanRecords, NEW k \in Nat, NEW u \in Nat
  PROVE  /\ Until(r, k, u) \in BanRecords /\ Until(r, k, u).proofs = k
         /\ Until(r, k, u).until = u /\ Until(r, k, u).permanent = r.permanent
<1>1. Until(r, k, u) \in BanRecords
  BY DEF BanRecords, Until
<1>2. Until(r, k, u).proofs = k
  BY DEF BanRecords, Until
<1>3. Until(r, k, u).until = u
  BY DEF BanRecords, Until
<1>4. Until(r, k, u).permanent = r.permanent
  BY DEF BanRecords, Until
<1> QED
  BY <1>1, <1>2, <1>3, <1>4

LEMMA LongerFits ==
  ASSUME NEW r \in BanRecords, NEW u \in Nat
  PROVE  LET q == Until(r, r.proofs, u)
         IN /\ q \in BanRecords /\ q.proofs = r.proofs
            /\ q.until = u /\ q.permanent = r.permanent
<1>1. r.proofs \in Nat
  BY DEF BanRecords
<1>2. /\ Until(r, r.proofs, u) \in BanRecords
      /\ Until(r, r.proofs, u).proofs = r.proofs
      /\ Until(r, r.proofs, u).until = u
      /\ Until(r, r.proofs, u).permanent = r.permanent
  BY <1>1, UntilFits, Z3
<1> QED
  BY <1>2, Zenon

LEMMA ForGoodFits ==
  ASSUME NEW r \in BanRecords, NEW k \in Nat
  PROVE  /\ ForGood(r, k) \in BanRecords /\ ForGood(r, k).proofs = k
         /\ ForGood(r, k).permanent = TRUE
<1>1. ForGood(r, k) \in BanRecords
  BY DEF BanRecords, ForGood
<1>2. ForGood(r, k).proofs = k
  BY DEF BanRecords, ForGood
<1>3. ForGood(r, k).permanent = TRUE
  BY DEF BanRecords, ForGood
<1> QED
  BY <1>1, <1>2, <1>3

\* What a report makes of the record of its node and of the time it is kept out.
LEMMA ReportFits ==
  ASSUME DiscoveryInv, NEW n \in Nodes, clock' = clock, failing' = failing,
         NEW type \in {"invalid_proof", "cid_mismatch", "corrupt_blob", "timeout"},
         record'[n] = Reported(record[n], type),
         caught'[n] = Later(caught[n], Sentence(record[n], type))
  PROVE  RecordInv(n)'
<1> DEFINE base == IF record[n] = NoRecord THEN FreshRecord ELSE record[n]
<1>1. record'[n] = Banned(base, type)
  BY DEF Reported
<1>2. RecordInv(n) /\ clock \in Nat /\ clock <= MaxClock
  BY DiscoveryAssumption DEF DiscoveryInv
<1>3. /\ base \in BanRecords /\ caught[n] \in 0..Forever
      /\ caught[n] = Forever => base.permanent
      /\ base.proofs = 0 => caught[n] \in {0, Forever}
      /\ base.proofs = 1 => caught[n] <= clock + ShortBan \/ caught[n] = Forever
      /\ n \in failing \/ base.permanent \/ base.until >= caught[n]
  BY <1>2, DiscoveryAssumption DEF RecordInv, FreshRecord, BanRecords, Forever
<1>4. Forever \in Nat /\ Forever > clock + ShortBan /\ Forever > clock + LongBan
  BY <1>2, DiscoveryAssumption DEF Forever
<1>5. base.proofs \in Nat /\ base.until \in Nat /\ base.permanent \in BOOLEAN
  BY <1>3 DEF BanRecords
<1>6. (record[n] = NoRecord \/ record[n].proofs = 0) <=> base.proofs = 0
  BY DEF FreshRecord
<1>7. (record[n] # NoRecord /\ record[n].proofs = 1) <=> base.proofs = 1
  BY DEF FreshRecord
<1> HIDE DEF base
<1> SUFFICES /\ record'[n] \in BanRecords /\ caught'[n] \in 0..Forever
             /\ caught'[n] = Forever => record'[n].permanent
             /\ record'[n].proofs = 0 => caught'[n] \in {0, Forever}
             /\ record'[n].proofs = 1 => caught'[n] <= clock + ShortBan \/ caught'[n] = Forever
             /\ n \in failing \/ record'[n].permanent \/ record'[n].until >= caught'[n]
  BY DiscoveryAssumption DEF RecordInv, Forever
<1>8. CASE type = "timeout"
  <2>1. record'[n] = base
    BY <1>1, <1>8 DEF Banned
  <2>2. caught'[n] = caught[n]
    BY <1>3, <1>4, <1>8 DEF Later, Sentence
  <2> QED
    BY <1>3, <2>1, <2>2
<1>9. CASE type \in {"cid_mismatch", "corrupt_blob"}
  <2>1. record'[n] = [base EXCEPT !.permanent = TRUE]
    BY <1>1, <1>9 DEF Banned
  <2>3. record'[n] \in BanRecords /\ record'[n].permanent
    BY <1>3, <2>1 DEF BanRecords
  <2>2. caught'[n] = Forever
    BY <1>3, <1>4, <1>9 DEF Later, Sentence
  <2> QED
    BY <1>4, <2>2, <2>3
<1>10. CASE type = "invalid_proof" /\ base.proofs = 0
  <2>1. record'[n] = Until(base, 1, clock + ShortBan)
    BY <1>1, <1>10, <1>5 DEF Banned, Until
  <2>2. caught'[n] = Later(caught[n], clock + ShortBan)
    BY <1>6, <1>10 DEF Sentence
  <2>0. clock + ShortBan \in Nat
    BY <1>2, DiscoveryAssumption
  <2>3. /\ record'[n] \in BanRecords /\ record'[n].proofs = 1
        /\ record'[n].until = clock + ShortBan /\ record'[n].permanent = base.permanent
    <3>1. base \in BanRecords /\ 1 \in Nat
      BY <1>3
    <3>2. /\ Until(base, 1, clock + ShortBan) \in BanRecords
          /\ Until(base, 1, clock + ShortBan).proofs = 1
          /\ Until(base, 1, clock + ShortBan).until = clock + ShortBan
          /\ Until(base, 1, clock + ShortBan).permanent = base.permanent
      BY ONLY <2>0, <3>1, UntilFits, Z3
    <3> QED
      BY ONLY <2>1, <3>2
  <2> QED
    BY <1>2, <1>3, <1>4, <1>10, <2>2, <2>3, DiscoveryAssumption DEF Later
<1>11. CASE type = "invalid_proof" /\ base.proofs = 1
  <2>1. record'[n] = Until(base, 2, clock + LongBan)
    BY <1>1, <1>11, <1>5 DEF Banned, Until
  <2>2. caught'[n] = Later(caught[n], clock + LongBan)
    BY <1>6, <1>7, <1>11 DEF Sentence
  <2>0. clock + LongBan \in Nat
    BY <1>2, DiscoveryAssumption
  <2>3. /\ record'[n] \in BanRecords /\ record'[n].proofs = 2
        /\ record'[n].until = clock + LongBan /\ record'[n].permanent = base.permanent
    <3>1. base \in BanRecords /\ 2 \in Nat
      BY <1>3
    <3>2. LET q == Until(base, 2, clock + LongBan)
          IN /\ q \in BanRecords /\ q.proofs = 2
             /\ q.until = clock + LongBan /\ q.permanent = base.permanent
      BY ONLY <2>0, <3>1, UntilFits, Z3
    <3> QED
      BY ONLY <2>1, <3>2
  <2> QED
    BY <1>2, <1>3, <1>4, <1>11, <2>2, <2>3, DiscoveryAssumption DEF Later
<1>12. CASE type = "invalid_proof" /\ base.proofs >= 2
  <2>1. record'[n] = ForGood(base, base.proofs + 1)
    BY <1>1, <1>12, <1>5 DEF Banned, ForGood
  <2>2. caught'[n] = Forever
    BY <1>3, <1>4, <1>5, <1>6, <1>7, <1>12 DEF Later, Sentence
  <2>3. record'[n] \in BanRecords /\ record'[n].permanent /\ record'[n].proofs = base.proofs + 1
    <3>1. base \in BanRecords /\ base.proofs + 1 \in Nat
      BY <1>3, <1>5
    <3>2. LET q == ForGood(base, base.proofs + 1)
          IN q \in BanRecords /\ q.proofs = base.proofs + 1 /\ q.permanent = TRUE
      BY ONLY <3>1, ForGoodFits
    <3> QED
      BY ONLY <2>1, <3>2
  <2> QED
    BY <1>4, <1>5, <1>12, <2>2, <2>3
<1> QED
  BY <1>5, <1>8, <1>9, <1>10, <1>11, <1>12

LEMMA MisbehaviorKeeps ==
  ASSUME DiscoveryInv, NEW n \in Nodes, clock' = clock,
         NEW type \in {"invalid_proof", "cid_mismatch", "corrupt_blob", "timeout"},
         RecordMisbehavior(n, type)
  PROVE  DiscoveryInv'
<1>1. /\ record' = [record EXCEPT ![n] = Reported(record[n], type)]
      /\ caught' = [caught EXCEPT ![n] = Later(caught[n], Sentence(record[n], type))]
      /\ UNCHANGED <<obs, failing>>
  BY DEF RecordMisbehavior
<1>2. /\ DOMAIN record = Nodes /\ DOMAIN caught = Nodes
  BY DEF DiscoveryInv
<1>3. RecordInv(n)'
  <2>1. /\ record'[n] = Reported(record[n], type)
        /\ caught'[n] = Later(caught[n], Sentence(record[n], type))
    BY <1>1, <1>2
  <2> QED
    BY <1>1, <2>1, ReportFits
<1>4. ASSUME NEW m \in Nodes, m # n PROVE RecordInv(m)'
  BY <1>1, <1>2, <1>4 DEF RecordInv, DiscoveryInv
<1>5. ASSUME NEW m \in Nodes PROVE ObservationInv(m)'
  BY <1>1 DEF ObservationInv, DiscoveryInv
<1>6. /\ record' = [m \in Nodes |-> record'[m]] /\ caught' = [m \in Nodes |-> caught'[m]]
      /\ obs' = [m \in Nodes |-> obs'[m]] /\ clock' \in 0..MaxClock
  BY <1>1 DEF DiscoveryInv
<1> QED
  BY <1>3, <1>4, <1>5, <1>6 DEF DiscoveryInv

-----------------------------------------------------------------------------
(* Observations.                                                             *)

\* One more answer or failure.
LEMMA ObservedFits ==
  ASSUME NEW o \in Observations, NEW success \in BOOLEAN, NEW latency \in Nat,
         o.failures <= o.requests, o.good = o.requests - o.failures
  PROVE  LET p == Observed(o, success, latency)
         IN /\ p \in Observations /\ p.requests = o.requests + 1
            /\ p.failures <= p.requests /\ p.good = p.requests - p.failures
            /\ p.failures = IF success THEN o.failures ELSE o.failures + 1
            /\ p.total = o.total + latency
<1> DEFINE failures == IF success THEN o.failures ELSE o.failures + 1
           p == Observed(o, success, latency)
<1>1. /\ o.requests \in Nat /\ o.failures \in Nat /\ o.total \in Nat
      /\ failures \in Nat /\ failures <= o.requests + 1
  BY DEF Observations
<1>2. p = [o EXCEPT !.requests = o.requests + 1, !.failures = failures, !.total = o.total + latency,
                    !.good = o.requests + 1 - failures]
  BY DEF Observed, ObservedWith
<1> HIDE DEF failures, p
<1>3. o.requests + 1 - failures \in Nat /\ o.total + latency \in Nat /\ o.requests + 1 \in Nat
  BY <1>1
<1>4. p \in Observations
  BY <1>1, <1>2, <1>3 DEF Observations
<1>5. /\ p.requests = o.requests + 1 /\ p.failures = failures
      /\ p.good = o.requests + 1 - failures /\ p.total = o.total + latency
  BY <1>2 DEF Observations
<1>6. /\ p.requests = o.requests + 1 /\ p.failures <= p.requests
      /\ p.good = p.requests - p.failures
  BY <1>1, <1>5
<1> QED
  BY <1>4, <1>5, <1>6 DEF p, failures

LEMMA ObservationKeeps ==
  ASSUME DiscoveryInv, NEW n \in Nodes, NEW success \in BOOLEAN, NEW latency \in Nat,
         UpdateObservations(n, success, latency)
  PROVE  (\A m \in Nodes : ObservationInv(m)') /\ obs' = [m \in Nodes |-> obs'[m]]
<1> DEFINE o == IF obs[n] = NoRecord THEN NewObs ELSE obs[n]
<1>1. DOMAIN obs = Nodes /\ clock \in Nat /\ ObservationInv(n)
  BY DiscoveryAssumption DEF DiscoveryInv
<1>2. o \in Observations /\ o.failures <= o.requests /\ o.good = o.requests - o.failures
  BY <1>1 DEF NewObs, Observations, ObservationInv
<1>3. obs' = [obs EXCEPT ![n] = Observed(o, success, latency)]
  BY DEF UpdateObservations
<1> HIDE DEF o
<1> DEFINE p == Observed(o, success, latency)
<1>4. /\ p \in Observations /\ p.requests = o.requests + 1
      /\ p.failures <= p.requests /\ p.good = p.requests - p.failures
  BY <1>2, ObservedFits
<1>5. o.requests \in Nat
  BY <1>2 DEF Observations
<1>6. obs'[n] = p
  BY <1>1, <1>3
<1> HIDE DEF p
<1>7. ObservationInv(n)'
  BY <1>4, <1>5, <1>6 DEF ObservationInv
<1>8. ASSUME NEW m \in Nodes, m # n PROVE ObservationInv(m)'
  BY <1>1, <1>3, <1>8 DEF ObservationInv, DiscoveryInv
<1>9. obs' = [m \in Nodes |-> obs'[m]]
  BY <1>1, <1>3
<1> QED
  BY <1>7, <1>8, <1>9

LEMMA SuccessKeeps ==
  ASSUME DiscoveryInv, NEW n \in Nodes, NEW latency \in Nat, clock' = clock,
         RecordSuccess(n, latency)
  PROVE  DiscoveryInv'
<1>1. UpdateObservations(n, TRUE, latency) /\ UNCHANGED <<record, caught, failing>>
  BY DEF RecordSuccess
<1>2. (\A m \in Nodes : ObservationInv(m)') /\ obs' = [m \in Nodes |-> obs'[m]]
  BY <1>1, ObservationKeeps
<1>3. ASSUME NEW m \in Nodes PROVE RecordInv(m)'
  BY <1>1 DEF DiscoveryInv, RecordInv
<1> QED
  BY <1>1, <1>2, <1>3 DEF DiscoveryInv

\* applyBan: the node is among the failing then, which nothing undoes.
LEMMA FailureKeeps ==
  ASSUME DiscoveryInv, NEW n \in Nodes, clock' = clock, RecordFailure(n)
  PROVE  DiscoveryInv'
<1>1. UpdateObservations(n, FALSE, 0) /\ caught' = caught
  BY DEF RecordFailure
<1>2. (\A m \in Nodes : ObservationInv(m)') /\ obs' = [m \in Nodes |-> obs'[m]]
  BY <1>1, ObservationKeeps
<1>3. DOMAIN record = Nodes /\ clock \in Nat /\ clock + ShortBan \in Nat /\ RecordInv(n)
  BY DiscoveryAssumption DEF DiscoveryInv
<1>4. CASE UNCHANGED record
  <2>1. failing \subseteq failing'
    BY DEF RecordFailure
  <2>2. ASSUME NEW m \in Nodes PROVE RecordInv(m)'
    BY <1>1, <1>4, <2>1 DEF DiscoveryInv, RecordInv
  <2> QED
    BY <1>1, <1>2, <1>4, <2>2 DEF DiscoveryInv
<1>5. CASE /\ record[n] # NoRecord /\ failing' = failing \cup {n}
           /\ record' = [record EXCEPT ![n].until = clock + ShortBan]
  <2>1. record[n] \in BanRecords
    BY <1>3, <1>5 DEF RecordInv
  <2> DEFINE q == Until(record[n], record[n].proofs, clock + ShortBan)
  <2>2. record'[n] = q
    BY <1>3, <1>5, <2>1 DEF Until, BanRecords
  <2>3. clock + ShortBan \in Nat
    BY <1>3
  <2>4. /\ q \in BanRecords /\ q.proofs = record[n].proofs
        /\ q.until = clock + ShortBan /\ q.permanent = record[n].permanent
    BY ONLY <2>1, <2>3, LongerFits
  <2> HIDE DEF q
  <2>5. RecordInv(n)'
    <3>1. q # NoRecord /\ n \in failing' /\ record[n] # NoRecord
      BY <1>5, <2>4, DiscoveryAssumption
    <3>2. /\ caught[n] \in 0..Forever
          /\ caught[n] = Forever => q.permanent
          /\ q.proofs = 0 => caught[n] \in {0, Forever}
          /\ q.proofs = 1 => caught[n] <= clock + ShortBan \/ caught[n] = Forever
      BY <1>3, <2>4, <3>1 DEF RecordInv
    <3> SUFFICES
          /\ record'[n] \in BanRecords /\ caught'[n] \in 0..Forever
          /\ caught'[n] = Forever => record'[n].permanent
          /\ record'[n].proofs = 0 => caught'[n] \in {0, Forever}
          /\ record'[n].proofs = 1 => caught'[n] <= clock + ShortBan \/ caught'[n] = Forever
          /\ n \in failing'
      BY <3>1, <2>2 DEF RecordInv, Forever
    <3>3. caught'[n] = caught[n]
      BY <1>1
    <3>4. q \in BanRecords /\ n \in failing'
      BY <2>4, <3>1
    <3> QED
      BY ONLY <2>2, <3>2, <3>3, <3>4, Zenon
  <2>6. ASSUME NEW m \in Nodes, m # n PROVE RecordInv(m)'
    BY <1>1, <1>3, <1>5, <2>6 DEF DiscoveryInv, RecordInv
  <2>7. record' = [m \in Nodes |-> record'[m]]
    BY <1>3, <1>5
  <2> QED
    BY <1>1, <1>2, <2>5, <2>6, <2>7 DEF DiscoveryInv
<1> QED
  BY <1>4, <1>5 DEF RecordFailure

LEMMA DiscoveryStepKeeps == DiscoveryInv /\ [DiscoveryNext]_discoveryVars => DiscoveryInv'
<1> SUFFICES ASSUME DiscoveryInv, [DiscoveryNext]_discoveryVars PROVE DiscoveryInv'
  OBVIOUS
<1>1. CASE Report
  <2>1. PICK n \in Nodes :
          \/ \E latency \in Latencies : RecordSuccess(n, latency)
          \/ RecordFailure(n)
          \/ \E type \in {"invalid_proof", "cid_mismatch", "corrupt_blob", "timeout"} :
               RecordMisbehavior(n, type)
    BY <1>1 DEF Report
  <2>2. clock' = clock
    BY <1>1 DEF Report
  <2> QED
    BY <2>1, <2>2, SuccessKeeps, FailureKeeps, MisbehaviorKeeps, DiscoveryAssumption
<1>2. ASSUME NEW n \in Nodes, Answer(n) PROVE DiscoveryInv'
  <2>1. clock' = clock
    BY <1>2 DEF Answer
  <2>2. CASE RecordSuccess(n, 0)
    BY <2>1, <2>2, SuccessKeeps
  <2>3. CASE RecordMisbehavior(n, "cid_mismatch")
    BY <2>1, <2>3, MisbehaviorKeeps
  <2>4. CASE RecordFailure(n)
    BY <2>1, <2>4, FailureKeeps
  <2> QED
    BY <1>2, <2>2, <2>3, <2>4 DEF Answer
<1>3. ASSUME NEW active \in SUBSET Nodes, DiscoverNodes(active) PROVE DiscoveryInv'
  BY <1>3 DEF DiscoverNodes, DiscoveryInv, RecordInv, ObservationInv
<1>4. CASE CleanExpired
  <2>1. ASSUME NEW m \in Nodes PROVE ObservationInv(m)' /\ RecordInv(m)'
    BY <1>4, <2>1 DEF CleanExpired, DiscoveryInv, ObservationInv, RecordInv
  <2> QED
    BY <1>4, <2>1 DEF CleanExpired, DiscoveryInv
<1>5. CASE PassTime
  <2>1. clock' = clock + 1 /\ clock' \in 0..MaxClock /\ UNCHANGED <<record, caught, failing, obs>>
    <3>1. clock \in 0..MaxClock /\ MaxClock \in Nat
      BY DiscoveryAssumption DEF DiscoveryInv
    <3>2. clock < MaxClock /\ clock' = clock + 1 /\ UNCHANGED <<record, caught, failing, obs>>
      BY <1>5 DEF PassTime
    <3> QED
      BY ONLY <3>1, <3>2
  <2>2. ASSUME NEW m \in Nodes PROVE RecordInv(m)'
    <3>0. RecordInv(m) /\ clock \in 0..MaxClock
      BY DEF DiscoveryInv
    <3>1. caught[m] \in Int /\ clock \in Nat
      BY <3>0, DiscoveryAssumption DEF RecordInv
    <3>2. caught[m] <= clock + ShortBan => caught[m] <= clock' + ShortBan
      BY <2>1, <3>1, DiscoveryAssumption
    <3> QED
      BY <2>1, <3>0, <3>2 DEF RecordInv, Forever
  <2>3. ASSUME NEW m \in Nodes PROVE ObservationInv(m)'
    BY <2>1 DEF DiscoveryInv, ObservationInv
  <2> QED
    BY <2>1, <2>2, <2>3 DEF DiscoveryInv
<1>6. CASE UNCHANGED discoveryVars
  BY <1>6 DEF discoveryVars, DiscoveryInv, RecordInv, ObservationInv
<1> QED
  BY <1>1, <1>2, <1>3, <1>4, <1>5, <1>6 DEF DiscoveryNext

\* selectUploadNodes never takes a node before the ban of its reports is over, for any
\* nodes and any lengths of the two bans, the second not shorter than the first; only
\* the ban of a repeated failure can replace a longer one.
THEOREM CaughtStayOut == DiscoverySpec => []CaughtNeverSelected
<1>1. DiscoveryInv => CaughtNeverSelected
  <2> SUFFICES ASSUME DiscoveryInv, NEW n \in SelectUploadNodes, clock < caught[n]
               PROVE  n \in failing /\ caught[n] # Forever
    BY DEF CaughtNeverSelected
  <2>1. n \in Nodes /\ ~Barred(n)
    BY DEF SelectUploadNodes, Eligible
  <2>2. RecordInv(n) /\ clock \in Nat
    BY <2>1, DiscoveryAssumption DEF DiscoveryInv
  <2>3. record[n] # NoRecord
    BY <2>2 DEF RecordInv
  <2>4. ~record[n].permanent /\ ~(clock < record[n].until)
    BY <2>1, <2>3 DEF Barred
  <2>5. record[n].until \in Nat /\ caught[n] \in Int
    BY <2>2, <2>3 DEF RecordInv, BanRecords
  <2>6. ~(record[n].until >= caught[n])
    BY <2>2, <2>4, <2>5
  <2> QED
    BY <2>2, <2>3, <2>4, <2>6 DEF RecordInv
<1> QED
  BY <1>1, DiscoveryStarts, DiscoveryStepKeeps, PTL DEF DiscoverySpec

-----------------------------------------------------------------------------
(* The score.                                                                *)

\* What one unanswered request more does to the latency part of a score.
LEMMA LatencyGrows ==
  ASSUME NEW r \in Nat \ {0}, NEW t \in Nat, NEW o \in Observations, NEW p \in Observations,
         o.requests = r, p.requests = r + 1, o.total = t, p.total = t
  PROVE  /\ LatencyPart(o) \in Int /\ LatencyPart(p) \in Int
         /\ LatencyPart(p) * r <= LatencyPart(o) * (r + 1) + 20 * r
<1> DEFINE M == MaxLatency
           d == (20 * t) \div M
<1>1. M \in Nat /\ M > 0
  BY DiscoveryAssumption
<1>2. d \in Nat /\ M * d <= 20 * t /\ 20 * t < M * (d + 1)
  BY <1>1
<1> HIDE DEF M, d
<1>3. /\ LatencyPart(o) = IF t = 0 THEN 10 * r ELSE IF t > M * r THEN 0 ELSE 20 * r - d
      /\ LatencyPart(p) = IF t = 0 THEN 10 * (r + 1) ELSE IF t > M * (r + 1) THEN 0
                          ELSE 20 * (r + 1) - d
  BY DEF LatencyPart, M, d
<1>4. /\ 10 * r \in Int /\ 20 * r - d \in Int /\ 10 * (r + 1) \in Int /\ 20 * (r + 1) - d \in Int
  BY <1>2
<1>5. LatencyPart(o) \in Int /\ LatencyPart(p) \in Int
  BY <1>3, <1>4
<1>6. CASE t = 0
  BY <1>3, <1>6
<1>7. CASE t # 0 /\ t > M * r
  <2>1. d >= 20 * r
    BY <1>1, <1>2, <1>7
  <2>2. LatencyPart(o) = 0
    BY <1>3, <1>7
  <2>3. LatencyPart(p) <= 20
    BY <1>2, <1>3, <1>7, <2>1
  <2> QED
    BY <1>5, <2>2, <2>3
<1>8. CASE t # 0 /\ ~(t > M * r)
  <2>1. d <= 20 * r
    BY <1>1, <1>2, <1>8
  <2>2. ~(t > M * (r + 1))
    BY <1>1, <1>8
  <2>3. LatencyPart(o) = 20 * r - d /\ LatencyPart(p) = 20 * (r + 1) - d
    BY <1>3, <1>8, <2>2
  <2> QED
    BY <1>2, <2>1, <2>3
<1> QED
  BY <1>5, <1>6, <1>7, <1>8

\* The first failure among answered requests: the rate of success falls by more than
\* the mean latency can gain.
LEMMA FirstFailure ==
  ASSUME NEW o \in Observations, NEW p \in Observations, o.requests > 0,
         o.failures = 0, o.good = o.requests,
         p.requests = o.requests + 1, p.good = o.requests, p.total = o.total
  PROVE  ~(Weight(o) * p.requests < Weight(p) * o.requests)
<1> DEFINE r == o.requests
           lo == LatencyPart(o)
           lp == LatencyPart(p)
<1>1. r \in Nat \ {0} /\ o.total \in Nat
  BY DEF Observations
<1>2. lo \in Int /\ lp \in Int /\ lp * r <= lo * (r + 1) + 20 * r
  BY <1>1, LatencyGrows
<1>3. Weight(o) = 20 * r + lo + 10 * r /\ Weight(p) = 20 * r + lp + 10 * (r + 1)
  BY DEF Weight
<1>9. o.requests = r /\ p.requests = r + 1
  OBVIOUS
<1> HIDE DEF r, lo, lp
<1>4. (30 * r + lo) * (r + 1) = 30 * (r * r) + 30 * r + lo * (r + 1)
  BY <1>1, <1>2
<1>5. (30 * r + 10 + lp) * r = 30 * (r * r) + 10 * r + lp * r
  BY <1>1, <1>2
<1>6. (30 * r + 10 + lp) * r <= (30 * r + lo) * (r + 1)
  <2>1. r * r \in Int /\ lo * (r + 1) \in Int /\ lp * r \in Int
    BY <1>1, <1>2
  <2> QED
    BY <1>1, <1>2, <1>4, <1>5, <2>1
<1>7. /\ (30 * r + 10 + lp) * r \in Int /\ (30 * r + lo) * (r + 1) \in Int
  BY <1>1, <1>2
<1>8. Weight(o) = 30 * r + lo /\ Weight(p) = 30 * r + 10 + lp
  BY <1>1, <1>2, <1>3
<1> QED
  BY <1>6, <1>7, <1>8, <1>9

LEMMA FirstFailureCounted ==
  ASSUME NEW o \in Observations, NEW p, o.requests > 0,
         o.failures = 0, o.good = o.requests, p.failures = 1,
         \/ p = o \/ \E latency \in Nat : p = Observed(o, TRUE, latency)
         \/ p = Observed(o, FALSE, 0)
  PROVE  ~(Weight(o) * p.requests < Weight(p) * o.requests)
<1>1. o.requests \in Nat /\ o.total \in Nat
  BY DEF Observations
<1>0. o.failures <= o.requests /\ o.good = o.requests - o.failures /\ 0 \in Nat
  BY <1>1
<1>2. ASSUME NEW latency \in Nat PROVE Observed(o, TRUE, latency).failures = o.failures
  <2>1. TRUE \in BOOLEAN
    OBVIOUS
  <2> QED
    BY ONLY <1>0, <2>1, ObservedFits, Zenon
<1>3. p = Observed(o, FALSE, 0)
  <2>1. ASSUME NEW latency \in Nat, p = Observed(o, TRUE, latency) PROVE FALSE
    <3>1. p.failures = o.failures
      BY <1>2, <2>1, Zenon
    <3> QED
      BY <3>1
  <2>2. p # o
    OBVIOUS
  <2> QED
    BY <2>1, <2>2
<1>4. LET q == Observed(o, FALSE, 0)
      IN /\ q \in Observations /\ q.requests = o.requests + 1
         /\ q.good = q.requests - q.failures /\ q.total = o.total + 0
  <2>1. FALSE \in BOOLEAN
    OBVIOUS
  <2> QED
    BY ONLY <1>0, <2>1, ObservedFits, Zenon
<1>5. p \in Observations /\ p.requests = o.requests + 1 /\ p.total = o.total + 0
  BY <1>3, <1>4
<1>6. p.good = p.requests - p.failures
  BY <1>3, <1>4
<1>7. p.good = o.requests /\ p.total = o.total
  BY <1>1, <1>5, <1>6
<1> QED
  BY <1>5, <1>7, FirstFailure

\* What a step does to the observation of a node: nothing, forget it, or count one
\* request.
LEMMA ObservationSteps ==
  ASSUME DiscoveryInv, [DiscoveryNext]_discoveryVars, NEW n \in Nodes,
         obs[n] # NoRecord, obs'[n] # NoRecord
  PROVE  \/ obs'[n] = obs[n]
         \/ \E latency \in Nat : obs'[n] = Observed(obs[n], TRUE, latency)
         \/ obs'[n] = Observed(obs[n], FALSE, 0)
<1>1. DOMAIN obs = Nodes
  BY DEF DiscoveryInv
<1>2. ASSUME NEW m \in Nodes, NEW latency \in Nat, RecordSuccess(m, latency)
      PROVE  obs'[n] = obs[n] \/ obs'[n] = Observed(obs[n], TRUE, latency)
  BY <1>1, <1>2 DEF RecordSuccess, UpdateObservations
<1>3. ASSUME NEW m \in Nodes, RecordFailure(m)
      PROVE  obs'[n] = obs[n] \/ obs'[n] = Observed(obs[n], FALSE, 0)
  BY <1>1, <1>3 DEF RecordFailure, UpdateObservations
<1>4. CASE Report
  BY <1>2, <1>3, <1>4, DiscoveryAssumption DEF Report, RecordMisbehavior
<1>5. ASSUME NEW m \in Nodes, Answer(m)
      PROVE  \/ obs'[n] = obs[n] \/ obs'[n] = Observed(obs[n], FALSE, 0)
             \/ obs'[n] = Observed(obs[n], TRUE, 0)
  BY <1>2, <1>3, <1>5 DEF Answer, RecordMisbehavior
<1>6. CASE CleanExpired
  BY <1>6 DEF CleanExpired
<1>7. CASE PassTime \/ UNCHANGED discoveryVars \/ \E active \in SUBSET Nodes : DiscoverNodes(active)
  BY <1>7 DEF PassTime, DiscoverNodes, discoveryVars
<1> QED
  BY <1>4, <1>5, <1>6, <1>7 DEF DiscoveryNext

\* A node that answered everything does not gain by a failure, for any latencies and
\* any number of requests, though updateObservations counts the failure as an answer
\* that took no time.
THEOREM NoGainByFailing == DiscoverySpec => FailureNoGain
<1>1. DiscoveryInv /\ [DiscoveryNext]_discoveryVars =>
        [\A n \in Nodes :
           obs[n] # NoRecord /\ obs[n].failures = 0 /\ obs'[n] # NoRecord /\ obs'[n].failures = 1
             => ~ScoreLess(obs[n], obs'[n])]_discoveryVars
  <2> SUFFICES ASSUME DiscoveryInv, [DiscoveryNext]_discoveryVars, NEW n \in Nodes,
                      obs[n] # NoRecord, obs[n].failures = 0,
                      obs'[n] # NoRecord, obs'[n].failures = 1
               PROVE  ~ScoreLess(obs[n], obs'[n])
    OBVIOUS
  <2> DEFINE o == obs[n]
             p == obs'[n]
  <2>1. o \in Observations /\ o.requests > 0 /\ o.failures = 0 /\ o.good = o.requests
    <3>1. ObservationInv(n)
      BY DEF DiscoveryInv
    <3> QED
      BY <3>1 DEF ObservationInv, Observations
  <2>2. \/ p = o
        \/ \E latency \in Nat : p = Observed(o, TRUE, latency)
        \/ p = Observed(o, FALSE, 0)
    BY ObservationSteps
  <2>3. p.failures = 1
    OBVIOUS
  <2> HIDE DEF o, p
  <2>4. ~(Weight(o) * p.requests < Weight(p) * o.requests)
    BY <2>1, <2>2, <2>3, FirstFailureCounted
  <2> QED
    BY <2>4 DEF ScoreLess, o, p
<1> QED
  BY <1>1, DiscoveryStarts, DiscoveryStepKeeps, PTL DEF DiscoverySpec, FailureNoGain

-----------------------------------------------------------------------------
(* PeerNode: config.json                                                     *)

\* Until a write of it is cut the file is what the process has in memory, and it is
\* there once there has been a start.
ConfInv ==
  configTorn
    \/ /\ configFile = Absent /\ proc = "down" /\ firstSetting = "unset" /\ directs = {}
    \/ /\ configFile \in Confs /\ (proc # "down" => conf = configFile)
       /\ configFile.setting = firstSetting /\ firstSetting # "unset"
       /\ directs \subseteq configFile.boot

LEMMA WriteConfigWhole ==
  ASSUME NEW text, WriteConfig(text)
  PROVE  configTorn' \/ (configFile' = text /\ configTorn' = configTorn)
BY DEF WriteConfig

LEMMA StartPeerKeepsConf ==
  ASSUME ConfInv, NEW env \in Settings, NEW expired \in SUBSET PeerIds, StartPeer(env, expired)
  PROVE  ConfInv'
<1>1. CASE configTorn'
  BY <1>1 DEF ConfInv
<1>2. CASE ~configTorn'
  <2>1. /\ configFile' = conf' /\ conf' = StartConf(env) /\ ~configTorn /\ directs' = directs
        /\ proc' # "down"
        /\ firstSetting' = IF firstSetting = "unset" THEN conf'.setting ELSE firstSetting
    BY <1>2, WriteConfigWhole DEF StartPeer
  <2>2. CASE configFile = Absent
    <3>1. firstSetting = "unset" /\ directs = {}
      BY <2>1, <2>2, PeerAssumption DEF ConfInv
    <3>2. conf' = [boot |-> EnvPeers, setting |-> env]
      BY <2>1, <2>2 DEF StartConf, LoadedConf, NoConf, ConfFrom
    <3>3. conf' \in Confs /\ conf'.setting = env /\ env # "unset"
      BY <3>2, PeerAssumption DEF Confs
    <3> QED
      BY <2>1, <3>1, <3>3 DEF ConfInv
  <2>3. CASE configFile # Absent
    <3>1. /\ configFile \in Confs /\ configFile.setting = firstSetting
          /\ firstSetting # "unset" /\ directs \subseteq configFile.boot
      BY <2>1, <2>3 DEF ConfInv
    <3>2. LoadedConf = configFile
      BY <2>3, <3>1, PeerAssumption DEF LoadedConf
    <3>3. conf' = [boot |-> IF configFile.boot # {} THEN configFile.boot ELSE EnvPeers,
                   setting |-> configFile.setting]
      BY <2>1, <3>1, <3>2 DEF StartConf, ConfFrom
    <3>4. /\ conf' \in Confs /\ conf'.setting = firstSetting /\ configFile.boot \subseteq conf'.boot
      BY <3>1, <3>3, PeerAssumption DEF Confs
    <3> QED
      BY <2>1, <3>1, <3>4 DEF ConfInv
  <2> QED
    BY <2>2, <2>3
<1> QED
  BY <1>1, <1>2

LEMMA PeerConnectKeepsConf ==
  ASSUME ConfInv, NEW p \in PeerIds, NEW direct \in BOOLEAN, PeerConnect(p, direct)
  PROVE  ConfInv'
<1>1. proc # "down" /\ proc' = proc /\ firstSetting' = firstSetting
  BY DEF PeerConnect
<1>2. CASE ~direct
  BY <1>1, <1>2 DEF PeerConnect, ConfInv
<1>3. CASE direct
  <2>1. AddBootstrap(p) /\ directs' = directs \cup {p}
    BY <1>3 DEF PeerConnect
  <2>2. CASE p \in conf.boot
    <3>1. UNCHANGED <<conf, configFile, configTorn>>
      BY <2>1, <2>2 DEF AddBootstrap, AddBootstrapSaving
    <3> QED
      BY <1>1, <2>1, <2>2, <3>1 DEF ConfInv
  <2>3. CASE p \notin conf.boot
    <3>1. conf' = [conf EXCEPT !.boot = @ \cup {p}] /\ WriteConfig(conf')
      BY <2>1, <2>3 DEF AddBootstrap, AddBootstrapSaving
    <3>2. configTorn' \/ (configFile' = conf' /\ configTorn' = configTorn)
      BY <3>1, WriteConfigWhole
    <3>3. CASE configTorn'
      BY <3>3 DEF ConfInv
    <3>4. CASE ~configTorn'
      <4>1. /\ configFile \in Confs /\ conf = configFile /\ configFile.setting = firstSetting
            /\ firstSetting # "unset" /\ directs \subseteq configFile.boot
        BY <1>1, <3>2, <3>4 DEF ConfInv
      <4>2. conf' \in Confs /\ conf'.setting = conf.setting /\ conf'.boot = conf.boot \cup {p}
        BY <3>1, <4>1 DEF Confs
      <4> QED
        BY <1>1, <2>1, <3>2, <3>4, <4>1, <4>2 DEF ConfInv
    <3> QED
      BY <3>3, <3>4
  <2> QED
    BY <2>2, <2>3
<1> QED
  BY <1>2, <1>3

LEMMA ConfStepKeeps == ConfInv /\ [PeerNext]_peerVars => ConfInv'
<1> SUFFICES ASSUME ConfInv, [PeerNext]_peerVars PROVE ConfInv'
  OBVIOUS
<1>1. ASSUME UNCHANGED <<configFile, conf, firstSetting, directs, configTorn>>,
             proc' \in {proc, "down"} \/ (proc # "down" /\ proc' # "down")
      PROVE  ConfInv'
  BY <1>1 DEF ConfInv
<1>2. CASE Started
  BY <1>1, <1>2 DEF Started
<1>3. CASE CacheTimer \/ CacheGoes \/ CacheThrows \/ UNCHANGED peerVars
  BY <1>1, <1>3 DEF CacheTimer, CacheGoes, CacheThrows, peerVars
<1>4. CASE \E s \in Signals : SignalComes(s) \/ FlushEnds(s) \/ Exit(s)
  BY <1>1, <1>4 DEF SignalComes, FlushEnds, Exit, End
<1>5. CASE PeerCrash
  BY <1>1, <1>5 DEF PeerCrash, End
<1> QED
  BY <1>2, <1>3, <1>4, <1>5, StartPeerKeepsConf, PeerConnectKeepsConf DEF PeerNext

\* For any peers and settings: config.json keeps the setting of the first start and every
\* peer that was connected directly, unless a write of it was cut (config-manager.ts,
\* config/index.ts and peer:connect of p2p.service.ts).
THEOREM ConfigStaysKept == PeerSpec => []ConfigKept
<1>1. PeerInit => ConfInv
  BY DEF PeerInit, ConfInv
<1>2. PeerSpec => []ConfInv
  BY <1>1, ConfStepKeeps, PTL DEF PeerSpec
<1>3. ConfInv => ConfigKept
  BY PeerAssumption DEF ConfInv, ConfigKept
<1> QED
  BY <1>2, <1>3, PTL

-----------------------------------------------------------------------------
(* PeerNode: the peer cache                                                  *)

CacheTexts ==
  [text : Seq(CachedPeers), open : BOOLEAN, by : Signals \cup {Timer}, old : BOOLEAN]
CacheTyped ==
  /\ cache \in Seq(CachedPeers) /\ cacheFile \in Seq(CachedPeers) \cup {Absent, Empty, Garbled}
  /\ cacheWrites \in Seq(CacheTexts)

\* Without a race one write at most is under way, of what is in memory, into a file that
\* is empty since it was opened; what is dirty stays so until it has landed.
CacheSafe ==
  /\ proc = "down" => cacheWrites = <<>> /\ ~saveTimer
  /\ ~cacheRaced =>
       /\ Len(cacheWrites) <= 1
       /\ cacheWrites # <<>> =>
            /\ dirty /\ cacheWrites[1].text = cache
            /\ cacheWrites[1].open => cacheFile = Empty
       /\ dirty \/ Saved

\* A stop that nothing has disturbed yet is that of one signal.
StopInv ==
  /\ stops \in [Signals -> {"idle", "flushing", "closing"}]
  /\ Stopping => proc = "up" /\ lastEnd \in {"stopping", "disturbed"}
  /\ lastEnd = "stopping" =>
       \E s \in Signals : stops[s] # "idle" /\ \A t \in Signals : t # s => stops[t] = "idle"
CacheInv == CacheTyped /\ CacheSafe /\ StopInv

\* The writes of what is in memory now. While no earlier write has touched the file, one
\* such write is under way for what is dirty, or it has landed, or it is yet to begin;
\* and a lone signal begins one unless it has landed, and waits for it.
FreshWrites == {i \in DOMAIN cacheWrites : ~cacheWrites[i].old}
FreshTexts ==
  \A i \in FreshWrites :
    /\ cacheWrites[i].text = cache
    /\ cacheWrites[i].open /\ ~overtaken => cacheFile \in {Empty, cache}
FreshRuns ==
  ~overtaken /\ proc # "down" /\ ~Stopping =>
    /\ FreshWrites = {} => dirty \/ Saved
    /\ FreshWrites # {} => dirty /\ ~saveTimer
    /\ \A i, j \in FreshWrites : i = j
FreshStops ==
  /\ ~overtaken /\ lastEnd = "stopping" /\ FreshWrites = {} => Saved
  /\ proc = "down" /\ lastEnd = "clean" /\ ~overtaken => Saved
Awaited ==
  \A i \in DOMAIN cacheWrites :
    cacheWrites[i].by # Timer => stops[cacheWrites[i].by] = "flushing"
FreshInv == FreshTexts /\ FreshRuns /\ FreshStops /\ Awaited

LEMMA AheadOrders ==
  ASSUME NEW list \in Seq(CachedPeers)
  PROVE  Orders([i \in DOMAIN list |-> Ahead(list, i)])
<1> DEFINE D == DOMAIN list
           ahead == [i \in D |-> Ahead(list, i)]
<1>1. IsFiniteSet(D) /\ \A i \in D : i \in Nat
  BY FS_Interval
<1>2. \A i \in D : list[i].times \in Nat
  <2>1. \A i \in D : list[i] \in CachedPeers
    OBVIOUS
  <2>2. \A e \in CachedPeers : e.times \in Nat
    BY DEF CachedPeers
  <2> QED
    BY <2>1, <2>2
<1> HIDE DEF D
<1>3. \A i, j \in D : j \in ahead[i] <=>
        list[j].times > list[i].times \/ (list[j].times = list[i].times /\ j < i)
  BY DEF Ahead, D
<1>4. DOMAIN ahead = D /\ \A i \in D : ahead[i] \subseteq D
  BY DEF Ahead, D
<1> HIDE DEF ahead
<1>5. ASSUME NEW i \in D PROVE i \notin ahead[i]
  BY <1>1, <1>2, <1>3
<1>6. ASSUME NEW i \in D, NEW j \in D PROVE i = j \/ i \in ahead[j] \/ j \in ahead[i]
  <2>1. i \in Nat /\ j \in Nat /\ list[i].times \in Nat /\ list[j].times \in Nat
    BY <1>1, <1>2
  <2>2. \/ i = j
        \/ list[j].times > list[i].times \/ (list[j].times = list[i].times /\ j < i)
        \/ list[i].times > list[j].times \/ (list[i].times = list[j].times /\ i < j)
    BY <2>1
  <2> QED
    BY <1>3, <2>2
<1>7. ASSUME NEW i \in D, NEW j \in D, i \in ahead[j], NEW h \in ahead[i]
      PROVE  h \in ahead[j]
  <2>0. h \in D
    BY <1>4, <1>7
  <2>1. /\ i \in Nat /\ j \in Nat /\ h \in Nat
        /\ list[i].times \in Nat /\ list[j].times \in Nat /\ list[h].times \in Nat
    BY <1>1, <1>2, <2>0
  <2>2. /\ list[i].times > list[j].times \/ (list[i].times = list[j].times /\ i < j)
        /\ list[h].times > list[i].times \/ (list[h].times = list[i].times /\ h < i)
    BY <1>3, <1>7, <2>0
  <2>3. list[h].times > list[j].times \/ (list[h].times = list[j].times /\ h < j)
    BY <2>1, <2>2
  <2> QED
    BY <1>3, <2>0, <2>3
<1>8. Orders(ahead)
  BY <1>1, <1>4, <1>5, <1>6, <1>7 DEF Orders
<1> QED
  BY <1>8 DEF ahead, D

LEMMA CutTyped ==
  ASSUME NEW list \in Seq(CachedPeers)
  PROVE  Cut(list) \in Seq(CachedPeers)
<1> DEFINE ahead == [i \in DOMAIN list |-> Ahead(list, i)]
           n == IF Len(list) > MaxCached THEN MaxCached ELSE Len(list)
<1>1. Orders(ahead) /\ DOMAIN ahead = DOMAIN list
  BY AheadOrders
<1>2. \A i \in DOMAIN ahead : list[i] \in CachedPeers
  BY <1>1
<1> HIDE DEF ahead
<1>3. Arranged(list, ahead) \in Seq(CachedPeers)
      /\ Len(Arranged(list, ahead)) = Cardinality(DOMAIN ahead)
  BY <1>1, <1>2, Arranging
<1>4. Cardinality(DOMAIN ahead) = Len(list)
  <2>1. DOMAIN list = 1..Len(list) /\ Len(list) \in Nat
    OBVIOUS
  <2>2. Cardinality(1..Len(list)) = Len(list)
    BY <2>1, FS_Interval
  <2> QED
    BY <1>1, <2>1, <2>2
<1>5. Sorted(list) = Arranged(list, ahead)
  BY DEF Sorted, ahead
<1>6. n \in 0..Len(list)
  BY PeerAssumption
<1> HIDE DEF n
<1>7. SubSeq(Sorted(list), 1, n) \in Seq(CachedPeers)
  BY <1>3, <1>4, <1>5, <1>6
<1> QED
  BY <1>7 DEF Cut, n

LEMMA MarkedOld ==
  ASSUME CacheTyped, NEW p \in PeerIds, AddPeer(p)
  PROVE  /\ cacheWrites' \in Seq(CacheTexts) /\ DOMAIN cacheWrites' = DOMAIN cacheWrites
         /\ cacheWrites = <<>> => cacheWrites' = <<>>
         /\ \A i \in DOMAIN cacheWrites :
              cacheWrites'[i].old /\ cacheWrites'[i].by = cacheWrites[i].by
<1> DEFINE n == Len(cacheWrites)
           marked == [i \in 1..n |-> [cacheWrites[i] EXCEPT !.old = TRUE]]
<1>1. cacheWrites \in Seq(CacheTexts) /\ n \in Nat /\ DOMAIN cacheWrites = 1..n
  BY DEF CacheTyped
<1>2. cacheWrites' = marked
  BY <1>1 DEF AddPeer, AddPeerSetting
<1>3. ASSUME NEW w \in CacheTexts
      PROVE  /\ [w EXCEPT !.old = TRUE] \in CacheTexts
             /\ [w EXCEPT !.old = TRUE].old /\ [w EXCEPT !.old = TRUE].by = w.by
  BY DEF CacheTexts
<1>4. \A i \in 1..n : /\ marked[i] \in CacheTexts
                      /\ marked[i].old /\ marked[i].by = cacheWrites[i].by
  <2>1. \A i \in 1..n : cacheWrites[i] \in CacheTexts
    BY <1>1
  <2> QED
    BY <1>3, <2>1
<1>5. DOMAIN marked = 1..n
  OBVIOUS
<1>6. marked \in [1..n -> CacheTexts]
  BY <1>4
<1> HIDE DEF marked
<1>7. marked \in Seq(CacheTexts)
  BY <1>1, <1>6
<1>8. n = 0 => marked = <<>>
  BY <1>1, <1>5, <1>7, EmptySeq
<1>9. cacheWrites = <<>> => n = 0
  OBVIOUS
<1> QED
  BY <1>1, <1>2, <1>4, <1>5, <1>7, <1>8, <1>9

LEMMA AddPeerTyped ==
  ASSUME CacheTyped, NEW p \in PeerIds, AddPeer(p)
  PROVE  CacheTyped'
<1>1. cache \in Seq(CachedPeers) /\ UNCHANGED cacheFile
  BY DEF CacheTyped, AddPeer, AddPeerSetting
<1>2. cache' = IF p \in Peers(cache) THEN Updated(cache, p)
               ELSE Cut(Append(cache, [peer |-> p, times |-> 1]))
  BY DEF AddPeer, AddPeerSetting
<1>3. Updated(cache, p) \in Seq(CachedPeers)
  <2>1. ASSUME NEW e \in CachedPeers PROVE [e EXCEPT !.times = @ + 1] \in CachedPeers
    BY DEF CachedPeers
  <2>2. \A i \in DOMAIN cache : cache[i] \in CachedPeers
    BY <1>1
  <2>3. Len(cache) \in Nat /\ DOMAIN cache = 1..Len(cache)
    BY <1>1
  <2> DEFINE u == [i \in DOMAIN cache |-> IF cache[i].peer # p THEN cache[i]
                                          ELSE [cache[i] EXCEPT !.times = @ + 1]]
  <2>4. \A i \in DOMAIN cache : u[i] \in CachedPeers
    BY <2>1, <2>2
  <2>5. u \in [1..Len(cache) -> CachedPeers]
    BY <2>3, <2>4
  <2> HIDE DEF u
  <2>6. u \in Seq(CachedPeers)
    BY <2>3, <2>5
  <2> QED
    BY <2>6 DEF Updated, u
<1>4. [peer |-> p, times |-> 1] \in CachedPeers
  BY DEF CachedPeers
<1>5. Append(cache, [peer |-> p, times |-> 1]) \in Seq(CachedPeers)
  BY <1>1, <1>4
<1>6. cache' \in Seq(CachedPeers)
  BY <1>2, <1>3, <1>5, CutTyped
<1>7. cacheWrites' \in Seq(CacheTexts)
  BY MarkedOld
<1> QED
  BY <1>1, <1>6, <1>7 DEF CacheTyped

LEMMA LoadedCache ==
  ASSUME CacheTyped, NEW expired, LoadCache(expired)
  PROVE  CacheTyped' /\ Saved'
<1> DEFINE kept == {i \in DOMAIN FileList : FileList[i].peer \notin expired}
<1>1. FileList \in Seq(CachedPeers)
  BY DEF CacheTyped, FileList
<1>2. cache' = Filtered(FileList, kept) /\ kept \in SUBSET DOMAIN FileList
      /\ UNCHANGED <<cacheFile, cacheWrites>>
  BY DEF LoadCache
<1> HIDE DEF kept
<1>3. cache' \in Seq(CachedPeers) /\ ToSet(cache') = {FileList[i] : i \in kept}
  BY <1>1, <1>2, Filtering
<1>4. FileList' = FileList
  BY <1>2 DEF FileList
<1>5. ToSet(cache') \subseteq ToSet(FileList')
  BY <1>2, <1>3, <1>4 DEF ToSet
<1> QED
  BY <1>2, <1>3, <1>5 DEF CacheTyped, Saved

LEMMA SaveTyped ==
  ASSUME CacheTyped, NEW by \in Signals \cup {Timer}, SaveCache(by)
  PROVE  CacheTyped'
<1>1. /\ cache \in Seq(CachedPeers) /\ cacheWrites \in Seq(CacheTexts)
      /\ cacheWrites' =
           Append(cacheWrites, [text |-> cache, open |-> FALSE, by |-> by, old |-> FALSE])
      /\ UNCHANGED <<cache, cacheFile>>
  BY DEF CacheTyped, SaveCache
<1>2. [text |-> cache, open |-> FALSE, by |-> by, old |-> FALSE] \in CacheTexts
  BY <1>1 DEF CacheTexts
<1>3. cacheWrites' \in Seq(CacheTexts)
  BY <1>1, <1>2
<1> QED
  BY <1>1, <1>3 DEF CacheTyped

\* A save of what is dirty: the only write under way, or there is a race from now on.
LEMMA SaveSafe ==
  ASSUME CacheTyped, CacheSafe, proc # "down", UNCHANGED proc, dirty,
         NEW by \in Signals \cup {Timer}, SaveCache(by)
  PROVE  /\ CacheSafe'
         /\ ~cacheRaced' => ~cacheRaced /\ cacheWrites = <<>>
                            /\ cacheWrites' # <<>> /\ cacheWrites'[1].by = by
<1>1. /\ cacheWrites' =
           Append(cacheWrites, [text |-> cache, open |-> FALSE, by |-> by, old |-> FALSE])
      /\ cacheRaced' = (cacheRaced \/ cacheWrites # <<>>)
      /\ UNCHANGED <<cache, cacheFile, dirty>>
  BY DEF SaveCache
<1>2. CASE cacheRaced'
  BY <1>1, <1>2 DEF CacheSafe
<1>3. CASE ~cacheRaced'
  <2>1. ~cacheRaced /\ cacheWrites = <<>>
    BY <1>1, <1>3
  <2>2. cacheWrites' = <<[text |-> cache, open |-> FALSE, by |-> by, old |-> FALSE]>>
    BY <1>1, <2>1
  <2>3. /\ Len(cacheWrites') = 1 /\ cacheWrites' # <<>>
        /\ cacheWrites'[1] = [text |-> cache, open |-> FALSE, by |-> by, old |-> FALSE]
    BY <2>2
  <2>4. cacheWrites'[1].text = cache' /\ ~cacheWrites'[1].open /\ cacheWrites'[1].by = by
    BY <1>1, <2>3
  <2> QED
    BY <1>1, <2>1, <2>3, <2>4 DEF CacheSafe
<1> QED
  BY <1>2, <1>3

LEMMA CacheStarts == PeerInit => CacheInv
<1> SUFFICES ASSUME PeerInit PROVE CacheInv
  OBVIOUS
<1>1. cache = <<>> /\ cacheFile = Absent /\ cacheWrites = <<>> /\ ~saveTimer
  BY DEF PeerInit, CacheInit
<1>2. CacheTyped
  BY <1>1 DEF CacheTyped
<1>3. ToSet(cache) = {}
  BY <1>1 DEF ToSet
<1>4. CacheSafe
  BY <1>1, <1>3 DEF CacheSafe, Saved
<1>5. StopInv
  BY DEF PeerInit, CacheInit, StopInv, Stopping
<1> QED
  BY <1>2, <1>4, <1>5 DEF CacheInv

LEMMA StartKeepsCache ==
  ASSUME CacheInv, NEW env, NEW expired, StartPeer(env, expired)
  PROVE  CacheInv'
<1>1. /\ proc = "down" /\ proc' = "starting" /\ LoadCache(expired)
      /\ UNCHANGED <<stops, lastEnd>>
  BY DEF StartPeer
<1>2. CacheTyped' /\ Saved'
  BY <1>1, LoadedCache DEF CacheInv
<1>3. cacheWrites' = <<>>
  BY <1>1 DEF CacheInv, CacheSafe, LoadCache
<1>4. CacheSafe'
  BY <1>1, <1>2, <1>3 DEF CacheSafe
<1>5. StopInv'
  BY <1>1 DEF CacheInv, StopInv, Stopping
<1> QED
  BY <1>2, <1>4, <1>5 DEF CacheInv

LEMMA ConnectKeepsCache ==
  ASSUME CacheInv, NEW p \in PeerIds, NEW direct \in BOOLEAN, PeerConnect(p, direct)
  PROVE  CacheInv'
<1>1. /\ proc # "down" /\ AddPeer(p) /\ UNCHANGED <<proc, stops>>
      /\ lastEnd' = IF Stopping THEN "disturbed" ELSE lastEnd
  BY DEF PeerConnect
<1>2. CacheTyped'
  BY <1>1, AddPeerTyped DEF CacheInv
<1>3. dirty' /\ cacheRaced' = (cacheWrites # <<>>)
  BY <1>1 DEF AddPeer, AddPeerSetting
<1>4. CacheSafe'
  <2>1. ~cacheRaced' => cacheWrites' = <<>>
    BY <1>1, <1>3, MarkedOld DEF CacheInv
  <2>2. Len(<<>>) <= 1
    OBVIOUS
  <2> QED
    BY <1>1, <1>3, <2>1, <2>2 DEF CacheSafe
<1>5. StopInv'
  <2>1. Stopping' = Stopping
    BY <1>1 DEF Stopping
  <2>2. lastEnd' # "stopping"
    BY <1>1 DEF CacheInv, StopInv, Stopping
  <2> QED
    BY <1>1, <2>1, <2>2 DEF CacheInv, StopInv
<1> QED
  BY <1>2, <1>4, <1>5 DEF CacheInv

LEMMA TimerKeepsCache ==
  ASSUME CacheInv, CacheTimer
  PROVE  CacheInv'
<1>1. saveTimer /\ ~saveTimer' /\ UNCHANGED <<proc, stops, lastEnd>>
  BY DEF CacheTimer, TimerFires
<1>2. proc # "down"
  BY <1>1 DEF CacheInv, CacheSafe
<1>3. Stopping' = Stopping
  BY <1>1 DEF Stopping
<1>4. CASE dirty /\ SaveCache(Timer)
  <2>1. CacheTyped' /\ CacheSafe' /\ (~cacheRaced' => ~cacheRaced /\ cacheWrites = <<>>)
    BY <1>1, <1>2, <1>4, SaveTyped, SaveSafe DEF CacheInv
  <2>2. StopInv'
    BY <1>1, <1>2, <1>3, <1>4, <2>1 DEF CacheInv, StopInv
  <2> QED
    BY <2>1, <2>2 DEF CacheInv
<1>5. CASE UNCHANGED Written
  <2>1. FileList' = FileList
    BY <1>5 DEF FileList, Written
  <2>2. CacheTyped' /\ CacheSafe'
    BY <1>1, <1>2, <1>5, <2>1 DEF CacheInv, CacheTyped, CacheSafe, Saved, ToSet, Written
  <2>3. StopInv'
    BY <1>1, <1>3, <1>5 DEF CacheInv, StopInv
  <2> QED
    BY <2>2, <2>3 DEF CacheInv
<1> QED
  BY <1>4, <1>5 DEF CacheTimer, TimerFires

LEMMA OneRemoved ==
  ASSUME CacheTyped, NEW i \in DOMAIN cacheWrites
  PROVE  /\ RemoveAt(cacheWrites, i) \in Seq(CacheTexts)
         /\ Len(cacheWrites) <= 1 => i = 1 /\ RemoveAt(cacheWrites, i) = <<>>
<1>1. cacheWrites \in Seq(CacheTexts) /\ i \in 1..Len(cacheWrites)
      /\ Len(cacheWrites) \in Nat
  BY DEF CacheTyped
<1>2. /\ RemoveAt(cacheWrites, i) \in Seq(CacheTexts)
      /\ Len(RemoveAt(cacheWrites, i)) = Len(cacheWrites) - 1
  BY <1>1, Removing
<1>3. ASSUME Len(cacheWrites) <= 1 PROVE i = 1 /\ RemoveAt(cacheWrites, i) = <<>>
  <2>1. i = 1 /\ Len(RemoveAt(cacheWrites, i)) = 0
    BY <1>1, <1>2, <1>3
  <2> QED
    BY <1>2, <2>1, EmptySeq
<1> QED
  BY <1>2, <1>3

LEMMA OpenKeepsCache ==
  ASSUME CacheInv, NEW i \in DOMAIN cacheWrites, CacheOpens(i),
         UNCHANGED <<proc, stops, lastEnd>>
  PROVE  CacheInv'
<1> DEFINE w == cacheWrites[i]
<1>1. /\ cacheWrites' = [cacheWrites EXCEPT ![i] = [w EXCEPT !.open = TRUE]]
      /\ cacheFile' = Empty
      /\ UNCHANGED <<cache, dirty, saveTimer, cacheRaced>>
  BY DEF CacheOpens, Opened
<1>2. cacheWrites \in Seq(CacheTexts) /\ i \in 1..Len(cacheWrites)
      /\ Len(cacheWrites) \in Nat
  BY DEF CacheInv, CacheTyped
<1>3. w \in CacheTexts
  BY <1>2
<1>4. /\ [w EXCEPT !.open = TRUE] \in CacheTexts
      /\ [w EXCEPT !.open = TRUE].text = w.text
      /\ [w EXCEPT !.open = TRUE].by = w.by
  BY <1>3 DEF CacheTexts
<1> HIDE DEF w
<1>5. /\ cacheWrites' \in Seq(CacheTexts) /\ Len(cacheWrites') = Len(cacheWrites)
      /\ \A j \in 1..Len(cacheWrites) :
           cacheWrites'[j] = IF j = i THEN [w EXCEPT !.open = TRUE] ELSE cacheWrites[j]
  BY <1>1, <1>2, <1>4
<1>6. cacheWrites # <<>> /\ cacheWrites' # <<>>
  BY <1>2, <1>5
<1>7. \A j \in 1..Len(cacheWrites) :
        cacheWrites'[j].text = cacheWrites[j].text /\ cacheWrites'[j].by = cacheWrites[j].by
  BY <1>4, <1>5 DEF w
<1>8. 1 \in 1..Len(cacheWrites)
  BY <1>2
<1>9. CacheTyped'
  BY <1>1, <1>5 DEF CacheInv, CacheTyped
<1>10. CacheSafe'
  <2>1. proc' # "down"
    BY <1>6 DEF CacheInv, CacheSafe
  <2>2. ~cacheRaced' =>
          /\ Len(cacheWrites') <= 1 /\ dirty' /\ cacheWrites'[1].text = cache'
          /\ cacheFile' = Empty
    BY <1>1, <1>5, <1>6, <1>7, <1>8 DEF CacheInv, CacheSafe
  <2> QED
    BY <2>1, <2>2 DEF CacheSafe
<1>11. StopInv'
  <2>1. cacheWrites'[1].by = cacheWrites[1].by
    BY <1>7, <1>8
  <2>2. Stopping' = Stopping
    BY DEF Stopping
  <2> QED
    BY <1>1, <1>6, <2>1, <2>2 DEF CacheInv, StopInv
<1> QED
  BY <1>9, <1>10, <1>11 DEF CacheInv

LEMMA LandKeepsCache ==
  ASSUME CacheInv, NEW i \in DOMAIN cacheWrites, CacheLands(i),
         UNCHANGED <<proc, stops, lastEnd>>
  PROVE  CacheInv'
<1>1. /\ cacheWrites[i].open /\ cacheFile' \in Landings(cacheFile, cacheWrites[i].text)
      /\ cacheWrites' = RemoveAt(cacheWrites, i) /\ ~dirty'
      /\ UNCHANGED <<cache, saveTimer, cacheRaced>>
  BY DEF CacheLands
<1>2. /\ cacheWrites' \in Seq(CacheTexts)
      /\ Len(cacheWrites) <= 1 => i = 1 /\ cacheWrites' = <<>>
  BY <1>1, OneRemoved DEF CacheInv
<1>3. cacheWrites[i] \in CacheTexts /\ cacheWrites # <<>>
  BY DEF CacheInv, CacheTyped
<1>4. cacheWrites[i].text \in Seq(CachedPeers)
  BY <1>3 DEF CacheTexts
<1>5. CacheTyped'
  <2>1. cacheFile' \in Seq(CachedPeers) \cup {Absent, Empty, Garbled}
    BY <1>1, <1>4 DEF Landings
  <2> QED
    BY <1>1, <1>2, <2>1 DEF CacheInv, CacheTyped
<1>6. CacheSafe'
  <2>1. proc' # "down"
    BY <1>3 DEF CacheInv, CacheSafe
  <2>2. ASSUME ~cacheRaced' PROVE cacheWrites' = <<>> /\ Saved'
    <3>1. /\ Len(cacheWrites) <= 1 /\ cacheWrites[1].text = cache
          /\ cacheWrites[1].open => cacheFile = Empty
      BY <1>1, <1>3, <2>2 DEF CacheInv, CacheSafe
    <3>2. i = 1 /\ cacheWrites' = <<>>
      BY <1>2, <3>1
    <3>3. cacheFile' = cache
      BY <1>1, <3>1, <3>2 DEF Landings
    <3>4. cache' = cache /\ cache \notin {Absent, Empty, Garbled}
      BY <1>1, PeerAssumption DEF CacheInv, CacheTyped
    <3>5. FileList' = cache'
      BY <3>3, <3>4 DEF FileList
    <3> QED
      BY <3>2, <3>5 DEF Saved
  <2>3. Len(<<>>) <= 1
    OBVIOUS
  <2> QED
    BY <2>1, <2>2, <2>3 DEF CacheSafe
<1>7. StopInv'
  <2>1. Stopping' = Stopping
    BY DEF Stopping
  <2> QED
    BY <1>1, <2>1 DEF CacheInv, StopInv
<1> QED
  BY <1>5, <1>6, <1>7 DEF CacheInv

LEMMA ThrowKeepsCache ==
  ASSUME CacheInv, CacheThrows
  PROVE  CacheInv'
<1>1. PICK i \in DOMAIN cacheWrites : CacheFails(i)
  BY DEF CacheThrows
<1>2. /\ cacheWrites' = RemoveAt(cacheWrites, i)
      /\ UNCHANGED <<cache, cacheFile, dirty, saveTimer, cacheRaced, proc, stops>>
      /\ lastEnd' = IF Stopping THEN "disturbed" ELSE lastEnd
  BY <1>1 DEF CacheFails, CacheThrows
<1>3. /\ cacheWrites' \in Seq(CacheTexts)
      /\ Len(cacheWrites) <= 1 => cacheWrites' = <<>>
  BY <1>2, OneRemoved DEF CacheInv
<1>4. CacheTyped'
  BY <1>2, <1>3 DEF CacheInv, CacheTyped
<1>5. CacheSafe'
  <2>1. cacheWrites # <<>> /\ proc' # "down"
    BY <1>2 DEF CacheInv, CacheTyped, CacheSafe
  <2>2. ~cacheRaced' => cacheWrites' = <<>> /\ dirty'
    BY <1>2, <1>3, <2>1 DEF CacheInv, CacheSafe
  <2>3. Len(<<>>) <= 1
    OBVIOUS
  <2> QED
    BY <2>1, <2>2, <2>3 DEF CacheSafe
<1>6. StopInv'
  <2>1. Stopping' = Stopping
    BY <1>2 DEF Stopping
  <2>2. lastEnd' # "stopping"
    BY <1>2 DEF CacheInv, StopInv, Stopping
  <2>3. proc # "down"
    BY DEF CacheInv, CacheTyped, CacheSafe
  <2> QED
    BY <1>2, <2>1, <2>2, <2>3 DEF CacheInv, StopInv
<1> QED
  BY <1>4, <1>5, <1>6 DEF CacheInv

LEMMA EndKeepsCache ==
  ASSUME CacheInv, NEW how, End(how), how # "stopping"
  PROVE  CacheInv'
<1>1. /\ proc' = "down" /\ lastEnd' = how /\ stops' = [s \in Signals |-> "idle"]
      /\ cacheWrites' = <<>> /\ ~saveTimer'
      /\ UNCHANGED <<cache, cacheFile, dirty, cacheRaced>>
  BY DEF End, StopCache
<1>2. CacheTyped'
  BY <1>1 DEF CacheInv, CacheTyped
<1>3. FileList' = FileList
  BY <1>1 DEF FileList
<1>4. Len(<<>>) <= 1
  OBVIOUS
<1>5. CacheSafe'
  BY <1>1, <1>3, <1>4 DEF CacheInv, CacheSafe, Saved
<1>6. StopInv'
  BY <1>1 DEF StopInv, Stopping
<1> QED
  BY <1>2, <1>5, <1>6 DEF CacheInv

LEMMA SignalKeepsCache ==
  ASSUME CacheInv, NEW s \in Signals, SignalComes(s)
  PROVE  CacheInv'
<1>1. proc \in {"up", "half"} /\ stops[s] = "idle"
  BY DEF SignalComes
<1>2. CASE proc = "half"
  <2>1. End("half")
    BY <1>2 DEF SignalComes
  <2> QED
    BY <2>1, EndKeepsCache
<1>3. CASE proc = "up"
  <2>1. /\ stops' = [stops EXCEPT ![s] = "flushing"] /\ FlushCache(s)
        /\ lastEnd' = IF Stopping THEN "disturbed" ELSE "stopping"
        /\ UNCHANGED proc /\ ~saveTimer'
    BY <1>3 DEF SignalComes, FlushCache
  <2>2. /\ stops' \in [Signals -> {"idle", "flushing", "closing"}]
        /\ stops'[s] = "flushing" /\ \A t \in Signals : t # s => stops'[t] = stops[t]
    BY <2>1 DEF CacheInv, StopInv
  <2>3. lastEnd' = "stopping" => \A t \in Signals : t # s => stops'[t] = "idle"
    BY <2>1, <2>2 DEF Stopping
  <2>4. StopInv'
    <3>1. \E t \in Signals : stops'[t] # "idle"
      BY <2>2
    <3>2. Stopping' /\ lastEnd' \in {"stopping", "disturbed"}
      BY <2>1, <3>1 DEF Stopping
    <3> QED
      BY <1>3, <2>1, <2>2, <2>3, <3>2 DEF StopInv
  <2>5. CASE dirty /\ SaveCache(s)
    <3>1. CacheTyped' /\ CacheSafe'
      BY <1>3, <2>1, <2>5, SaveTyped, SaveSafe DEF CacheInv
    <3> QED
      BY <2>4, <3>1 DEF CacheInv
  <2>6. CASE ~dirty /\ UNCHANGED Written
    <3>1. FileList' = FileList
      BY <2>6 DEF FileList, Written
    <3>2. CacheTyped' /\ CacheSafe'
      BY <1>3, <2>1, <2>6, <3>1 DEF CacheInv, CacheTyped, CacheSafe, Saved, Written
    <3> QED
      BY <2>4, <3>2 DEF CacheInv
  <2> QED
    BY <2>1, <2>5, <2>6 DEF FlushCache
<1> QED
  BY <1>1, <1>2, <1>3

LEMMA FlushKeepsCache ==
  ASSUME CacheInv, NEW s \in Signals, FlushEnds(s)
  PROVE  CacheInv'
<1>1. /\ stops[s] = "flushing" /\ Flushed(s) /\ stops' = [stops EXCEPT ![s] = "closing"]
      /\ UNCHANGED <<proc, lastEnd, cacheVars>>
  BY DEF FlushEnds
<1>2. CacheTyped' /\ CacheSafe'
  <2>1. FileList' = FileList
    BY <1>1 DEF FileList, cacheVars
  <2> QED
    BY <1>1, <2>1 DEF CacheInv, CacheTyped, CacheSafe, Saved, cacheVars
<1>3. /\ stops' \in [Signals -> {"idle", "flushing", "closing"}]
      /\ stops'[s] = "closing" /\ \A t \in Signals : t # s => stops'[t] = stops[t]
  BY <1>1 DEF CacheInv, StopInv
<1>4. Stopping /\ Stopping'
  BY <1>1, <1>3 DEF Stopping
<1>5. lastEnd = "stopping" => \A t \in Signals : t # s => stops'[t] = "idle"
  BY <1>1, <1>3 DEF CacheInv, StopInv
<1>6. StopInv'
  BY <1>1, <1>3, <1>4, <1>5 DEF CacheInv, StopInv
<1> QED
  BY <1>2, <1>6 DEF CacheInv

LEMMA ExitKeepsCache ==
  ASSUME CacheInv, NEW s \in Signals, Exit(s)
  PROVE  CacheInv'
<1>1. PICK how \in {"clean", "disturbed"} : End(how)
  BY DEF Exit
<1> QED
  BY <1>1, EndKeepsCache

LEMMA RestKeepsCache ==
  ASSUME CacheInv, UNCHANGED <<cache, cacheFile, cacheWrites, dirty, saveTimer, cacheRaced,
                               stops, lastEnd>>,
         proc' = proc \/ (proc = "starting" /\ proc' \in {"up", "half"})
  PROVE  CacheInv'
<1>1. FileList' = FileList
  BY DEF FileList
<1>2. CacheTyped' /\ CacheSafe'
  BY <1>1 DEF CacheInv, CacheTyped, CacheSafe, Saved
<1>3. Stopping' = Stopping
  BY DEF Stopping
<1>4. StopInv'
  BY <1>3 DEF CacheInv, StopInv
<1> QED
  BY <1>2, <1>4 DEF CacheInv

LEMMA PeerStepKeepsCache == CacheInv /\ [PeerNext]_peerVars => CacheInv'
<1> SUFFICES ASSUME CacheInv, [PeerNext]_peerVars PROVE CacheInv'
  OBVIOUS
<1>1. ASSUME NEW env \in Settings, NEW expired \in SUBSET PeerIds, StartPeer(env, expired)
      PROVE  CacheInv'
  BY <1>1, StartKeepsCache
<1>2. CASE Started
  BY <1>2, RestKeepsCache DEF Started, cacheVars
<1>3. ASSUME NEW p \in PeerIds, NEW direct \in BOOLEAN, PeerConnect(p, direct)
      PROVE  CacheInv'
  BY <1>3, ConnectKeepsCache
<1>4. CASE CacheTimer
  BY <1>4, TimerKeepsCache
<1>5. CASE CacheGoes
  BY <1>5, OpenKeepsCache, LandKeepsCache DEF CacheGoes
<1>6. CASE CacheThrows
  BY <1>6, ThrowKeepsCache
<1>7. ASSUME NEW s \in Signals, SignalComes(s) \/ FlushEnds(s) \/ Exit(s) PROVE CacheInv'
  BY <1>7, SignalKeepsCache, FlushKeepsCache, ExitKeepsCache
<1>8. CASE PeerCrash
  BY <1>8, EndKeepsCache DEF PeerCrash
<1>9. CASE UNCHANGED peerVars
  BY <1>9, RestKeepsCache DEF peerVars, cacheVars
<1> QED
  BY <1>1, <1>2, <1>3, <1>4, <1>5, <1>6, <1>7, <1>8, <1>9 DEF PeerNext

\* save takes the dirty mark off only when its text has landed (peer-cache.service.ts), so
\* without a race what is in memory is in the file, or marked, or being written: for any
\* peers and any number of them, through crashes and restarts.
THEOREM DirtyUntilSaved == PeerSpec => []DirtyOrSaved
<1>1. PeerInit => CacheInv
  BY CacheStarts
<1>2. CacheInv /\ [PeerNext]_peerVars => CacheInv'
  BY PeerStepKeepsCache
<1>3. CacheInv => DirtyOrSaved
  BY DEF CacheInv, CacheSafe, Saved, DirtyOrSaved
<1> QED
  BY <1>1, <1>2, <1>3, PTL DEF PeerSpec

-----------------------------------------------------------------------------
(* PeerNode: what a clean stop saves                                         *)

LEMMA TextTyped ==
  ASSUME CacheTyped, NEW i \in DOMAIN cacheWrites
  PROVE  cacheWrites[i].by \in Signals \cup {Timer} /\ cacheWrites[i].old \in BOOLEAN
<1>1. cacheWrites[i] \in CacheTexts
  BY DEF CacheTyped
<1>2. \A w \in CacheTexts : w.by \in Signals \cup {Timer} /\ w.old \in BOOLEAN
  BY DEF CacheTexts
<1> QED
  BY <1>1, <1>2

LEMMA FreshStarts == PeerInit => FreshInv
<1> SUFFICES ASSUME PeerInit PROVE FreshInv
  OBVIOUS
<1>1. cacheWrites = <<>> /\ proc = "down" /\ lastEnd = "none"
  BY DEF PeerInit, CacheInit
<1>2. DOMAIN cacheWrites = {}
  BY <1>1
<1> QED
  BY <1>1, <1>2 DEF FreshInv, FreshWrites, FreshTexts, FreshRuns, FreshStops, Awaited

LEMMA StartKeepsFresh ==
  ASSUME CacheInv, NEW env, NEW expired, StartPeer(env, expired)
  PROVE  FreshInv'
<1>1. proc = "down" /\ LoadCache(expired)
  BY DEF StartPeer
<1>2. Saved'
  BY <1>1, LoadedCache DEF CacheInv
<1>3. cacheWrites' = <<>>
  BY <1>1 DEF CacheInv, CacheSafe, LoadCache
<1>4. DOMAIN cacheWrites' = {}
  BY <1>3
<1>5. FreshWrites' = {}
  BY <1>4 DEF FreshWrites
<1> QED
  BY <1>2, <1>4, <1>5 DEF FreshInv, FreshTexts, FreshRuns, FreshStops, Awaited

LEMMA ConnectKeepsFresh ==
  ASSUME CacheInv, FreshInv, NEW p \in PeerIds, NEW direct \in BOOLEAN,
         PeerConnect(p, direct)
  PROVE  FreshInv'
<1>1. /\ proc # "down" /\ AddPeer(p) /\ UNCHANGED <<proc, stops>>
      /\ lastEnd' = IF Stopping THEN "disturbed" ELSE lastEnd
  BY DEF PeerConnect
<1>2. dirty'
  BY <1>1 DEF AddPeer, AddPeerSetting
<1>3. /\ DOMAIN cacheWrites' = DOMAIN cacheWrites
      /\ \A i \in DOMAIN cacheWrites :
           cacheWrites'[i].old /\ cacheWrites'[i].by = cacheWrites[i].by
  BY <1>1, MarkedOld DEF CacheInv
<1>4. FreshWrites' = {}
  BY <1>3 DEF FreshWrites
<1>5. lastEnd' # "stopping"
  BY <1>1 DEF CacheInv, StopInv, Stopping
<1>6. Awaited'
  BY <1>1, <1>3 DEF FreshInv, Awaited
<1> QED
  BY <1>1, <1>2, <1>4, <1>5, <1>6 DEF FreshInv, FreshTexts, FreshRuns, FreshStops

\* A save adds one write, of what is in memory.
LEMMA SaveAdds ==
  ASSUME CacheTyped, NEW by \in Signals \cup {Timer}, SaveCache(by)
  PROVE  LET n == Len(cacheWrites) IN
         /\ n \in Nat /\ DOMAIN cacheWrites = 1..n /\ DOMAIN cacheWrites' = 1..(n + 1)
         /\ \A i \in 1..n : cacheWrites'[i] = cacheWrites[i]
         /\ cacheWrites'[n + 1] = [text |-> cache, open |-> FALSE, by |-> by, old |-> FALSE]
<1> DEFINE new == [text |-> cache, open |-> FALSE, by |-> by, old |-> FALSE]
<1>1. cacheWrites \in Seq(CacheTexts) /\ cacheWrites' = Append(cacheWrites, new)
  BY DEF CacheTyped, SaveCache
<1> HIDE DEF new
<1>2. /\ Len(cacheWrites) \in Nat /\ DOMAIN cacheWrites = 1..Len(cacheWrites)
      /\ DOMAIN cacheWrites' = 1..(Len(cacheWrites) + 1)
      /\ \A i \in 1..Len(cacheWrites) : cacheWrites'[i] = cacheWrites[i]
      /\ cacheWrites'[Len(cacheWrites) + 1] = new
  BY <1>1
<1> QED
  BY <1>2 DEF new

LEMMA SaveKeepsFresh ==
  ASSUME CacheTyped, FreshInv, NEW by \in Signals \cup {Timer}, SaveCache(by),
         by # Timer => stops'[by] = "flushing",
         \A s \in Signals : stops[s] = "flushing" => stops'[s] = "flushing"
  PROVE  FreshTexts' /\ Awaited' /\ FreshWrites' = FreshWrites \cup {Len(cacheWrites) + 1}
<1> DEFINE n == Len(cacheWrites)
<1>1. /\ n \in Nat /\ DOMAIN cacheWrites = 1..n /\ DOMAIN cacheWrites' = 1..(n + 1)
      /\ \A i \in 1..n : cacheWrites'[i] = cacheWrites[i]
      /\ cacheWrites'[n + 1] = [text |-> cache, open |-> FALSE, by |-> by, old |-> FALSE]
  BY SaveAdds
<1>2. UNCHANGED <<cache, cacheFile, dirty, overtaken>>
  BY DEF SaveCache
<1>3. /\ cacheWrites'[n + 1].text = cache /\ ~cacheWrites'[n + 1].open
      /\ cacheWrites'[n + 1].by = by /\ ~cacheWrites'[n + 1].old
  BY <1>1
<1>4. \A i \in 1..n : cacheWrites[i] \in CacheTexts
  BY <1>1 DEF CacheTyped
<1> HIDE DEF n
<1>5. 1..(n + 1) = (1..n) \cup {n + 1}
  BY <1>1
<1>6. FreshWrites' = FreshWrites \cup {n + 1}
  BY <1>1, <1>3, <1>5 DEF FreshWrites
<1>7. ASSUME NEW i \in FreshWrites'
      PROVE  /\ cacheWrites'[i].text = cache'
             /\ cacheWrites'[i].open /\ ~overtaken' => cacheFile' \in {Empty, cache'}
  <2>1. CASE i = n + 1
    BY <1>2, <1>3, <2>1
  <2>2. CASE i \in FreshWrites
    <3>1. i \in 1..n
      BY <1>1, <2>2 DEF FreshWrites
    <3> QED
      BY <1>1, <1>2, <2>2, <3>1 DEF FreshInv, FreshTexts
  <2> QED
    BY <1>6, <2>1, <2>2
<1>8. ASSUME NEW i \in DOMAIN cacheWrites', cacheWrites'[i].by # Timer
      PROVE  stops'[cacheWrites'[i].by] = "flushing"
  <2>1. CASE i = n + 1
    BY <1>3, <1>8, <2>1
  <2>2. CASE i \in 1..n
    <3>1. cacheWrites[i].by \in Signals \cup {Timer}
      BY <1>4, <2>2 DEF CacheTexts
    <3>2. cacheWrites'[i].by = cacheWrites[i].by
      BY <1>1, <2>2
    <3>3. stops[cacheWrites[i].by] = "flushing"
      BY <1>1, <1>8, <2>2, <3>2 DEF FreshInv, Awaited
    <3> QED
      BY <1>8, <3>1, <3>2, <3>3
  <2> QED
    BY <1>1, <1>5, <1>8, <2>1, <2>2
<1> QED
  BY <1>6, <1>7, <1>8 DEF FreshTexts, Awaited, n

LEMMA TimerKeepsFresh ==
  ASSUME CacheInv, FreshInv, CacheTimer
  PROVE  FreshInv'
<1>1. saveTimer /\ ~saveTimer' /\ UNCHANGED <<proc, stops, lastEnd>>
  BY DEF CacheTimer, TimerFires
<1>2. proc # "down"
  BY <1>1 DEF CacheInv, CacheSafe
<1>3. Stopping' = Stopping
  BY <1>1 DEF Stopping
<1>4. CASE dirty /\ SaveCache(Timer)
  <2>1. UNCHANGED <<dirty, overtaken>>
    BY <1>4 DEF SaveCache
  <2>2. FreshTexts' /\ Awaited' /\ FreshWrites' = FreshWrites \cup {Len(cacheWrites) + 1}
    BY <1>1, <1>4, SaveKeepsFresh DEF CacheInv
  <2>3. FreshRuns'
    <3>1. ASSUME ~overtaken', proc' # "down", ~Stopping' PROVE FreshWrites = {}
      BY <1>1, <1>3, <2>1, <3>1 DEF FreshInv, FreshRuns
    <3>2. ASSUME ~overtaken', proc' # "down", ~Stopping' PROVE \A i, j \in FreshWrites' : i = j
      BY <2>2, <3>1, <3>2
    <3>3. FreshWrites' # {}
      BY <2>2
    <3> QED
      BY <1>1, <1>4, <2>1, <3>2, <3>3 DEF FreshRuns
  <2>4. FreshStops'
    BY <1>1, <1>2, <2>2 DEF FreshStops
  <2> QED
    BY <2>2, <2>3, <2>4 DEF FreshInv
<1>5. CASE UNCHANGED Written
  <2>1. /\ UNCHANGED <<cache, cacheFile, cacheWrites, dirty, overtaken>>
        /\ FileList' = FileList /\ FreshWrites' = FreshWrites
    BY <1>5 DEF Written, FileList, FreshWrites
  <2>2. Saved' = Saved
    BY <2>1 DEF Saved, ToSet
  <2> QED
    BY <1>1, <1>3, <2>1, <2>2 DEF FreshInv, FreshTexts, FreshRuns, FreshStops, Awaited
<1> QED
  BY <1>4, <1>5 DEF CacheTimer, TimerFires

LEMMA OpenKeepsFresh ==
  ASSUME CacheInv, FreshInv, NEW i \in DOMAIN cacheWrites, CacheOpens(i),
         UNCHANGED <<proc, stops, lastEnd>>
  PROVE  FreshInv'
<1> DEFINE w == cacheWrites[i]
<1>1. /\ cacheWrites' = [cacheWrites EXCEPT ![i] = [w EXCEPT !.open = TRUE]]
      /\ cacheFile' = Empty /\ overtaken' = (overtaken \/ w.old)
      /\ UNCHANGED <<cache, dirty, saveTimer>>
  BY DEF CacheOpens, Opened
<1>2. cacheWrites \in Seq(CacheTexts) /\ i \in 1..Len(cacheWrites)
      /\ Len(cacheWrites) \in Nat /\ DOMAIN cacheWrites = 1..Len(cacheWrites)
  BY DEF CacheInv, CacheTyped
<1>3. w \in CacheTexts /\ w.old \in BOOLEAN
  BY <1>2, TextTyped DEF CacheInv
<1>4. /\ [w EXCEPT !.open = TRUE].text = w.text /\ [w EXCEPT !.open = TRUE].by = w.by
      /\ [w EXCEPT !.open = TRUE].old = w.old
  BY <1>3 DEF CacheTexts
<1> HIDE DEF w
<1>5. /\ DOMAIN cacheWrites' = DOMAIN cacheWrites
      /\ \A j \in DOMAIN cacheWrites :
           cacheWrites'[j] = IF j = i THEN [w EXCEPT !.open = TRUE] ELSE cacheWrites[j]
  BY <1>1, <1>2
<1>6. \A j \in DOMAIN cacheWrites :
        /\ cacheWrites'[j].text = cacheWrites[j].text
        /\ cacheWrites'[j].by = cacheWrites[j].by /\ cacheWrites'[j].old = cacheWrites[j].old
  BY <1>4, <1>5 DEF w
<1>7. FreshWrites' = FreshWrites
  BY <1>5, <1>6 DEF FreshWrites
<1>8. proc # "down"
  BY <1>2 DEF CacheInv, CacheSafe
<1>9. FreshTexts'
  <2>1. FreshWrites \subseteq DOMAIN cacheWrites
    BY DEF FreshWrites
  <2> QED
    BY <1>1, <1>6, <1>7, <2>1 DEF FreshInv, FreshTexts
<1>10. Awaited'
  BY <1>5, <1>6 DEF FreshInv, Awaited
<1>11. ASSUME ~overtaken' PROVE ~overtaken /\ i \in FreshWrites
  BY <1>1, <1>3, <1>11 DEF FreshWrites, w
<1>12. Stopping' = Stopping
  BY DEF Stopping
<1>13. FreshRuns'
  BY <1>1, <1>7, <1>11, <1>12 DEF FreshInv, FreshRuns
<1>14. FreshStops'
  BY <1>7, <1>8, <1>11 DEF FreshStops
<1> QED
  BY <1>9, <1>10, <1>13, <1>14 DEF FreshInv

\* What is left of the writes when one is over.
LEMMA OneOver ==
  ASSUME CacheTyped, NEW i \in DOMAIN cacheWrites, cacheWrites' = RemoveAt(cacheWrites, i)
  PROVE  \A j \in DOMAIN cacheWrites' :
           LET k == IF j < i THEN j ELSE j + 1
           IN /\ j \in Nat /\ k \in DOMAIN cacheWrites /\ k # i
              /\ cacheWrites'[j] = cacheWrites[k]
<1>1. cacheWrites \in Seq(CacheTexts) /\ i \in 1..Len(cacheWrites)
      /\ Len(cacheWrites) \in Nat /\ DOMAIN cacheWrites = 1..Len(cacheWrites)
  BY DEF CacheTyped
<1>2. /\ DOMAIN RemoveAt(cacheWrites, i) = 1..(Len(cacheWrites) - 1)
      /\ \A j \in 1..(Len(cacheWrites) - 1) :
           RemoveAt(cacheWrites, i)[j] = IF j < i THEN cacheWrites[j] ELSE cacheWrites[j + 1]
  BY <1>1, Removing
<1>3. ASSUME NEW j \in 1..(Len(cacheWrites) - 1)
      PROVE  /\ j \in Nat /\ (IF j < i THEN j ELSE j + 1) \in 1..Len(cacheWrites)
             /\ (IF j < i THEN j ELSE j + 1) # i
  BY <1>1
<1> QED
  BY <1>1, <1>2, <1>3

\* A write is over: the fresh ones left were fresh before, and still differ.
LEMMA FreshLeft ==
  ASSUME CacheInv, FreshInv, NEW i \in DOMAIN cacheWrites,
         cacheWrites' = RemoveAt(cacheWrites, i), UNCHANGED <<cache, stops>>
  PROVE  /\ Awaited'
         /\ \A j \in FreshWrites' : cacheWrites'[j].text = cache'
         /\ \A j \in FreshWrites' : \E k \in FreshWrites : k # i /\ cacheWrites'[j] = cacheWrites[k]
         /\ (\A j, k \in FreshWrites : j = k) => (\A j, k \in FreshWrites' : j = k)
<1>1. \A j \in DOMAIN cacheWrites' :
        LET k == IF j < i THEN j ELSE j + 1
        IN /\ j \in Nat /\ k \in DOMAIN cacheWrites /\ k # i
           /\ cacheWrites'[j] = cacheWrites[k]
  BY OneOver DEF CacheInv
<1>2. i \in Nat
  BY DEF CacheInv, CacheTyped
<1>3. Awaited'
  BY <1>1 DEF FreshInv, Awaited
<1>4. \A j \in FreshWrites' :
        LET k == IF j < i THEN j ELSE j + 1
        IN j \in Nat /\ k \in FreshWrites /\ k # i /\ cacheWrites'[j] = cacheWrites[k]
  BY <1>1 DEF FreshWrites
<1>5. \A j \in FreshWrites' : \E k \in FreshWrites : k # i /\ cacheWrites'[j] = cacheWrites[k]
  BY <1>4
<1>6. \A j \in FreshWrites' : cacheWrites'[j].text = cache'
  BY <1>5 DEF FreshInv, FreshTexts
<1>7. ASSUME \A j, k \in FreshWrites : j = k, NEW j \in FreshWrites', NEW k \in FreshWrites'
      PROVE  j = k
  <2> DEFINE before(m) == IF m < i THEN m ELSE m + 1
  <2>1. before(j) \in FreshWrites /\ before(k) \in FreshWrites /\ j \in Nat /\ k \in Nat
    BY <1>4
  <2>2. before(j) = before(k)
    BY <1>7, <2>1
  <2> QED
    BY <1>2, <2>1, <2>2
<1> QED
  BY <1>3, <1>5, <1>6, <1>7

LEMMA LandKeepsFresh ==
  ASSUME CacheInv, FreshInv, NEW i \in DOMAIN cacheWrites, CacheLands(i),
         UNCHANGED <<proc, stops, lastEnd>>
  PROVE  FreshInv'
<1>1. /\ cacheWrites[i].open /\ cacheFile' \in Landings(cacheFile, cacheWrites[i].text)
      /\ cacheWrites' = RemoveAt(cacheWrites, i) /\ ~dirty'
      /\ overtaken' = (overtaken \/ cacheWrites[i].old)
      /\ UNCHANGED <<cache, saveTimer>>
  BY DEF CacheLands
<1>2. /\ Awaited'
      /\ \A j \in FreshWrites' : cacheWrites'[j].text = cache'
      /\ \A j \in FreshWrites' : \E k \in FreshWrites : k # i /\ cacheWrites'[j] = cacheWrites[k]
  BY <1>1, FreshLeft
<1>3. proc # "down"
  BY DEF CacheInv, CacheTyped, CacheSafe
<1>4. cacheWrites[i].old \in BOOLEAN
  BY TextTyped DEF CacheInv
<1>5. ASSUME ~overtaken' PROVE ~overtaken /\ i \in FreshWrites
  BY <1>1, <1>4, <1>5 DEF FreshWrites
<1>6. ASSUME ~overtaken' PROVE cacheFile' = cache'
  <2>1. cacheWrites[i].text = cache /\ cacheFile \in {Empty, cache}
    BY <1>1, <1>5, <1>6 DEF FreshInv, FreshTexts
  <2> QED
    BY <1>1, <2>1 DEF Landings
<1>7. ASSUME ~overtaken' PROVE Saved'
  <2>1. cache' \notin {Absent, Empty, Garbled}
    BY <1>1, PeerAssumption DEF CacheInv, CacheTyped
  <2>2. FileList' = cache'
    BY <1>6, <1>7, <2>1 DEF FileList
  <2> QED
    BY <2>2 DEF Saved
<1>8. FreshTexts'
  BY <1>2, <1>6 DEF FreshTexts
<1>9. Stopping' = Stopping
  BY DEF Stopping
<1>10. FreshRuns'
  <2>1. ASSUME ~overtaken', proc' # "down", ~Stopping' PROVE FreshWrites' = {}
    <3>1. i \in FreshWrites /\ \A j, k \in FreshWrites : j = k
      BY <1>5, <1>9, <2>1 DEF FreshInv, FreshRuns
    <3> QED
      BY <1>2, <3>1
  <2>2. ASSUME ~overtaken', proc' # "down", ~Stopping' PROVE FreshWrites' = {} /\ Saved'
    BY <1>7, <2>1, <2>2
  <2> QED
    BY <2>2 DEF FreshRuns
<1>11. FreshStops'
  BY <1>7 DEF FreshStops
<1> QED
  BY <1>2, <1>8, <1>10, <1>11 DEF FreshInv

LEMMA ThrowKeepsFresh ==
  ASSUME CacheInv, FreshInv, CacheThrows
  PROVE  FreshInv'
<1>1. PICK i \in DOMAIN cacheWrites : CacheFails(i)
  BY DEF CacheThrows
<1>2. /\ cacheWrites' = RemoveAt(cacheWrites, i)
      /\ UNCHANGED <<cache, cacheFile, dirty, saveTimer, overtaken, proc, stops>>
      /\ lastEnd' = IF Stopping THEN "disturbed" ELSE lastEnd
  BY <1>1 DEF CacheFails, CacheThrows
<1>3. /\ Awaited'
      /\ \A j \in FreshWrites' : cacheWrites'[j].text = cache'
      /\ \A j \in FreshWrites' : \E k \in FreshWrites : k # i /\ cacheWrites'[j] = cacheWrites[k]
      /\ (\A j, k \in FreshWrites : j = k) => (\A j, k \in FreshWrites' : j = k)
  BY <1>2, FreshLeft
<1>4. proc # "down" /\ Stopping' = Stopping
  BY <1>2 DEF CacheInv, CacheTyped, CacheSafe, Stopping
<1>5. lastEnd' # "stopping"
  BY <1>2 DEF CacheInv, StopInv, Stopping
<1>6. FreshTexts'
  BY <1>2, <1>3 DEF FreshInv, FreshTexts
<1>7. Saved' = Saved
  <2>1. FileList' = FileList
    BY <1>2 DEF FileList
  <2> QED
    BY <1>2, <2>1 DEF Saved, ToSet
<1>8. FreshRuns'
  <2>1. FreshWrites' # {} => FreshWrites # {}
    BY <1>3
  <2>3. ASSUME ~overtaken', proc' # "down", ~Stopping'
        PROVE  /\ FreshWrites = {} => dirty \/ Saved
               /\ FreshWrites # {} => dirty /\ ~saveTimer
               /\ \A j, k \in FreshWrites : j = k
    BY <1>2, <1>4, <2>3 DEF FreshInv, FreshRuns
  <2> QED
    BY <1>2, <1>3, <1>7, <2>1, <2>3 DEF FreshRuns
<1>9. FreshStops'
  BY <1>2, <1>4, <1>5 DEF FreshStops
<1> QED
  BY <1>3, <1>6, <1>8, <1>9 DEF FreshInv

\* The process ends: nothing is being written any more.
LEMMA EndKeepsFresh ==
  ASSUME NEW how, End(how), how # "stopping", how = "clean" /\ ~overtaken => Saved
  PROVE  FreshInv'
<1>1. /\ proc' = "down" /\ lastEnd' = how /\ cacheWrites' = <<>>
      /\ UNCHANGED <<cache, cacheFile, overtaken>>
  BY DEF End, StopCache
<1>2. DOMAIN cacheWrites' = {}
  BY <1>1
<1>3. FileList' = FileList
  BY <1>1 DEF FileList
<1>4. Saved' = Saved
  BY <1>1, <1>3 DEF Saved, ToSet
<1>5. FreshWrites' = {}
  BY <1>2 DEF FreshWrites
<1> QED
  BY <1>1, <1>2, <1>4, <1>5 DEF FreshInv, FreshTexts, FreshRuns, FreshStops, Awaited

LEMMA SignalKeepsFresh ==
  ASSUME CacheInv, FreshInv, NEW s \in Signals, SignalComes(s)
  PROVE  FreshInv'
<1>1. proc \in {"up", "half"} /\ stops[s] = "idle"
  BY DEF SignalComes
<1>2. CASE proc = "half"
  <2>1. End("half")
    BY <1>2 DEF SignalComes
  <2> QED
    BY <2>1, EndKeepsFresh
<1>3. CASE proc = "up"
  <2>1. /\ stops' = [stops EXCEPT ![s] = "flushing"] /\ FlushCache(s)
        /\ lastEnd' = IF Stopping THEN "disturbed" ELSE "stopping"
        /\ UNCHANGED proc
    BY <1>3 DEF SignalComes
  <2>2. stops'[s] = "flushing" /\ \A t \in Signals : t # s => stops'[t] = stops[t]
    BY <2>1 DEF CacheInv, StopInv
  <2>3. Stopping'
    BY <2>2 DEF Stopping
  <2>4. FreshRuns'
    BY <2>3 DEF FreshRuns
  <2>5. CASE dirty /\ SaveCache(s)
    <3>1. FreshTexts' /\ Awaited' /\ FreshWrites' = FreshWrites \cup {Len(cacheWrites) + 1}
      BY <2>2, <2>5, SaveKeepsFresh DEF CacheInv
    <3>2. FreshStops'
      BY <1>3, <2>1, <3>1 DEF FreshStops
    <3> QED
      BY <2>4, <3>1, <3>2 DEF FreshInv
  <2>6. CASE ~dirty /\ UNCHANGED Written
    <3>1. /\ UNCHANGED <<cache, cacheFile, cacheWrites, dirty, overtaken>>
          /\ FileList' = FileList /\ FreshWrites' = FreshWrites
      BY <2>6 DEF Written, FileList, FreshWrites
    <3>2. Saved' = Saved
      BY <3>1 DEF Saved, ToSet
    <3>3. FreshTexts'
      BY <3>1 DEF FreshInv, FreshTexts
    <3>4. Awaited'
      <4>1. \A i \in DOMAIN cacheWrites : cacheWrites[i].by \in Signals \cup {Timer}
        BY TextTyped DEF CacheInv
      <4> QED
        BY <2>2, <3>1, <4>1 DEF FreshInv, Awaited
    <3>5. FreshStops'
      <4>1. ASSUME ~overtaken', lastEnd' = "stopping" PROVE Saved
        BY <1>3, <2>1, <2>6, <3>1, <4>1 DEF FreshInv, FreshRuns
      <4> QED
        BY <1>3, <2>1, <3>2, <4>1 DEF FreshStops
    <3> QED
      BY <2>4, <3>3, <3>4, <3>5 DEF FreshInv
  <2> QED
    BY <2>1, <2>5, <2>6 DEF FlushCache
<1> QED
  BY <1>1, <1>2, <1>3

LEMMA FlushKeepsFresh ==
  ASSUME CacheInv, FreshInv, NEW s \in Signals, FlushEnds(s)
  PROVE  FreshInv'
<1>1. /\ stops[s] = "flushing" /\ Flushed(s) /\ stops' = [stops EXCEPT ![s] = "closing"]
      /\ UNCHANGED <<proc, lastEnd, cache, cacheFile, cacheWrites, dirty, saveTimer,
                     overtaken>>
  BY DEF FlushEnds, cacheVars
<1>2. stops'[s] = "closing" /\ \A t \in Signals : t # s => stops'[t] = stops[t]
  BY <1>1 DEF CacheInv, StopInv
<1>3. FileList' = FileList /\ FreshWrites' = FreshWrites
  BY <1>1 DEF FileList, FreshWrites
<1>4. Saved' = Saved
  BY <1>1, <1>3 DEF Saved, ToSet
<1>5. Stopping'
  BY <1>2 DEF Stopping
<1>6. Awaited'
  <2>1. \A i \in DOMAIN cacheWrites :
          cacheWrites[i].by \in Signals \cup {Timer} /\ cacheWrites[i].by # s
    BY <1>1, TextTyped DEF CacheInv, Flushed
  <2> QED
    BY <1>1, <1>2, <2>1 DEF FreshInv, Awaited
<1>7. FreshTexts' /\ FreshRuns' /\ FreshStops'
  BY <1>1, <1>3, <1>4, <1>5 DEF FreshInv, FreshTexts, FreshRuns, FreshStops
<1> QED
  BY <1>6, <1>7 DEF FreshInv

\* At a clean end nothing is being written: the timer's writes are over and what the
\* signal waited for has landed.
LEMMA ExitKeepsFresh ==
  ASSUME CacheInv, FreshInv, NEW s \in Signals, Exit(s)
  PROVE  FreshInv'
<1>1. stops[s] = "closing"
  BY DEF Exit
<1>2. CASE lastEnd = "stopping" /\ \A i \in DOMAIN cacheWrites : cacheWrites[i].by # Timer
  <2>1. \A t \in Signals : stops[t] # "flushing"
    <3>1. PICK t \in Signals : \A u \in Signals : u # t => stops[u] = "idle"
      BY <1>2 DEF CacheInv, StopInv
    <3>2. s = t
      BY <1>1, <3>1
    <3> QED
      BY <1>1, <3>1, <3>2
  <2>2. \A i \in DOMAIN cacheWrites : cacheWrites[i].by \in Signals \cup {Timer}
    BY TextTyped DEF CacheInv
  <2>3. DOMAIN cacheWrites = {}
    BY <1>2, <2>1, <2>2 DEF FreshInv, Awaited
  <2>4. FreshWrites = {}
    BY <2>3 DEF FreshWrites
  <2>5. ~overtaken => Saved
    BY <1>2, <2>4 DEF FreshInv, FreshStops
  <2>6. End("clean")
    BY <1>2 DEF Exit
  <2> QED
    BY <2>5, <2>6, EndKeepsFresh
<1>3. CASE ~(lastEnd = "stopping" /\ \A i \in DOMAIN cacheWrites : cacheWrites[i].by # Timer)
  <2>1. End("disturbed")
    BY <1>3 DEF Exit
  <2> QED
    BY <2>1, EndKeepsFresh
<1> QED
  BY <1>2, <1>3

LEMMA RestKeepsFresh ==
  ASSUME FreshInv, UNCHANGED <<cache, cacheFile, cacheWrites, dirty, saveTimer, overtaken,
                               stops, lastEnd>>,
         proc' = proc \/ (proc = "starting" /\ proc' \in {"up", "half"})
  PROVE  FreshInv'
<1>1. FileList' = FileList /\ FreshWrites' = FreshWrites /\ Stopping' = Stopping
  BY DEF FileList, FreshWrites, Stopping
<1>2. Saved' = Saved
  BY <1>1 DEF Saved, ToSet
<1> QED
  BY <1>1, <1>2 DEF FreshInv, FreshTexts, FreshRuns, FreshStops, Awaited

LEMMA PeerStepKeepsFresh == CacheInv /\ FreshInv /\ [PeerNext]_peerVars => FreshInv'
<1> SUFFICES ASSUME CacheInv, FreshInv, [PeerNext]_peerVars PROVE FreshInv'
  OBVIOUS
<1>1. ASSUME NEW env \in Settings, NEW expired \in SUBSET PeerIds, StartPeer(env, expired)
      PROVE  FreshInv'
  BY <1>1, StartKeepsFresh
<1>2. CASE Started
  BY <1>2, RestKeepsFresh DEF Started, cacheVars
<1>3. ASSUME NEW p \in PeerIds, NEW direct \in BOOLEAN, PeerConnect(p, direct)
      PROVE  FreshInv'
  BY <1>3, ConnectKeepsFresh
<1>4. CASE CacheTimer
  BY <1>4, TimerKeepsFresh
<1>5. CASE CacheGoes
  BY <1>5, OpenKeepsFresh, LandKeepsFresh DEF CacheGoes
<1>6. CASE CacheThrows
  BY <1>6, ThrowKeepsFresh
<1>7. ASSUME NEW s \in Signals, SignalComes(s) \/ FlushEnds(s) \/ Exit(s) PROVE FreshInv'
  BY <1>7, SignalKeepsFresh, FlushKeepsFresh, ExitKeepsFresh
<1>8. CASE PeerCrash
  BY <1>8, EndKeepsFresh DEF PeerCrash
<1>9. CASE UNCHANGED peerVars
  BY <1>9, RestKeepsFresh DEF peerVars, cacheVars
<1> QED
  BY <1>1, <1>2, <1>3, <1>4, <1>5, <1>6, <1>7, <1>8, <1>9 DEF PeerNext

\* A node that one undisturbed signal stopped leaves every peer it knew in the file, for
\* any peers and any number of them and through any crashes and restarts before: also
\* when a write of the timer was under way at the signal, and when a peer came while one
\* was. Excepted are a change that an earlier write overtook (peer-cache.service.ts takes
\* the mark off when any text lands) and a write of the timer cut by the exit.
THEOREM CleanStopAlwaysSaves == PeerSpec => []CleanStopSaves
<1>1. PeerInit => CacheInv /\ FreshInv
  BY CacheStarts, FreshStarts
<1>2. CacheInv /\ FreshInv /\ [PeerNext]_peerVars => (CacheInv /\ FreshInv)'
  BY PeerStepKeepsCache, PeerStepKeepsFresh
<1>3. FreshInv => CleanStopSaves
  BY DEF FreshInv, FreshStops, CleanStopSaves
<1> QED
  BY <1>1, <1>2, <1>3, PTL DEF PeerSpec

===============================================================================
