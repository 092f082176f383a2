-------------------------- MODULE WriterAuthorization --------------------------
(***************************************************************************)
(* services/writer-authorization.service.ts: which of the events of a feed a *)
(* client takes for valid, which it shows as invalid and which it leaves out.*)
(* The checks are pure; the state is what has arrived from the nodes, in any *)
(* order and perhaps twice, and the clock.  The cached lists of the class    *)
(* are read by none of its checks and are left out; an author stands for its *)
(* key, mailbox and wallet.                                                  *)
(***************************************************************************)
EXTENDS Integers, Sequences, FiniteSets, SequencesExt, Functions, Lists

CONSTANTS
  FeedEvents,   \* [cid, parent, author, time, signed]
  NoParent, NoList, NoRules,
  FeedContexts, \* [known, allow, block, rules, bans], the lists may be NoList
  Skew,         \* TIMESTAMP_SKEW_MS
  MaxMoment, MaxArrived

ASSUME WriterAssumption ==
  /\ Skew \in Nat /\ MaxMoment \in Nat /\ MaxArrived \in Nat
  /\ \A e \in FeedEvents : e.time \in Nat

VARIABLES
  arrived,  \* the events argument of assembleFeed
  moment,   \* Date.now()
  context

feedVars == <<arrived, moment, context>>

WriterInit == arrived = <<>> /\ moment = 0 /\ context \in FeedContexts

EventArrives(e) ==
  /\ Len(arrived) < MaxArrived /\ arrived' = Append(arrived, e)
  /\ UNCHANGED <<moment, context>>
MomentPasses ==
  /\ moment < MaxMoment /\ moment' = moment + 1
  /\ UNCHANGED <<arrived, context>>

WriterNext == MomentPasses \/ \E e \in FeedEvents : EventArrives(e)
WriterSpec == WriterInit /\ [][WriterNext]_feedVars

VerifyWriterSignature(e) == e.signed

\* The first event with the parent's cid has to be signed; nothing else is asked of it.
ValidateMessageChain(e, earlier) ==
  LET at == {i \in DOMAIN earlier : earlier[i].cid = e.parent}
  IN \/ e.parent = NoParent
     \/ \E i \in at : VerifyWriterSignature(earlier[i]) /\ \A j \in at : i <= j

CheckDMAuthorization(author, allow, block) == author \notin block /\ author \in allow

\* token_gated asks nothing here.
CheckGuildPosting(author, rules, bans) ==
  /\ author \notin bans
  /\ rules.tier \in {"members", "prime_key"} => rules.list # NoList /\ author \in rules.list
  /\ rules.tier \in {"public", "members", "token_gated", "prime_key"}

ValidateTimestamp(e, now) == now - e.time \in -Skew .. Skew

\* The lists are asked only of writers whose context was supplied, and their answer
\* replaces any other.
Authorized(author, ctx) ==
  author \in ctx.known =>
    /\ NoList \notin {ctx.allow, ctx.block} => CheckDMAuthorization(author, ctx.allow, ctx.block)
    /\ ctx.rules # NoRules /\ ctx.bans # NoList => CheckGuildPosting(author, ctx.rules, ctx.bans)
ValidateEvent(e, earlier, ctx, now) ==
  IF ~Authorized(e.author, ctx) THEN "censored"
  ELSE IF /\ VerifyWriterSignature(e) /\ ValidateTimestamp(e, now)
          /\ ValidateMessageChain(e, earlier) THEN "valid"
  ELSE "invalid"

AsArrived(events) == events
\* A stable sort by timestamp.
Earlier(events, i) == {j \in DOMAIN events :
  events[j].time < events[i].time \/ (events[j].time = events[i].time /\ j < i)}
ByTime(events) == Arranged(events, [i \in DOMAIN events |-> Earlier(events, i)])

\* Each event is validated against all before it, the censored ones too, which go last.
AssembleFeed(events, ctx, now) ==
  LET sorted == ByTime(events)
      validated == [k \in DOMAIN sorted |->
        [event |-> sorted[k],
         state |-> ValidateEvent(sorted[k], SubSeq(sorted, 1, k - 1), ctx, now)]]
  IN Filtered(validated, {k \in DOMAIN validated : validated[k].state # "censored"})

-----------------------------------------------------------------------------
Reordered(f) == [i \in DOMAIN arrived |-> arrived[f[i]]]
SameTime ==
  \E i, j \in DOMAIN arrived : arrived[i] # arrived[j] /\ arrived[i].time = arrived[j].time
Parents(e) == {p \in ToSet(arrived) : p.cid = e.parent}

\* What a client makes of a feed does not depend on the order in which the nodes sent
\* its events, as long as no two of them bear the same time; a valid reply has a
\* signed parent that is not younger, and a reply is valid when everything that bears
\* the parent's cid is signed and older, even if the parent itself is invalid, too
\* old by now or left out.
AssemblyAgrees ==
  LET feed == ToSet(AssembleFeed(arrived, context, moment))
  IN /\ ~SameTime => \A f \in Bijection(DOMAIN arrived, DOMAIN arrived) :
          AssembleFeed(Reordered(f), context, moment) = AssembleFeed(arrived, context, moment)
     /\ \A v \in feed : v.state = "valid" /\ v.event.parent # NoParent =>
          \E p \in Parents(v.event) : p.signed /\ p.time <= v.event.time
     /\ \A e \in ToSet(arrived) :
          /\ e.signed /\ ValidateTimestamp(e, moment) /\ Authorized(e.author, context)
          /\ Parents(e) # {} /\ \A p \in Parents(e) : p.signed /\ p.time < e.time
          => [event |-> e, state |-> "valid"] \in feed

===============================================================================
