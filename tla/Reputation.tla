------------------------------ MODULE Reputation ------------------------------
(***************************************************************************)
(* services/reputation.service.ts: the events are kept in memory and the     *)
(* whole list is written to reputation-events.json each time its length is a *)
(* multiple of SaveEvery.  An event is its number; the weights only make the *)
(* score that is displayed.                                                  *)
(***************************************************************************)
EXTENDS Naturals, JsonFile

CONSTANTS
  SaveEvery,  \* 10 in recordEvent
  MaxEvents   \* bound on the events recorded

ASSUME SaveEveryAssumption ==
  /\ SaveEvery \in Nat \ {0} /\ MaxEvents \in Nat
  /\ \A f \in {Absent, Empty, Garbled} : f \notin Seq(Nat)

VARIABLES
  events,       \* this.events
  eventsFile,   \* reputation-events.json
  eventWrites,  \* writes of that file under way
  recorded,     \* history: how many events there ever were
  eventsRaced   \* history: two of the writes were under way at once, or one was
                \* hit by a crash or an error

reputationVars == <<events, eventsFile, eventWrites, recorded, eventsRaced>>

ReputationInit ==
  /\ events = <<>> /\ eventsFile = Absent /\ eventWrites = <<>>
  /\ recorded = 0 /\ eventsRaced = FALSE

DueOnlyLast(lengths) ==
  IF lengths # <<>> /\ Last(lengths) % SaveEvery = 0 THEN <<Last(lengths)>> ELSE <<>>
DueAmong(lengths) ==
  Filtered(lengths, {i \in DOMAIN lengths : lengths[i] % SaveEvery = 0})

\* k calls of recordEvent in one loop, none awaited: each looks at the length the
\* list has then and takes its text at once.
Record(k) ==
  /\ recorded + k <= MaxEvents
  /\ recorded' = recorded + k
  /\ events' = events \o [i \in 1..k |-> recorded + i]
  /\ LET due == DueAmong([i \in 1..k |-> Len(events) + i])
     IN eventWrites' = eventWrites
          \o [i \in DOMAIN due |-> Waiting(SubSeq(events', 1, due[i]))]
  /\ eventsRaced' = (eventsRaced \/ Len(eventWrites') > 1)
  /\ UNCHANGED eventsFile

EventsOpen(i) ==
  /\ ~eventWrites[i].open
  /\ eventsFile' = Empty
  /\ eventWrites' = [eventWrites EXCEPT ![i] = Opened(@)]
  /\ UNCHANGED <<events, recorded, eventsRaced>>

EventsLand(i) ==
  /\ eventWrites[i].open
  /\ eventsFile' \in Landings(eventsFile, eventWrites[i].text)
  /\ eventWrites' = RemoveAt(eventWrites, i)
  /\ UNCHANGED <<events, recorded, eventsRaced>>

\* saveEvents logs what writeFile throws: the text is lost, opened or not.
EventsFail(i) ==
  /\ eventWrites' = RemoveAt(eventWrites, i) /\ eventsRaced' = TRUE
  /\ UNCHANGED <<events, eventsFile, recorded>>

\* A crash: what is not in the file is gone.
ForgetEvents ==
  /\ events' = <<>> /\ eventWrites' = <<>>
  /\ eventsRaced' = (eventsRaced \/ eventWrites # <<>>)
  /\ UNCHANGED <<eventsFile, recorded>>

LoadEvents ==
  /\ events' = IF eventsFile = Absent THEN <<>> ELSE eventsFile
  /\ UNCHANGED <<eventsFile, eventWrites, recorded, eventsRaced>>

-----------------------------------------------------------------------------
\* recordEvent saves at every tenth event, also when several are recorded in one
\* loop and when the list was loaded after a crash: unless writes overlapped or
\* failed, a crash now would lose fewer than SaveEvery events.
LossBounded ==
  eventsRaced \/ eventWrites # <<>>
    \/ Len(events) < SaveEvery + (IF eventsFile = Absent THEN 0 ELSE Len(eventsFile))

===============================================================================
