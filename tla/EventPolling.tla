------------------------------ MODULE EventPolling ------------------------------
(***************************************************************************)
(* A client that follows the event broker in the way the API offers: it    *)
(* polls with the number of the last event it has seen and keeps the last  *)
(* event of every run; when a gap is reported it reads the durable state   *)
(* of the runs again (inspectionApi.events in frontend/src/api/client.ts   *)
(* is the poll).  The process behind the API can be started again.         *)
(***************************************************************************)
EXTENDS EventBroker

CONSTANTS
    Limit,         \* the limit of a poll
    Nothing,       \* no event of a run yet
    MaxPublished,  \* bound on the events of one process
    MaxRestarts    \* bound on restarts of the process

ASSUME PollingAssumption ==
    /\ Limit \in Nat \ {0}
    /\ Nothing \notin EventTypes

VARIABLES
    told,       \* history: type of the last event of each run in this process
    cursor,     \* after_sequence of the next poll
    known,      \* type of the last event of each run, as the client knows it
    following,  \* history: the client has followed this process from event 1
    restarts    \* history: restarts of the process

client == <<cursor, known, following>>
pollingVars   == <<brokerVars, client, told, restarts>>

PollingInit ==
    /\ EmptyBroker
    /\ told = [t \in Topics |-> Nothing]
    /\ cursor = 0
    /\ known = [t \in Topics |-> Nothing]
    /\ following = FALSE
    /\ restarts = 0

PublishEvent ==
    /\ nextSequence <= MaxPublished
    /\ \E type \in EventTypes, topic \in Topics :
         /\ Publish(type, topic)
         /\ told' = [told EXCEPT ![topic] = type]
    /\ UNCHANGED <<client, restarts>>

\* What the client knows after a batch that is not preceded by a gap.
Learned(batch) ==
    [t \in Topics |->
        LET news == {i \in DOMAIN batch : batch[i].topic = t}
        IN  IF news = {} THEN known[t] ELSE batch[Max(news)].type]

\* What the durable state tells it after a gap.
Refreshed == [t \in Topics |-> IF told[t] = Nothing THEN known[t] ELSE told[t]]

Poll ==
    LET batch == Batch(cursor, Limit) IN
    /\ batch # <<>>
    /\ cursor' = batch[Len(batch)].sequence
    /\ known' = IF GapAfter(cursor) THEN Refreshed ELSE Learned(batch)
    /\ following' = (following \/ (cursor = 0 /\ Oldest = 1))
    /\ UNCHANGED <<brokerVars, told, restarts>>

\* The client keeps its cursor: nothing in a batch tells it of the restart.
Restart ==
    /\ restarts < MaxRestarts
    /\ restarts' = restarts + 1
    /\ NewBroker
    /\ told' = [t \in Topics |-> Nothing]
    /\ following' = FALSE
    /\ UNCHANGED <<cursor, known>>

Quiet ==
    /\ nextSequence > MaxPublished
    /\ restarts = MaxRestarts
    /\ Batch(cursor, Limit) = <<>>
    /\ UNCHANGED pollingVars

PollingNext == PublishEvent \/ Poll \/ Restart \/ Quiet

\* The client never stops polling.
PollingSpec == PollingInit /\ [][PollingNext]_pollingVars /\ WF_pollingVars(Poll)

-----------------------------------------------------------------------------
(* Properties.                                                             *)

\* The ring holds the last events in order and without holes, never more than
\* maximum_events of them.
PollingTypeOK ==
    /\ BrokerTypeOK
    /\ Len(events) <= MaximumEvents
    /\ Len(events) < nextSequence
    /\ \A i \in DOMAIN events :
         events[i].sequence = nextSequence - Len(events) - 1 + i
    /\ cursor \in Nat
    /\ known \in [Topics -> EventTypes \cup {Nothing}]

\* A client that has followed a process from its first event, and has read
\* all there is, knows the last event of every run: whatever the ring dropped
\* before it was read lies before a gap that has been reported.
Informed ==
    following /\ cursor + 1 = nextSequence =>
        \A t \in Topics : told[t] # Nothing => known[t] = told[t]

\* The client reaches the end of the stream again and again, however few
\* events a poll returns.
CatchesUp == []<>(cursor + 1 >= nextSequence)
=============================================================================
