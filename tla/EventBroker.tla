------------------------------ MODULE EventBroker ------------------------------
(***************************************************************************)
(* The bounded buffer of events that clients poll: BoundedEventBroker in   *)
(* backend/api/events.py.  Both operations hold its lock throughout, so    *)
(* each is one step.  The buffer lives in the memory of the process.       *)
(***************************************************************************)
EXTENDS Naturals, Sequences, FiniteSetsExt

CONSTANTS
    MaximumEvents,  \* maximum_events, the length of the ring
    EventTypes,     \* values of event_type
    Topics          \* values of run_id

ASSUME BrokerAssumption == MaximumEvents \in Nat \ {0}

VARIABLES
    events,       \* the ring, oldest event first
    nextSequence  \* number of the next event

brokerVars == <<events, nextSequence>>

Event == [sequence : Nat \ {0}, type : EventTypes, topic : Topics]

BrokerTypeOK ==
    /\ events \in Seq(Event)
    /\ nextSequence \in Nat \ {0}

EmptyBroker ==
    /\ events = <<>>
    /\ nextSequence = 1

\* A new process has a new broker, which counts from 1 again.
NewBroker ==
    /\ events' = <<>>
    /\ nextSequence' = 1

\* deque(maxlen): appending to a full ring drops its oldest event.
Appended(ring, e) ==
    IF Len(ring) < MaximumEvents THEN Append(ring, e) ELSE Append(Tail(ring), e)

Publish(type, topic) ==
    /\ events' = Appended(events, [sequence |-> nextSequence, type |-> type,
                                   topic |-> topic])
    /\ nextSequence' = nextSequence + 1

-----------------------------------------------------------------------------
(* read(after_sequence, limit)                                             *)

Oldest == IF events = <<>> THEN nextSequence ELSE events[1].sequence

\* The client has read something, and what follows it is not in the ring any
\* more; the mutant is off by one.
Bug_GapAfter(after) == after > 0 /\ after < Oldest - 2
GapAfter(after) == after > 0 /\ after < Oldest - 1

\* The events of the ring are in the order of their numbers: what is greater
\* than "after" follows the last one that is not.
Newer(after, s) ==
    LET read == {i \in DOMAIN s : s[i].sequence <= after}
    IN  IF read = {} THEN s ELSE SubSeq(s, Max(read) + 1, Len(s))

\* The first "limit" events with a number greater than "after".  The mutant
\* takes the first ones of the ring and drops the old ones from them.
AtMost(n, s) == SubSeq(s, 1, IF Len(s) < n THEN Len(s) ELSE n)

Bug_Batch(after, limit) == Newer(after, AtMost(limit, events))
Batch(after, limit) == AtMost(limit, Newer(after, events))
=============================================================================
