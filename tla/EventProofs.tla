------------------------------ MODULE EventProofs ------------------------------
(***************************************************************************)
(* Theorems about the event broker and the client that polls it: for any   *)
(* ring, any limit of a poll, any runs and types of events, and any number *)
(* of events and restarts.                                                 *)
(***************************************************************************)
EXTENDS EventPolling, SequenceTheorems, WellFoundedInduction, TLAPS

-----------------------------------------------------------------------------
(* The greatest number of a bounded set.                                   *)

LEMMA LeastNumber ==
    ASSUME NEW T, T \subseteq Nat, T # {}
    PROVE  \E m \in T : \A k \in T : m <= k
<1>1. PICK m \in T : \A k \in T : ~ (<<k, m>> \in OpToRel(<, Nat))
  BY WFMin, NatLessThanWellFounded
<1>2. \A k \in T : ~ (k < m) BY <1>1 DEF OpToRel
<1>3. QED BY <1>2

LEMMA GreatestNumber ==
    ASSUME NEW n \in Nat, NEW T, T \subseteq 1 .. n, T # {}
    PROVE  Max(T) \in T /\ \A k \in T : k <= Max(T)
<1> DEFINE U == {n - k : k \in T}
<1>1. PICK m \in U : \A u \in U : m <= u
  <2>1. U # {} OBVIOUS
  <2>2. \A k \in T : n - k \in Nat OBVIOUS
  <2>3. U \subseteq Nat BY <2>2
  <2> HIDE DEF U
  <2>4. QED BY <2>1, <2>3, LeastNumber
<1>2. PICK x \in T : m = n - x OBVIOUS
<1>3. \A k \in T : k <= x BY <1>1, <1>2
<1>4. QED BY <1>3 DEF Max

-----------------------------------------------------------------------------
(* The ring.                                                               *)

\* The number of the event at a place is known, so that of the first one is.
LEMMA Numbers ==
    ASSUME PollingTypeOK
    PROVE  /\ Len(events) \in Nat /\ DOMAIN events = 1 .. Len(events)
           /\ nextSequence \in Nat \ {0} /\ Len(events) < nextSequence
           /\ Oldest = nextSequence - Len(events)
           /\ \A i \in 1 .. Len(events) :
                 /\ events[i] \in Event
                 /\ events[i].sequence = nextSequence - Len(events) - 1 + i
<1>1. /\ Len(events) \in Nat /\ DOMAIN events = 1 .. Len(events)
      /\ \A i \in 1 .. Len(events) : events[i] \in Event
  BY LenProperties DEF PollingTypeOK, BrokerTypeOK
<1>2. Oldest = nextSequence - Len(events)
  <2>1. CASE events = <<>> BY <2>1 DEF Oldest, PollingTypeOK, BrokerTypeOK
  <2>2. CASE events # <<>>
    <3>1. 1 \in DOMAIN events BY <1>1, <2>2, EmptySeq DEF PollingTypeOK, BrokerTypeOK
    <3>2. QED BY <1>1, <2>2, <3>1 DEF Oldest, PollingTypeOK, BrokerTypeOK
  <2>3. QED BY <2>1, <2>2
<1>3. QED BY <1>1, <1>2 DEF PollingTypeOK, BrokerTypeOK

\* What a full ring drops is its oldest event, and the others keep their order.
LEMMA AppendedIs ==
    ASSUME PollingTypeOK, NEW e \in Event
    PROVE  \E dropped \in {0, 1} :
              /\ dropped = 1 <=> Len(events) = MaximumEvents
              /\ Appended(events, e) \in Seq(Event)
              /\ Len(Appended(events, e)) = Len(events) + 1 - dropped
              /\ \A i \in 1 .. Len(events) - dropped :
                    Appended(events, e)[i] = events[i + dropped]
              /\ Appended(events, e)[Len(events) + 1 - dropped] = e
<1>1. events \in Seq(Event) /\ Len(events) \in Nat /\ Len(events) <= MaximumEvents
  BY LenProperties DEF PollingTypeOK, BrokerTypeOK
<1>2. CASE Len(events) < MaximumEvents
  <2>1. Appended(events, e) = Append(events, e) BY <1>2 DEF Appended
  <2>2. /\ Append(events, e) \in Seq(Event)
        /\ Len(Append(events, e)) = Len(events) + 1
        /\ \A i \in 1 .. Len(events) : Append(events, e)[i] = events[i]
        /\ Append(events, e)[Len(events) + 1] = e
    BY <1>1, AppendProperties
  <2>3. QED BY <1>1, <1>2, <2>1, <2>2, BrokerAssumption
<1>3. CASE Len(events) = MaximumEvents
  <2>1. events # <<>> BY <1>1, <1>3, BrokerAssumption, EmptySeq
  <2>2. Appended(events, e) = Append(Tail(events), e) BY <1>3, BrokerAssumption DEF Appended
  <2>3. /\ Tail(events) \in Seq(Event) /\ Len(Tail(events)) = Len(events) - 1
        /\ \A i \in 1 .. Len(Tail(events)) : Tail(events)[i] = events[i + 1]
    BY <1>1, <2>1, HeadTailProperties
  <2>4. /\ Append(Tail(events), e) \in Seq(Event)
        /\ Len(Append(Tail(events), e)) = Len(Tail(events)) + 1
        /\ \A i \in 1 .. Len(Tail(events)) : Append(Tail(events), e)[i] = Tail(events)[i]
        /\ Append(Tail(events), e)[Len(Tail(events)) + 1] = e
    BY <2>3, AppendProperties
  <2>5. QED BY <1>1, <1>3, <2>2, <2>3, <2>4
<1>4. QED BY <1>1, <1>2, <1>3, BrokerAssumption

\* What a poll returns: with the first "skip" events of the ring read, a run of
\* events from the next one on, none only if nothing is left.
ReadsFrom(skip, batch) ==
    /\ skip \in 0 .. Len(events)
    /\ \A i \in 1 .. Len(events) : events[i].sequence <= cursor <=> i <= skip
    /\ batch \in Seq(Event)
    /\ Len(batch) \in 0 .. Len(events) - skip
    /\ Len(batch) = 0 => skip = Len(events)
    /\ \A i \in 1 .. Len(batch) : batch[i] = events[skip + i]

LEMMA AtMostIs ==
    ASSUME NEW S, NEW s \in Seq(S), NEW n \in Nat \ {0}
    PROVE  /\ AtMost(n, s) \in Seq(S)
           /\ Len(AtMost(n, s)) \in 0 .. Len(s)
           /\ Len(AtMost(n, s)) = 0 => Len(s) = 0
           /\ \A i \in 1 .. Len(AtMost(n, s)) : AtMost(n, s)[i] = s[i]
<1>1. Len(s) \in Nat /\ \A i \in 1 .. Len(s) : s[i] \in S BY LenProperties
<1>2. PICK m \in 0 .. Len(s) : /\ m = IF Len(s) < n THEN Len(s) ELSE n
                               /\ m = 0 => Len(s) = 0
  BY <1>1
<1>3. AtMost(n, s) = SubSeq(s, 1, m) BY <1>2 DEF AtMost
<1>4. \A i \in 1 .. m : s[i] \in S BY <1>1, <1>2
<1>5. /\ SubSeq(s, 1, m) \in Seq(S) /\ Len(SubSeq(s, 1, m)) = m
      /\ \A i \in 1 .. m : SubSeq(s, 1, m)[i] = s[i]
  BY <1>2, <1>4, SubSeqProperties
<1>6. QED BY <1>2, <1>3, <1>5

LEMMA BatchIs ==
    ASSUME PollingTypeOK
    PROVE  \E skip : ReadsFrom(skip, Batch(cursor, Limit))
<1> DEFINE read == {i \in DOMAIN events : events[i].sequence <= cursor}
           newer == Newer(cursor, events)
<1>1. PICK first \in Nat : first = nextSequence - Len(events) /\ first >= 1
  BY Numbers
<1>2. Len(events) \in Nat /\ cursor \in Nat BY Numbers DEF PollingTypeOK
<1>3. PICK skip \in 0 .. Len(events) :
         \A i \in 1 .. Len(events) : first - 1 + i <= cursor <=> i <= skip
  <2>1. CASE cursor < first
    <3>1. \A i \in 1 .. Len(events) : first - 1 + i <= cursor <=> i <= 0
      BY <1>1, <1>2, <2>1
    <3>2. QED BY <1>2, <3>1
  <2>2. CASE cursor >= first + Len(events)
    <3>1. \A i \in 1 .. Len(events) : first - 1 + i <= cursor <=> i <= Len(events)
      BY <1>1, <1>2, <2>2
    <3>2. QED BY <1>2, <3>1
  <2>3. CASE first <= cursor /\ cursor < first + Len(events)
    <3>1. PICK k \in 0 .. Len(events) : k = cursor - first + 1 BY <1>1, <1>2, <2>3
    <3>2. \A i \in 1 .. Len(events) : first - 1 + i <= cursor <=> i <= k
      BY <1>1, <1>2, <3>1
    <3>3. QED BY <3>2
  <2>4. cursor < first \/ cursor >= first + Len(events)
        \/ (first <= cursor /\ cursor < first + Len(events))
    BY <1>1, <1>2
  <2>5. QED BY <2>1, <2>2, <2>3, <2>4
<1>4. \A i \in 1 .. Len(events) : events[i].sequence <= cursor <=> i <= skip
  BY <1>1, <1>3, Numbers
<1>5. newer \in Seq(Event) /\ Len(newer) = Len(events) - skip
      /\ \A i \in 1 .. Len(newer) : newer[i] = events[skip + i]
  <2>1. read = 1 .. skip BY <1>2, <1>3, <1>4, Numbers
  <2>2. CASE skip = 0
    <3>1. newer = events BY <2>1, <2>2 DEF Newer
    <3>2. QED BY <1>2, <2>2, <3>1 DEF PollingTypeOK, BrokerTypeOK
  <2>3. CASE skip > 0
    <3>1. skip \in 1 .. skip BY <1>3, <2>3
    <3>2. Max(1 .. skip) = skip
      <4>1. Max(1 .. skip) \in 1 .. skip /\ \A k \in 1 .. skip : k <= Max(1 .. skip)
        <5>1. skip \in Nat /\ 1 .. skip \subseteq 1 .. skip /\ 1 .. skip # {}
          BY <1>3, <3>1
        <5>2. QED BY <5>1, GreatestNumber
      <4>2. QED BY <1>3, <3>1, <4>1
    <3>3. newer = SubSeq(events, skip + 1, Len(events)) BY <2>1, <3>1, <3>2 DEF Newer
    <3>4. \A i \in skip + 1 .. Len(events) : events[i] \in Event BY <1>2, <1>3, Numbers
    <3>5. QED BY <1>2, <1>3, <3>3, <3>4, SubSeqProperties
  <2>4. QED BY <1>3, <2>2, <2>3
<1> HIDE DEF newer
<1>6. Batch(cursor, Limit) = AtMost(Limit, newer) BY DEF Batch, newer
<1>7. /\ AtMost(Limit, newer) \in Seq(Event)
      /\ Len(AtMost(Limit, newer)) \in 0 .. Len(newer)
      /\ Len(AtMost(Limit, newer)) = 0 => Len(newer) = 0
      /\ \A i \in 1 .. Len(AtMost(Limit, newer)) : AtMost(Limit, newer)[i] = newer[i]
  BY <1>5, AtMostIs, PollingAssumption
<1>8. ReadsFrom(skip, Batch(cursor, Limit))
  BY <1>2, <1>3, <1>4, <1>5, <1>6, <1>7 DEF ReadsFrom
<1>9. QED BY <1>8
-----------------------------------------------------------------------------
(* What a client that follows the stream knows.                            *)

\* The place in the ring of the last event of a run ...
LastOfRun(i) ==
    \A j \in 1 .. Len(events) : events[j].topic = events[i].topic => j <= i

\* ... has the type that was told last of that run.
LastIsTold ==
    \A i \in 1 .. Len(events) :
        LastOfRun(i) => told[events[i].topic] = events[i].type

\* A run of which something was told is in the ring, until the ring has
\* dropped its first event.
ToldIsThere ==
    \A t \in Topics :
        told[t] # Nothing => \/ Oldest > 1
                             \/ \E i \in 1 .. Len(events) : events[i].topic = t

Unread(t) ==
    \E i \in 1 .. Len(events) : events[i].topic = t /\ events[i].sequence > cursor

Missed == GapAfter(cursor)

RestUnread ==
    \A t \in Topics : told[t] # Nothing => Unread(t) \/ known[t] = told[t]

\* What the client does not know of a run is still to be read, or lies before
\* a gap that its next poll will be told of.
Followed ==
    following =>
        /\ cursor >= 1 /\ cursor < nextSequence
        /\ Missed \/ RestUnread

EventInv ==
    /\ PollingTypeOK
    /\ told \in [Topics -> EventTypes \cup {Nothing}]
    /\ LastIsTold
    /\ ToldIsThere
    /\ Followed

LEMMA EventInit == PollingInit => EventInv
<1> SUFFICES ASSUME PollingInit PROVE EventInv
  OBVIOUS
<1>1. /\ events = <<>> /\ Len(events) = 0 /\ nextSequence = 1 /\ events \in Seq(Event)
      /\ DOMAIN events = {}
  BY EmptySeq DEF PollingInit, EmptyBroker
<1>2. PollingTypeOK BY <1>1, BrokerAssumption DEF PollingInit, PollingTypeOK, BrokerTypeOK
<1>3. QED
  BY <1>1, <1>2 DEF PollingInit, EventInv, LastIsTold, ToldIsThere, Followed

\* A new event is the last of its run.  The one that is dropped for it was
\* either read, or is the first one missing before a gap.
LEMMA PublishStep == EventInv /\ PublishEvent => EventInv'
<1> SUFFICES ASSUME EventInv, PublishEvent PROVE EventInv'
  OBVIOUS
<1> DEFINE L == Len(events)
           n == nextSequence
<1>1. PICK type \in EventTypes, topic \in Topics :
        /\ Publish(type, topic)
        /\ told' = [told EXCEPT ![topic] = type]
        /\ UNCHANGED <<cursor, known, following>>
  BY DEF PublishEvent, client
<1>2. PollingTypeOK BY DEF EventInv
<1>3. /\ L \in Nat /\ n \in Nat \ {0} /\ L < n /\ L <= MaximumEvents
      /\ Oldest = n - L /\ DOMAIN events = 1 .. L
      /\ \A i \in 1 .. L : events[i] \in Event /\ events[i].sequence = n - L - 1 + i
  BY <1>2, Numbers DEF PollingTypeOK
<1>4. PICK e \in Event : e = [sequence |-> n, type |-> type, topic |-> topic]
  BY <1>3 DEF Event
<1>5. events' = Appended(events, e) /\ n' = n + 1 BY <1>1, <1>4 DEF Publish
<1>6. PICK d \in {0, 1} :
        /\ d = 1 <=> L = MaximumEvents
        /\ events' \in Seq(Event)
        /\ L' = L + 1 - d
        /\ \A i \in 1 .. L - d : events'[i] = events[i + d]
        /\ events'[L + 1 - d] = e
  BY <1>2, <1>5, AppendedIs
<1> HIDE DEF L
<1>7. ASSUME NEW i \in 1 .. L'
      PROVE  \/ i = L' /\ events'[i] = e
             \/ i + d \in 1 .. L /\ i \in 1 .. L - d /\ events'[i] = events[i + d]
  BY <1>3, <1>6
<1>8. L' \in 1 .. L' /\ L' \in Nat /\ events'[L'] = e
  BY <1>3, <1>6, BrokerAssumption
<1>9. ASSUME NEW i \in 1 .. L' PROVE events'[i].sequence = n' - L' - 1 + i
  <2>1. CASE i = L' BY <1>3, <1>4, <1>5, <1>8, <2>1
  <2>2. CASE i # L'
    <3>1. i + d \in 1 .. L /\ events'[i] = events[i + d] BY <1>7, <2>2
    <3>2. events'[i].sequence = n - L - 1 + (i + d) BY <1>3, <3>1
    <3>3. n' = n + 1 /\ L' = L + 1 - d BY <1>5, <1>6
    <3>4. n - L - 1 + (i + d) = n' - L' - 1 + i BY <1>3, <3>3
    <3>5. QED BY <3>1, <3>2, <3>4
  <2>3. QED BY <2>1, <2>2
<1>10. PollingTypeOK'
  <2>1. \A i \in 1 .. L' : events'[i].sequence = n' - L' - 1 + i BY <1>9
  <2>2. DOMAIN events' = 1 .. L' BY <1>6, LenProperties DEF L
  <2>3. L' <= MaximumEvents /\ L' < n' BY <1>3, <1>5, <1>6, BrokerAssumption
  <2>4. n' \in Nat \ {0} BY <1>3, <1>5
  <2>5. QED BY <1>1, <1>2, <1>6, <2>1, <2>2, <2>3, <2>4 DEF PollingTypeOK, BrokerTypeOK, L
<1>11. (told \in [Topics -> EventTypes \cup {Nothing}])' BY <1>1 DEF EventInv
<1>12. /\ told'[topic] = type
       /\ \A t \in Topics \ {topic} : told'[t] = told[t]
  BY <1>1 DEF EventInv
<1>13. Oldest' = Oldest + d /\ Oldest >= 1
  <2>1. events' # <<>> BY <1>6, <1>8, EmptySeq DEF L
  <2>2. 1 \in 1 .. L' BY <1>8
  <2>3. events'[1].sequence = n' - L' - 1 + 1 BY <1>9, <2>2
  <2>4. Oldest' = n' - L' BY <1>3, <1>5, <1>8, <2>1, <2>3 DEF Oldest
  <2>5. n' = n + 1 /\ L' = L + 1 - d /\ d \in {0, 1} BY <1>5, <1>6
  <2>6. QED BY <1>3, <2>4, <2>5
<1>14. ASSUME NEW i \in 1 .. L, i > d
       PROVE  i - d \in 1 .. L' /\ events'[i - d] = events[i]
  <2>1. PICK k \in 1 .. L - d : k = i - d BY <1>3, <1>6, <1>14
  <2>2. k + d = i /\ k \in 1 .. L' BY <1>3, <1>6, <2>1
  <2>3. events'[k] = events[k + d] BY <1>6, <2>1
  <2>4. QED BY <2>1, <2>2, <2>3
<1>15. LastIsTold'
  <2> SUFFICES ASSUME NEW i \in 1 .. L',
                      \A j \in 1 .. L' : events'[j].topic = events'[i].topic => j <= i
               PROVE  told'[events'[i].topic] = events'[i].type
    BY DEF LastIsTold, LastOfRun, L
  <2>1. CASE i = L' BY <1>4, <1>6, <1>12, <2>1
  <2>2. CASE i # L'
    <3>1. i + d \in 1 .. L /\ events'[i] = events[i + d] BY <1>7, <2>2
    <3>2. events'[i].topic # topic
      <4>1. L' \in 1 .. L' /\ i < L' BY <1>3, <1>6, <2>2
      <4>2. events'[L'].topic = topic BY <1>4, <1>6
      <4>3. QED BY <4>1, <4>2
    <3>3. ASSUME NEW j \in 1 .. L, events[j].topic = events[i + d].topic PROVE j <= i + d
      <4>1. CASE j <= d BY <4>1
      <4>2. CASE j > d
        <5>1. j - d \in 1 .. L' /\ events'[j - d] = events[j] BY <1>14, <4>2
        <5>2. j - d <= i BY <3>1, <3>3, <5>1
        <5>3. QED BY <5>2
      <4>3. QED BY <4>1, <4>2
    <3>4. told[events[i + d].topic] = events[i + d].type
      BY <3>1, <3>3 DEF EventInv, LastIsTold, LastOfRun, L
    <3>5. events[i + d].topic \in Topics BY <1>3, <3>1 DEF Event
    <3>6. QED BY <1>12, <3>1, <3>2, <3>4, <3>5
  <2>3. QED BY <2>1, <2>2
<1>16. ToldIsThere'
  <2> SUFFICES ASSUME NEW t \in Topics, told'[t] # Nothing, ~(Oldest' > 1)
               PROVE  \E i \in 1 .. L' : events'[i].topic = t
    BY DEF ToldIsThere, L
  <2>1. CASE t = topic BY <1>4, <1>8, <2>1
  <2>2. CASE t # topic
    <3>1. Oldest = 1 /\ d = 0 BY <1>3, <1>13
    <3>2. PICK i \in 1 .. L : events[i].topic = t
      BY <1>12, <2>2, <3>1 DEF EventInv, ToldIsThere, L
    <3>3. QED BY <1>14, <3>1, <3>2
  <2>3. QED BY <2>1, <2>2
<1>17. Followed'
  <2> SUFFICES ASSUME following'
               PROVE  cursor' >= 1 /\ cursor' < nextSequence' /\ (Missed' \/ RestUnread')
    BY DEF Followed
  <2>1. cursor >= 1 /\ cursor < n /\ cursor \in Nat
    BY <1>1, <1>2 DEF EventInv, Followed, PollingTypeOK
  <2>2. CASE cursor < Oldest + d - 1
    BY <1>1, <1>3, <1>5, <1>13, <2>1, <2>2 DEF Missed, GapAfter
  <2>3. CASE ~(cursor < Oldest + d - 1)
    <3>1. ~Missed BY <1>3, <2>1, <2>3 DEF Missed, GapAfter
    <3>2. RestUnread'
      <4> SUFFICES ASSUME NEW t \in Topics, told'[t] # Nothing
                   PROVE  \/ \E i \in 1 .. L' : events'[i].topic = t /\ events'[i].sequence > cursor
                          \/ known[t] = told'[t]
        BY <1>1 DEF RestUnread, Unread, L
      <4>1. CASE t = topic
        <5>1. e.topic = t /\ e.sequence > cursor BY <1>3, <1>4, <2>1, <4>1
        <5>2. QED BY <1>8, <5>1
      <4>2. CASE t # topic
        <5>1. Unread(t) \/ known[t] = told[t]
          BY <1>1, <1>12, <3>1, <4>2 DEF EventInv, Followed, RestUnread
        <5>2. ASSUME NEW i \in 1 .. L, events[i].topic = t, events[i].sequence > cursor
              PROVE  \E j \in 1 .. L' : events'[j].topic = t /\ events'[j].sequence > cursor
          <6>1. i > d BY <1>3, <2>1, <2>3, <5>2
          <6>2. QED BY <1>14, <5>2, <6>1
        <5>3. QED BY <1>12, <4>2, <5>1, <5>2 DEF Unread, L
      <4>3. QED BY <4>1, <4>2
    <3>3. QED BY <1>1, <1>3, <1>5, <2>1, <3>2
  <2>4. QED BY <2>2, <2>3
<1>18. QED BY <1>10, <1>11, <1>15, <1>16, <1>17 DEF EventInv

\* A poll that reports a gap is followed by a look at the durable state; of a
\* run in another batch either the last event is in it, or one is left unread.
LEMMA PollStep == EventInv /\ Poll => EventInv'
<1> SUFFICES ASSUME EventInv, Poll PROVE EventInv'
  OBVIOUS
<1> DEFINE L == Len(events)
           n == nextSequence
<1>1. PICK batch : batch = Batch(cursor, Limit) OBVIOUS
<1>2. /\ batch # <<>>
      /\ cursor' = batch[Len(batch)].sequence
      /\ known' = IF GapAfter(cursor) THEN Refreshed ELSE Learned(batch)
      /\ following' = (following \/ (cursor = 0 /\ Oldest = 1))
      /\ UNCHANGED <<events, nextSequence, told>>
  BY <1>1 DEF Poll, brokerVars
<1>3. PollingTypeOK BY DEF EventInv
<1>4. /\ L \in Nat /\ n \in Nat \ {0} /\ L < n /\ cursor \in Nat
      /\ Oldest = n - L /\ DOMAIN events = 1 .. L
      /\ \A i \in 1 .. L : events[i] \in Event /\ events[i].sequence = n - L - 1 + i
  BY <1>3, Numbers DEF PollingTypeOK
<1>5. PICK skip : ReadsFrom(skip, batch) BY <1>1, <1>3, BatchIs
<1>6. PICK m \in Nat \ {0} : m = Len(batch)
  BY <1>2, <1>5, LenProperties, EmptySeq DEF ReadsFrom
<1>7. /\ skip \in Nat /\ skip + m <= L
      /\ DOMAIN batch = 1 .. m
      /\ \A i \in 1 .. L : events[i].sequence <= cursor <=> i <= skip
      /\ \A i \in 1 .. m : batch[i] = events[skip + i]
  <2>1. DOMAIN batch = 1 .. m BY <1>5, <1>6, LenProperties DEF ReadsFrom
  <2>2. skip \in Nat /\ skip + m <= L
    <3>1. skip \in 0 .. L /\ m \in 0 .. L - skip BY <1>5, <1>6 DEF ReadsFrom
    <3>2. QED BY <1>4, <1>6, <3>1
  <2>3. QED BY <1>5, <1>6, <2>1, <2>2 DEF ReadsFrom
<1>8. /\ cursor' = n - L - 1 + skip + m
      /\ cursor' \in Nat /\ cursor' >= 1 /\ cursor' < n
  <2>1. cursor' = events[skip + m].sequence /\ skip + m \in 1 .. L
    BY <1>2, <1>4, <1>6, <1>7
  <2>2. QED BY <1>4, <1>6, <1>7, <2>1
<1>9. ASSUME NEW t \in Topics
      PROVE  LET news == {i \in 1 .. m : batch[i].topic = t}
             IN  news # {} => /\ Max(news) \in news
                              /\ \A i \in news : i <= Max(news)
  BY <1>6, GreatestNumber
<1>10. Learned(batch) = [t \in Topics |->
          LET news == {i \in 1 .. m : batch[i].topic = t}
          IN  IF news = {} THEN known[t] ELSE batch[Max(news)].type]
  BY <1>7 DEF Learned
<1>11. known' \in [Topics -> EventTypes \cup {Nothing}]
  <2>1. Refreshed \in [Topics -> EventTypes \cup {Nothing}]
    BY DEF Refreshed, EventInv, PollingTypeOK
  <2>2. ASSUME NEW i \in 1 .. m PROVE batch[i].type \in EventTypes
    <3>1. skip + i \in 1 .. L BY <1>4, <1>6, <1>7
    <3>2. batch[i] \in Event BY <1>4, <1>7, <3>1
    <3>3. QED BY <3>2 DEF Event
  <2>3. Learned(batch) \in [Topics -> EventTypes \cup {Nothing}]
    <3> SUFFICES ASSUME NEW t \in Topics
                 PROVE  LET news == {i \in 1 .. m : batch[i].topic = t}
                        IN  news # {} => batch[Max(news)].type \in EventTypes
      BY <1>10 DEF EventInv, PollingTypeOK
    <3>1. QED BY <1>9, <2>2
  <2>4. QED BY <1>2, <2>1, <2>3
<1>12. PollingTypeOK' BY <1>2, <1>3, <1>8, <1>11 DEF PollingTypeOK, BrokerTypeOK
<1>13. (told \in [Topics -> EventTypes \cup {Nothing}])' BY <1>2 DEF EventInv
<1>14. LastIsTold' BY <1>2 DEF EventInv, LastIsTold, LastOfRun
<1>15. Oldest' = Oldest BY <1>2 DEF Oldest
<1>16. ToldIsThere' BY <1>2, <1>15 DEF EventInv, ToldIsThere
<1>17. ASSUME following' PROVE RestUnread'
  <2> SUFFICES ASSUME NEW t \in Topics, told[t] # Nothing,
                      ~ \E i \in 1 .. L : events[i].topic = t /\ events[i].sequence > cursor'
               PROVE  known'[t] = told[t]
    BY <1>2 DEF RestUnread, Unread
  <2>1. CASE GapAfter(cursor) BY <1>2, <2>1 DEF Refreshed
  <2>2. CASE ~GapAfter(cursor)
    <3> DEFINE news == {i \in 1 .. m : batch[i].topic = t}
    <3>1. known'[t] = IF news = {} THEN known[t] ELSE batch[Max(news)].type
      BY <1>2, <1>10, <2>2
    <3>2. ASSUME NEW i \in 1 .. L, events[i].topic = t
          PROVE  i <= skip \/ (i - skip \in news /\ events[i] = batch[i - skip])
      <4>1. ~(i > skip + m) BY <1>4, <1>7, <1>8, <3>2
      <4>2. CASE i > skip
        <5>1. i - skip \in 1 .. m /\ skip + (i - skip) = i BY <1>7, <4>1, <4>2
        <5>2. QED BY <1>7, <3>2, <5>1
      <4>3. QED BY <1>7, <4>2
    <3>3. CASE news = {}
      <4>1. ~Unread(t)
        <5>1. ASSUME NEW i \in 1 .. L, events[i].topic = t PROVE events[i].sequence <= cursor
          BY <1>7, <3>2, <3>3, <5>1
        <5>2. QED BY <1>4, <5>1 DEF Unread
      <4>2. CASE following
        BY <2>2, <3>1, <3>3, <4>1, <4>2 DEF EventInv, Followed, Missed, RestUnread
      <4>3. CASE ~following
        <5>1. cursor = 0 /\ Oldest = 1 BY <1>2, <1>17, <4>3
        <5>2. PICK i \in 1 .. L : events[i].topic = t
          BY <5>1 DEF EventInv, ToldIsThere
        <5>3. events[i].sequence > cursor BY <1>4, <5>1
        <5>4. QED BY <4>1, <5>2, <5>3 DEF Unread
      <4>4. QED BY <4>2, <4>3
    <3>4. CASE news # {}
      <4>1. PICK k : k = Max(news) OBVIOUS
      <4>2. k \in news /\ \A i \in news : i <= k BY <1>9, <3>4, <4>1
      <4>3. k \in 1 .. m /\ skip + k \in 1 .. L /\ events[skip + k] = batch[k]
            /\ events[skip + k].topic = t
        BY <1>4, <1>7, <4>2
      <4>4. ASSUME NEW j \in 1 .. L, events[j].topic = t PROVE j <= skip + k
        <5>1. CASE j <= skip BY <1>7, <4>3, <5>1
        <5>2. CASE j - skip \in news
          <6>1. j - skip <= k BY <4>2, <5>2
          <6>2. QED BY <1>7, <4>3, <6>1
        <5>3. QED BY <3>2, <4>4, <5>1, <5>2
      <4>5. told[t] = events[skip + k].type
        BY <4>3, <4>4 DEF EventInv, LastIsTold, LastOfRun
      <4>6. QED BY <3>1, <3>4, <4>1, <4>3, <4>5
    <3>5. QED BY <3>3, <3>4
  <2>3. QED BY <2>1, <2>2
<1>18. Followed' BY <1>2, <1>8, <1>17 DEF Followed
<1>19. QED BY <1>12, <1>13, <1>14, <1>16, <1>18 DEF EventInv

\* A new process starts from an empty ring, and nobody has followed it yet.
LEMMA RestartStep == EventInv /\ Restart => EventInv'
<1> SUFFICES ASSUME EventInv, Restart PROVE EventInv'
  OBVIOUS
<1>1. /\ events' = <<>> /\ Len(events') = 0 /\ nextSequence' = 1 /\ events' \in Seq(Event)
      /\ DOMAIN events' = {}
  BY EmptySeq DEF Restart, NewBroker
<1>2. PollingTypeOK'
  BY <1>1, BrokerAssumption DEF Restart, EventInv, PollingTypeOK, BrokerTypeOK
<1>3. QED
  BY <1>1, <1>2 DEF Restart, EventInv, LastIsTold, ToldIsThere, Followed

LEMMA EventStep == EventInv /\ [PollingNext]_pollingVars => EventInv'
<1> SUFFICES ASSUME EventInv, [PollingNext]_pollingVars PROVE EventInv'
  OBVIOUS
<1>1. CASE UNCHANGED pollingVars
  <2>1. UNCHANGED <<events, nextSequence, cursor, known, following, told>>
    BY <1>1 DEF pollingVars, brokerVars, client
  <2>2. PollingTypeOK' BY <2>1 DEF EventInv, PollingTypeOK, BrokerTypeOK
  <2>3. LastIsTold' /\ ToldIsThere'
    BY <2>1 DEF EventInv, LastIsTold, LastOfRun, ToldIsThere, Oldest
  <2>4. (Missed' <=> Missed) /\ (RestUnread' <=> RestUnread)
    BY <2>1 DEF Missed, GapAfter, Oldest, RestUnread, Unread
  <2>5. QED BY <2>1, <2>2, <2>3, <2>4 DEF EventInv, Followed
<1>2. QED BY <1>1, PublishStep, PollStep, RestartStep DEF PollingNext, Quiet

\* The ring holds the last events in order and without holes, and never more
\* than maximum_events of them.
THEOREM RingIsContiguous == PollingSpec => []PollingTypeOK
<1>1. EventInv => PollingTypeOK BY DEF EventInv
<1>2. QED BY <1>1, EventInit, EventStep, PTL DEF PollingSpec

\* A client that has followed a process from its first event, and has read all
\* there is, knows the last event of every run.
THEOREM GapsAreReported == PollingSpec => []Informed
<1>1. ASSUME EventInv PROVE Informed
  <2> SUFFICES ASSUME following, cursor + 1 = nextSequence, NEW t \in Topics,
                      told[t] # Nothing
               PROVE  known[t] = told[t]
    BY DEF Informed
  <2>1. PollingTypeOK BY <1>1 DEF EventInv
  <2>2. ~Missed BY <2>1, Numbers DEF Missed, GapAfter, PollingTypeOK
  <2>3. ~Unread(t) BY <2>1, Numbers DEF Unread, PollingTypeOK
  <2>4. QED BY <1>1, <2>2, <2>3 DEF EventInv, Followed, RestUnread
<1>2. QED BY <1>1, EventInit, EventStep, PTL DEF PollingSpec
=============================================================================
