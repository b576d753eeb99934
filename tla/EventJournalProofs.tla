------------------------- MODULE EventJournalProofs -------------------------
(***************************************************************************)
(* What the event journal guarantees, for every capacity, batch limit and  *)
(* set of facts: it stays the suffix of its stream, and a replay answers   *)
(* with exactly the envelopes that follow the cursor it was asked about.   *)
(***************************************************************************)
EXTENDS EventJournal, TLAPS

\* Streams nobody has started yet are empty.
FutureStreamsEmpty == \A s \in Streams : s > stream => log[s] = <<>>

\* The journal's inductive invariant.
JournalInv ==
    /\ JournalTypeOK
    /\ JournalIsSuffix
    /\ SnapshotIsConsistent
    /\ FutureStreamsEmpty

-----------------------------------------------------------------------------

\* A new runtime's journal satisfies the invariant.
LEMMA JournalInitInv == JournalInit => JournalInv
  BY BoundsAssumption, CapacityAssumption
  DEF JournalInit, JournalInv, JournalTypeOK, JournalIsSuffix,
      SnapshotIsConsistent, FutureStreamsEmpty, Streams, Evicted,
      CurrentCursor, Cursor, Envelopes

\* While the invariant holds the next envelope is numbered after the last
\* recorded fact.
LEMMA NextEnvelopeIs ==
    ASSUME JournalInv, NEW f \in Facts
    PROVE  /\ NextEnvelope(f) = Envelope(stream, Len(log[stream]) + 1, f)
           /\ NextEnvelope(f) \in Envelopes
  <1>1. NextEnvelope(f) = Envelope(stream, Len(log[stream]) + 1, f)
    BY DEF JournalInv, SnapshotIsConsistent, NextEnvelope, Cursor
  <1>2. stream \in Streams /\ Len(log[stream]) \in Nat
    BY DEF JournalInv, JournalTypeOK
  <1> QED BY <1>1, <1>2 DEF Envelope, Envelopes

\* Recording an event keeps the journal the suffix of its stream.
LEMMA RecordInv ==
    ASSUME JournalInv, NEW f \in Facts, Record(f)
    PROVE  JournalInv'
  <1> DEFINE e == NextEnvelope(f)
             size == Len(log[stream])
             kept == IF Len(events) = Capacity THEN Tail(events) ELSE events
  <1>1. e = Envelope(stream, size + 1, f) /\ e \in Envelopes
    BY NextEnvelopeIs
  <1>2. /\ stream \in Streams /\ stream' = stream
        /\ log \in [Streams -> Seq(Facts)]
        /\ events \in Seq(Envelopes)
        /\ live = log[stream]
        /\ size \in Nat /\ Len(events) \in Nat /\ Capacity \in Nat \ {0}
    BY CapacityAssumption
    DEF JournalInv, JournalTypeOK, SnapshotIsConsistent, Record
  <1>3. /\ log' = [log EXCEPT ![stream] = Append(@, f)]
        /\ log'[stream] = Append(log[stream], f)
        /\ log'[stream] \in Seq(Facts)
        /\ Len(log'[stream]) = size + 1
        /\ \A i \in 1..size : log'[stream][i] = log[stream][i]
        /\ log'[stream][size + 1] = f
        /\ log' \in [Streams -> Seq(Facts)]
    BY <1>2 DEF Record
  <1>4. /\ kept \in Seq(Envelopes)
        /\ Len(kept) = IF Len(events) = Capacity THEN Len(events) - 1
                                                 ELSE Len(events)
        /\ \A i \in 1..Len(kept) :
              kept[i] = IF Len(events) = Capacity THEN events[i + 1]
                                                  ELSE events[i]
    BY <1>2
  <1>5. /\ events' = Append(kept, e)
        /\ events' \in Seq(Envelopes)
        /\ Len(events') = Len(kept) + 1
        /\ \A i \in 1..Len(kept) : events'[i] = kept[i]
        /\ events'[Len(kept) + 1] = e
    BY <1>1, <1>4 DEF Record, Retain
  <1>a. /\ Len(kept) \in Nat
        /\ Len(events') = Len(kept) + 1
        /\ Len(kept) = IF Len(events) = Capacity THEN Len(events) - 1
                                                 ELSE Len(events)
    BY <1>4, <1>5
  <1>b. /\ size \in Nat /\ Len(kept) \in Nat /\ Len(events) \in Nat
        /\ Len(events') = Len(kept) + 1
        /\ Len(events) = Capacity => Len(kept) = Len(events) - 1
        /\ Len(events) # Capacity => Len(kept) = Len(events)
    BY <1>2, <1>a
  <1> HIDE DEF e, size, kept
  <1>6. JournalTypeOK'
    BY <1>2, <1>3, <1>5 DEF JournalTypeOK, Record
  <1>7. JournalIsSuffix'
    <2>1. /\ Len(events) <= Capacity
          /\ Len(events) <= size
          /\ size > Len(events) => Len(events) = Capacity
          /\ \A i \in 1..Len(events) :
                events[i] = Envelope(stream, size - Len(events) + i,
                                     log[stream][size - Len(events) + i])
      BY <1>2 DEF JournalInv, JournalIsSuffix, Evicted, size
    <2>a. Len(events) <= size
      BY <2>1
    <2>2. /\ Len(events') <= Capacity
          /\ Len(events') <= size + 1
          /\ size + 1 > Len(events') => Len(events') = Capacity
      BY <1>2, <1>a, <2>1
    <2>3. ASSUME NEW i \in 1..Len(events'),
                 NEW k \in Int, k = size + 1 - Len(events') + i
          PROVE  events'[i] = Envelope(stream, k, log'[stream][k])
      <3>1. CASE i = Len(kept) + 1
        <4>1. k = size + 1
          BY <1>b, <2>3, <3>1
        <4> QED BY <1>1, <1>3, <1>5, <3>1, <4>1
      <3>2. CASE i <= Len(kept) /\ Len(events) = Capacity
        <4>1. /\ i \in 1..Len(kept) /\ i + 1 \in 1..Len(events)
              /\ size - Len(events) + (i + 1) = k
              /\ k \in 1..size
          BY <1>b, <2>a, <2>3, <3>2
        <4>2. events'[i] = events[i + 1]
          BY <1>4, <1>5, <3>2, <4>1
        <4>3. events[i + 1] = Envelope(stream, k, log[stream][k])
          BY <2>1, <4>1
        <4> QED BY <1>3, <4>1, <4>2, <4>3
      <3>3. CASE i <= Len(kept) /\ Len(events) # Capacity
        <4>1. /\ i \in 1..Len(kept) /\ i \in 1..Len(events)
              /\ size - Len(events) + i = k
              /\ k \in 1..size
          BY <1>b, <2>a, <2>3, <3>3
        <4>2. events'[i] = events[i]
          BY <1>4, <1>5, <3>3, <4>1
        <4>3. events[i] = Envelope(stream, k, log[stream][k])
          BY <2>1, <4>1
        <4> QED BY <1>3, <4>1, <4>2, <4>3
      <3> QED BY <1>a, <3>1, <3>2, <3>3
    <2>4. /\ Evicted' = size + 1 - Len(events')
          /\ Len(log'[stream']) = size + 1 /\ stream' = stream
      BY <1>2, <1>3 DEF Evicted
    <2>5. \A i \in 1..Len(events') :
             events'[i] = Envelope(stream, Evicted' + i,
                                   log'[stream][Evicted' + i])
      <3> TAKE i \in 1..Len(events')
      <3>1. Evicted' + i \in Int /\ Evicted' + i = size + 1 - Len(events') + i
        BY <1>b, <2>4
      <3> QED BY <2>3, <3>1
    <2> QED BY <1>2, <1>3, <1>a, <2>2, <2>4, <2>5 DEF JournalIsSuffix
  <1>8. SnapshotIsConsistent'
    <2>1. live' = log'[stream']
      BY <1>2, <1>3 DEF Record
    <2>2. events' # <<>> /\ events'[Len(events')] = e
      BY <1>2, <1>4, <1>5
    <2>3. CurrentCursor' = Cursor(stream, size + 1)
      BY <1>1, <2>2 DEF CurrentCursor, CursorOf, Cursor, Envelope
    <2> QED BY <1>2, <1>3, <2>1, <2>3 DEF SnapshotIsConsistent, Cursor
  <1>9. FutureStreamsEmpty'
    BY <1>2, <1>3 DEF FutureStreamsEmpty, JournalInv, Streams
  <1> QED BY <1>6, <1>7, <1>8, <1>9 DEF JournalInv

\* A new supervisor starts with an empty journal and an empty view of its own.
LEMMA StartSupervisorInv ==
    ASSUME JournalInv, StartSupervisor
    PROVE  JournalInv'
  <1>1. stream + 1 \in Streams /\ stream' = stream + 1 /\ log' = log
    BY BoundsAssumption
    DEF JournalInv, JournalTypeOK, StartSupervisor, Streams
  <1>2. log'[stream'] = <<>>
    BY <1>1 DEF JournalInv, JournalTypeOK, FutureStreamsEmpty, Streams
  <1>3. events' = <<>> /\ live' = <<>>
    BY DEF StartSupervisor
  <1>4. JournalTypeOK'
    BY <1>1, <1>3 DEF JournalInv, JournalTypeOK
  <1>5. JournalIsSuffix'
    BY <1>2, <1>3, CapacityAssumption DEF JournalIsSuffix, Evicted
  <1>6. SnapshotIsConsistent'
    BY <1>2, <1>3 DEF SnapshotIsConsistent, CurrentCursor, Cursor
  <1>7. FutureStreamsEmpty'
    BY <1>1 DEF JournalInv, JournalTypeOK, FutureStreamsEmpty, Streams
  <1> QED BY <1>4, <1>5, <1>6, <1>7 DEF JournalInv

\* Steps of others leave the journal's invariant alone.
LEMMA JournalUnchangedInv == JournalInv /\ UNCHANGED journalVars => JournalInv'
  BY DEF JournalInv, JournalTypeOK, JournalIsSuffix, SnapshotIsConsistent,
         FutureStreamsEmpty, journalVars, Evicted, CurrentCursor, Cursor,
         CursorOf

-----------------------------------------------------------------------------

\* The filter of replay keeps what follows the cursor, when the journal
\* reaches back far enough.
LEMMA NewerIs ==
    ASSUME JournalInv, NEW n \in Nat, Evicted <= n, n <= Len(log[stream])
    PROVE  Newer(n) = SubSeq(events, n - Evicted + 1, Len(events))
  <1>a. /\ Len(events) \in Nat /\ Len(log[stream]) \in Nat
        /\ Evicted \in Nat
    BY DEF JournalInv, JournalTypeOK, JournalIsSuffix, Evicted
  <1>b. Len(events) = Len(log[stream]) - Evicted
    BY <1>a DEF JournalInv, JournalTypeOK, JournalIsSuffix, Evicted
  <1>c. \A i \in 1..Len(events) : events[i].sequence = Evicted + i
    <2> SUFFICES ASSUME NEW i \in 1..Len(events)
                 PROVE  events[i].sequence = Evicted + i
      OBVIOUS
    <2>1. events[i] = Envelope(stream, Evicted + i, log[stream][Evicted + i])
      BY DEF JournalInv, JournalIsSuffix
    <2> QED BY <2>1 DEF Envelope
  <1>1. /\ Len(events) \in Nat /\ Evicted \in Nat
        /\ n - Evicted \in 0..Len(events)
        /\ \A i \in 1..Len(events) : events[i].sequence = Evicted + i
    BY <1>a, <1>b, <1>c
  <1> DEFINE Cut(k) == \A i \in 1..Len(events) :
                          (i <= k) <=> (events[i].sequence <= n)
             old == CHOOSE k \in 0..Len(events) : Cut(k)
  <1>2. Cut(n - Evicted)
    BY <1>1
  <1>3. old \in 0..Len(events) /\ Cut(old)
    BY <1>1, <1>2
  <1> HIDE DEF old
  <1>4. old = n - Evicted
    <2>1. CASE old < n - Evicted
      <3>1. old + 1 \in 1..Len(events) /\ old + 1 <= n - Evicted
        BY <1>1, <1>3, <2>1
      <3>2. ~(old + 1 <= old)
        BY <1>3
      <3> QED BY <1>2, <1>3, <3>1, <3>2
    <2>2. CASE old > n - Evicted
      <3>1. old \in 1..Len(events) /\ ~(old <= n - Evicted)
        BY <1>1, <1>3, <2>2
      <3> QED BY <1>2, <1>3, <3>1
    <2> QED BY <1>1, <1>3, <2>1, <2>2
  <1> QED BY <1>4 DEF Newer, old

\* Every replay request is answered right, cursors never recorded included.
LEMMA ReplayAnswersRight ==
    ASSUME JournalInv, NEW s \in Streams, NEW n \in Nat
    PROVE  ExactReplay(s, n)
  <1> DEFINE c     == Cursor(s, n)
             r     == Replay(c)
             size  == Len(log[stream])
             newer == Newer(n)
             m     == IF Len(newer) < ReplayLimit THEN Len(newer) ELSE ReplayLimit
             es    == SubSeq(newer, 1, m)
  <1>1. /\ size \in Nat /\ Len(events) \in Nat /\ Evicted \in Nat
        /\ events \in Seq(Envelopes)
        /\ Len(events) = size - Evicted
        /\ c.stream = s /\ c.sequence = n
        /\ ReplayLimit \in Nat \ {0}
    BY ReplayLimitAssumption
    DEF JournalInv, JournalTypeOK, JournalIsSuffix, Evicted, Cursor
  <1>2. /\ CurrentCursor = Cursor(stream, size)
        /\ CurrentCursor.sequence = size
    BY DEF JournalInv, SnapshotIsConsistent, Cursor
  <1>3. ASSUME NEW i \in 1..Len(events)
        PROVE  /\ events[i] = Envelope(stream, Evicted + i, log[stream][Evicted + i])
               /\ events[i].sequence = Evicted + i
    <2>1. events[i] = Envelope(stream, Evicted + i, log[stream][Evicted + i])
      BY DEF JournalInv, JournalIsSuffix
    <2> QED BY <2>1 DEF Envelope
  <1>4. RetentionExpired(c) <=> events # <<>> /\ n < Evicted
    <2>1. CASE events = <<>>
      BY <2>1 DEF RetentionExpired
    <2>2. CASE events # <<>>
      <3>1. 1 \in 1..Len(events)
        BY <1>1, <2>2
      <3>2. events[1].sequence = Evicted + 1
        BY <1>3, <3>1
      <3> QED BY <1>1, <2>2, <3>2 DEF RetentionExpired
    <2> QED BY <2>1, <2>2
  <1> HIDE DEF c, r, newer, m, es
  <1>5. CASE s # stream \/ n > size
    <2>1. ~r.ok
      BY <1>1, <1>2, <1>5 DEF r, Replay, SnapshotRequired
    <2> QED BY <1>1, <1>5, <2>1 DEF ExactReplay, r, c
  <1>6. CASE s = stream /\ n = size
    <2>1. r = Batch(<<>>, CurrentCursor)
      BY <1>1, <1>2, <1>6 DEF r, Replay
    <2>2. /\ r.ok /\ r.events = <<>>
          /\ r.next = Cursor(s, n) /\ r.complete
      BY <1>2, <1>6, <2>1 DEF Batch
    <2>3. Len(r.events) = 0 /\ n + Len(r.events) = n
      BY <1>1, <2>2
    <2>4. \A i \in 1..Len(r.events) :
             r.events[i] = Envelope(s, n + i, log[s][n + i])
      BY <2>3
    <2>5. r.events \in Seq(Envelopes)
      BY <2>2
    <2> QED BY <1>1, <1>6, <2>2, <2>3, <2>4, <2>5 DEF ExactReplay, r, c
  <1>7. CASE s = stream /\ n < size /\ n < Evicted
    <2>1. events # <<>>
      BY <1>1, <1>7, CapacityAssumption
      DEF JournalInv, JournalIsSuffix
    <2>2. ~r.ok
      BY <1>1, <1>2, <1>4, <1>7, <2>1 DEF r, Replay, SnapshotRequired
    <2> QED BY <1>1, <1>7, <2>2 DEF ExactReplay, r, c
  <1>8. CASE s = stream /\ n < size /\ n >= Evicted
    <2>1. newer = SubSeq(events, n - Evicted + 1, Len(events))
      BY <1>1, <1>8, NewerIs DEF newer
    <2>2. /\ newer \in Seq(Envelopes)
          /\ Len(newer) = size - n
          /\ Len(newer) \in Nat \ {0}
          /\ \A i \in 1..Len(newer) : newer[i] = events[n - Evicted + i]
      BY <1>1, <1>8, <2>1
    <2>3. /\ m \in 1..Len(newer) /\ m <= ReplayLimit
      BY <1>1, <2>2 DEF m
    <2>4. /\ es \in Seq(Envelopes)
          /\ Len(es) = m
          /\ \A i \in 1..m : es[i] = newer[i]
      BY <2>2, <2>3 DEF es
    <2>5. ASSUME NEW i \in 1..m
          PROVE  es[i] = Envelope(s, n + i, log[s][n + i])
      <3>1. /\ i \in 1..Len(newer)
            /\ n - Evicted + i \in 1..Len(events)
            /\ Evicted + (n - Evicted + i) = n + i
        BY <1>1, <1>8, <2>2, <2>3
      <3> QED BY <1>3, <1>8, <2>2, <2>4, <3>1
    <2>6. es # <<>> /\ CursorOf(es[Len(es)]) = Cursor(s, n + m)
      <3>1. m \in 1..m
        BY <2>3
      <3> QED BY <2>3, <2>4, <2>5, <3>1 DEF CursorOf, Envelope, Cursor
    <2>7. r = Batch(es, Cursor(s, n + m))
      BY <1>1, <1>2, <1>4, <1>8, <2>6 DEF r, Replay, es, newer, m
    <2>8. /\ r.ok /\ r.events = es /\ r.next = Cursor(s, n + m)
          /\ r.complete <=> n + m = size
      BY <1>2, <2>7 DEF Batch, Cursor
    <2>9. /\ Len(r.events) = m /\ m <= ReplayLimit
          /\ r.events # <<>> /\ n # size
          /\ r.events \in Seq(Envelopes)
      BY <1>8, <2>3, <2>4, <2>6, <2>8
    <2>11. n + Len(r.events) <= size
      BY <1>1, <1>8, <2>2, <2>3, <2>9
    <2>10. \A i \in 1..Len(r.events) :
              r.events[i] = Envelope(s, n + i, log[s][n + i])
      BY <2>5, <2>8, <2>9
    <2> QED BY <1>1, <1>8, <2>8, <2>9, <2>10, <2>11 DEF ExactReplay, r, c
  <1> QED BY <1>1, <1>5, <1>6, <1>7, <1>8

\* The journal's invariant contains the property the runs check.
LEMMA ReplayIsExactInv == JournalInv => ReplayIsExact
  BY ReplayAnswersRight DEF ReplayIsExact
=============================================================================
