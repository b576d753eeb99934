-------------------------- MODULE CoreClientProofs --------------------------
(***************************************************************************)
(* The safety of the event stream and its client, for every set of facts,  *)
(* capacity, batch limit and fault of the transport: the confirmed view is *)
(* always a moment of some supervisor, what recv returned is in it,        *)
(* recover_gap never fails on its own account, and the two together        *)
(* implement the abstract replicated view.                                 *)
(***************************************************************************)
EXTENDS CoreClient, EventJournalProofs, SequenceTheorems

\* e is an envelope some supervisor really published.
Genuine(e) ==
    /\ e \in Envelopes
    /\ e.stream <= stream
    /\ e.sequence <= Len(log[e.stream])
    /\ e.fact = log[e.stream][e.sequence]

ChanIsGenuine     == \A i \in 1..Len(chan) : Genuine(chan[i])
IncomingIsGenuine == pc # "idle" => Genuine(incoming)
FirstHasNoView    == pc = "first_snapshot" => ~HasSnapshot(confirmed)
DeliveredIsGenuine == delivered # Nothing => Genuine(delivered)

\* While recover_gap runs, its clone is a moment of the incoming envelope's
\* stream, between the confirmed one and the end, and the envelope has been
\* found exactly when the clone has reached it.
RecoveryIsOnTrack ==
    pc = "replay" =>
      /\ HasSnapshot(confirmed)
      /\ IsMoment(staged)
      /\ staged.cursor \in Cursors
      /\ confirmed.cursor.stream = incoming.stream
      /\ staged.cursor.stream = incoming.stream
      /\ confirmed.cursor.sequence <= staged.cursor.sequence
      /\ confirmed.cursor.sequence < incoming.sequence
      /\ found = IF staged.cursor.sequence >= incoming.sequence
                   THEN incoming ELSE Nothing

\* The inductive invariant.  TypeOK and the four properties that follow it
\* are what the runs check; the rest is what makes them inductive.
ClientInv ==
    /\ TypeOK
    /\ JournalInv
    /\ ConfirmedIsAMoment
    /\ DeliveredIsShown
    /\ RecoveryNeverErrs
    /\ ChanIsGenuine
    /\ IncomingIsGenuine
    /\ FirstHasNoView
    /\ DeliveredIsGenuine
    /\ RecoveryIsOnTrack

-----------------------------------------------------------------------------
\* The journal under the client's feet.

\* A step of the supervisor keeps the journal's invariant, and extends the
\* history without touching what is in it.
LEMMA LogGrows ==
    ASSUME JournalInv, (\E f \in Facts : Record(f)) \/ StartSupervisor
    PROVE  /\ JournalInv'
           /\ stream' \in Streams /\ stream <= stream'
           /\ log' \in [Streams -> Seq(Facts)]
           /\ \A s \in Streams :
                 /\ Len(log[s]) <= Len(log'[s])
                 /\ \A i \in 1..Len(log[s]) : log'[s][i] = log[s][i]
  <1>1. /\ stream \in Streams
        /\ log \in [Streams -> Seq(Facts)]
    BY DEF JournalInv, JournalTypeOK
  <1>2. CASE StartSupervisor
    <2>1. JournalInv'
      BY <1>2, StartSupervisorInv
    <2>2. stream' = stream + 1 /\ log' = log /\ stream' \in Streams
      BY <1>1, <1>2, BoundsAssumption DEF StartSupervisor, Streams
    <2> QED BY <1>1, <2>1, <2>2 DEF Streams
  <1>3. ASSUME NEW f \in Facts, Record(f)
        PROVE  /\ JournalInv'
               /\ stream' = stream
               /\ log' = [log EXCEPT ![stream] = Append(@, f)]
    BY <1>3, RecordInv DEF Record
  <1>4. CASE \E f \in Facts : Record(f)
    <2>1. PICK f \in Facts : Record(f)
      BY <1>4
    <2>2. /\ JournalInv'
          /\ stream' = stream
          /\ log' = [log EXCEPT ![stream] = Append(@, f)]
      BY <1>3, <2>1
    <2>3. ASSUME NEW s \in Streams
          PROVE  /\ log'[s] \in Seq(Facts)
                 /\ Len(log[s]) <= Len(log'[s])
                 /\ \A i \in 1..Len(log[s]) : log'[s][i] = log[s][i]
      <3>1. CASE s = stream
        BY <1>1, <2>2, <3>1
      <3>2. CASE s # stream
        BY <1>1, <2>2, <3>2
      <3> QED BY <3>1, <3>2
    <2>4. log' \in [Streams -> Seq(Facts)]
      BY <1>1, <2>2, <2>3
    <2> QED BY <1>1, <2>2, <2>3, <2>4 DEF Streams
  <1> QED BY <1>2, <1>4

\* So the beginning of a stream is the same before and after.
LEMMA PrefixesStay ==
    ASSUME JournalInv, (\E f \in Facts : Record(f)) \/ StartSupervisor,
           NEW s \in Streams, NEW n \in 0..Len(log[s])
    PROVE  SubSeq(log'[s], 1, n) = SubSeq(log[s], 1, n)
  <1>1. /\ log[s] \in Seq(Facts) /\ log'[s] \in Seq(Facts)
        /\ Len(log[s]) <= Len(log'[s])
        /\ \A i \in 1..Len(log[s]) : log'[s][i] = log[s][i]
    BY LogGrows DEF JournalInv, JournalTypeOK
  <1> QED BY <1>1

-----------------------------------------------------------------------------
\* Folding envelopes into a moment.

\* When classify_incoming says next.
LEMMA ClassifyNext ==
    ASSUME NEW c \in Cursors, NEW e, e.stream = c.stream,
           e.sequence = c.sequence + 1
    PROVE  Classify(c, e) = "next"
  <1>1. c.sequence \in Nat /\ ~(c.sequence + 1 <= c.sequence)
    BY DEF Cursors
  <1> QED BY <1>1 DEF Classify

\* Folding the next envelope of its stream takes a moment to the next one.
LEMMA ApplyNext ==
    ASSUME JournalInv, NEW c \in Snapshots, IsMoment(c), NEW e, Genuine(e),
           Classify(c.cursor, e) = "next"
    PROVE  /\ Apply(c, e) \in Snapshots
           /\ IsMoment(Apply(c, e))
           /\ Apply(c, e).cursor = CursorOf(e)
  <1> DEFINE s == e.stream
             n == c.cursor.sequence
  <1>1. /\ c.cursor \in Cursors /\ c.view \in Seq(Facts)
        /\ e \in Envelopes /\ s \in Streams /\ n \in Nat
        /\ log[s] \in Seq(Facts) /\ stream \in Streams
        /\ s \in 1..stream
    BY DEF Snapshots, Genuine, Cursors, Envelopes, JournalInv, JournalTypeOK,
           Streams
  <1>2. c.cursor.stream = s /\ e.sequence = n + 1
    BY <1>1 DEF Classify
  <1>3. /\ n + 1 \in 1..Len(log[s])
        /\ e.fact = log[s][n + 1]
        /\ c.view = SubSeq(log[s], 1, n)
    BY <1>1, <1>2 DEF Genuine, IsMoment
  <1>4. Append(c.view, e.fact) = SubSeq(log[s], 1, n + 1)
    BY <1>1, <1>3, SMTT(30)
  <1>5. /\ Apply(c, e).cursor = CursorOf(e)
        /\ Apply(c, e).view = Append(c.view, e.fact)
        /\ CursorOf(e) = Cursor(s, n + 1)
    BY <1>2 DEF Apply, CursorOf
  <1>6. CursorOf(e) \in Cursors /\ e.fact \in Facts
    BY <1>1, <1>5 DEF Cursor, Cursors, Envelopes
  <1>7. Apply(c, e) \in Snapshots
    BY <1>1, <1>6 DEF Apply, Snapshots
  <1>8. IsMoment(Apply(c, e))
    BY <1>1, <1>3, <1>4, <1>5 DEF IsMoment, Cursor
  <1> QED BY <1>5, <1>7, <1>8

\* A batch the journal answers with passes the client's validation, and
\* folding it takes a moment to the later moment where the batch ends.
LEMMA ApplyBatch ==
    ASSUME JournalInv, NEW c \in Snapshots, IsMoment(c), Replay(c.cursor).ok
    PROVE  LET batch == Replay(c.cursor)
               next  == ApplyAll(c, batch.events)
               n     == c.cursor.sequence
               k     == Len(batch.events)
           IN  /\ Contiguous(c.cursor, batch)
               /\ next \in Snapshots
               /\ IsMoment(next)
               /\ next.cursor = Cursor(stream, n + k)
               /\ c.cursor.stream = stream
               /\ k \in Nat
               /\ batch.complete <=> n + k = Len(log[stream])
               /\ k = 0 <=> n = Len(log[stream])
               /\ \A i \in 1..k : batch.events[i] =
                      Envelope(stream, n + i, log[stream][n + i])
               /\ n + k <= Len(log[stream])
               /\ batch.events = <<>> <=> k = 0
  <1> DEFINE batch == Replay(c.cursor)
             es    == batch.events
             next  == ApplyAll(c, es)
             n     == c.cursor.sequence
             s     == c.cursor.stream
             k     == Len(es)
             size  == Len(log[stream])
  <1>1. /\ s \in Streams /\ n \in Nat /\ c.cursor = Cursor(s, n)
        /\ c.view \in Seq(Facts)
        /\ stream \in Streams /\ log[stream] \in Seq(Facts)
        /\ size \in Nat /\ events \in Seq(Envelopes)
    BY DEF Snapshots, Cursors, Cursor, JournalInv, JournalTypeOK
  <1>2. ExactReplay(s, n)
    BY <1>1, ReplayAnswersRight
  <1>3. /\ s = stream /\ n <= size
        /\ \A i \in 1..k : es[i] = Envelope(s, n + i, log[s][n + i])
        /\ es = <<>> <=> n = size
        /\ batch.next = Cursor(s, n + k)
        /\ batch.complete <=> n + k = size
    BY <1>1, <1>2 DEF ExactReplay
  <1>4. /\ es \in Seq(Envelopes) /\ k \in Nat /\ (es = <<>> <=> k = 0)
        /\ n + k <= size
    BY <1>1, <1>2 DEF ExactReplay
  <1> HIDE DEF es
  <1>5. ASSUME NEW i \in 1..k
        PROVE  /\ es[i] = Envelope(stream, n + i, log[stream][n + i])
               /\ CursorOf(es[i]) = Cursor(s, n + i)
               /\ es[i].stream = s /\ es[i].sequence = n + i
               /\ es[i].fact = log[stream][n + i]
    <2>1. es[i] = Envelope(stream, n + i, log[stream][n + i])
      BY <1>3, <1>5
    <2> QED BY <1>3, <2>1 DEF Envelope, CursorOf, Cursor
  <1>6. (IF es = <<>> THEN c.cursor ELSE CursorOf(es[k])) = Cursor(s, n + k)
    <2>1. CASE k = 0
      BY <1>1, <1>4, <2>1
    <2>2. CASE k # 0
      <3>1. k \in 1..k /\ es # <<>>
        BY <1>4, <2>2
      <3> QED BY <1>5, <3>1
    <2> QED BY <2>1, <2>2
  <1>7. Contiguous(c.cursor, batch)
    <2>1. ASSUME NEW i \in 1..k
          PROVE  Classify(IF i = 1 THEN c.cursor ELSE CursorOf(es[i - 1]),
                          es[i]) = "next"
      <3>1. (IF i = 1 THEN c.cursor ELSE CursorOf(es[i - 1]))
               = Cursor(s, n + i - 1)
        <4>1. CASE i = 1
          BY <1>1, <4>1
        <4>2. CASE i # 1
          <5>1. i - 1 \in 1..k /\ n + (i - 1) = n + i - 1
            BY <1>1, <1>4, <4>2
          <5> QED BY <1>5, <4>2, <5>1
        <4> QED BY <4>1, <4>2
      <3>2. /\ n + i = (n + i - 1) + 1
            /\ Cursor(s, n + i - 1) \in Cursors
        BY <1>1, <1>4 DEF Cursor, Cursors
      <3>3. /\ Cursor(s, n + i - 1).stream = s
            /\ Cursor(s, n + i - 1).sequence = n + i - 1
        BY DEF Cursor
      <3> QED BY <1>5, <3>1, <3>2, <3>3, ClassifyNext
    <2> QED BY <1>3, <1>6, <2>1 DEF Contiguous, es
  <1>8. /\ next.cursor = Cursor(s, n + k)
        /\ next.view = c.view \o [i \in 1..k |-> es[i].fact]
    BY <1>6 DEF ApplyAll
  <1>9. next.view = SubSeq(log[s], 1, n + k)
    <2>1. c.view = SubSeq(log[s], 1, n)
      BY DEF IsMoment
    <2> DEFINE facts == [i \in 1..k |-> es[i].fact]
    <2>2. /\ facts \in Seq(Facts) /\ Len(facts) = k
          /\ \A i \in 1..k : facts[i] = es[i].fact
      <3>1. \A i \in 1..k : es[i].fact \in Facts
        BY <1>1, <1>4, <1>5, SMTT(30)
      <3> QED BY <1>4, <3>1
    <2>7. next.view = c.view \o facts
      BY <1>8
    <2> HIDE DEF facts, next
    <2>3. /\ c.view \in Seq(Facts) /\ Len(c.view) = n
          /\ \A i \in 1..n : c.view[i] = log[s][i]
      BY <1>1, <1>3, <2>1
    <2>4. /\ next.view \in Seq(Facts) /\ Len(next.view) = n + k
      BY <2>2, <2>3, <2>7, ConcatProperties
    <2>5. ASSUME NEW i \in 1..(n + k)
          PROVE  next.view[i] = log[s][i]
      <3>1. CASE i <= n
        BY <1>1, <1>4, <2>2, <2>3, <2>7, <3>1, ConcatProperties
      <3>2. CASE i > n
        <4>1. i - n \in 1..k /\ n + (i - n) = i
          BY <1>1, <1>4, <3>2
        <4>2. next.view[i] = es[i - n].fact
          <5>1. i \in 1..(Len(c.view) + Len(facts)) /\ ~(i <= Len(c.view))
            BY <1>1, <1>4, <2>2, <2>3, <3>2
          <5>2. (c.view \o facts)[i] = facts[i - Len(c.view)]
            BY <2>2, <2>3, <5>1, ConcatProperties
          <5> QED BY <2>2, <2>3, <2>7, <4>1, <5>2
        <4> QED BY <1>3, <1>5, <4>1, <4>2
      <3> QED BY <1>1, <3>1, <3>2
    <2>6. /\ SubSeq(log[s], 1, n + k) \in Seq(Facts)
          /\ Len(SubSeq(log[s], 1, n + k)) = n + k
          /\ \A i \in 1..(n + k) : SubSeq(log[s], 1, n + k)[i] = log[s][i]
      BY <1>1, <1>3, <1>4
    <2> QED BY <2>4, <2>5, <2>6, SeqEqual
  <1>10. SubSeq(log[s], 1, n + k) \in Seq(Facts)
    BY <1>1, <1>3, <1>4
  <1>11. Cursor(s, n + k) \in Cursors
    BY <1>1, <1>4 DEF Cursor, Cursors
  <1>12. next \in Snapshots
    BY <1>8, <1>9, <1>10, <1>11 DEF ApplyAll, Snapshots
  <1>13. IsMoment(next)
    BY <1>1, <1>3, <1>4, <1>8, <1>9, SMTT(30) DEF IsMoment, Cursor, Streams
  <1>14. k = 0 <=> n = size
    BY <1>3, <1>4
  <1> QED BY <1>3, <1>4, <1>5, <1>7, <1>8, <1>12, <1>13, <1>14 DEF es

-----------------------------------------------------------------------------
\* The inductive invariant.

\* It holds before the first step.
LEMMA ClientInitInv == Init => ClientInv
  <1> SUFFICES ASSUME Init PROVE ClientInv
    OBVIOUS
  <1>1. JournalInv
    BY JournalInitInv DEF Init
  <1>2. TypeOK
    <2>1. chan \in Seq(Envelopes) /\ pc \in Pcs
      BY DEF Init, Pcs
    <2>2. handshake \in BOOLEAN
      BY DEF Init
    <2>3. /\ incoming = Nothing /\ found = Nothing /\ delivered = Nothing
          /\ confirmed = NoSnapshot /\ staged = NoSnapshot /\ fault = "none"
      BY DEF Init
    <2> QED BY <1>1, <2>1, <2>2, <2>3 DEF TypeOK, JournalInv
  <1> QED BY <1>1, <1>2
      DEF Init, ClientInv, ConfirmedIsAMoment, DeliveredIsShown,
          RecoveryNeverErrs, ChanIsGenuine, IncomingIsGenuine, FirstHasNoView,
          DeliveredIsGenuine, RecoveryIsOnTrack, HasSnapshot, NoSnapshot

\* What the supervisor does cannot disturb the client.
LEMMA SupervisorInv ==
    ASSUME ClientInv, UNCHANGED clientVars,
           \/ \E f \in Facts : Emit(f)
           \/ Restart
    PROVE  ClientInv'
  <1>1. (\E f \in Facts : Record(f)) \/ StartSupervisor
    BY DEF Emit, Restart
  <1>2. /\ JournalInv /\ JournalTypeOK
        /\ JournalInv'
        /\ stream \in Streams /\ log \in [Streams -> Seq(Facts)]
        /\ stream' \in Streams /\ stream <= stream'
        /\ log' \in [Streams -> Seq(Facts)]
        /\ \A s \in Streams :
              /\ Len(log[s]) <= Len(log'[s])
              /\ \A i \in 1..Len(log[s]) : log'[s][i] = log[s][i]
    BY <1>1, LogGrows DEF ClientInv, JournalInv, JournalTypeOK
  <1>3. ASSUME NEW e, Genuine(e)
        PROVE  /\ e.stream <= stream'
               /\ e.sequence <= Len(log'[e.stream])
               /\ e.fact = log'[e.stream][e.sequence]
               /\ e \in Envelopes
    <2>1. e \in Envelopes /\ e.stream \in Streams /\ e.sequence \in Nat \ {0}
      BY <1>3 DEF Genuine, Envelopes
    <2>2. log[e.stream] \in Seq(Facts) /\ log'[e.stream] \in Seq(Facts)
      BY <1>2, <2>1
    <2>3. e.sequence \in 1..Len(log[e.stream])
      BY <1>3, <2>1, <2>2 DEF Genuine
    <2> QED BY <1>2, <1>3, <2>1, <2>2, <2>3 DEF Genuine, Streams
  <1>4. ASSUME NEW c, IsMoment(c)
        PROVE  /\ c.cursor.stream \in 1..stream'
               /\ c.cursor.sequence \in 0..Len(log'[c.cursor.stream])
               /\ c.view = SubSeq(log'[c.cursor.stream], 1, c.cursor.sequence)
    <2>1. c.cursor.stream \in Streams /\ c.cursor.stream \in 1..stream'
      BY <1>2, <1>4, BoundsAssumption DEF IsMoment, Streams
    <2>2. /\ log[c.cursor.stream] \in Seq(Facts)
          /\ log'[c.cursor.stream] \in Seq(Facts)
      BY <1>2, <2>1
    <2>3. /\ c.cursor.sequence \in 0..Len(log[c.cursor.stream])
          /\ c.cursor.sequence \in 0..Len(log'[c.cursor.stream])
      BY <1>2, <1>4, <2>1, <2>2 DEF IsMoment
    <2>4. SubSeq(log'[c.cursor.stream], 1, c.cursor.sequence)
             = SubSeq(log[c.cursor.stream], 1, c.cursor.sequence)
      BY <1>1, <1>2, <2>1, <2>3, PrefixesStay
    <2> QED BY <1>4, <2>1, <2>3, <2>4 DEF IsMoment
  <1>5. chan' \in Seq(Envelopes) /\ ChanIsGenuine'
    <2>1. chan \in Seq(Envelopes)
      BY DEF ClientInv, TypeOK
    <2>2. CASE Restart
      <3>1. chan' = chan
        BY <2>2 DEF Restart
      <3>2. \A i \in 1..Len(chan) : Genuine(chan[i])
        BY DEF ClientInv, ChanIsGenuine
      <3> QED BY <1>3, <2>1, <3>1, <3>2 DEF ChanIsGenuine, Genuine
    <2>3. ASSUME NEW f \in Facts, Emit(f)
          PROVE  chan' \in Seq(Envelopes) /\ ChanIsGenuine'
      <3> DEFINE e == NextEnvelope(f)
      <3>1. /\ e = Envelope(stream, Len(log[stream]) + 1, f)
            /\ e \in Envelopes
        BY <1>2, NextEnvelopeIs
      <3>2. /\ log' = [log EXCEPT ![stream] = Append(@, f)]
            /\ stream' = stream /\ chan' = Append(chan, e)
        BY <2>3 DEF Emit, Record
      <3>3. /\ e.stream = stream /\ e.sequence = Len(log[stream]) + 1
            /\ e.fact = f
        BY <3>1 DEF Envelope
      <3>4. /\ e.stream <= stream'
            /\ e.sequence <= Len(log'[e.stream])
            /\ e.fact = log'[e.stream][e.sequence]
        BY <1>2, <3>2, <3>3 DEF Streams
      <3> HIDE DEF e
      <3>5. /\ chan' \in Seq(Envelopes)
            /\ Len(chan') = Len(chan) + 1
            /\ \A i \in 1..Len(chan) : chan'[i] = chan[i]
            /\ chan'[Len(chan) + 1] = e
        BY <2>1, <3>1, <3>2
      <3>6. ASSUME NEW i \in 1..Len(chan')
            PROVE  /\ chan'[i].stream <= stream'
                   /\ chan'[i].sequence <= Len(log'[chan'[i].stream])
                   /\ chan'[i].fact = log'[chan'[i].stream][chan'[i].sequence]
                   /\ chan'[i] \in Envelopes
        <4>1. CASE i = Len(chan) + 1
          BY <3>1, <3>4, <3>5, <4>1
        <4>2. CASE i \in 1..Len(chan)
          <5>1. Genuine(chan[i]) /\ chan'[i] = chan[i]
            BY <3>5, <4>2 DEF ClientInv, ChanIsGenuine
          <5> QED BY <1>3, <5>1
        <4> QED BY <2>1, <3>5, <4>1, <4>2
      <3> QED BY <3>5, <3>6 DEF ChanIsGenuine, Genuine
    <2> QED BY <2>2, <2>3
  <1>6. /\ handshake' = handshake /\ confirmed' = confirmed /\ pc' = pc
        /\ incoming' = incoming /\ staged' = staged /\ found' = found
        /\ delivered' = delivered /\ fault' = fault
    BY DEF clientVars
  <1>7. TypeOK'
    BY <1>2, <1>5, <1>6 DEF ClientInv, TypeOK, JournalInv
  <1>8. ConfirmedIsAMoment'
    BY <1>4, <1>6 DEF ClientInv, ConfirmedIsAMoment, HasSnapshot, IsMoment
  <1>9. DeliveredIsShown'
    BY <1>3, <1>6 DEF ClientInv, DeliveredIsShown, DeliveredIsGenuine, AtMost
  <1>10. IncomingIsGenuine'
    BY <1>3, <1>6 DEF ClientInv, IncomingIsGenuine, Genuine
  <1>11. DeliveredIsGenuine'
    BY <1>3, <1>6 DEF ClientInv, DeliveredIsGenuine, Genuine
  <1>12. RecoveryIsOnTrack'
    BY <1>4, <1>6 DEF ClientInv, RecoveryIsOnTrack, IsMoment, HasSnapshot
  <1> QED BY <1>2, <1>5, <1>6, <1>7, <1>8, <1>9, <1>10, <1>11, <1>12
      DEF ClientInv, RecoveryNeverErrs, FirstHasNoView, HasSnapshot

\* A snapshot the supervisor answers with is a moment: the latest.
LEMMA SnapshotIsAMoment ==
    ASSUME JournalInv
    PROVE  /\ SnapshotEnvelope \in Snapshots
           /\ IsMoment(SnapshotEnvelope)
           /\ SnapshotEnvelope.cursor = Cursor(stream, Len(log[stream]))
  <1>1. /\ stream \in Streams /\ log[stream] \in Seq(Facts)
        /\ live = log[stream]
        /\ CurrentCursor = Cursor(stream, Len(log[stream]))
    BY DEF JournalInv, JournalTypeOK, SnapshotIsConsistent
  <1>2. log[stream] = SubSeq(log[stream], 1, Len(log[stream]))
    BY <1>1
  <1>3. Cursor(stream, Len(log[stream])) \in Cursors
    BY <1>1 DEF Cursor, Cursors
  <1>4. stream \in 1..stream /\ Len(log[stream]) \in 0..Len(log[stream])
    BY <1>1 DEF Streams
  <1> QED BY <1>1, <1>2, <1>3, <1>4
      DEF SnapshotEnvelope, Snapshots, IsMoment, Cursor

\* A moment is a snapshot with a real cursor.
LEMMA MomentHasSnapshot ==
    ASSUME NEW c, IsMoment(c) PROVE HasSnapshot(c)
  BY DEF IsMoment, HasSnapshot, Nothing

\* What a step of the client has to establish.
LEMMA StepInv ==
    ASSUME ClientInv, UNCHANGED journalVars,
           handshake' \in BOOLEAN, fault' = "none",
           chan' \in Seq(Envelopes),
           \A i \in 1..Len(chan') : Genuine(chan'[i]),
           \/ confirmed' = confirmed
           \/ confirmed' \in Snapshots /\ IsMoment(confirmed'),
           delivered' = delivered \/ Genuine(delivered'),
           delivered' # Nothing => AtMost(delivered', confirmed'.cursor),
           pc' \in Pcs,
           incoming' \in Envelopes \cup {Nothing},
           pc' # "idle" => Genuine(incoming'),
           pc' = "first_snapshot" => ~HasSnapshot(confirmed'),
           staged' \in Snapshots \cup {NoSnapshot},
           found' \in Envelopes \cup {Nothing},
           RecoveryIsOnTrack'
    PROVE  ClientInv'
  <1>1. stream' = stream /\ log' = log /\ JournalInv' /\ JournalTypeOK'
    BY JournalUnchangedInv
    DEF ClientInv, JournalInv, JournalTypeOK, journalVars
  <1>2. TypeOK'
    <2>1. confirmed' \in Snapshots \cup {NoSnapshot}
      BY DEF ClientInv, TypeOK
    <2>2. delivered' \in Envelopes \cup {Nothing}
      BY DEF ClientInv, TypeOK, Genuine
    <2>4. fault' \in ProtocolErrors \cup {"none"}
      OBVIOUS
    <2> QED BY <1>1, <2>1, <2>2, <2>4 DEF TypeOK
  <1>3. ConfirmedIsAMoment'
    BY <1>1 DEF ClientInv, ConfirmedIsAMoment, HasSnapshot, IsMoment
  <1>4. DeliveredIsGenuine'
    BY <1>1 DEF ClientInv, DeliveredIsGenuine, Genuine
  <1>5. DeliveredIsShown'
    BY <1>4 DEF DeliveredIsShown, DeliveredIsGenuine, Genuine, AtMost
  <1>6. ChanIsGenuine' /\ IncomingIsGenuine'
    BY <1>1 DEF ChanIsGenuine, IncomingIsGenuine, Genuine
  <1> QED BY <1>1, <1>2, <1>3, <1>4, <1>5, <1>6
      DEF ClientInv, RecoveryNeverErrs, FirstHasNoView, HasSnapshot

\* The tail of recv, whichever snapshot it starts from.
LEMMA DispatchInv ==
    ASSUME ClientInv, UNCHANGED journalVars,
           handshake' = handshake, fault' = fault,
           chan' \in Seq(Envelopes),
           \A i \in 1..Len(chan') : Genuine(chan'[i]),
           NEW c \in Snapshots, IsMoment(c), NEW e, Genuine(e),
           delivered # Nothing => AtMost(delivered, c.cursor),
           Dispatch(c, e)
    PROVE  ClientInv'
  <1>1. /\ handshake' \in BOOLEAN /\ fault' = "none"
        /\ staged \in Snapshots \cup {NoSnapshot}
        /\ found \in Envelopes \cup {Nothing}
        /\ JournalInv
        /\ stream' = stream /\ log' = log
    BY DEF ClientInv, TypeOK, RecoveryNeverErrs, journalVars
  <1>a. e \in Envelopes
    BY DEF Genuine
  <1>2. CASE /\ Classify(c.cursor, e) = "old"
             /\ confirmed' = c
             /\ UNCHANGED delivered
             /\ Return
    <2>1. /\ pc' = "idle" /\ incoming' = Nothing /\ pc' \in Pcs
          /\ staged' \in Snapshots \cup {NoSnapshot}
          /\ found' \in Envelopes \cup {Nothing}
          /\ RecoveryIsOnTrack'
          /\ pc' # "first_snapshot"
      BY <1>2 DEF Return, Pcs, RecoveryIsOnTrack
    <2>2. delivered' # Nothing => AtMost(delivered', confirmed'.cursor)
      BY <1>2
    <2> QED BY <1>1, <1>2, <2>1, <2>2, StepInv
  <1>3. CASE /\ Classify(c.cursor, e) = "next"
             /\ confirmed' = Apply(c, e)
             /\ delivered' = e
             /\ Return
    <2>1. /\ pc' = "idle" /\ incoming' = Nothing /\ pc' \in Pcs
          /\ staged' \in Snapshots \cup {NoSnapshot}
          /\ found' \in Envelopes \cup {Nothing}
          /\ RecoveryIsOnTrack'
          /\ pc' # "first_snapshot"
      BY <1>3 DEF Return, Pcs, RecoveryIsOnTrack
    <2>2. /\ confirmed' \in Snapshots /\ IsMoment(confirmed')
          /\ confirmed'.cursor = CursorOf(e)
      BY <1>1, <1>3, ApplyNext
    <2>3. AtMost(delivered', confirmed'.cursor)
      BY <1>3, <2>2 DEF AtMost, CursorOf, Cursor, Genuine, Envelopes
    <2> QED BY <1>1, <1>3, <2>1, <2>2, <2>3, StepInv
  <1>4. CASE /\ Classify(c.cursor, e) = "gap"
             /\ confirmed' = c
             /\ pc' = "replay"
             /\ incoming' = e
             /\ staged' = c
             /\ found' = Nothing
             /\ UNCHANGED delivered
    <2>1. /\ c.cursor.stream = e.stream
          /\ c.cursor.sequence \in Nat /\ e.sequence \in Nat
          /\ c.cursor.sequence < e.sequence
          /\ c.cursor \in Cursors
      BY <1>4 DEF Classify, Snapshots, Cursors, Genuine, Envelopes
    <2>2. IsMoment(c)' /\ HasSnapshot(c)
      BY <1>1, MomentHasSnapshot DEF IsMoment
    <2>3. RecoveryIsOnTrack'
      BY <1>4, <2>1, <2>2 DEF RecoveryIsOnTrack, IsMoment, HasSnapshot
    <2>4. pc' \in Pcs /\ pc' # "first_snapshot"
      BY <1>4 DEF Pcs
    <2>5. delivered' # Nothing => AtMost(delivered', confirmed'.cursor)
      BY <1>4
    <2> QED BY <1>1, <1>a, <1>4, <2>3, <2>4, <2>5, StepInv
  <1>5. CASE /\ Classify(c.cursor, e) = "mismatch"
             /\ confirmed' = c
             /\ pc' = "snapshot"
             /\ incoming' = e
             /\ UNCHANGED <<staged, found, delivered>>
    <2>1. pc' \in Pcs /\ pc' # "first_snapshot" /\ RecoveryIsOnTrack'
      BY <1>5 DEF Pcs, RecoveryIsOnTrack
    <2>2. delivered' # Nothing => AtMost(delivered', confirmed'.cursor)
      BY <1>5
    <2> QED BY <1>1, <1>a, <1>5, <2>1, <2>2, StepInv
  <1> QED BY <1>2, <1>3, <1>4, <1>5 DEF Dispatch

\* The head of recv, for a genuine envelope or one that does not validate.
LEMMA ReceiveInv ==
    ASSUME ClientInv, chan' \in Seq(Envelopes),
           \A i \in 1..Len(chan') : Genuine(chan'[i]),
           NEW e, NEW valid \in BOOLEAN, valid => Genuine(e),
           Receive(e, valid)
    PROVE  ClientInv'
  <1>1. /\ UNCHANGED journalVars /\ handshake' = handshake /\ fault' = fault
        /\ handshake' \in BOOLEAN /\ fault' = "none" /\ pc = "idle"
        /\ staged \in Snapshots \cup {NoSnapshot}
        /\ found \in Envelopes \cup {Nothing}
        /\ incoming \in Envelopes \cup {Nothing}
        /\ confirmed \in Snapshots \cup {NoSnapshot}
        /\ delivered # Nothing => AtMost(delivered, confirmed.cursor)
    BY DEF Receive, ClientInv, TypeOK, RecoveryNeverErrs, DeliveredIsShown
  <1>2. CASE UNCHANGED <<confirmed, pc, incoming, staged, found, delivered>>
    <2>1. RecoveryIsOnTrack' /\ pc' \in Pcs /\ pc' = "idle"
      BY <1>1, <1>2 DEF RecoveryIsOnTrack, Pcs
    <2> QED BY <1>1, <1>2, <2>1, StepInv
  <1>3. CASE /\ Accepts(valid)
             /\ ~HasSnapshot(confirmed)
             /\ pc' = "first_snapshot"
             /\ incoming' = e
             /\ UNCHANGED <<confirmed, staged, found, delivered>>
    <2>1. RecoveryIsOnTrack' /\ pc' \in Pcs
      BY <1>3 DEF RecoveryIsOnTrack, Pcs
    <2>2. Genuine(incoming') /\ incoming' \in Envelopes
      BY <1>3 DEF Accepts, Genuine
    <2>3. /\ ~HasSnapshot(confirmed')
          /\ delivered' # Nothing => AtMost(delivered', confirmed'.cursor)
      BY <1>1, <1>3
    <2> QED BY <1>1, <1>3, <2>1, <2>2, <2>3, StepInv
  <1>4. CASE Accepts(valid) /\ HasSnapshot(confirmed) /\ Dispatch(confirmed, e)
    <2>1. Genuine(e)
      BY <1>4 DEF Accepts
    <2>2. IsMoment(confirmed) /\ confirmed \in Snapshots
      BY <1>1, <1>4 DEF ClientInv, ConfirmedIsAMoment, HasSnapshot, NoSnapshot
    <2> QED BY <1>1, <1>4, <2>1, <2>2, DispatchInv
  <1> QED BY <1>2, <1>3, <1>4 DEF Receive

\* What is left in transit when an envelope is taken out of it.
LEMMA TransitIsGenuine ==
    ASSUME ClientInv, chan # <<>>
    PROVE  /\ chan \in Seq(Envelopes)
           /\ \A i \in 1..Len(chan) : Genuine(chan[i])
           /\ Genuine(chan[1])
           /\ Tail(chan) \in Seq(Envelopes)
           /\ \A i \in 1..Len(Tail(chan)) : Genuine(Tail(chan)[i])
  <1>1. /\ chan \in Seq(Envelopes)
        /\ \A i \in 1..Len(chan) : Genuine(chan[i])
    BY DEF ClientInv, TypeOK, ChanIsGenuine
  <1>2. /\ Tail(chan) \in Seq(Envelopes)
        /\ 1 \in 1..Len(chan)
        /\ Len(Tail(chan)) = Len(chan) - 1
        /\ \A i \in 1..Len(Tail(chan)) :
              i + 1 \in 1..Len(chan) /\ Tail(chan)[i] = chan[i + 1]
    BY <1>1
  <1> QED BY <1>1, <1>2

LEMMA WithoutIsGenuine ==
    ASSUME ClientInv, NEW i \in 1..Len(chan)
    PROVE  /\ Without(i) \in Seq(Envelopes)
           /\ \A j \in 1..Len(Without(i)) : Genuine(Without(i)[j])
  <1> DEFINE before == SubSeq(chan, 1, i - 1)
             after  == SubSeq(chan, i + 1, Len(chan))
  <1>1. /\ chan \in Seq(Envelopes) /\ Len(chan) \in Nat
        /\ \A j \in 1..Len(chan) : Genuine(chan[j])
    BY DEF ClientInv, TypeOK, ChanIsGenuine
  <1>2. /\ before \in Seq(Envelopes) /\ Len(before) = i - 1
        /\ \A j \in 1..Len(before) : j \in 1..Len(chan) /\ before[j] = chan[j]
    BY <1>1
  <1>3. /\ after \in Seq(Envelopes) /\ Len(after) = Len(chan) - i
        /\ \A j \in 1..Len(after) :
              i + j \in 1..Len(chan) /\ after[j] = chan[i + j]
    BY <1>1
  <1>4. Without(i) = before \o after
    BY DEF Without
  <1> HIDE DEF before, after
  <1>5. /\ Without(i) \in Seq(Envelopes)
        /\ Len(Without(i)) = Len(before) + Len(after)
    BY <1>2, <1>3, <1>4, ConcatProperties
  <1>6. ASSUME NEW j \in 1..Len(Without(i))
        PROVE  Genuine(Without(i)[j])
    <2>1. /\ j \in 1..(Len(before) + Len(after))
          /\ Len(before) \in Nat /\ Len(after) \in Nat
      BY <1>2, <1>3, <1>5
    <2>2. CASE j <= Len(before)
      <3>1. Without(i)[j] = before[j] /\ j \in 1..Len(before)
        BY <1>2, <1>3, <1>4, <2>1, <2>2, ConcatProperties
      <3> QED BY <1>1, <1>2, <3>1
    <2>3. CASE ~(j <= Len(before))
      <3>1. j - Len(before) \in 1..Len(after)
        BY <2>1, <2>3
      <3>2. Without(i)[j] = after[j - Len(before)]
        BY <1>2, <1>3, <1>4, <2>1, <2>3, ConcatProperties
      <3> QED BY <1>1, <1>3, <3>1, <3>2
    <2> QED BY <2>2, <2>3
  <1> QED BY <1>5, <1>6

\* recv, however the transport hands the envelope over.
LEMMA RecvInv ==
    ASSUME ClientInv, RecvHead \/ RecvReordered \/ RecvDuplicate \/ RecvGarbled
    PROVE  ClientInv'
  <1>1. CASE RecvHead
    BY <1>1, TransitIsGenuine, ReceiveInv DEF RecvHead
  <1>2. CASE RecvReordered
    <2>1. PICK i \in 2..Len(chan) : chan' = Without(i) /\ Receive(chan[i], TRUE)
      BY <1>2 DEF RecvReordered
    <2>2. i \in 1..Len(chan) /\ chan # <<>>
      BY DEF ClientInv, TypeOK
    <2> QED BY <2>1, <2>2, TransitIsGenuine, WithoutIsGenuine, ReceiveInv
  <1>3. CASE RecvDuplicate
    BY <1>3, TransitIsGenuine, ReceiveInv DEF RecvDuplicate
  <1>4. CASE RecvGarbled
    <2>1. PICK n \in 1..MaxEvents, f \in Facts :
                 Receive(Envelope(stream, n, f), FALSE)
      BY <1>4 DEF RecvGarbled
    <2> QED BY <1>4, <2>1, TransitIsGenuine, ReceiveInv DEF RecvGarbled
  <1> QED BY <1>1, <1>2, <1>3, <1>4

\* The other steps of the client that are not recover_gap's.
LEMMA OtherStepsInv ==
    ASSUME ClientInv,
           \/ Lose \/ Discover \/ FirstSnapshot \/ LoadSnapshot \/ Snapshot
           \/ CallFails
    PROVE  ClientInv'
  <1>1. /\ chan \in Seq(Envelopes)
        /\ \A i \in 1..Len(chan) : Genuine(chan[i])
        /\ handshake \in BOOLEAN /\ fault = "none" /\ pc \in Pcs
        /\ confirmed \in Snapshots \cup {NoSnapshot}
        /\ incoming \in Envelopes \cup {Nothing}
        /\ staged \in Snapshots \cup {NoSnapshot}
        /\ found \in Envelopes \cup {Nothing}
        /\ delivered \in Envelopes \cup {Nothing}
        /\ pc # "idle" => Genuine(incoming)
        /\ pc = "first_snapshot" => ~HasSnapshot(confirmed)
        /\ delivered # Nothing => AtMost(delivered, confirmed.cursor)
        /\ delivered # Nothing => Genuine(delivered)
        /\ JournalInv /\ ConfirmedIsAMoment /\ RecoveryIsOnTrack
    BY DEF ClientInv, TypeOK, ChanIsGenuine, RecoveryNeverErrs, FirstHasNoView,
           IncomingIsGenuine, DeliveredIsShown, DeliveredIsGenuine
  <1>2. /\ SnapshotEnvelope \in Snapshots
        /\ IsMoment(SnapshotEnvelope)
        /\ SnapshotEnvelope.cursor = Cursor(stream, Len(log[stream]))
        /\ delivered # Nothing => AtMost(delivered, SnapshotEnvelope.cursor)
    BY <1>1, SnapshotIsAMoment DEF AtMost, Cursor, Genuine, Envelopes, Streams,
       JournalInv, JournalTypeOK
  <1>3. CASE Lose
    <2>1. RecoveryIsOnTrack'
      BY <1>1, <1>3 DEF Lose, clientVars, journalVars, RecoveryIsOnTrack,
         IsMoment, HasSnapshot
    <2> QED BY <1>1, <1>3, <2>1, TransitIsGenuine, StepInv DEF Lose, clientVars
  <1>4. CASE Discover
    <2>1. RecoveryIsOnTrack' /\ handshake' \in BOOLEAN
      BY <1>1, <1>4 DEF Discover, RecoveryIsOnTrack
    <2> QED BY <1>1, <1>4, <2>1, StepInv DEF Discover
  <1>5. CASE FirstSnapshot
    BY <1>1, <1>2, <1>5, DispatchInv DEF FirstSnapshot
  <1>6. CASE LoadSnapshot \/ CallFails
    <2>1. /\ pc' = "idle" /\ incoming' = Nothing /\ pc' \in Pcs
          /\ staged' \in Snapshots \cup {NoSnapshot}
          /\ found' \in Envelopes \cup {Nothing}
          /\ RecoveryIsOnTrack'
      BY <1>6 DEF Return, Pcs, RecoveryIsOnTrack, LoadSnapshot, CallFails
    <2>2. CASE LoadSnapshot
      BY <1>1, <1>2, <2>1, <2>2, StepInv DEF LoadSnapshot
    <2>3. CASE CallFails
      BY <1>1, <2>1, <2>3, StepInv DEF CallFails
    <2> QED BY <1>6, <2>2, <2>3
  <1>7. CASE Snapshot
    <2>1. RecoveryIsOnTrack' /\ pc' = "idle"
      BY <1>7 DEF Snapshot, RecoveryIsOnTrack
    <2> QED BY <1>1, <1>2, <1>7, <2>1, StepInv DEF Snapshot
  <1> QED BY <1>3, <1>4, <1>5, <1>6, <1>7

\* What a replay call that is answered with a batch leads to.
LEMMA RecoverGapIs ==
    ASSUME ClientInv, RecoverGap, Replay(staged.cursor).ok
    PROVE  LET batch == Replay(staged.cursor)
               next  == ApplyAll(staged, batch.events)
           IN  /\ next \in Snapshots
               /\ IsMoment(next)
               /\ next.cursor.stream = incoming.stream
               /\ confirmed.cursor.sequence <= next.cursor.sequence
               /\ \/ /\ ~batch.complete
                     /\ staged' = next
                     /\ found' = IF next.cursor.sequence >= incoming.sequence
                                   THEN incoming ELSE Nothing
                     /\ UNCHANGED <<confirmed, pc, incoming, delivered, fault>>
                  \/ /\ next.cursor.sequence >= incoming.sequence
                     /\ confirmed' = next
                     /\ delivered' = incoming
                     /\ Return
                     /\ UNCHANGED fault
  <1> DEFINE batch == Replay(staged.cursor)
             es    == batch.events
             next  == ApplyAll(staged, es)
             seen  == Find(incoming, es, found)
             n     == staged.cursor.sequence
             k     == Len(es)
             j     == incoming.sequence
             size  == Len(log[stream])
  <1>1. /\ JournalInv /\ pc = "replay"
        /\ Genuine(incoming) /\ incoming \in Envelopes
        /\ IsMoment(staged)
        /\ staged \in Snapshots
        /\ confirmed.cursor.stream = incoming.stream
        /\ staged.cursor.stream = incoming.stream
        /\ confirmed.cursor.sequence <= n
        /\ found = IF n >= j THEN incoming ELSE Nothing
    <2>1. pc = "replay"
      BY DEF RecoverGap
    <2>2. staged \in Snapshots
      BY <2>1 DEF ClientInv, TypeOK, RecoveryIsOnTrack, NoSnapshot, IsMoment,
                  Nothing
    <2> QED BY <2>1, <2>2
        DEF ClientInv, IncomingIsGenuine, RecoveryIsOnTrack, Genuine
  <1>2. /\ n \in Nat /\ j \in Nat \ {0}
        /\ stream \in Streams /\ size \in Nat
    BY <1>1 DEF Snapshots, Cursors, Envelopes, JournalInv, JournalTypeOK
  <1>3. /\ Contiguous(staged.cursor, batch)
        /\ next \in Snapshots /\ IsMoment(next)
        /\ next.cursor = Cursor(stream, n + k)
        /\ staged.cursor.stream = stream
        /\ k \in Nat
        /\ batch.complete <=> n + k = size
        /\ k = 0 <=> n = size
        /\ \A i \in 1..k : es[i] = Envelope(stream, n + i, log[stream][n + i])
        /\ es = <<>> <=> k = 0
    BY <1>1, ApplyBatch
  <1>4. /\ next.cursor.stream = incoming.stream
        /\ next.cursor.sequence = n + k
    BY <1>1, <1>3 DEF Cursor
  <1>5. /\ incoming = Envelope(stream, j, log[stream][j])
        /\ j <= size
    BY <1>1, <1>3 DEF Genuine, Envelopes, Envelope
  <1>6. seen = IF n + k >= j THEN incoming ELSE Nothing
    <2> DEFINE Match(i) == CursorOf(es[i]) = CursorOf(incoming)
    <2>1. ASSUME NEW i \in 1..k
          PROVE  Match(i) <=> n + i = j
      <3>1. es[i] = Envelope(stream, n + i, log[stream][n + i])
        BY <1>3
      <3> QED BY <1>5, <3>1 DEF CursorOf, Cursor, Envelope
    <2> HIDE DEF es, n, k, j
    <2>2. CASE n < j /\ j <= n + k
      <3>1. j - n \in 1..k /\ n + (j - n) = j
        BY <1>2, <1>3, <2>2
      <3>2. Match(j - n)
        BY <2>1, <3>1
      <3> DEFINE c == CHOOSE i \in 1..k : Match(i)
      <3>3. c \in 1..k /\ Match(c)
        BY <3>1, <3>2
      <3>4. seen = es[c]
        BY <3>1, <3>2 DEF Find, k
      <3> HIDE DEF c
      <3>5. n + c = j
        BY <2>1, <3>3
      <3>6. es[c] = incoming
        BY <1>3, <1>5, <3>3, <3>5
      <3> QED BY <2>2, <3>4, <3>6
    <2>3. CASE ~(n < j /\ j <= n + k)
      <3>1. \A i \in 1..k : ~Match(i)
        BY <1>2, <1>3, <2>1, <2>3
      <3>2. seen = found
        BY <3>1 DEF Find, k
      <3> QED BY <1>1, <1>2, <1>3, <2>3, <3>2 DEF n, j
    <2> QED BY <2>2, <2>3
  <1>7. incoming # Nothing
    BY <1>2, <1>5 DEF Envelope, Nothing
  <1>8. confirmed.cursor.sequence <= n + k
    <2>1. confirmed.cursor.sequence \in Nat
      BY <1>1 DEF ClientInv, TypeOK, Snapshots, Cursors, NoSnapshot, Nothing
    <2> QED BY <1>1, <1>2, <1>3, <2>1
  <1>9. /\ ~(es = <<>> /\ ~batch.complete)
        /\ batch.complete => n + k >= j
    BY <1>2, <1>3, <1>5
  <1> HIDE DEF batch, es, next, seen, n, k, j, size
  <1>10. \/ /\ ~batch.complete
            /\ staged' = next
            /\ found' = seen
            /\ UNCHANGED <<confirmed, pc, incoming, delivered, fault>>
         \/ /\ batch.complete
            /\ next.cursor.sequence < incoming.sequence \/ seen = Nothing
         \/ /\ next.cursor.sequence >= incoming.sequence
            /\ seen # Nothing
            /\ confirmed' = next
            /\ delivered' = seen
            /\ Return
            /\ UNCHANGED fault
    BY <1>3, <1>9 DEF RecoverGap, batch, es, next, seen
  <1>11. CASE /\ batch.complete
              /\ next.cursor.sequence < incoming.sequence \/ seen = Nothing
    BY <1>2, <1>3, <1>4, <1>6, <1>7, <1>9, <1>11 DEF j
  <1> QED BY <1>3, <1>4, <1>6, <1>8, <1>10, <1>11 DEF batch, es, next, j

\* recover_gap never returns an error of its own and keeps its clone on track.
LEMMA RecoverGapInv ==
    ASSUME ClientInv, RecoverGap
    PROVE  ClientInv'
  <1>1. /\ UNCHANGED journalVars /\ chan' = chan /\ handshake' = handshake
        /\ stream' = stream /\ log' = log
        /\ pc = "replay"
    BY DEF RecoverGap, journalVars
  <1>2. /\ chan \in Seq(Envelopes)
        /\ \A i \in 1..Len(chan) : Genuine(chan[i])
        /\ handshake \in BOOLEAN /\ fault = "none"
        /\ staged \in Snapshots \cup {NoSnapshot}
        /\ found \in Envelopes \cup {Nothing}
        /\ delivered # Nothing => AtMost(delivered, confirmed.cursor)
        /\ Genuine(incoming) /\ incoming \in Envelopes
        /\ RecoveryIsOnTrack
    BY <1>1 DEF ClientInv, TypeOK, ChanIsGenuine, RecoveryNeverErrs,
           IncomingIsGenuine, DeliveredIsShown, Genuine
  <1>3. CASE ~Replay(staged.cursor).ok
    <2>1. /\ pc' = "snapshot"
          /\ UNCHANGED <<confirmed, incoming, staged, found, delivered, fault>>
      BY <1>3 DEF RecoverGap
    <2>2. RecoveryIsOnTrack' /\ pc' \in Pcs
      BY <2>1 DEF RecoveryIsOnTrack, Pcs
    <2> QED BY <1>1, <1>2, <2>1, <2>2, StepInv
  <1>4. CASE Replay(staged.cursor).ok
    <2> DEFINE batch == Replay(staged.cursor)
               next  == ApplyAll(staged, batch.events)
    <2>1. /\ next \in Snapshots
          /\ IsMoment(next)
          /\ next.cursor.stream = incoming.stream
          /\ confirmed.cursor.sequence <= next.cursor.sequence
          /\ \/ /\ ~batch.complete
                /\ staged' = next
                /\ found' = IF next.cursor.sequence >= incoming.sequence
                              THEN incoming ELSE Nothing
                /\ UNCHANGED <<confirmed, pc, incoming, delivered, fault>>
             \/ /\ next.cursor.sequence >= incoming.sequence
                /\ confirmed' = next
                /\ delivered' = incoming
                /\ Return
                /\ UNCHANGED fault
      BY <1>4, RecoverGapIs
    <2> HIDE DEF next, batch
    <2>2. CASE /\ ~batch.complete
               /\ staged' = next
               /\ found' = IF next.cursor.sequence >= incoming.sequence
                             THEN incoming ELSE Nothing
               /\ UNCHANGED <<confirmed, pc, incoming, delivered, fault>>
      <3>1. next.cursor \in Cursors
        BY <2>1 DEF Snapshots
      <3>2. RecoveryIsOnTrack'
        BY <1>1, <1>2, <2>1, <2>2, <3>1
        DEF RecoveryIsOnTrack, IsMoment, HasSnapshot
      <3>3. /\ pc' \in Pcs /\ pc' # "first_snapshot"
            /\ found' \in Envelopes \cup {Nothing}
            /\ delivered' # Nothing => AtMost(delivered', confirmed'.cursor)
        BY <1>1, <1>2, <2>2 DEF Pcs
      <3> QED BY <1>1, <1>2, <2>1, <2>2, <3>2, <3>3, StepInv
    <2>3. CASE /\ next.cursor.sequence >= incoming.sequence
               /\ confirmed' = next
               /\ delivered' = incoming
               /\ Return
               /\ UNCHANGED fault
      <3>1. /\ pc' = "idle" /\ incoming' = Nothing /\ pc' \in Pcs
            /\ staged' \in Snapshots \cup {NoSnapshot}
            /\ found' \in Envelopes \cup {Nothing}
            /\ RecoveryIsOnTrack'
        BY <2>3 DEF Return, Pcs, RecoveryIsOnTrack
      <3>2. AtMost(delivered', confirmed'.cursor)
        BY <2>1, <2>3 DEF AtMost
      <3> QED BY <1>1, <1>2, <2>1, <2>3, <3>1, <3>2, StepInv
    <2> QED BY <2>1, <2>2, <2>3
  <1> QED BY <1>3, <1>4

\* Every step keeps the invariant.
LEMMA ClientNextInv == ClientInv /\ [Next]_vars => ClientInv'
  <1> SUFFICES ASSUME ClientInv, [Next]_vars PROVE ClientInv'
    OBVIOUS
  <1>1. CASE (\E f \in Facts : Emit(f)) \/ Restart
    <2>1. UNCHANGED clientVars
      BY <1>1 DEF Emit, Restart
    <2> QED BY <1>1, <2>1, SupervisorInv
  <1>2. CASE RecvHead \/ RecvReordered \/ RecvDuplicate \/ RecvGarbled
    BY <1>2, RecvInv
  <1>3. CASE Lose \/ Discover \/ FirstSnapshot \/ LoadSnapshot \/ Snapshot
                  \/ CallFails
    BY <1>3, OtherStepsInv
  <1>4. CASE RecoverGap
    BY <1>4, RecoverGapInv
  <1>5. CASE UNCHANGED vars
    <2>1. JournalInv'
      BY <1>5, JournalUnchangedInv DEF ClientInv, vars
    <2> QED BY <1>5, <2>1
        DEF ClientInv, vars, clientVars, journalVars, TypeOK, JournalInv,
            ConfirmedIsAMoment, DeliveredIsShown, RecoveryNeverErrs,
            ChanIsGenuine, IncomingIsGenuine, FirstHasNoView,
            DeliveredIsGenuine, RecoveryIsOnTrack, IsMoment, Genuine,
            HasSnapshot, AtMost
  <1> QED BY <1>1, <1>2, <1>3, <1>4, <1>5 DEF Next

\* The invariant holds in every state the stream and its client can reach.
THEOREM ClientInvariance == Spec => []ClientInv
  BY ClientInitInv, ClientNextInv, PTL DEF Spec

-----------------------------------------------------------------------------
\* What follows.

\* Type correctness of the journal, the transport and the client.
THEOREM TypeCorrect == Spec => []TypeOK
  <1>1. ClientInv => TypeOK
    BY DEF ClientInv
  <1> QED BY <1>1, ClientInvariance, PTL

\* The journal stays a bounded suffix of its stream.
THEOREM JournalSuffix == Spec => []JournalIsSuffix
  <1>1. ClientInv => JournalIsSuffix
    BY DEF ClientInv, JournalInv
  <1> QED BY <1>1, ClientInvariance, PTL

\* Every replay request the supervisor can be sent is answered exactly.
THEOREM ReplayExact == Spec => []ReplayIsExact
  <1>1. ClientInv => ReplayIsExact
    BY ReplayIsExactInv DEF ClientInv
  <1> QED BY <1>1, ClientInvariance, PTL

\* The client's view is always what some supervisor showed at some moment.
THEOREM ConfirmedMoment == Spec => []ConfirmedIsAMoment
  <1>1. ClientInv => ConfirmedIsAMoment
    BY DEF ClientInv
  <1> QED BY <1>1, ClientInvariance, PTL

\* What recv returned is already part of that view.
THEOREM DeliveredShown == Spec => []DeliveredIsShown
  <1>1. ClientInv => DeliveredIsShown
    BY DEF ClientInv
  <1> QED BY <1>1, ClientInvariance, PTL

\* recover_gap's own error branches are unreachable over this journal.
THEOREM RecoveryErrorFree == Spec => []RecoveryNeverErrs
  <1>1. ClientInv => RecoveryNeverErrs
    BY DEF ClientInv
  <1> QED BY <1>1, ClientInvariance, PTL

-----------------------------------------------------------------------------
\* What a step may never do.

\* Nothing is newer than the snapshot the supervisor would answer with now.
LEMMA SnapshotIsNewest ==
    ASSUME ClientInv
    PROVE  /\ AtMost(confirmed.cursor, SnapshotEnvelope.cursor)
           /\ delivered # Nothing => AtMost(delivered, SnapshotEnvelope.cursor)
  <1>1. /\ SnapshotEnvelope.cursor = Cursor(stream, Len(log[stream]))
        /\ stream \in Streams /\ log \in [Streams -> Seq(Facts)]
    BY SnapshotIsAMoment DEF ClientInv, JournalInv, JournalTypeOK
  <1>2. delivered # Nothing => AtMost(delivered, SnapshotEnvelope.cursor)
    BY <1>1 DEF ClientInv, DeliveredIsGenuine, Genuine, AtMost, Cursor,
       Envelopes, Streams
  <1>3. CASE HasSnapshot(confirmed)
    <2>1. IsMoment(confirmed)
      BY <1>3 DEF ClientInv, ConfirmedIsAMoment
    <2>2. log[confirmed.cursor.stream] \in Seq(Facts)
      BY <1>1, <2>1, BoundsAssumption DEF IsMoment, Streams
    <2> QED BY <1>1, <1>2, <2>1, <2>2 DEF IsMoment, AtMost, Cursor, Streams
  <1>4. CASE ~HasSnapshot(confirmed)
    BY <1>1, <1>2, <1>4 DEF HasSnapshot, Nothing, AtMost, Cursor, Streams
  <1> QED BY <1>3, <1>4

\* Dispatch only moves forward from the snapshot it starts with, and returns
\* only envelopes that come after it.
LEMMA DispatchForward ==
    ASSUME NEW c \in Snapshots, NEW e \in Envelopes, Dispatch(c, e)
    PROVE  /\ AtMost(c.cursor, confirmed'.cursor)
           /\ delivered' # delivered =>
                 /\ delivered' = e
                 /\ e.stream = c.cursor.stream
                 /\ e.sequence > c.cursor.sequence
  <1>1. /\ c.cursor.stream \in Nat /\ c.cursor.sequence \in Nat
        /\ e.stream \in Nat /\ e.sequence \in Nat
    BY DEF Snapshots, Cursors, Envelopes, Streams
  <1>2. CASE Classify(c.cursor, e) = "next" /\ confirmed' = Apply(c, e)
             /\ delivered' = e
    BY <1>1, <1>2 DEF Classify, Apply, CursorOf, Cursor, AtMost
  <1>3. CASE confirmed' = c /\ UNCHANGED delivered
    BY <1>1, <1>3 DEF AtMost
  <1> QED BY <1>2, <1>3 DEF Dispatch

\* The two order properties of one step.
LEMMA StepForward ==
    ASSUME ClientInv, [Next]_vars
    PROVE  /\ AtMost(confirmed.cursor, confirmed'.cursor)
           /\ delivered' # delivered =>
                 /\ AtMost(delivered, delivered')
                 /\ CursorOf(delivered) # CursorOf(delivered')
  <1> DEFINE Forward ==
         /\ AtMost(confirmed.cursor, confirmed'.cursor)
         /\ delivered' # delivered =>
               /\ AtMost(delivered, delivered')
               /\ CursorOf(delivered) # CursorOf(delivered')
  <1>1. /\ confirmed \in Snapshots \cup {NoSnapshot}
        /\ confirmed.cursor.stream \in Nat /\ confirmed.cursor.sequence \in Nat
        /\ delivered \in Envelopes \cup {Nothing}
        /\ delivered.stream \in Nat /\ delivered.sequence \in Nat
        /\ incoming \in Envelopes \cup {Nothing}
        /\ pc # "idle" => incoming \in Envelopes
        /\ delivered # Nothing => AtMost(delivered, confirmed.cursor)
        /\ JournalInv
    BY DEF ClientInv, TypeOK, DeliveredIsShown, IncomingIsGenuine, Genuine,
       Snapshots, NoSnapshot, Nothing, Cursors, Envelopes, Streams
  <1>2. ASSUME confirmed' = confirmed, delivered' = delivered
        PROVE  Forward
    BY <1>1, <1>2 DEF AtMost
  <1>3. ASSUME confirmed' = SnapshotEnvelope, delivered' = delivered
        PROVE  Forward
    BY <1>3, SnapshotIsNewest
  <1>4. ASSUME NEW c \in Snapshots, NEW e \in Envelopes, Dispatch(c, e),
               AtMost(confirmed.cursor, c.cursor),
               delivered # Nothing => AtMost(delivered, c.cursor)
        PROVE  Forward
    <2>1. /\ AtMost(c.cursor, confirmed'.cursor)
          /\ delivered' # delivered =>
                 /\ delivered' = e
                 /\ e.stream = c.cursor.stream
                 /\ e.sequence > c.cursor.sequence
      BY <1>4, DispatchForward
    <2>2. /\ c.cursor.stream \in Nat /\ c.cursor.sequence \in Nat
          /\ e.stream \in Nat /\ e.sequence \in Nat /\ e.stream > 0
      BY DEF Snapshots, Cursors, Envelopes, Streams
    <2>3. confirmed' \in Snapshots
      BY <1>4, SMTT(30) DEF Dispatch, Apply, Snapshots, CursorOf, Cursor, Cursors, Envelopes
    <2>4. confirmed'.cursor.stream \in Nat /\ confirmed'.cursor.sequence \in Nat
      BY <2>3 DEF Snapshots, Cursors, Streams
    <2>5. AtMost(confirmed.cursor, confirmed'.cursor)
      BY <1>1, <1>4, <2>1, <2>2, <2>4 DEF AtMost
    <2>6. ASSUME delivered' # delivered
          PROVE  /\ AtMost(delivered, delivered')
                 /\ CursorOf(delivered) # CursorOf(delivered')
      <3>1. CASE delivered = Nothing
        BY <1>1, <2>1, <2>2, <2>6, <3>1 DEF AtMost, Nothing, CursorOf, Cursor
      <3>2. CASE delivered # Nothing
        BY <1>1, <1>4, <2>1, <2>2, <2>6, <3>2 DEF AtMost, CursorOf, Cursor
      <3> QED BY <3>1, <3>2
    <2> QED BY <2>5, <2>6
  <1>5. ASSUME NEW e, NEW valid \in BOOLEAN, valid => Genuine(e),
               Receive(e, valid)
        PROVE  Forward
    <2>1. CASE UNCHANGED <<confirmed, delivered>>
      BY <1>2, <2>1
    <2>2. CASE Accepts(valid) /\ HasSnapshot(confirmed) /\ Dispatch(confirmed, e)
      <3>1. /\ e \in Envelopes /\ confirmed \in Snapshots
            /\ AtMost(confirmed.cursor, confirmed.cursor)
        BY <1>1, <1>5, <2>2
        DEF Accepts, Genuine, HasSnapshot, NoSnapshot, AtMost
      <3> QED BY <1>1, <1>4, <2>2, <3>1
    <2> QED BY <1>5, <2>1, <2>2 DEF Receive
  <1>6. CASE (\E f \in Facts : Emit(f)) \/ Restart \/ Lose \/ Discover
                  \/ CallFails
    BY <1>2, <1>6 DEF Emit, Restart, Lose, Discover, CallFails, clientVars
  <1>7. CASE RecvHead
    BY <1>5, <1>7, TransitIsGenuine DEF RecvHead
  <1>8. CASE RecvReordered
    <2>1. PICK i \in 2..Len(chan) : Receive(chan[i], TRUE)
      BY <1>8 DEF RecvReordered
    <2>2. i \in 1..Len(chan)
      BY DEF ClientInv, TypeOK
    <2>3. Genuine(chan[i])
      BY <2>2 DEF ClientInv, ChanIsGenuine
    <2> QED BY <1>5, <2>1, <2>3
  <1>9. CASE RecvDuplicate
    BY <1>5, <1>9, TransitIsGenuine DEF RecvDuplicate
  <1>10. CASE RecvGarbled
    BY <1>5, <1>10 DEF RecvGarbled
  <1>11. CASE FirstSnapshot
    <2>1. incoming \in Envelopes /\ Dispatch(SnapshotEnvelope, incoming)
      BY <1>1, <1>11 DEF FirstSnapshot
    <2> QED BY <1>1, <1>4, <2>1, SnapshotIsNewest, SnapshotIsAMoment
  <1>12. CASE LoadSnapshot \/ Snapshot
    BY <1>3, <1>12 DEF LoadSnapshot, Snapshot
  <1>13. CASE RecoverGap
    <2>1. CASE ~Replay(staged.cursor).ok
      <3>1. UNCHANGED <<confirmed, delivered>>
        BY <1>13, <2>1 DEF RecoverGap
      <3> QED BY <1>2, <3>1
    <2>2. CASE Replay(staged.cursor).ok
      <3> DEFINE next == ApplyAll(staged, Replay(staged.cursor).events)
      <3>1. /\ next \in Snapshots
            /\ next.cursor.stream = incoming.stream
            /\ confirmed.cursor.sequence <= next.cursor.sequence
            /\ \/ UNCHANGED <<confirmed, delivered>>
               \/ confirmed' = next /\ delivered' = incoming
        BY <1>13, <2>2, RecoverGapIs
      <3> HIDE DEF next
      <3>2. /\ confirmed.cursor.stream = incoming.stream
            /\ confirmed.cursor.sequence < incoming.sequence
            /\ incoming \in Envelopes
        BY <1>1, <1>13 DEF ClientInv, RecoveryIsOnTrack, RecoverGap
      <3>3. incoming.stream \in Nat \ {0} /\ incoming.sequence \in Nat \ {0}
        BY <3>2 DEF Envelopes, Streams
      <3>4. CASE UNCHANGED <<confirmed, delivered>>
        BY <1>2, <3>4
      <3>5. CASE confirmed' = next /\ delivered' = incoming
        <4>1. AtMost(confirmed.cursor, confirmed'.cursor)
          BY <3>1, <3>2, <3>5 DEF AtMost
        <4>2. CASE delivered = Nothing
          BY <1>1, <3>3, <3>5, <4>1, <4>2
          DEF AtMost, Nothing, CursorOf, Cursor
        <4>3. CASE delivered # Nothing
          BY <1>1, <3>2, <3>3, <3>5, <4>1, <4>3 DEF AtMost, CursorOf, Cursor
        <4> QED BY <4>2, <4>3
      <3> QED BY <3>1, <3>4, <3>5
    <2> QED BY <2>1, <2>2
  <1>14. CASE UNCHANGED vars
    BY <1>2, <1>14 DEF vars, clientVars
  <1> QED BY <1>6, <1>7, <1>8, <1>9, <1>10, <1>11, <1>12, <1>13, <1>14 DEF Next

\* The confirmed view never goes back.
THEOREM NeverRegresses == Spec => ConfirmedNeverRegresses
  <1>1. ClientInv /\ [Next]_vars
           => [AtMost(confirmed.cursor, confirmed'.cursor)]_vars
    BY StepForward
  <1> QED BY <1>1, ClientInvariance, PTL DEF Spec, ConfirmedNeverRegresses

\* recv's answers come in order, each at most once.
THEOREM InOrder == Spec => DeliveredInOrder
  <1>1. ClientInv /\ [Next]_vars
           => [delivered' # delivered =>
                 AtMost(delivered, delivered')
                 /\ CursorOf(delivered) # CursorOf(delivered')]_vars
    BY StepForward
  <1> QED BY <1>1, ClientInvariance, PTL DEF Spec, DeliveredInOrder

\* recover_gap publishes once, and only what closes the gap.
THEOREM RecoveryAtomic == Spec => RecoveryIsAtomic
  <1>1. ASSUME ClientInv, [Next]_vars, pc = "replay", confirmed' # confirmed
        PROVE  /\ confirmed'.cursor.stream = incoming.stream
               /\ confirmed'.cursor.sequence >= incoming.sequence
               /\ delivered' = incoming
    <2>1. RecoverGap
      BY <1>1 DEF Next, Emit, Restart, Lose, Discover, RecvHead, RecvReordered,
         RecvDuplicate, RecvGarbled, Receive, FirstSnapshot, LoadSnapshot,
         Snapshot, CallFails, vars, clientVars
    <2>2. Replay(staged.cursor).ok
      BY <1>1, <2>1 DEF RecoverGap
    <2> QED BY <1>1, <2>1, <2>2, RecoverGapIs
  <1>2. ClientInv /\ [Next]_vars =>
          [pc = "replay" /\ confirmed' # confirmed =>
             /\ confirmed'.cursor.stream = incoming.stream
             /\ confirmed'.cursor.sequence >= incoming.sequence
             /\ delivered' = incoming]_vars
    BY <1>1
  <1> QED BY <1>2, ClientInvariance, PTL DEF Spec, RecoveryIsAtomic

-----------------------------------------------------------------------------
\* The abstract replicated view.

\* The journal changes only by Emit and Restart.
LEMMA ClientLeavesJournal ==
    ASSUME Next, ~\E f \in Facts : Emit(f), ~Restart
    PROVE  UNCHANGED journalVars
  BY DEF Next, Lose, Discover, RecvHead, RecvReordered, RecvDuplicate,
     RecvGarbled, Receive, FirstSnapshot, LoadSnapshot, Snapshot, RecoverGap,
     CallFails

\* Every step of the stream and its client is a step of the abstract view,
\* or leaves it as it is.
THEOREM Implements == Spec => AbstractSpec
  <1>1. Init => Abstract!Init
    BY DEF Init, JournalInit, Abstract!Init, Abstract!Nothing, NoSnapshot,
       Nothing, Streams, Abstract!Streams
  <1>2. ASSUME ClientInv, ClientInv', [Next]_vars
        PROVE  [Abstract!Next]_(Abstract!vars)
    <2>1. CASE \E f \in Facts : Emit(f)
      BY <2>1 DEF Emit, Record, clientVars, Abstract!Next, Abstract!Publish
    <2>2. CASE Restart
      BY <2>2 DEF Restart, StartSupervisor, clientVars, Abstract!Next,
         Abstract!StartSupervisor
    <2>3. CASE UNCHANGED vars
      BY <2>3 DEF vars, journalVars, clientVars, Abstract!vars
    <2>4. CASE Next /\ ~(\E f \in Facts : Emit(f)) /\ ~Restart
      <3>1. stream' = stream /\ log' = log
        BY <2>4, ClientLeavesJournal DEF journalVars
      <3>2. CASE confirmed' = confirmed
        BY <3>1, <3>2 DEF Abstract!vars
      <3>3. CASE confirmed' # confirmed
        <4> DEFINE s == confirmed'.cursor.stream
                   n == confirmed'.cursor.sequence
        <4>1. AtMost(confirmed.cursor, confirmed'.cursor)
          BY <1>2, StepForward
        <4>2. /\ confirmed.cursor.stream \in Nat
              /\ confirmed.cursor.sequence \in Nat
              /\ confirmed.cursor.stream = 0 => confirmed = NoSnapshot
          BY <1>2 DEF ClientInv, TypeOK, Snapshots, NoSnapshot, Nothing,
             Cursors, Streams
        <4>3. confirmed' \in Snapshots /\ IsMoment(confirmed)'
          <5>1. confirmed' \in Snapshots \cup {NoSnapshot}
            BY <1>2 DEF ClientInv, TypeOK
          <5>2. CASE confirmed' = NoSnapshot
            BY <3>3, <4>1, <4>2, <5>2 DEF NoSnapshot, Nothing, AtMost
          <5>3. CASE confirmed' \in Snapshots
            <6>1. HasSnapshot(confirmed)'
              BY <5>3 DEF Snapshots, Cursors, Streams, HasSnapshot, Nothing
            <6> QED BY <1>2, <5>3, <6>1 DEF ClientInv, ConfirmedIsAMoment
          <5> QED BY <5>1, <5>2, <5>3
        <4>4. /\ s \in Streams /\ s <= stream
              /\ n \in 0..Len(log[s])
              /\ confirmed'.view = SubSeq(log[s], 1, n)
          BY <3>1, <4>3 DEF IsMoment, Snapshots, Cursors, Streams
        <4>5. confirmed' = Abstract!ViewAt(s, n)
          BY <4>3, <4>4 DEF Abstract!ViewAt, Snapshots, Cursors
        <4>6. s >= confirmed.cursor.stream
              /\ (s = confirmed.cursor.stream => n >= confirmed.cursor.sequence)
          BY <4>1, <4>2, <4>4 DEF AtMost, Streams
        <4> HIDE DEF s, n
        <4>7. Abstract!Advance
          BY <3>1, <4>4, <4>5, <4>6
          DEF Abstract!Advance, Abstract!Streams, Streams
        <4> QED BY <4>7 DEF Abstract!Next
      <3> QED BY <3>2, <3>3
    <2> QED BY <1>2, <2>1, <2>2, <2>3, <2>4
  <1> QED BY <1>1, <1>2, ClientInvariance, PTL
      DEF Spec, AbstractSpec, Abstract!Spec
=============================================================================
