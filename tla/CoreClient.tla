----------------------------- MODULE CoreClient -----------------------------
(***************************************************************************)
(* The consumer half of the event stream: StatefulCoreClient of            *)
(* crates/core/src/client.rs over a CoreTransport, composed with the       *)
(* journal it reads.  recv is not atomic: between taking an envelope off   *)
(* the transport and answering its caller it makes snapshot and replay     *)
(* calls, and the supervisor goes on publishing, evicts envelopes, or is   *)
(* replaced between them.  Each such call is an action.                    *)
(*                                                                         *)
(* The transport is a trait.  LocalCoreTransport is a lossless FIFO on one *)
(* supervisor (Faults = {}); the client is written for transports that are *)
(* not, which Faults turns on one by one.                                  *)
(***************************************************************************)
EXTENDS EventJournal

CONSTANTS
    Faults \* what the transport may do, a subset of FaultKinds

FaultKinds == {"lose", "duplicate", "reorder", "garble", "fail", "restart"}

ASSUME FaultsAssumption == Faults \subseteq FaultKinds

VARIABLES
    chan,       \* envelopes in transit to the client
    handshake,  \* has discover been confirmed
    confirmed,  \* the confirmed snapshot: a cursor and the view at it
    pc,         \* the transport call recv is waiting for
    incoming,   \* the envelope recv is working on
    staged,     \* recover_gap's clone of the confirmed snapshot
    found,      \* the incoming envelope as recover_gap saw it in a batch
    delivered,  \* history: the last envelope recv returned
    fault       \* history: the protocol error recover_gap returned, if any

clientVars == <<handshake, confirmed, pc, incoming, staged, found, delivered,
                fault>>
vars == <<journalVars, chan, clientVars>>

Pcs == {"idle", "first_snapshot", "replay", "snapshot"}

ProtocolErrors == {"no_progress", "non_contiguous", "ended_early"}

Nothing    == [stream |-> 0, sequence |-> 0]
NoSnapshot == [cursor |-> Nothing, view |-> <<>>]
HasSnapshot(c) == c.cursor # Nothing

-----------------------------------------------------------------------------
\* Helpers of the client.

\* Mutants of Classify: anything newer is taken for the next envelope; the
\* stream is not looked at; an envelope of another stream is dropped as old.
ClassifyGapAsNext(cursor, e) ==
    IF cursor.stream # e.stream THEN "mismatch"
    ELSE IF e.sequence <= cursor.sequence THEN "old"
    ELSE "next"

ClassifyAnyStream(cursor, e) ==
    CASE e.sequence <= cursor.sequence    -> "old"
      [] e.sequence = cursor.sequence + 1 -> "next"
      [] OTHER                            -> "gap"

ClassifyMismatchAsOld(cursor, e) ==
    CASE cursor.stream # e.stream \/ e.sequence <= cursor.sequence -> "old"
      [] cursor.stream = e.stream /\ e.sequence = cursor.sequence + 1 -> "next"
      [] OTHER                                                      -> "gap"

\* EventCursor::classify_incoming.
Classify(cursor, e) ==
    CASE cursor.stream # e.stream           -> "mismatch"
      [] cursor.stream = e.stream /\ e.sequence <= cursor.sequence -> "old"
      [] cursor.stream = e.stream /\ e.sequence = cursor.sequence + 1 -> "next"
      [] OTHER                              -> "gap"

\* validate_event_envelope: valid stands for a supported schema version and
\* an event that carries the sequence number of its cursor.
Accepts(valid) == valid

\* Mutants of Apply and ApplyAll: the cursor stays; the batch is not folded.
ApplyKeepCursor(c, e) == [cursor |-> c.cursor, view |-> Append(c.view, e.fact)]

ApplyAllCursorOnly(c, es) ==
    [cursor |-> IF es = <<>> THEN c.cursor ELSE CursorOf(es[Len(es)]),
     view   |-> c.view]

\* apply_envelope_to, for one envelope and for a batch of them.
Apply(c, e) == [cursor |-> CursorOf(e), view |-> Append(c.view, e.fact)]
ApplyAll(c, es) ==
    [cursor |-> IF es = <<>> THEN c.cursor ELSE CursorOf(es[Len(es)]),
     view   |-> c.view \o [i \in 1..Len(es) |-> es[i].fact]]

\* validate_replay_batch: every envelope is the next one, and the batch's own
\* cursor is where they lead.
Contiguous(after, batch) ==
    /\ \A i \in 1..Len(batch.events) :
          Classify(IF i = 1 THEN after ELSE CursorOf(batch.events[i - 1]),
                   batch.events[i]) = "next"
    /\ batch.next = IF batch.events = <<>>
                      THEN after ELSE CursorOf(batch.events[Len(batch.events)])

\* Mutants of Find: earlier batches are forgotten; the newest envelope wins.
FindInBatch(e, es, before) ==
    IF \E i \in 1..Len(es) : CursorOf(es[i]) = CursorOf(e) THEN e ELSE Nothing

FindNewest(e, es, before) == IF es = <<>> THEN before ELSE es[Len(es)]

\* The envelope of a batch that has e's cursor, or what was found before.
Find(e, es, before) ==
    IF \E i \in 1..Len(es) : CursorOf(es[i]) = CursorOf(e)
      THEN es[CHOOSE i \in 1..Len(es) : CursorOf(es[i]) = CursorOf(e)]
      ELSE before

-----------------------------------------------------------------------------

Init ==
    /\ JournalInit
    /\ chan = <<>>
    /\ handshake = FALSE
    /\ confirmed = NoSnapshot
    /\ pc = "idle"
    /\ incoming = Nothing
    /\ staged = NoSnapshot
    /\ found = Nothing
    /\ delivered = Nothing
    /\ fault = "none"

\* The supervisor emits an event: recorded, folded and sent in one section.
Emit(f) ==
    /\ Record(f)
    /\ chan' = Append(chan, NextEnvelope(f))
    /\ UNCHANGED clientVars

\* The supervisor is replaced; what is in transit stays in transit.
Restart ==
    /\ "restart" \in Faults
    /\ StartSupervisor
    /\ UNCHANGED <<chan, clientVars>>

\* The transport loses an envelope.
Lose ==
    /\ "lose" \in Faults
    /\ chan # <<>>
    /\ chan' = Tail(chan)
    /\ UNCHANGED <<journalVars, clientVars>>

Discover ==
    /\ pc = "idle"
    /\ ~handshake
    /\ handshake' = TRUE
    /\ UNCHANGED <<journalVars, chan, confirmed, pc, incoming, staged, found,
                   delivered, fault>>

\* recv goes back to its caller, having forgotten what it was working on.
Return ==
    /\ pc' = "idle"
    /\ incoming' = Nothing
    /\ staged' = NoSnapshot
    /\ found' = Nothing

\* The tail of recv: c is the confirmed snapshot, e the validated envelope.
Dispatch(c, e) ==
    \/ /\ Classify(c.cursor, e) = "old"
       /\ confirmed' = c
       /\ UNCHANGED delivered
       /\ Return
    \/ /\ Classify(c.cursor, e) = "next"
       /\ confirmed' = Apply(c, e)
       /\ delivered' = e
       /\ Return
    \/ /\ Classify(c.cursor, e) = "gap"
       /\ confirmed' = c
       /\ pc' = "replay"
       /\ incoming' = e
       /\ staged' = c
       /\ found' = Nothing
       /\ UNCHANGED delivered
    \/ /\ Classify(c.cursor, e) = "mismatch"
       /\ confirmed' = c
       /\ pc' = "snapshot"
       /\ incoming' = e
       /\ UNCHANGED <<staged, found, delivered>>

\* The head of recv, for an envelope the transport hands over.
Receive(e, valid) ==
    /\ pc = "idle"
    /\ handshake
    /\ \/ /\ ~Accepts(valid)
          /\ UNCHANGED <<confirmed, pc, incoming, staged, found, delivered>>
       \/ /\ Accepts(valid)
          /\ ~HasSnapshot(confirmed)
          /\ pc' = "first_snapshot"
          /\ incoming' = e
          /\ UNCHANGED <<confirmed, staged, found, delivered>>
       \/ /\ Accepts(valid)
          /\ HasSnapshot(confirmed)
          /\ Dispatch(confirmed, e)
    /\ UNCHANGED <<journalVars, handshake, fault>>

Without(i) == SubSeq(chan, 1, i - 1) \o SubSeq(chan, i + 1, Len(chan))

\* recv takes the oldest envelope in transit.
RecvHead ==
    /\ chan # <<>>
    /\ chan' = Tail(chan)
    /\ Receive(chan[1], TRUE)

\* recv takes an envelope that overtook others, or one that will come again.
RecvReordered ==
    /\ "reorder" \in Faults
    /\ \E i \in 2..Len(chan) : chan' = Without(i) /\ Receive(chan[i], TRUE)

RecvDuplicate ==
    /\ "duplicate" \in Faults
    /\ chan # <<>>
    /\ UNCHANGED chan
    /\ Receive(chan[1], TRUE)

\* recv takes an envelope whose cursor and event do not belong together.
RecvGarbled ==
    /\ "garble" \in Faults
    /\ chan # <<>>
    /\ chan' = Tail(chan)
    /\ \E n \in 1..MaxEvents, f \in Facts :
          Receive(Envelope(stream, n, f), FALSE)

\* load_snapshot_recovery for a client that has no snapshot yet; recv goes on
\* with the envelope it holds.
FirstSnapshot ==
    /\ pc = "first_snapshot"
    /\ Dispatch(SnapshotEnvelope, incoming)
    /\ UNCHANGED <<journalVars, chan, handshake, fault>>

\* load_snapshot_recovery after a stream mismatch or when replay cannot help.
LoadSnapshot ==
    /\ pc = "snapshot"
    /\ confirmed' = SnapshotEnvelope
    /\ Return
    /\ UNCHANGED <<journalVars, chan, handshake, delivered, fault>>

\* The caller asks for a snapshot itself.
Snapshot ==
    /\ pc = "idle"
    /\ handshake
    /\ confirmed' = SnapshotEnvelope
    /\ UNCHANGED <<journalVars, chan, handshake, pc, incoming, staged, found,
                   delivered, fault>>

FailWith(error) ==
    /\ fault' = error
    /\ Return
    /\ UNCHANGED <<confirmed, delivered>>

\* One turn of recover_gap's loop: a replay call and what follows it.
RecoverGap ==
    /\ pc = "replay"
    /\ LET batch == Replay(staged.cursor)
           next  == ApplyAll(staged, batch.events)
           seen  == Find(incoming, batch.events, found)
       IN  \/ /\ ~batch.ok
              /\ pc' = "snapshot"
              /\ UNCHANGED <<confirmed, incoming, staged, found, delivered,
                             fault>>
           \/ /\ batch.ok
              /\ batch.events = <<>> /\ ~batch.complete
              /\ FailWith("no_progress")
           \/ /\ batch.ok
              /\ batch.events # <<>> \/ batch.complete
              /\ ~Contiguous(staged.cursor, batch)
              /\ FailWith("non_contiguous")
           \/ /\ batch.ok
              /\ batch.events # <<>> /\ ~batch.complete
              /\ Contiguous(staged.cursor, batch)
              /\ staged' = next
              /\ found' = seen
              /\ UNCHANGED <<confirmed, pc, incoming, delivered, fault>>
           \/ /\ batch.ok
              /\ batch.complete
              /\ Contiguous(staged.cursor, batch)
              /\ next.cursor.sequence < incoming.sequence \/ seen = Nothing
              /\ FailWith("ended_early")
           \/ /\ batch.ok
              /\ batch.complete
              /\ Contiguous(staged.cursor, batch)
              /\ next.cursor.sequence >= incoming.sequence /\ seen # Nothing
              /\ confirmed' = next
              /\ delivered' = seen
              /\ Return
              /\ UNCHANGED fault
    /\ UNCHANGED <<journalVars, chan, handshake>>

\* A snapshot or replay call fails; recv returns the error and keeps nothing.
CallFails ==
    /\ "fail" \in Faults
    /\ pc # "idle"
    /\ Return
    /\ UNCHANGED <<journalVars, chan, handshake, confirmed, delivered, fault>>

Next ==
    \/ \E f \in Facts : Emit(f)
    \/ Restart
    \/ Lose
    \/ Discover
    \/ RecvHead
    \/ RecvReordered
    \/ RecvDuplicate
    \/ RecvGarbled
    \/ FirstSnapshot
    \/ LoadSnapshot
    \/ Snapshot
    \/ RecoverGap
    \/ CallFails

\* A front end polls recv in its loop, and a call recv makes is answered.
Fairness ==
    /\ WF_vars(Discover)
    /\ WF_vars(RecvHead)
    /\ WF_vars(FirstSnapshot)
    /\ WF_vars(LoadSnapshot)
    /\ WF_vars(RecoverGap)

Spec     == Init /\ [][Next]_vars
FairSpec == Spec /\ Fairness

-----------------------------------------------------------------------------
\* Properties.

Snapshots == [cursor : Cursors, view : Seq(Facts)]

\* Type correctness of the stream and its client.
TypeOK ==
    /\ JournalTypeOK
    /\ chan \in Seq(Envelopes)
    /\ handshake \in BOOLEAN
    /\ confirmed \in Snapshots \cup {NoSnapshot}
    /\ pc \in Pcs
    /\ incoming \in Envelopes \cup {Nothing}
    /\ staged \in Snapshots \cup {NoSnapshot}
    /\ found \in Envelopes \cup {Nothing}
    /\ delivered \in Envelopes \cup {Nothing}
    /\ fault \in ProtocolErrors \cup {"none"}

\* c is what the supervisor of its stream showed at some moment.
IsMoment(c) ==
    /\ c.cursor.stream \in 1..stream
    /\ c.cursor.sequence \in 0..Len(log[c.cursor.stream])
    /\ c.view = SubSeq(log[c.cursor.stream], 1, c.cursor.sequence)

\* No envelope is ever folded twice, skipped or folded into the view of
\* another stream, whatever the transport and the journal did meanwhile.
ConfirmedIsAMoment == HasSnapshot(confirmed) => IsMoment(confirmed)

AtMost(a, b) ==
    \/ a.stream < b.stream
    \/ a.stream = b.stream /\ a.sequence <= b.sequence

\* What recv returned to its caller is already part of the confirmed view.
DeliveredIsShown ==
    delivered # Nothing =>
       /\ AtMost(delivered, confirmed.cursor)
       /\ delivered.fact = log[delivered.stream][delivered.sequence]

\* Against this journal, recover_gap's own error branches are unreachable:
\* every gap ends in a complete replay with the incoming envelope in it, or
\* in a snapshot.
RecoveryNeverErrs == fault = "none"

\* The confirmed view never goes back to an earlier cursor or stream.
ConfirmedNeverRegresses ==
    [][AtMost(confirmed.cursor, confirmed'.cursor)]_vars

\* recv returns no envelope twice and none after a newer one.
DeliveredInOrder ==
    [][delivered' # delivered =>
          AtMost(delivered, delivered') /\ CursorOf(delivered) # CursorOf(delivered')]_vars

\* recover_gap publishes nothing before the gap is closed: what it publishes
\* includes the envelope that showed the gap.
RecoveryIsAtomic ==
    [][pc = "replay" /\ confirmed' # confirmed =>
          /\ confirmed'.cursor.stream = incoming.stream
          /\ confirmed'.cursor.sequence >= incoming.sequence
          /\ delivered' = incoming]_vars

Shows(s, n) == AtMost(Cursor(s, n), confirmed.cursor)

\* Over a transport that loses nothing, what a supervisor publishes is shown,
\* unless a newer supervisor took its place.
PublishedIsShown ==
    \A s \in Streams, n \in 1..MaxEvents :
       (stream = s /\ Len(log[s]) >= n) ~> (Shows(s, n) \/ stream > s)

\* The stream and its client implement the abstract replicated view.
Abstract == INSTANCE ReplicatedView WITH replica <- confirmed
AbstractSpec == Abstract!Spec
=============================================================================
