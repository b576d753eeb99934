---------------------------- MODULE EventJournal ----------------------------
(***************************************************************************)
(* The producer half of the front-end event stream: the bounded journal of *)
(* crates/runtime/src/event_journal.rs and the event bus of the runtime    *)
(* supervisor that feeds it.  One critical section records an event in the *)
(* journal, folds it into the live view and hands it to the channel, so    *)
(* the three are changed by one action here (Emit).                        *)
(*                                                                         *)
(* A view is abstracted to the sequence of facts folded into it: the       *)
(* reducer is deterministic, so two views built from one starting point    *)
(* are equal exactly when they folded the same facts in the same order.    *)
(***************************************************************************)
EXTENDS Integers, Sequences

CONSTANTS
    Facts,       \* what an event says, as far as a view can tell
    Capacity,    \* how many envelopes the journal retains
    ReplayLimit, \* most envelopes in one replay batch
    MaxStreams,  \* bound: supervisors started one after the other
    MaxEvents    \* bound: events recorded by one supervisor

ASSUME CapacityAssumption    == Capacity \in Nat \ {0}
ASSUME ReplayLimitAssumption == ReplayLimit \in Nat \ {0}
ASSUME BoundsAssumption      == MaxStreams \in Nat \ {0} /\ MaxEvents \in Nat

VARIABLES
    stream,  \* the stream id of the running supervisor, numbered in start order
    log,     \* history: log[s] is every fact recorded on stream s
    events,  \* the journal's retained envelopes, oldest first
    live     \* the live view: the facts folded into it

journalVars == <<stream, log, events, live>>

Streams == 1..MaxStreams

Cursor(s, n)      == [stream |-> s, sequence |-> n]
Envelope(s, n, f) == [stream |-> s, sequence |-> n, fact |-> f]

Cursors   == [stream : Streams, sequence : Nat]
Envelopes == [stream : Streams, sequence : Nat \ {0}, fact : Facts]

CursorOf(e) == Cursor(e.stream, e.sequence)

-----------------------------------------------------------------------------

\* The cursor of the newest retained envelope, or the initial cursor.
CurrentCursor ==
    IF events = <<>> THEN Cursor(stream, 0) ELSE CursorOf(events[Len(events)])

\* Mutant of Retain: record never drops the oldest envelope.
RetainAll(e) == Append(events, e)

\* The envelopes record keeps after it appended e: the oldest goes first.
Retain(e) ==
    Append(IF Len(events) = Capacity THEN Tail(events) ELSE events, e)

\* The retained envelopes newer than a sequence number; they are stored in
\* order, so the filter keeps a suffix.
Newer(after) ==
    LET old == CHOOSE k \in 0..Len(events) :
                 \A i \in 1..Len(events) :
                    (i <= k) <=> (events[i].sequence <= after)
    IN  SubSeq(events, old + 1, Len(events))

\* Everything one replay request can be answered with.
SnapshotRequired(reason) == [ok |-> FALSE, reason |-> reason]
Batch(es, next)          ==
    [ok |-> TRUE, events |-> es, next |-> next,
     complete |-> next.sequence = CurrentCursor.sequence]

\* Mutant of RetentionExpired: the envelope after the cursor has to be newer
\* than the oldest retained one.
RetentionExpiredEarly(after) ==
    events # <<>> /\ after.sequence < events[1].sequence

RetentionExpired(after) ==
    /\ events # <<>>
    /\ after.sequence < events[1].sequence - 1

\* RuntimeEventJournal::replay with the request's limit already clamped.
Replay(after) ==
    LET newer == Newer(after.sequence)
        es    == SubSeq(newer, 1, IF Len(newer) < ReplayLimit
                                  THEN Len(newer) ELSE ReplayLimit)
    IN  IF after.stream # stream
          THEN SnapshotRequired("stream_mismatch")
        ELSE IF after.sequence > CurrentCursor.sequence
          THEN SnapshotRequired("cursor_ahead")
        ELSE IF after.sequence = CurrentCursor.sequence
          THEN Batch(<<>>, CurrentCursor)
        ELSE IF RetentionExpired(after)
          THEN SnapshotRequired("retention_expired")
        ELSE Batch(es, IF es = <<>> THEN after ELSE CursorOf(es[Len(es)]))

\* Mutant of SnapshotEnvelope: the view of now under the cursor of the start.
SnapshotAtStart == [cursor |-> Cursor(stream, 0), view |-> live]

\* What a snapshot request is answered with: cursor and view, read together.
SnapshotEnvelope == [cursor |-> CurrentCursor, view |-> live]

-----------------------------------------------------------------------------

JournalInit ==
    /\ stream = 1
    /\ log = [s \in Streams |-> <<>>]
    /\ events = <<>>
    /\ live = <<>>

\* Mutant of NextEnvelope: sequence numbers start at zero.
EnvelopeFromZero(f) == Envelope(stream, Len(log[stream]), f)

\* The envelope the next recorded event f gets.
NextEnvelope(f) == Envelope(stream, CurrentCursor.sequence + 1, f)

\* The journal's part of emit_known_event.
Record(f) ==
    /\ Len(log[stream]) < MaxEvents
    /\ events' = Retain(NextEnvelope(f))
    /\ live' = Append(live, f)
    /\ log' = [log EXCEPT ![stream] = Append(@, f)]
    /\ UNCHANGED stream

\* A new supervisor: a fresh stream id, an empty journal, a view of its own.
StartSupervisor ==
    /\ stream < MaxStreams
    /\ stream' = stream + 1
    /\ events' = <<>>
    /\ live' = <<>>
    /\ UNCHANGED log

-----------------------------------------------------------------------------

JournalTypeOK ==
    /\ stream \in Streams
    /\ log \in [Streams -> Seq(Facts)]
    /\ events \in Seq(Envelopes)
    /\ live \in Seq(Facts)

\* How many facts of the running stream the journal has let go of.
Evicted == Len(log[stream]) - Len(events)

\* The journal holds the newest facts of its stream, each under the sequence
\* number of its place in the stream, and never more than its capacity: what
\* record's resequencing and pop_front together have to preserve.
JournalIsSuffix ==
    /\ Len(events) <= Capacity
    /\ Len(events) <= Len(log[stream])
    /\ Evicted > 0 => Len(events) = Capacity
    /\ \A i \in 1..Len(events) :
          events[i] = Envelope(stream, Evicted + i, log[stream][Evicted + i])

\* A snapshot pairs its cursor with exactly the facts recorded up to it.
SnapshotIsConsistent ==
    /\ live = log[stream]
    /\ CurrentCursor = Cursor(stream, Len(log[stream]))

\* The right answer to a replay request after cursor n of stream s: the facts
\* that follow, without a hole, as many as fit; complete only at the end of
\* the stream; a snapshot exactly when the journal cannot bridge to n.
ExactReplay(s, n) ==
    LET r    == Replay(Cursor(s, n))
        size == Len(log[stream])
    IN  /\ r.ok <=> s = stream /\ n <= size /\ n >= Evicted
        /\ r.ok =>
             /\ r.events \in Seq(Envelopes)
             /\ n + Len(r.events) <= size
             /\ \A i \in 1..Len(r.events) :
                   r.events[i] = Envelope(s, n + i, log[s][n + i])
             /\ Len(r.events) <= ReplayLimit
             /\ r.events = <<>> <=> n = size
             /\ r.next = Cursor(s, n + Len(r.events))
             /\ r.complete <=> n + Len(r.events) = size

\* Every replay request gets the right answer, whatever was evicted and
\* however the batch limit cuts the answer.
ReplayIsExact == \A s \in Streams, n \in 0..MaxEvents : ExactReplay(s, n)
=============================================================================
