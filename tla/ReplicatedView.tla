--------------------------- MODULE ReplicatedView ---------------------------
(***************************************************************************)
(* What the event stream and the core client promise together, with        *)
(* journals, batches, transports and recovery left out: a front end always *)
(* shows what some supervisor had published at some moment, and as it      *)
(* changes what it shows it never goes back, neither to an earlier moment  *)
(* of the same supervisor nor to an earlier supervisor.                    *)
(***************************************************************************)
EXTENDS Integers, Sequences

CONSTANTS Facts, MaxStreams

VARIABLES
    stream,  \* the running supervisor
    log,     \* log[s]: everything supervisor s has published
    replica  \* what the front end shows: a cursor, and the view at it

vars == <<stream, log, replica>>

Streams == 1..MaxStreams

ViewAt(s, n) ==
    [cursor |-> [stream |-> s, sequence |-> n], view |-> SubSeq(log[s], 1, n)]

Nothing == [cursor |-> [stream |-> 0, sequence |-> 0], view |-> <<>>]

Init ==
    /\ stream = 1
    /\ log = [s \in Streams |-> <<>>]
    /\ replica = Nothing

Publish ==
    /\ \E f \in Facts : log' = [log EXCEPT ![stream] = Append(@, f)]
    /\ UNCHANGED <<stream, replica>>

StartSupervisor ==
    /\ stream < MaxStreams
    /\ stream' = stream + 1
    /\ UNCHANGED <<log, replica>>

\* Catching up, by however much.
Advance ==
    /\ \E s \in Streams : \E n \in 0..Len(log[s]) :
          /\ s <= stream
          /\ s >= replica.cursor.stream
          /\ s = replica.cursor.stream => n >= replica.cursor.sequence
          /\ replica' = ViewAt(s, n)
    /\ UNCHANGED <<stream, log>>

Next == Publish \/ StartSupervisor \/ Advance

Spec == Init /\ [][Next]_vars
=============================================================================
