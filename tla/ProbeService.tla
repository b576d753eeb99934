---------------------------- MODULE ProbeService ----------------------------
(***************************************************************************)
(* What the probe scheduler promises, with queues, threads and messages    *)
(* left out: a probe command is refused or accepted; accepted commands for *)
(* one adapter share one handshake, and its end answers all of them and no *)
(* others; at most MaxProbes handshakes go on at a time, and no adapter    *)
(* that is asked for waits while there are fewer.                          *)
(***************************************************************************)
EXTENDS Integers, FiniteSets

CONSTANTS Adapters, Commands, MaxProbes

VARIABLES
    answer,  \* what each command was told last
    waiting, \* the accepted commands without an answer, by adapter
    busy     \* the adapters whose handshake is going on

vars == <<answer, waiting, busy>>

Init ==
    /\ answer = [c \in Commands |-> "none"]
    /\ waiting = [a \in Adapters |-> {}]
    /\ busy = {}

\* The adapters somebody waits for.
Wanted == {a \in Adapters : waiting[a] # {}}

\* Handshakes that did not end go on, and others begin as long as somebody
\* waits and there is room.
Reschedule(ended) ==
    /\ busy' \subseteq Wanted'
    /\ busy \ ended \subseteq busy'
    /\ Cardinality(busy') <= MaxProbes
    /\ Cardinality(busy') = MaxProbes \/ busy' = Wanted'

Refuse(c) ==
    /\ answer[c] = "none"
    /\ answer' = [answer EXCEPT ![c] = "refused"]
    /\ UNCHANGED <<waiting, busy>>

Accept(c, a) ==
    /\ answer[c] = "none"
    /\ answer' = [answer EXCEPT ![c] = "accepted"]
    /\ waiting' = [waiting EXCEPT ![a] = @ \cup {c}]
    /\ Reschedule({})

Conclude(a) ==
    /\ a \in busy
    /\ \E result \in {"shown", "rejected"} :
          answer' = [c \in Commands |->
                        IF c \in waiting[a] THEN result ELSE answer[c]]
    /\ waiting' = [waiting EXCEPT ![a] = {}]
    /\ Reschedule({a})

Next ==
    \/ \E c \in Commands : Refuse(c)
    \/ \E c \in Commands, a \in Adapters : Accept(c, a)
    \/ \E a \in Adapters : Conclude(a)

Spec == Init /\ [][Next]_vars
=============================================================================
