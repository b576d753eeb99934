---------------------------- MODULE AdapterProbes ----------------------------
(***************************************************************************)
(* The adapter-probe scheduler of the supervisor's worker                  *)
(* (AgentAdapterProbes in crates/runtime/src/runtime_supervisor.rs) and    *)
(* the worker's two messages that drive it.  A probe is a handshake with a *)
(* subprocess on a thread of its own; its result comes back through the    *)
(* worker's command channel, behind whatever is queued there.              *)
(***************************************************************************)
EXTENDS Integers, Sequences, FiniteSets

CONSTANTS
    Adapters,  \* the adapter ids clients ask for
    Known,     \* those in the registry
    Commands,  \* bound: the probe commands sent
    MaxProbes  \* MAX_CONCURRENT_ADAPTER_PROBES

ASSUME KnownAssumption     == Known \subseteq Adapters
ASSUME MaxProbesAssumption == MaxProbes \in Nat \ {0}

VARIABLES
    open,    \* no client has dropped the supervisor
    sent,    \* the commands clients sent
    inbox,   \* the worker's command channel
    up,      \* the worker has not read Shutdown
    waiters, \* the accepted commands by adapter, in order; <<>> is no entry
    running, \* the adapters that hold a slot
    queued,  \* the adapters admitted but not started, in arrival order
    threads, \* how many handshake threads of an adapter are alive
    accepted,\* history: the accepted commands in order
    answer   \* what the event stream says of each command

vars == <<open, sent, inbox, up, waiters, running, queued, threads, accepted,
          answer>>

ProbeMessage(c, a)   == [type |-> "probe", adapter |-> a, command |-> c]
Probed(a, ok)        == [type |-> "probed", adapter |-> a, ok |-> ok]
Shutdown             == [type |-> "shutdown"]

-----------------------------------------------------------------------------
\* The scheduler's bookkeeping.

\* Mutant of HasSlot: one handshake too many.
HasSlotInclusive(r) == Cardinality(r) <= MaxProbes

HasSlot(r) == Cardinality(r) < MaxProbes

\* The adapter has an unfinished probe already.
Pending(a) == waiters[a] # <<>>

\* Mutant of Enqueue: the newest adapter is served first.
EnqueueFirst(a) == <<a>> \o queued

\* Mutant of Enqueue: a probe beyond the bound is dropped.
EnqueueNot(a) == queued

Enqueue(a) == Append(queued, a)

\* admit, and the thread submit starts when it answers TRUE.
Admit(a, c) ==
    /\ waiters' = [waiters EXCEPT ![a] = Append(@, c)]
    /\ \/ /\ Pending(a)
          /\ UNCHANGED <<running, queued, threads>>
       \/ /\ ~Pending(a)
          /\ HasSlot(running)
          /\ running' = running \cup {a}
          /\ threads' = [threads EXCEPT ![a] = @ + 1]
          /\ UNCHANGED queued
       \/ /\ ~Pending(a)
          /\ ~HasSlot(running)
          /\ queued' = Enqueue(a)
          /\ UNCHANGED <<running, threads>>

\* Of the first k queued adapters, those somebody still waits for.
Starting(left, k) == {i \in 1..k : left[queued[i]] # <<>>}

\* Mutant of Popped: a freed slot is left to the next command.
PoppedNone(free, left) == 0

\* How many adapters release takes off the queue: until the slots are full.
Popped(free, left) ==
    LET Filled(k) == free \cup {queued[i] : i \in Starting(left, k)}
    IN  CHOOSE k \in 0..Len(queued) :
           /\ k = Len(queued) \/ ~HasSlot(Filled(k))
           /\ \A j \in 0..(k - 1) : HasSlot(Filled(j))

\* release, and the threads finish starts for the adapters it admits.
Release(a) ==
    LET free  == running \ {a}
        left  == [waiters EXCEPT ![a] = <<>>]
        n     == Popped(free, left)
        start == Starting(left, n)
    IN  /\ waiters' = left
        /\ running' = free \cup {queued[i] : i \in start}
        /\ queued' = SubSeq(queued, n + 1, Len(queued))
        /\ threads' = [b \in Adapters |->
                          threads[b] + Cardinality({i \in start : queued[i] = b})]

-----------------------------------------------------------------------------

Init ==
    /\ open = TRUE
    /\ sent = {}
    /\ inbox = <<>>
    /\ up = TRUE
    /\ waiters = [a \in Adapters |-> <<>>]
    /\ running = {}
    /\ queued = <<>>
    /\ threads = [a \in Adapters |-> 0]
    /\ accepted = <<>>
    /\ answer = [c \in Commands |-> "none"]

\* A client asks for an adapter.
Send(c, a) ==
    /\ open
    /\ c \notin sent
    /\ sent' = sent \cup {c}
    /\ inbox' = Append(inbox, ProbeMessage(c, a))
    /\ UNCHANGED <<open, up, waiters, running, queued, threads, accepted, answer>>

\* The supervisor is dropped: nobody can send it anything any more.
SendShutdown ==
    /\ open
    /\ open' = FALSE
    /\ inbox' = Append(inbox, Shutdown)
    /\ UNCHANGED <<sent, up, waiters, running, queued, threads, accepted, answer>>

Receive(type) ==
    /\ up
    /\ inbox # <<>>
    /\ Head(inbox).type = type
    /\ inbox' = Tail(inbox)

RefuseProbe ==
    /\ Receive("probe")
    /\ Head(inbox).adapter \notin Known
    /\ answer' = [answer EXCEPT ![Head(inbox).command] = "refused"]
    /\ UNCHANGED <<open, sent, up, waiters, running, queued, threads, accepted>>

\* CommandAccepted is published before the probe is scheduled.
AcceptProbe ==
    /\ Receive("probe")
    /\ Head(inbox).adapter \in Known
    /\ answer' = [answer EXCEPT ![Head(inbox).command] = "accepted"]
    /\ accepted' = Append(accepted, Head(inbox).command)
    /\ Admit(Head(inbox).adapter, Head(inbox).command)
    /\ UNCHANGED <<open, sent, up>>

\* A handshake ends, by itself or by its timeout; it is an error only if the
\* adapter left the registry.
Handshake(a) ==
    /\ threads[a] > 0
    /\ threads' = [threads EXCEPT ![a] = @ - 1]
    /\ \E ok \in BOOLEAN : inbox' = Append(inbox, Probed(a, ok))
    /\ UNCHANGED <<open, sent, up, waiters, running, queued, accepted, answer>>

\* Mutant of Told: only the first command is answered.
ToldFirst(a) == {waiters[a][i] : i \in {1} \cap (1..Len(waiters[a]))}

\* Those a result is for: one fact for all, or a rejection for each.
Told(a) == {waiters[a][i] : i \in 1..Len(waiters[a])}

FinishProbe ==
    /\ Receive("probed")
    /\ answer' = [c \in Commands |->
                     IF c \notin Told(Head(inbox).adapter) THEN answer[c]
                     ELSE IF Head(inbox).ok THEN "shown" ELSE "rejected"]
    /\ Release(Head(inbox).adapter)
    /\ UNCHANGED <<open, sent, up, accepted>>

Stop ==
    /\ Receive("shutdown")
    /\ up' = FALSE
    /\ UNCHANGED <<open, sent, waiters, running, queued, threads, accepted,
                   answer>>

WorkerStep == RefuseProbe \/ AcceptProbe \/ FinishProbe \/ Stop

Next ==
    \/ \E c \in Commands, a \in Adapters : Send(c, a)
    \/ SendShutdown
    \/ WorkerStep
    \/ \E a \in Adapters : Handshake(a)

\* The worker reads its channel, and a handshake ends: its timeout sees to it.
Fairness == WF_vars(WorkerStep) /\ \A a \in Adapters : WF_vars(Handshake(a))

Spec     == Init /\ [][Next]_vars
FairSpec == Spec /\ Fairness

-----------------------------------------------------------------------------
\* Properties.

Answers  == {"none", "refused", "accepted", "shown", "rejected"}
Messages ==
    [type : {"probe"}, adapter : Adapters, command : Commands]
      \cup [type : {"probed"}, adapter : Adapters, ok : BOOLEAN]
      \cup {Shutdown}

\* Type correctness of the scheduler and its messages; an adapter has one
\* handshake thread at most, however often it is asked for.
TypeOK ==
    /\ open \in BOOLEAN
    /\ sent \subseteq Commands
    /\ inbox \in Seq(Messages)
    /\ up \in BOOLEAN
    /\ waiters \in [Adapters -> Seq(Commands)]
    /\ running \subseteq Adapters
    /\ queued \in Seq(Adapters)
    /\ threads \in [Adapters -> {0, 1}]
    /\ accepted \in Seq(Commands)
    /\ answer \in [Commands -> Answers]

Alive == {a \in Adapters : threads[a] > 0}

\* No more handshakes at a time than slots, counting the subprocesses
\* themselves and not the scheduler's own books.
HandshakesAreBounded == Cardinality(Alive) <= MaxProbes

InQueue == {queued[i] : i \in 1..Len(queued)}

\* Only full slots make an adapter wait.
NoIdleSlot == queued # <<>> => ~HasSlot(running)

\* A command that was accepted and not answered waits with its adapter, which
\* holds a slot with a handshake or its result, or has its place in the queue.
NobodyIsForgotten ==
    \A c \in Commands : answer[c] = "accepted" =>
       \E a \in Adapters :
          /\ c \in Told(a)
          /\ \/ a \in InQueue
             \/ a \in Alive
             \/ \E i \in 1..Len(inbox) :
                   inbox[i].type = "probed" /\ inbox[i].adapter = a

\* When the oldest command waiting for an adapter was accepted.
Since(a) == CHOOSE i \in 1..Len(accepted) : accepted[i] = waiters[a][1]

\* First come, first served: an adapter that has to wait was asked for after
\* every adapter that holds a slot, and after those queued before it.
ArrivalOrder ==
    /\ \A a \in running, b \in InQueue : Since(a) < Since(b)
    /\ \A i, j \in 1..Len(queued) : i < j => Since(queued[i]) < Since(queued[j])

\* Every accepted command is answered, unless the supervisor goes first.
AcceptedIsAnswered ==
    \A c \in Commands :
       answer[c] = "accepted" ~> (answer[c] \in {"shown", "rejected"} \/ ~up)

\* The scheduler implements the abstract probe service.
Service == INSTANCE ProbeService WITH
              waiting <- [a \in Adapters |-> Told(a)], busy <- running
ServiceSpec == Service!Spec
=============================================================================
