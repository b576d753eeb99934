--------------------------- MODULE SupervisorProofs ---------------------------
(***************************************************************************)
(* The safety of the supervisor for every set of owners and any bounds:    *)
(* an approval is settled at most once, the active-job registry is the     *)
(* work, an owner has one job at a time, and nothing queued runs behind a  *)
(* failure.  All of it rests on where a job is: the id a command was given *)
(* is in one place at a time, and never comes back to where it was.        *)
(***************************************************************************)
EXTENDS Supervisor, SequenceTheorems, FiniteSetTheorems, TLAPS

Jobs        == Ids \ {0}
NewTypes    == {"input", "retrieve", "mutate"}
ResumeTypes == {"resume_mutation", "resume_retrieval"}
JobTypes    == NewTypes \cup ResumeTypes
Messages ==
    [type : JobTypes, owner : Owners, id : Jobs]
        \cup [type : {"followup"}, owner : Owners, id : {0}]
        \cup [type : {"snapshot", "shutdown"}, owner : {NoOwner}, id : {0}]
        \cup [type : {"control"}, command : ControlCommands, id : 1..MaxControls]
Submissions == [epoch : 1..MaxControls, command : ControlCommands]
PermissionControls ==
    [applied : Values, submitted : Seq(Submissions), nextEpoch : 0..MaxControls]
Approvals ==
    [owner : Owners, job : Jobs, kind : Kinds, epoch : 0..MaxControls,
     pending : BOOLEAN, armed : BOOLEAN, shown : BOOLEAN, resolved : Nat,
     stale : BOOLEAN, answer : Answers]
Workers ==
    [pc : WorkerPcs, owner : Owners \cup {NoOwner}, job : Nat, entry : Nat,
     kind : Kinds, ask : Nat, ok : BOOLEAN]
Clients  == [pc : ClientPcs, job : Ids, asks : SUBSET (1..MaxAsks)]
Outcomes == {"none", "completed", "cancelled", "failed"}

\* Where the worker thread is at home, and where it works for an owner.
AtHome == {"idle", "commit", "reject", "stopped"}
Posted == WorkerPcs \ AtHome

Typed ==
    /\ control \in PermissionControls
    /\ engine \in EngineValues
    /\ inbox \in Seq(Messages)
    /\ jobs \in [Owners -> [id : Ids, ask : 0..MaxAsks]]
    /\ stopped \subseteq Jobs
    /\ asks \in Seq(Approvals)
    /\ worker \in Workers
    /\ queue \in [Owners -> Seq(Jobs)]
    /\ draining \subseteq Owners
    /\ outcome \in [Owners -> Outcomes]
    /\ retrievals \subseteq [job : Jobs, owner : Owners]
    /\ client \in Clients
    /\ nextId \in Ids

\* What the type of one variable says of another.
References ==
    /\ Len(asks) <= MaxAsks
    /\ \A o \in Owners : /\ jobs[o].ask <= Len(asks)
                         /\ jobs[o].id = 0 => jobs[o] = NoJob
    /\ worker.ask <= Len(asks)
    /\ worker.pc \in Posted => worker.owner \in Owners
    /\ worker.pc \in Posted \ {"drain"} => worker.job \in Jobs
    /\ client.asks \subseteq AskIds
    /\ client.pc = "flag" => client.job \in Jobs

-----------------------------------------------------------------------------
\* Where a job is: on its way to the worker, queued behind a turn, in the
\* worker's hands, waiting for an answer, on its way to be resumed, or run by
\* a retrieval thread.

Arrives(j) ==
    \E i \in 1..Len(inbox) : inbox[i].type \in NewTypes /\ inbox[i].id = j
Queues(j) == \E o \in Owners : \E n \in 1..Len(queue[o]) : queue[o][n] = j
Starts(j) == At("start") /\ worker.job = j
Turns(o, j) ==
    worker.pc \in InTurn /\ worker.kind = "turn" /\ worker.owner = o /\ worker.job = j
Claims(o, j) ==
    /\ worker.pc \in {"epoch", "claim", "insert"}
    /\ worker.kind # "turn"
    /\ worker.owner = o
    /\ worker.job = j
Waits(o, j) ==
    \E a \in AskIds : /\ asks[a].pending
                      /\ asks[a].kind # "turn"
                      /\ asks[a].owner = o
                      /\ asks[a].job = j
Resumes(o, j) ==
    \E i \in 1..Len(inbox) : /\ inbox[i].type \in ResumeTypes
                             /\ inbox[i].owner = o
                             /\ inbox[i].id = j
Retrieves(o, j) == [job |-> j, owner |-> o] \in retrievals

Fresh(j)      == Arrives(j) \/ Queues(j) \/ Starts(j)
InHand(o, j)  == Turns(o, j) \/ Claims(o, j)
AtWork(o, j)  == Waits(o, j) \/ Resumes(o, j) \/ Retrieves(o, j)

\* The claim went through: a mutation claims its job before it reads the
\* epoch, a retrieval after.
Claimed(o, j) ==
    /\ Claims(o, j)
    /\ At("insert") \/ (At("epoch") /\ worker.kind = "mutation")

\* Every id in use was handed out.
Numbered ==
    /\ \A j \in Jobs : Fresh(j) => j <= nextId
    /\ \A o \in Owners, j \in Jobs : InHand(o, j) \/ AtWork(o, j) => j <= nextId
    /\ \A a \in AskIds : asks[a].job <= nextId

\* No place holds a job twice.
InboxOnce ==
    \A i, k \in 1..Len(inbox) :
       /\ inbox[i].type \in JobTypes
       /\ inbox[k].type \in JobTypes
       /\ inbox[i].id = inbox[k].id
       => i = k

QueueOnce ==
    \A o, p \in Owners : \A n \in 1..Len(queue[o]), m \in 1..Len(queue[p]) :
       queue[o][n] = queue[p][m] => o = p /\ n = m

AsksOnce ==
    \A a, b \in AskIds :
       asks[a].job = asks[b].job =>
          a = b \/ (asks[a].kind = "turn" /\ asks[b].kind = "turn")

RetrievalsOnce == \A r, s \in retrievals : r.job = s.job => r = s

\* No two places hold the same job.
Apart(j) ==
    /\ ~(Arrives(j) /\ Queues(j)) /\ ~(Arrives(j) /\ Starts(j)) /\ ~(Queues(j) /\ Starts(j))
    /\ Fresh(j) => \A o \in Owners : ~AtWork(o, j) /\ ~InHand(o, j)
    /\ \A o, p \in Owners :
          /\ ~(Waits(o, j) /\ Resumes(p, j))
          /\ ~(Waits(o, j) /\ Retrieves(p, j))
          /\ ~(Resumes(o, j) /\ Retrieves(p, j))
          /\ ~(AtWork(o, j) /\ InHand(p, j))

\* A job that was prompted for is not new, and stays of its kind.
PromptedOnce ==
    \A a \in AskIds :
       /\ ~Fresh(asks[a].job)
       /\ \A o \in Owners :
             IF asks[a].kind = "turn"
               THEN ~AtWork(o, asks[a].job) /\ ~Claims(o, asks[a].job)
               ELSE ~Turns(o, asks[a].job)

Places ==
    /\ Numbered
    /\ InboxOnce
    /\ QueueOnce
    /\ AsksOnce
    /\ RetrievalsOnce
    /\ \A j \in Jobs : Apart(j)
    /\ PromptedOnce

-----------------------------------------------------------------------------
\* The approval the worker prompts for is the one of the job in its hands,
\* and nobody can have answered it before it is pending.
Prompting ==
    /\ worker.pc \in {"epoch", "claim", "insert", "announce", "await"} =>
          /\ worker.ask \in AskIds
          /\ asks[worker.ask].owner = worker.owner
          /\ asks[worker.ask].job = worker.job
          /\ asks[worker.ask].kind = worker.kind
    /\ worker.pc \in {"epoch", "claim", "insert"} =>
          /\ ~asks[worker.ask].pending
          /\ asks[worker.ask].resolved = 0
          /\ asks[worker.ask].answer = "none"
    /\ worker.kind # "turn" => worker.pc \in {"epoch", "claim", "insert", "announce"}
    /\ \A a \in AskIds : asks[a].pending => asks[a].answer = "none"

\* Work is in the registry, but for a turn one of whose prompts was denied.
Registered ==
    /\ \A o \in Owners, j \in Jobs : AtWork(o, j) \/ Claimed(o, j) => jobs[o].id = j
    /\ \A o \in Owners, j \in Jobs : Turns(o, j) => jobs[o].id = j \/ j \in DeniedTurns

\* What is in the registry is at work.
Backed ==
    \A o \in Owners :
       jobs[o].id # 0 =>
          \/ AtWork(o, jobs[o].id)
          \/ Turns(o, jobs[o].id)
          \/ Claimed(o, jobs[o].id)

\* A turn has its owner to itself, also when it is out of the registry.
Exclusive ==
    \A o \in Owners, j, k \in Jobs : ~(Turns(o, j) /\ AtWork(o, k))

\* A drain is armed, and begins, behind a completed turn only.
DrainsBehindSuccess ==
    /\ \A o \in draining : outcome[o] = "completed"
    /\ At("drain") => outcome[worker.owner] = "completed"

\* The inductive invariant.
SupervisorInv ==
    /\ Typed
    /\ References
    /\ Places
    /\ Prompting
    /\ SettledOnce
    /\ Registered
    /\ Backed
    /\ Exclusive
    /\ DrainsBehindSuccess

-----------------------------------------------------------------------------
\* Records and the registry.

LEMMA Constants ==
    /\ Jobs \subseteq Nat /\ Jobs \subseteq Ids /\ 0 \in Ids /\ Ids \subseteq Nat
    /\ \A j \in Jobs : j # 0
    /\ MaxIds \in Nat /\ MaxAsks \in Nat /\ MaxControls \in Nat
    /\ NoJob \in [id : Ids, ask : 0..MaxAsks] /\ NoJob.id = 0 /\ NoJob.ask = 0
    /\ Idle \in Workers /\ Idle.pc = "idle" /\ Idle.kind = "turn" /\ Idle.ask = 0
    /\ Ready \in Clients /\ Ready.pc = "ready" /\ Ready.asks = {}
BY SupervisorBounds DEF Jobs, Ids, NoJob, Idle, Workers, WorkerPcs, Kinds, Ready, Clients, ClientPcs

\* Acquire, Mark and Clear, one entry at a time.
LEMMA Acquiring ==
    ASSUME jobs \in [Owners -> [id : Ids, ask : 0..MaxAsks]],
           NEW o \in Owners, NEW j \in Jobs, NEW a \in 0..MaxAsks,
           jobs' = Acquire(o, j, a)
    PROVE  /\ jobs' \in [Owners -> [id : Ids, ask : 0..MaxAsks]]
           /\ jobs'[o].id = j /\ jobs'[o].ask = a
           /\ \A p \in Owners : p # o => jobs'[p] = jobs[p]
BY Constants DEF Acquire

LEMMA Marking ==
    ASSUME jobs \in [Owners -> [id : Ids, ask : 0..MaxAsks]],
           NEW j \in Jobs, NEW a \in 0..MaxAsks,
           jobs' = Mark(j, a)
    PROVE  /\ jobs' \in [Owners -> [id : Ids, ask : 0..MaxAsks]]
           /\ \A p \in Owners : /\ jobs'[p].id = jobs[p].id
                                /\ jobs'[p].ask \in {jobs[p].ask, a}
                                /\ jobs[p].id = 0 => jobs'[p] = jobs[p]
BY Constants DEF Mark

LEMMA Clearing ==
    ASSUME jobs \in [Owners -> [id : Ids, ask : 0..MaxAsks]],
           NEW j \in Jobs,
           jobs' = Clear(j)
    PROVE  /\ jobs' \in [Owners -> [id : Ids, ask : 0..MaxAsks]]
           /\ \A p \in Owners : /\ jobs[p].id = j => jobs'[p] = NoJob
                                /\ jobs[p].id # j => jobs'[p] = jobs[p]
BY Constants DEF Clear

\* The worker moves on, begins something, or is idle again.
LEMMA Going ==
    ASSUME worker \in Workers, NEW pc \in WorkerPcs, Goto(pc)
    PROVE  /\ worker' \in Workers
           /\ worker'.pc = pc
           /\ worker'.owner = worker.owner /\ worker'.job = worker.job
           /\ worker'.entry = worker.entry /\ worker'.kind = worker.kind
           /\ worker'.ask = worker.ask /\ worker'.ok = worker.ok
BY DEF Goto, Workers

LEMMA Ending ==
    ASSUME worker \in Workers, NEW ok \in BOOLEAN, EndTurn(ok)
    PROVE  /\ worker' \in Workers
           /\ worker'.pc = "close"
           /\ worker'.owner = worker.owner /\ worker'.job = worker.job
           /\ worker'.kind = worker.kind /\ worker'.ask = worker.ask
BY DEF EndTurn, Workers, WorkerPcs

LEMMA Beginning ==
    ASSUME NEW pc \in WorkerPcs, NEW o \in Owners \cup {NoOwner}, NEW j \in Nat,
           NEW e \in Nat, Begin(pc, o, j, e)
    PROVE  /\ worker' \in Workers
           /\ worker'.pc = pc /\ worker'.owner = o /\ worker'.job = j
           /\ worker'.kind = "turn" /\ worker'.ask = 0
BY DEF Begin, Idle, Workers, Kinds

\* A prompt adds an approval, and the worker goes on with it.
LEMMA Prompted ==
    ASSUME asks \in Seq(Approvals), worker \in Workers,
           NEW o \in Owners, NEW j \in Jobs, NEW kind \in Kinds,
           Prompt(o, j, kind)
    PROVE  /\ asks' \in Seq(Approvals) /\ Len(asks') <= MaxAsks
           /\ Len(asks) \in Nat /\ Len(asks') = Len(asks) + 1
           /\ \A a \in AskIds : a \in AskIds' /\ asks'[a] = asks[a]
           /\ asks'[Len(asks')] = NewAsk(o, j, kind)
           /\ worker' \in Workers
           /\ worker'.pc = (IF kind = "mutation" THEN "claim" ELSE "epoch")
           /\ worker'.owner = o /\ worker'.job = j /\ worker'.kind = kind
           /\ worker'.ask = Len(asks')
<1>1. NewAsk(o, j, kind) \in Approvals
  BY SupervisorBounds DEF NewAsk, Approvals, Answers
<1>2. /\ asks' = Append(asks, NewAsk(o, j, kind)) /\ Len(asks) < MaxAsks
      /\ worker' = [worker EXCEPT
          !.pc = IF kind = "mutation" THEN "claim" ELSE "epoch",
          !.owner = o, !.job = j, !.kind = kind, !.ask = Len(asks')]
  BY DEF Prompt
<1>3. /\ asks' \in Seq(Approvals)
      /\ Len(asks) \in Nat /\ Len(asks') = Len(asks) + 1
      /\ \A a \in AskIds : a \in AskIds' /\ asks'[a] = asks[a]
      /\ asks'[Len(asks')] = NewAsk(o, j, kind)
  BY <1>1, <1>2 DEF AskIds
<1>4. Len(asks') <= MaxAsks /\ Len(asks') \in Nat
  BY <1>2, <1>3, SupervisorBounds
<1>5. /\ worker' \in Workers
      /\ worker'.pc = (IF kind = "mutation" THEN "claim" ELSE "epoch")
      /\ worker'.owner = o /\ worker'.job = j /\ worker'.kind = kind
      /\ worker'.ask = Len(asks')
  <2> DEFINE pc == IF kind = "mutation" THEN "claim" ELSE "epoch"
             ask == Len(asks')
  <2>1. pc \in WorkerPcs /\ ask \in Nat
    BY <1>4 DEF WorkerPcs
  <2>2. worker' = [worker EXCEPT !.pc = pc, !.owner = o, !.job = j, !.kind = kind, !.ask = ask]
    BY <1>2
  <2> HIDE DEF pc, ask
  <2>3. worker' = [pc |-> pc, owner |-> o, job |-> j, entry |-> worker.entry,
                   kind |-> kind, ask |-> ask, ok |-> worker.ok]
    BY <2>2 DEF Workers
  <2>4. worker' \in Workers
    BY <2>1, <2>3, Constants DEF Workers
  <2> QED
    BY <2>3, <2>4 DEF pc, ask
<1> QED
  BY <1>3, <1>4, <1>5

\* Settling an approval changes that approval only, and what it is about
\* stays.
LEMMA Settling ==
    ASSUME asks \in Seq(Approvals), NEW a \in AskIds, NEW d \in Answers, Settle(a, d)
    PROVE  /\ asks' \in Seq(Approvals) /\ Len(asks') = Len(asks) /\ AskIds' = AskIds
           /\ \A b \in AskIds : b # a => asks'[b] = asks[b]
           /\ asks'[a].owner = asks[a].owner /\ asks'[a].job = asks[a].job
           /\ asks'[a].kind = asks[a].kind /\ asks'[a].pending = FALSE
           /\ asks'[a].resolved = asks[a].resolved + 1
           /\ asks'[a].answer = (IF asks[a].answer = "none" THEN d ELSE asks[a].answer)
           /\ asks'[a].epoch = asks[a].epoch /\ asks'[a].stale = asks[a].stale
<1> DEFINE more   == asks[a].resolved + 1
           answer == IF asks[a].answer = "none" THEN d ELSE asks[a].answer
<1>1. asks[a] \in Approvals
  BY DEF AskIds
<1>2. more \in Nat /\ answer \in Answers
  BY <1>1 DEF Approvals
<1> DEFINE settled == [asks[a] EXCEPT !.pending = FALSE, !.shown = FALSE,
                                      !.resolved = more, !.answer = answer]
<1>3. asks' = [asks EXCEPT ![a] = settled]
  BY <1>1 DEF Settle, AskIds, Approvals
<1> HIDE DEF more, answer
<1>4. /\ settled \in Approvals
      /\ settled.owner = asks[a].owner /\ settled.job = asks[a].job
      /\ settled.kind = asks[a].kind /\ settled.pending = FALSE
      /\ settled.resolved = more /\ settled.answer = answer
      /\ settled.epoch = asks[a].epoch /\ settled.stale = asks[a].stale
  <2>1. settled = [asks[a] EXCEPT !.pending = FALSE, !.shown = FALSE,
                                  !.resolved = more, !.answer = answer]
    OBVIOUS
  <2> HIDE DEF settled
  <2> QED
    BY <1>1, <1>2, <2>1 DEF Approvals
<1> HIDE DEF settled
<1> QED
  BY <1>3, <1>4, ExceptSeq DEF AskIds, more, answer

-----------------------------------------------------------------------------
\* The channel and the queues.

LEMMA MessageFacts ==
    ASSUME NEW m \in Messages
    PROVE  /\ m.type \in JobTypes => m.owner \in Owners /\ m.id \in Jobs
           /\ m.type = "followup" => m.owner \in Owners
           /\ m.type = "control" => m.command \in ControlCommands /\ m.id \in Nat
           /\ m.type \in JobTypes \cup {"followup", "snapshot", "shutdown", "control"}
BY Constants DEF Messages, JobTypes, NewTypes, ResumeTypes

\* What is sent joins the channel at its end.
LEMMA Sending ==
    ASSUME inbox \in Seq(Messages), NEW m \in Messages, Send(m)
    PROVE  /\ inbox' \in Seq(Messages)
           /\ \A j : Arrives(j)' <=> Arrives(j) \/ (m.type \in NewTypes /\ m.id = j)
           /\ \A o, j : Resumes(o, j)' <=>
                 Resumes(o, j) \/ (m.type \in ResumeTypes /\ m.owner = o /\ m.id = j)
           /\ /\ InboxOnce
              /\ m.type \in JobTypes =>
                    ~Arrives(m.id) /\ \A o \in Owners : ~Resumes(o, m.id)
              => InboxOnce'
<1>1. /\ inbox' \in Seq(Messages)
      /\ Len(inbox) \in Nat /\ Len(inbox') = Len(inbox) + 1
      /\ inbox'[Len(inbox')] = m
      /\ \A i \in 1..Len(inbox) : inbox'[i] = inbox[i]
  BY DEF Send
<1>2. \A i \in 1..Len(inbox') : i = Len(inbox') \/ i \in 1..Len(inbox)
  BY <1>1
<1>3. \A i \in 1..Len(inbox) : i \in 1..Len(inbox')
  BY <1>1
<1>4. Len(inbox') \in 1..Len(inbox')
  BY <1>1
<1>5. \A j : Arrives(j)' <=> Arrives(j) \/ (m.type \in NewTypes /\ m.id = j)
  BY <1>1, <1>2, <1>3, <1>4 DEF Arrives
<1>6. \A o, j : Resumes(o, j)' <=>
                 Resumes(o, j) \/ (m.type \in ResumeTypes /\ m.owner = o /\ m.id = j)
  BY <1>1, <1>2, <1>3, <1>4 DEF Resumes
<1>7. ASSUME InboxOnce,
             m.type \in JobTypes => ~Arrives(m.id) /\ \A o \in Owners : ~Resumes(o, m.id)
      PROVE  InboxOnce'
  <2>1. ASSUME NEW i \in 1..Len(inbox), inbox[i].type \in JobTypes, m.type \in JobTypes
        PROVE  inbox[i].id # m.id
    <3>1. inbox[i] \in Messages
      OBVIOUS
    <3>2. inbox[i].owner \in Owners
      BY <2>1, <3>1, MessageFacts
    <3> QED
      BY <1>7, <2>1, <3>2 DEF Arrives, Resumes, JobTypes
  <2> QED
    BY <1>1, <1>2, <1>7, <2>1 DEF InboxOnce
<1> QED
  BY <1>1, <1>5, <1>6, <1>7

\* What is taken was the oldest message, and is nowhere else in the channel.
LEMMA Taking ==
    ASSUME inbox \in Seq(Messages), inbox # <<>>, inbox' = Tail(inbox), InboxOnce,
           NEW m, m = Head(inbox)
    PROVE  /\ inbox' \in Seq(Messages) /\ InboxOnce' /\ m \in Messages
           /\ m.type \in NewTypes => Arrives(m.id)
           /\ m.type \in ResumeTypes => Resumes(m.owner, m.id)
           /\ \A j : Arrives(j)' => Arrives(j)
           /\ \A o, j : Resumes(o, j)' => Resumes(o, j)
           /\ m.type \in JobTypes =>
                 ~Arrives(m.id)' /\ \A o : ~Resumes(o, m.id)'
           /\ \A o, j : Resumes(o, j) =>
                 Resumes(o, j)' \/ (m.type \in ResumeTypes
                                      /\ m.owner = o /\ m.id = j)
<1>1. /\ inbox' \in Seq(Messages) /\ m \in Messages
      /\ m = inbox[1] /\ 1 \in 1..Len(inbox)
      /\ Len(inbox) \in Nat /\ Len(inbox') = Len(inbox) - 1
      /\ \A i \in 1..Len(inbox') :
            i + 1 \in 1..Len(inbox) /\ i + 1 # 1 /\ inbox'[i] = inbox[i + 1]
      /\ \A i \in 1..Len(inbox) :
            i = 1 \/ (i - 1 \in 1..Len(inbox') /\ inbox'[i - 1] = inbox[i])
  OBVIOUS
<1>2. /\ \A j : Arrives(j)' => Arrives(j)
      /\ m.type \in NewTypes => Arrives(m.id)
  BY <1>1 DEF Arrives
<1>3. /\ \A o, j : Resumes(o, j)' => Resumes(o, j)
      /\ m.type \in ResumeTypes => Resumes(m.owner, m.id)
  BY <1>1 DEF Resumes
<1>4. InboxOnce'
  BY <1>1 DEF InboxOnce
<1>5. ASSUME m.type \in JobTypes
      PROVE  ~Arrives(m.id)' /\ \A o : ~Resumes(o, m.id)'
  <2>1. \A i \in 1..Len(inbox') :
           inbox'[i].type \in JobTypes => inbox'[i].id # m.id
    BY <1>1, <1>5 DEF InboxOnce
  <2> QED
    BY <2>1 DEF Arrives, Resumes, JobTypes
<1>6. \A o, j : Resumes(o, j) =>
                 Resumes(o, j)' \/ (m.type \in ResumeTypes
                                      /\ m.owner = o /\ m.id = j)
  BY <1>1 DEF Resumes
<1> QED
  BY <1>1, <1>2, <1>3, <1>4, <1>5, <1>6

\* An id joins the end of its owner's queue.
LEMMA Queueing ==
    ASSUME queue \in [Owners -> Seq(Jobs)], NEW o \in Owners, NEW id \in Jobs,
           queue' = [queue EXCEPT ![o] = Append(@, id)], QueueOnce, ~Queues(id)
    PROVE  /\ queue' \in [Owners -> Seq(Jobs)] /\ QueueOnce'
           /\ \A j : Queues(j)' => Queues(j) \/ j = id
<1>1. queue[o] \in Seq(Jobs) /\ queue' \in [Owners -> Seq(Jobs)]
  OBVIOUS
<1>2. \A p \in Owners : p # o => queue'[p] = queue[p]
  OBVIOUS
<1>3. queue'[o] = Append(queue[o], id)
  OBVIOUS
<1>4. /\ Len(queue[o]) \in Nat /\ Len(queue'[o]) = Len(queue[o]) + 1
      /\ \A n \in 1..Len(queue'[o]) :
            \/ n = Len(queue'[o]) /\ queue'[o][n] = id
            \/ n \in 1..Len(queue[o]) /\ queue'[o][n] = queue[o][n]
  BY <1>1, <1>3
<1>5. \A j : Queues(j)' => Queues(j) \/ j = id
  BY <1>2, <1>4 DEF Queues
<1>6. \A p \in Owners : \A n \in 1..Len(queue[p]) : queue[p][n] # id
  BY DEF Queues
<1>7. \A p \in Owners : \A n \in 1..Len(queue'[p]) :
         \/ p = o /\ n = Len(queue'[o]) /\ queue'[p][n] = id
         \/ n \in 1..Len(queue[p]) /\ queue'[p][n] = queue[p][n]
  BY <1>2, <1>4
<1>8. QueueOnce'
  BY <1>6, <1>7 DEF QueueOnce
<1> QED
  BY <1>1, <1>5, <1>8

\* The oldest id leaves its owner's queue.
LEMMA Dequeuing ==
    ASSUME queue \in [Owners -> Seq(Jobs)], NEW o \in Owners, queue[o] # <<>>,
           queue' = [queue EXCEPT ![o] = Tail(@)], QueueOnce,
           NEW id, id = Head(queue[o])
    PROVE  /\ queue' \in [Owners -> Seq(Jobs)] /\ QueueOnce'
           /\ id \in Jobs /\ Queues(id)
           /\ ~Queues(id)'
           /\ \A j : Queues(j)' => Queues(j)
<1>1. queue[o] \in Seq(Jobs) /\ queue' \in [Owners -> Seq(Jobs)]
  OBVIOUS
<1>2. \A p \in Owners : p # o => queue'[p] = queue[p]
  OBVIOUS
<1>3. queue'[o] = Tail(queue[o])
  OBVIOUS
<1>4. /\ id = queue[o][1] /\ 1 \in 1..Len(queue[o]) /\ id \in Jobs
      /\ \A n \in 1..Len(queue'[o]) :
            n + 1 \in 1..Len(queue[o]) /\ n + 1 # 1 /\ queue'[o][n] = queue[o][n + 1]
      /\ Len(queue'[o]) \in Nat
  BY <1>1, <1>3
<1>5. /\ Queues(id)
      /\ \A j : Queues(j)' => Queues(j)
  BY <1>2, <1>4 DEF Queues
<1>6. QueueOnce'
  <2>1. \A n, m \in 1..Len(queue'[o]) : queue'[o][n] = queue'[o][m] => n = m
    BY <1>4 DEF QueueOnce
  <2>2. \A p \in Owners : p # o =>
           \A n \in 1..Len(queue'[o]), m \in 1..Len(queue'[p]) : queue'[o][n] # queue'[p][m]
    BY <1>2, <1>4 DEF QueueOnce
  <2> QED
    BY <1>2, <2>1, <2>2 DEF QueueOnce
<1>7. ~Queues(id)'
  BY <1>2, <1>4 DEF Queues, QueueOnce
<1> QED
  BY <1>1, <1>4, <1>5, <1>6, <1>7

-----------------------------------------------------------------------------
\* Jobs stay apart when they only leave the places they are in, and when one
\* of them moves to a place nobody else has it in.

Leaves(j) ==
    /\ Arrives(j)' => Arrives(j)
    /\ Queues(j)' => Queues(j)
    /\ Starts(j)' => Starts(j)
    /\ \A o \in Owners :
          /\ Waits(o, j)' => Waits(o, j)
          /\ Resumes(o, j)' => Resumes(o, j)
          /\ Retrieves(o, j)' => Retrieves(o, j)
          /\ Claims(o, j)' => Claims(o, j)
          /\ Turns(o, j)' => Turns(o, j)

NoneTwice == InboxOnce /\ QueueOnce /\ AsksOnce /\ RetrievalsOnce

SameAsks ==
    /\ AskIds' = AskIds
    /\ \A a \in AskIds : /\ asks'[a].owner = asks[a].owner
                         /\ asks'[a].job = asks[a].job
                         /\ asks'[a].kind = asks[a].kind

LEMMA JobsOfAsks ==
    ASSUME asks \in Seq(Approvals)
    PROVE  \A a \in AskIds : /\ asks[a] \in Approvals
                             /\ asks[a].job \in Jobs
                             /\ asks[a].owner \in Owners
                             /\ asks[a].kind \in Kinds
<1>1. \A a \in AskIds : asks[a] \in Approvals
  BY DEF AskIds
<1> QED
  BY <1>1 DEF Approvals

LEMMA LeavesApart ==
    ASSUME NEW j \in Jobs, Apart(j), Leaves(j)
    PROVE  Apart(j)'
BY DEF Apart, Leaves, Fresh, AtWork, InHand

LEMMA LeavesNumbered ==
    ASSUME Numbered, nextId \in Nat, nextId' \in Nat, nextId <= nextId',
           NEW j \in Jobs, Leaves(j)
    PROVE  /\ Fresh(j)' => j <= nextId'
           /\ \A o \in Owners : InHand(o, j)' \/ AtWork(o, j)' => j <= nextId'
<1>1. Fresh(j)' => Fresh(j)
  BY DEF Leaves, Fresh
<1>2. \A o \in Owners : InHand(o, j)' \/ AtWork(o, j)' => InHand(o, j) \/ AtWork(o, j)
  BY DEF Leaves, InHand, AtWork
<1>3. j \in Nat
  BY Constants
<1> QED
  BY <1>1, <1>2, <1>3 DEF Numbered

\* PromptedOnce, for one job and the kind it was prompted for.
KeepsKind(j, kind) ==
    /\ ~Fresh(j)
    /\ \A o \in Owners : IF kind = "turn" THEN ~AtWork(o, j) /\ ~Claims(o, j)
                                          ELSE ~Turns(o, j)

LEMMA LeavesKind ==
    ASSUME NEW j \in Jobs, NEW kind, KeepsKind(j, kind), Leaves(j)
    PROVE  KeepsKind(j, kind)'
BY DEF KeepsKind, Leaves, Fresh, AtWork

LEMMA PromptedOnceIs == PromptedOnce <=> \A a \in AskIds : KeepsKind(asks[a].job, asks[a].kind)
BY DEF PromptedOnce, KeepsKind

\* Every job but `moved` only leaves places, and approvals were added for
\* `moved` only.
LEMMA PlacesMove ==
    ASSUME Places, asks \in Seq(Approvals), asks' \in Seq(Approvals),
           nextId \in Nat, nextId' \in Nat, nextId <= nextId',
           NEW moved \in Jobs, moved <= nextId',
           \A j \in Jobs : j # moved => Leaves(j),
           \A a \in AskIds' :
              \/ asks'[a].job = moved
              \/ /\ a \in AskIds
                 /\ asks'[a].job = asks[a].job
                 /\ asks'[a].kind = asks[a].kind,
           NoneTwice', Apart(moved)',
           \A a \in AskIds', kind \in Kinds :
              asks'[a].job = moved /\ asks'[a].kind = kind => KeepsKind(moved, kind)'
    PROVE  Places'
<1>1. \A j \in Jobs : Apart(j)'
  BY LeavesApart DEF Places
<1>2. Numbered'
  <2>1. \A j \in Jobs : Fresh(j)' => j <= nextId'
    BY LeavesNumbered DEF Places
  <2>2. \A o \in Owners, j \in Jobs : InHand(o, j)' \/ AtWork(o, j)' => j <= nextId'
    BY LeavesNumbered DEF Places
  <2>3. \A a \in AskIds' : asks'[a].job <= nextId'
    <3>1. \A a \in AskIds : asks[a].job \in Nat /\ asks[a].job <= nextId
      BY JobsOfAsks, Constants DEF Places, Numbered
    <3> QED
      BY <3>1
  <2> QED
    BY <2>1, <2>2, <2>3 DEF Numbered
<1>3. ASSUME NEW a \in AskIds', NEW j \in Jobs, NEW kind \in Kinds,
             asks'[a].job = j, asks'[a].kind = kind
      PROVE  KeepsKind(j, kind)'
  <2>1. CASE j = moved
    BY <1>3, <2>1
  <2>2. CASE j # moved
    <3>1. a \in AskIds /\ asks[a].job = j /\ asks[a].kind = kind
      BY <1>3, <2>2
    <3>2. KeepsKind(j, kind) /\ Leaves(j)
      BY <2>2, <3>1, PromptedOnceIs DEF Places
    <3> QED
      BY <3>2, LeavesKind
  <2> QED
    BY <2>1, <2>2
<1>4. PromptedOnce'
  <2>1. \A a \in AskIds' : asks'[a].job \in Jobs /\ asks'[a].kind \in Kinds
    <3>1. \A a \in AskIds' : asks'[a] \in Approvals
      BY DEF AskIds
    <3> QED
      BY <3>1 DEF Approvals
  <2>2. (\A a \in AskIds : KeepsKind(asks[a].job, asks[a].kind))'
    BY <1>3, <2>1
  <2> QED
    BY <2>2, PromptedOnceIs, PTL
<1> QED
  BY <1>1, <1>2, <1>4 DEF Places, NoneTwice

\* Every job only leaves places.
LEMMA PlacesShrink ==
    ASSUME Places, asks \in Seq(Approvals), SameAsks,
           nextId \in Nat, nextId' \in Nat, nextId <= nextId',
           \A j \in Jobs : Leaves(j),
           InboxOnce', QueueOnce', RetrievalsOnce'
    PROVE  Places'
<1>1. \A j \in Jobs : Apart(j)'
  BY LeavesApart DEF Places
<1>2. Numbered'
  <2>1. \A j \in Jobs : Fresh(j)' => j <= nextId'
    BY LeavesNumbered DEF Places
  <2>2. \A o \in Owners, j \in Jobs : InHand(o, j)' \/ AtWork(o, j)' => j <= nextId'
    BY LeavesNumbered DEF Places
  <2>3. \A a \in AskIds' : asks'[a].job <= nextId'
    <3>1. \A a \in AskIds : asks[a].job \in Nat /\ asks[a].job <= nextId
      BY JobsOfAsks, Constants DEF Places, Numbered
    <3> QED
      BY <3>1 DEF SameAsks
  <2> QED
    BY <2>1, <2>2, <2>3 DEF Numbered
<1>3. PromptedOnce'
  <2>1. ASSUME NEW a \in AskIds', NEW j \in Jobs, NEW kind \in Kinds,
               asks'[a].job = j, asks'[a].kind = kind
        PROVE  KeepsKind(j, kind)'
    <3>1. a \in AskIds /\ asks[a].job = j /\ asks[a].kind = kind
      BY <2>1 DEF SameAsks
    <3>2. KeepsKind(j, kind)
      BY <3>1, PromptedOnceIs DEF Places
    <3> QED
      BY <3>2, LeavesKind
  <2>2. \A a \in AskIds' : asks'[a].job \in Jobs /\ asks'[a].kind \in Kinds
    BY JobsOfAsks DEF SameAsks
  <2>3. (\A a \in AskIds : KeepsKind(asks[a].job, asks[a].kind))'
    BY <2>1, <2>2
  <2> QED
    BY <2>3, PromptedOnceIs, PTL
<1>4. AsksOnce'
  BY DEF SameAsks, AsksOnce, Places
<1> QED
  BY <1>1, <1>2, <1>3, <1>4 DEF Places

-----------------------------------------------------------------------------
\* What does not change leaves its jobs where they are.

LEMMA InboxStays ==
    ASSUME inbox' = inbox
    PROVE  /\ \A j : Arrives(j)' <=> Arrives(j)
           /\ \A o, j : Resumes(o, j)' <=> Resumes(o, j)
           /\ InboxOnce' <=> InboxOnce
BY DEF Arrives, Resumes, InboxOnce

LEMMA QueueStays ==
    ASSUME queue' = queue
    PROVE  /\ \A j : Queues(j)' <=> Queues(j)
           /\ QueueOnce' <=> QueueOnce
BY DEF Queues, QueueOnce

LEMMA RetrievalsStay ==
    ASSUME retrievals' = retrievals
    PROVE  /\ \A o, j : Retrieves(o, j)' <=> Retrieves(o, j)
           /\ RetrievalsOnce' <=> RetrievalsOnce
BY DEF Retrieves, RetrievalsOnce

LEMMA WorkerStays ==
    ASSUME worker' = worker
    PROVE  /\ \A j : Starts(j)' <=> Starts(j)
           /\ \A o, j : /\ Claims(o, j)' <=> Claims(o, j)
                        /\ Claimed(o, j)' <=> Claimed(o, j)
                        /\ Turns(o, j)' <=> Turns(o, j)
BY DEF Starts, Claims, Claimed, Turns, At

\* Approvals stay what they are about, and pending.
LEMMA AsksStay ==
    ASSUME SameAsks, \A a \in AskIds : asks'[a].pending = asks[a].pending
    PROVE  \A o, j : Waits(o, j)' <=> Waits(o, j)
BY DEF SameAsks, Waits

LEMMA DeniedStay ==
    ASSUME \A a \in AskIds : /\ a \in AskIds'
                             /\ asks'[a].job = asks[a].job
                             /\ asks'[a].kind = asks[a].kind
                             /\ asks[a].answer = "deny" => asks'[a].answer = "deny"
    PROVE  \A j : j \in DeniedTurns => j \in DeniedTurns'
BY DEF DeniedTurns

\* The work and the registry's ids stay.
LEMMA RegistryStays ==
    ASSUME Registered, Backed, Exclusive,
           jobs \in [Owners -> [id : Ids, ask : 0..MaxAsks]],
           \A o \in Owners : jobs'[o].id = jobs[o].id,
           \A o \in Owners, j \in Jobs :
              /\ AtWork(o, j)' <=> AtWork(o, j)
              /\ Turns(o, j)' <=> Turns(o, j)
              /\ Claimed(o, j)' <=> Claimed(o, j),
           \A j \in Jobs : j \in DeniedTurns => j \in DeniedTurns'
    PROVE  Registered' /\ Backed' /\ Exclusive'
<1>1. Registered'
  BY DEF Registered
<1>2. Exclusive'
  BY DEF Exclusive
<1>3. ASSUME NEW o \in Owners, NEW j \in Jobs, jobs'[o].id = j
      PROVE  AtWork(o, j)' \/ Turns(o, j)' \/ Claimed(o, j)'
  BY <1>3 DEF Backed, Jobs
<1>4. \A o \in Owners : jobs'[o].id # 0 => jobs'[o].id \in Jobs
  BY DEF Jobs
<1>5. Backed'
  BY <1>3, <1>4 DEF Backed
<1> QED
  BY <1>1, <1>2, <1>5

\* A job leaves the registry with its work, or as a turn that was denied.
LEMMA RegistryClears ==
    ASSUME Registered, Backed, Exclusive,
           jobs \in [Owners -> [id : Ids, ask : 0..MaxAsks]],
           NEW c \in Jobs, jobs' = Clear(c),
           \A o \in Owners, j \in Jobs : j # c =>
              /\ AtWork(o, j)' <=> AtWork(o, j)
              /\ Turns(o, j)' <=> Turns(o, j)
              /\ Claimed(o, j)' <=> Claimed(o, j),
           \A o \in Owners :
              /\ ~AtWork(o, c)' /\ ~Claimed(o, c)'
              /\ Turns(o, c)' => Turns(o, c) /\ c \in DeniedTurns',
           \A j \in Jobs : j \in DeniedTurns => j \in DeniedTurns'
    PROVE  Registered' /\ Backed' /\ Exclusive'
<1>1. \A p \in Owners : /\ jobs[p].id = c => jobs'[p] = NoJob
                        /\ jobs[p].id # c => jobs'[p] = jobs[p]
  BY Clearing
<1>2. Registered'
  <2>1. \A o \in Owners, j \in Jobs : AtWork(o, j)' \/ Claimed(o, j)' => jobs'[o].id = j
    BY <1>1 DEF Registered
  <2>2. \A o \in Owners, j \in Jobs : Turns(o, j)' => jobs'[o].id = j \/ j \in DeniedTurns'
    BY <1>1 DEF Registered
  <2> QED
    BY <2>1, <2>2 DEF Registered
<1>3. Exclusive'
  BY DEF Exclusive
<1>4. ASSUME NEW o \in Owners, NEW j \in Jobs, jobs'[o].id = j
      PROVE  AtWork(o, j)' \/ Turns(o, j)' \/ Claimed(o, j)'
  <2>1. j # c /\ jobs[o].id = j /\ j # 0
    BY <1>1, <1>4, Constants
  <2> QED
    BY <2>1 DEF Backed
<1>5. \A o \in Owners : jobs'[o].id # 0 => jobs'[o].id \in Jobs
  BY <1>1, Constants DEF Jobs
<1>6. Backed'
  BY <1>4, <1>5 DEF Backed
<1> QED
  BY <1>2, <1>3, <1>6

\* A job that came to work for an owner without one is taken in.
LEMMA RegistryAcquires ==
    ASSUME Registered, Backed, Exclusive', NEW o \in Owners, NEW c \in Jobs,
           NEW a \in 0..MaxAsks, Free(o),
           jobs \in [Owners -> [id : Ids, ask : 0..MaxAsks]],
           jobs' = Acquire(o, c, a),
           \A p \in Owners, j \in Jobs : j # c =>
              /\ AtWork(p, j)' <=> AtWork(p, j)
              /\ Turns(p, j)' <=> Turns(p, j)
              /\ Claimed(p, j)' <=> Claimed(p, j),
           \A p \in Owners : p # o => ~AtWork(p, c) /\ ~Turns(p, c) /\ ~Claimed(p, c),
           \A p \in Owners : p # o => ~AtWork(p, c)' /\ ~Turns(p, c)' /\ ~Claimed(p, c)',
           AtWork(o, c)' \/ Turns(o, c)' \/ Claimed(o, c)',
           \A j \in Jobs : j \in DeniedTurns => j \in DeniedTurns'
    PROVE  Registered' /\ Backed'
<1>1. jobs'[o].id = c /\ jobs[o].id = 0 /\ \A p \in Owners : p # o => jobs'[p] = jobs[p]
  BY Acquiring, Constants DEF Free
<1>2. Registered'
  <2>1. \A p \in Owners, j \in Jobs : AtWork(p, j)' \/ Claimed(p, j)' => jobs'[p].id = j
    BY <1>1, Constants DEF Registered
  <2>2. \A p \in Owners, j \in Jobs : Turns(p, j)' => jobs'[p].id = j \/ j \in DeniedTurns'
    BY <1>1, Constants DEF Registered
  <2> QED
    BY <2>1, <2>2 DEF Registered
<1>3. ASSUME NEW p \in Owners, NEW j \in Jobs, jobs'[p].id = j
      PROVE  AtWork(p, j)' \/ Turns(p, j)' \/ Claimed(p, j)'
  <2>1. CASE p = o
    BY <1>1, <1>3, <2>1
  <2>2. CASE p # o
    <3>1. jobs[p].id = j /\ j # 0
      BY <1>1, <1>3, <2>2, Constants
    <3> QED
      BY <2>2, <3>1 DEF Backed
  <2> QED
    BY <2>1, <2>2
<1>4. \A p \in Owners : jobs'[p].id # 0 => jobs'[p].id \in Jobs
  BY <1>1 DEF Jobs
<1>5. Backed'
  BY <1>3, <1>4 DEF Backed
<1> QED
  BY <1>2, <1>5

-----------------------------------------------------------------------------
\* A step that brings no job to work and takes none from it.
LEMMA CalmPreserves ==
    ASSUME SupervisorInv, Typed', References', Prompting', DrainsBehindSuccess',
           SettledOnce', SameAsks, InboxOnce',
           UNCHANGED <<queue, retrievals, nextId>>,
           \A o \in Owners : jobs'[o].id = jobs[o].id,
           \A j \in Jobs : (Arrives(j)' => Arrives(j)) /\ (Starts(j)' => Starts(j)),
           \A o \in Owners, j \in Jobs :
              /\ Waits(o, j)' <=> Waits(o, j)
              /\ Resumes(o, j)' <=> Resumes(o, j)
              /\ Claims(o, j)' => Claims(o, j)
              /\ Claimed(o, j)' <=> Claimed(o, j)
              /\ Turns(o, j)' <=> Turns(o, j),
           \A j \in Jobs : j \in DeniedTurns => j \in DeniedTurns'
    PROVE  SupervisorInv'
<1>1. \A o, j : Retrieves(o, j)' <=> Retrieves(o, j)
  BY RetrievalsStay
<1>2. \A j : Queues(j)' <=> Queues(j)
  BY QueueStays
<1>3. \A j \in Jobs : Leaves(j)
  BY <1>1, <1>2 DEF Leaves
<1>4. Places'
  <2>1. QueueOnce' /\ RetrievalsOnce'
    BY QueueStays, RetrievalsStay DEF SupervisorInv, Places
  <2>2. asks \in Seq(Approvals) /\ nextId \in Nat /\ nextId' \in Nat /\ nextId <= nextId'
    BY Constants DEF SupervisorInv, Typed
  <2> QED
    BY <1>3, <2>1, <2>2, PlacesShrink DEF SupervisorInv
<1>5. Registered' /\ Backed' /\ Exclusive'
  <2>1. \A o \in Owners, j \in Jobs : AtWork(o, j)' <=> AtWork(o, j)
    BY <1>1 DEF AtWork
  <2>2. jobs \in [Owners -> [id : Ids, ask : 0..MaxAsks]]
    BY DEF SupervisorInv, Typed
  <2> QED
    BY <2>1, <2>2, RegistryStays DEF SupervisorInv
<1> QED
  BY <1>4, <1>5 DEF SupervisorInv

\* A step of which the worker and the approvals learn nothing.
LEMMA QuietPreserves ==
    ASSUME SupervisorInv, Typed', References', SameAsks, InboxOnce',
           UNCHANGED <<jobs, worker, queue, draining, outcome, retrievals, nextId>>,
           \A a \in AskIds : /\ asks'[a].pending = asks[a].pending
                             /\ asks'[a].answer = asks[a].answer
                             /\ asks'[a].resolved = asks[a].resolved,
           \A j \in Jobs : Arrives(j)' => Arrives(j),
           \A o \in Owners, j \in Jobs : Resumes(o, j)' <=> Resumes(o, j)
    PROVE  SupervisorInv'
<1>1. \A o, j : Waits(o, j)' <=> Waits(o, j)
  BY AsksStay
<1>2. \A j \in Jobs : j \in DeniedTurns => j \in DeniedTurns'
  BY DeniedStay DEF SameAsks
<1>3. SettledOnce' /\ DrainsBehindSuccess'
  BY DEF SupervisorInv, SettledOnce, DrainsBehindSuccess, SameAsks, At
<1>4. Prompting'
  <2>1. worker.pc \in {"epoch", "claim", "insert", "announce", "await"} => worker.ask \in AskIds
    BY DEF SupervisorInv, Prompting
  <2> QED
    BY <2>1 DEF SupervisorInv, Prompting, SameAsks
<1> QED
  BY <1>1, <1>2, <1>3, <1>4, WorkerStays, CalmPreserves

\* Only the client thread moves.
LEMMA ClientMovePreserves ==
    ASSUME SupervisorInv, client' \in Clients, client'.asks \subseteq AskIds,
           client'.pc = "flag" => client'.job \in Jobs, stopped' \subseteq Jobs,
           UNCHANGED <<control, engine, inbox, jobs, asks, worker, queue, draining,
                       outcome, retrievals, nextId>>
    PROVE  SupervisorInv'
<1>1. Typed' /\ References'
  BY DEF SupervisorInv, Typed, References, AskIds
<1>2. SameAsks /\ InboxOnce'
  BY InboxStays DEF SameAsks, SupervisorInv, Places, AskIds
<1> QED
  BY <1>1, <1>2, InboxStays, QuietPreserves

\* The client thread sends a message without a job.
LEMMA TellPreserves ==
    ASSUME SupervisorInv, NEW m \in Messages, m.type \notin JobTypes, Send(m),
           client' \in Clients, client'.asks \subseteq AskIds, client'.pc # "flag",
           UNCHANGED <<control, engine, jobs, stopped, asks, worker, queue, draining,
                       outcome, retrievals, nextId>>
    PROVE  SupervisorInv'
<1>1. /\ inbox' \in Seq(Messages) /\ InboxOnce'
      /\ \A j \in Jobs : Arrives(j)' => Arrives(j)
      /\ \A o \in Owners, j \in Jobs : Resumes(o, j)' <=> Resumes(o, j)
  BY Sending DEF SupervisorInv, Typed, Places, JobTypes
<1>2. Typed' /\ References'
  BY <1>1 DEF SupervisorInv, Typed, References, AskIds
<1>3. SameAsks
  BY DEF SameAsks, AskIds
<1> QED
  BY <1>1, <1>2, <1>3, QuietPreserves

-----------------------------------------------------------------------------
\* The client thread.

LEMMA CancelPreserves ==
    ASSUME SupervisorInv, NEW o \in Owners, Cancel(o)
    PROVE  SupervisorInv'
<1>1. jobs[o].id \in Jobs /\ jobs[o].ask \in 0..Len(asks) /\ jobs[o].ask \in 0..MaxAsks
  BY DEF SupervisorInv, Typed, References, Cancel, Jobs
<1>2. Blocking(jobs[o]) \subseteq AskIds /\ Blocking(jobs[o]) \subseteq 1..MaxAsks
  BY <1>1, Constants DEF Blocking, AskIds
<1>3. client' = [pc |-> "flag", job |-> jobs[o].id, asks |-> Blocking(jobs[o])]
  BY DEF Cancel
<1>4. client' \in Clients /\ client'.asks \subseteq AskIds /\ client'.job \in Jobs
  BY <1>1, <1>2, <1>3, Constants DEF Clients, ClientPcs
<1> QED
  BY <1>4, ClientMovePreserves DEF Cancel, workerLocal, SupervisorInv, Typed

LEMMA CancelFlagPreserves ==
    ASSUME SupervisorInv, CancelFlag
    PROVE  SupervisorInv'
<1>1. client \in Clients /\ client.asks \subseteq AskIds /\ client.job \in Jobs /\ stopped \subseteq Jobs
  BY DEF SupervisorInv, Typed, References, CancelFlag
<1>2. client' = Ready \/ client' = [client EXCEPT !.pc = "deny"]
  BY DEF CancelFlag
<1>3. client' \in Clients /\ client'.asks \subseteq AskIds /\ client'.pc # "flag"
  BY <1>1, <1>2, Constants DEF Clients, ClientPcs
<1> QED
  BY <1>1, <1>3, ClientMovePreserves DEF CancelFlag, workerLocal

LEMMA DropPreserves ==
    ASSUME SupervisorInv, Drop
    PROVE  SupervisorInv'
<1>1. \A o \in Owners : jobs[o] # NoJob => jobs[o].id \in Jobs
  BY DEF SupervisorInv, Typed, References, Jobs
<1>2. stopped' \subseteq Jobs
  BY <1>1 DEF Drop, SupervisorInv, Typed
<1>3. client' \in Clients /\ client'.asks \subseteq AskIds /\ client'.pc # "flag"
  BY Constants DEF Drop, Clients, ClientPcs
<1> QED
  BY <1>2, <1>3, ClientMovePreserves DEF Drop, workerLocal

LEMMA PendingAreAsks ==
    ASSUME Len(asks) \in Nat, Len(asks) <= MaxAsks
    PROVE  PendingIds \subseteq AskIds /\ AskIds \subseteq 1..MaxAsks
BY Constants DEF PendingIds, AskIds

LEMMA DropListPreserves ==
    ASSUME SupervisorInv, DropList
    PROVE  SupervisorInv'
<1>1. PendingIds \subseteq AskIds /\ PendingIds \subseteq 1..MaxAsks
  BY PendingAreAsks DEF SupervisorInv, Typed, References
<1>2. client' \in Clients /\ client'.asks \subseteq AskIds /\ client'.pc # "flag"
  BY <1>1, Constants DEF DropList, Clients, ClientPcs
<1> QED
  BY <1>2, ClientMovePreserves DEF DropList, workerLocal, SupervisorInv, Typed

LEMMA DropJoinPreserves ==
    ASSUME SupervisorInv, DropJoin
    PROVE  SupervisorInv'
<1>1. client' \in Clients /\ client'.asks \subseteq AskIds /\ client'.pc # "flag"
  BY Constants DEF DropJoin, Clients, ClientPcs
<1> QED
  BY <1>1, ClientMovePreserves DEF DropJoin, workerLocal, SupervisorInv, Typed

LEMMA AskSnapshotPreserves ==
    ASSUME SupervisorInv, AskSnapshot
    PROVE  SupervisorInv'
<1>1. /\ Message("snapshot", NoOwner, 0) \in Messages
      /\ Message("snapshot", NoOwner, 0).type \notin JobTypes
  BY DEF Message, Messages, JobTypes, NewTypes, ResumeTypes
<1>2. client' \in Clients /\ client'.asks \subseteq AskIds /\ client'.pc # "flag"
  BY Constants DEF AskSnapshot, Clients, ClientPcs
<1> QED
  BY <1>1, <1>2, TellPreserves DEF AskSnapshot, workerLocal

LEMMA DropShutdownPreserves ==
    ASSUME SupervisorInv, DropShutdown
    PROVE  SupervisorInv'
<1>1. /\ Message("shutdown", NoOwner, 0) \in Messages
      /\ Message("shutdown", NoOwner, 0).type \notin JobTypes
  BY DEF Message, Messages, JobTypes, NewTypes, ResumeTypes
<1>2. client' \in Clients /\ client'.asks \subseteq AskIds /\ client'.pc # "flag"
  BY Constants DEF DropShutdown, Clients, ClientPcs
<1> QED
  BY <1>1, <1>2, TellPreserves DEF DropShutdown, workerLocal

\* The two lemmas below are about the job of an approval that is settled.
LEMMA PendingFacts ==
    ASSUME SupervisorInv, NEW a \in PendingIds
    PROVE  /\ a \in AskIds /\ asks \in Seq(Approvals)
           /\ asks[a].job \in Jobs /\ asks[a].owner \in Owners /\ asks[a].kind \in Kinds
           /\ asks[a].pending /\ asks[a].answer = "none" /\ asks[a].resolved = 0
           /\ asks[a].kind # "turn" => Waits(asks[a].owner, asks[a].job)
<1>1. a \in AskIds /\ asks \in Seq(Approvals) /\ asks[a].pending
  BY DEF SupervisorInv, Typed, PendingIds
<1>2. asks[a] \in Approvals
  BY <1>1 DEF AskIds
<1>3. asks[a].answer = "none" /\ asks[a].resolved = 0
  BY <1>1, <1>2 DEF SupervisorInv, Prompting, SettledOnce, Approvals
<1>4. asks[a].job \in Jobs /\ asks[a].owner \in Owners /\ asks[a].kind \in Kinds
  BY <1>2 DEF Approvals
<1>5. asks[a].kind # "turn" => Waits(asks[a].owner, asks[a].job)
  BY <1>1 DEF Waits
<1> QED
  BY <1>1, <1>3, <1>4, <1>5

\* Where the job of a pending approval can be, beside the approval.
LEMMA PendingPlace ==
    ASSUME SupervisorInv, NEW a \in PendingIds, NEW c, c = asks[a].job
    PROVE  \A o \in Owners :
              /\ ~Resumes(o, c) /\ ~Retrieves(o, c) /\ ~Claims(o, c)
              /\ asks[a].kind # "turn" => ~Turns(o, c)
              /\ asks[a].kind = "turn" => ~Waits(o, c)
<1>1. /\ a \in AskIds /\ c \in Jobs /\ asks[a].owner \in Owners
      /\ asks[a].kind # "turn" => Waits(asks[a].owner, c)
  BY PendingFacts
<1>2. KeepsKind(c, asks[a].kind) /\ Apart(c)
  BY <1>1, PromptedOnceIs DEF SupervisorInv, Places
<1>3. CASE asks[a].kind = "turn"
  BY <1>2, <1>3 DEF KeepsKind, AtWork
<1>4. CASE asks[a].kind # "turn"
  BY <1>1, <1>2, <1>4 DEF Apart, AtWork, InHand
<1> QED
  BY <1>3, <1>4

\* What is settled is settled, and about the same job as before.
LEMMA SettlingKeeps ==
    ASSUME SupervisorInv, NEW a \in PendingIds, NEW d \in Answers, Settle(a, d),
           worker' = worker
    PROVE  /\ asks' \in Seq(Approvals) /\ Len(asks') = Len(asks) /\ SameAsks
           /\ SettledOnce' /\ Prompting'
           /\ \A j \in Jobs : j \in DeniedTurns => j \in DeniedTurns'
           /\ asks'[a].answer = d
           /\ \A o \in Owners, j \in Jobs : Waits(o, j)' <=> Waits(o, j) /\ j # asks[a].job
<1>1. /\ a \in AskIds /\ asks \in Seq(Approvals) /\ asks[a].pending
      /\ asks[a].answer = "none" /\ asks[a].resolved = 0
  BY PendingFacts
<1>2. /\ asks' \in Seq(Approvals) /\ Len(asks') = Len(asks) /\ AskIds' = AskIds
      /\ \A b \in AskIds : b # a => asks'[b] = asks[b]
      /\ asks'[a].owner = asks[a].owner /\ asks'[a].job = asks[a].job
      /\ asks'[a].kind = asks[a].kind /\ asks'[a].pending = FALSE
      /\ asks'[a].resolved = asks[a].resolved + 1 /\ asks'[a].answer = d
  BY <1>1, Settling
<1>3. SameAsks
  BY <1>2 DEF SameAsks
<1>4. SettledOnce'
  BY <1>1, <1>2 DEF SupervisorInv, SettledOnce
<1>5. Prompting'
  <2>1. worker.pc \in {"epoch", "claim", "insert", "announce", "await"} => worker.ask \in AskIds
    BY DEF SupervisorInv, Prompting
  <2>2. worker.pc \in {"epoch", "claim", "insert"} => worker.ask # a
    BY <1>1 DEF SupervisorInv, Prompting
  <2> QED
    BY <1>2, <2>1, <2>2 DEF SupervisorInv, Prompting
<1>6. \A j \in Jobs : j \in DeniedTurns => j \in DeniedTurns'
  BY <1>1, <1>2, DeniedStay
<1>7. \A o \in Owners, j \in Jobs : Waits(o, j)' => Waits(o, j)
  BY <1>1, <1>2 DEF Waits
<1>8. ASSUME NEW o \in Owners, NEW j \in Jobs, j # asks[a].job, Waits(o, j)
      PROVE  Waits(o, j)'
  BY <1>2, <1>8 DEF Waits
<1>9. ASSUME NEW o \in Owners, NEW j \in Jobs, j = asks[a].job, Waits(o, j)'
      PROVE  FALSE
  BY <1>1, <1>2, <1>9 DEF Waits, SupervisorInv, Places, AsksOnce
<1> QED
  BY <1>2, <1>3, <1>4, <1>5, <1>6, <1>7, <1>8, <1>9

\* A denial that takes the job out of the registry.
LEMMA DenialPreserves ==
    ASSUME SupervisorInv, NEW a \in PendingIds, Settle(a, "deny"),
           NEW c, c = asks[a].job, jobs' = Clear(c),
           client' \in Clients, client'.asks \subseteq AskIds, client'.pc = "flag" => client'.job \in Jobs,
           UNCHANGED <<control, engine, inbox, stopped, worker, queue, draining,
                       outcome, retrievals, nextId>>
    PROVE  SupervisorInv'
<1>1. /\ a \in AskIds /\ c \in Jobs /\ asks[a].owner \in Owners
      /\ asks[a].kind # "turn" => Waits(asks[a].owner, c)
  BY PendingFacts
<1>2. /\ asks' \in Seq(Approvals) /\ Len(asks') = Len(asks) /\ SameAsks
      /\ SettledOnce' /\ Prompting'
      /\ \A j \in Jobs : j \in DeniedTurns => j \in DeniedTurns'
      /\ asks'[a].answer = "deny"
      /\ \A o \in Owners, j \in Jobs : Waits(o, j)' <=> Waits(o, j) /\ j # c
  BY SettlingKeeps DEF Answers
<1>3. \A o \in Owners :
         /\ ~Resumes(o, c) /\ ~Retrieves(o, c) /\ ~Claims(o, c)
         /\ asks[a].kind # "turn" => ~Turns(o, c)
  BY PendingPlace
<1>4. /\ jobs' \in [Owners -> [id : Ids, ask : 0..MaxAsks]]
      /\ \A p \in Owners : jobs'[p] \in {NoJob, jobs[p]}
  BY <1>1, Clearing DEF SupervisorInv, Typed
<1>5. Typed'
  BY <1>2, <1>4 DEF SupervisorInv, Typed
<1>6. References'
  BY <1>2, <1>4, Constants DEF SupervisorInv, Typed, References, AskIds
<1>7. asks[a].kind = "turn" => c \in DeniedTurns'
  BY <1>1, <1>2 DEF DeniedTurns, SameAsks
<1>8. \A o \in Owners, j \in Jobs : /\ AtWork(o, j)' <=> AtWork(o, j) /\ j # c
                                    /\ Turns(o, j)' <=> Turns(o, j)
                                    /\ Claims(o, j)' <=> Claims(o, j)
                                    /\ Claimed(o, j)' <=> Claimed(o, j)
  BY <1>2, <1>3, InboxStays, RetrievalsStay, WorkerStays DEF AtWork
<1>9. Registered' /\ Backed' /\ Exclusive'
  <2>1. \A o \in Owners : /\ ~AtWork(o, c)' /\ ~Claimed(o, c)'
                          /\ Turns(o, c)' => Turns(o, c) /\ c \in DeniedTurns'
    BY <1>1, <1>3, <1>7, <1>8 DEF Claimed
  <2> QED
    BY <1>1, <1>2, <1>8, <2>1, RegistryClears DEF SupervisorInv, Typed
<1>10. Places'
  <2>1. \A j \in Jobs : Leaves(j)
    BY <1>2, InboxStays, QueueStays, RetrievalsStay, WorkerStays DEF Leaves
  <2>2. InboxOnce' /\ QueueOnce' /\ RetrievalsOnce'
    BY InboxStays, QueueStays, RetrievalsStay DEF SupervisorInv, Places
  <2> QED
    BY <1>2, <2>1, <2>2, PlacesShrink, Constants DEF SupervisorInv, Typed
<1>11. DrainsBehindSuccess'
  BY DEF SupervisorInv, DrainsBehindSuccess, At
<1> QED
  BY <1>2, <1>5, <1>6, <1>9, <1>10, <1>11 DEF SupervisorInv

\* The timers, a cancel and a shutdown deny.
LEMMA ResolvePreserves ==
    ASSUME SupervisorInv, NEW a, ResolveAsDenied(a),
           client' \in Clients, client'.asks \subseteq AskIds, client'.pc = "flag" => client'.job \in Jobs,
           UNCHANGED <<control, engine, inbox, stopped, worker, queue, draining,
                       outcome, retrievals, nextId>>
    PROVE  SupervisorInv'
<1>1. CASE a \in PendingIds
  BY <1>1, DenialPreserves DEF ResolveAsDenied
<1>2. CASE a \notin PendingIds
  BY <1>2, ClientMovePreserves DEF ResolveAsDenied, SupervisorInv, Typed
<1> QED
  BY <1>1, <1>2

LEMMA CancelDenyPreserves ==
    ASSUME SupervisorInv, CancelDeny
    PROVE  SupervisorInv'
<1>1. client' \in Clients /\ client'.asks \subseteq AskIds /\ client'.pc # "flag"
  BY Constants DEF CancelDeny
<1> QED
  BY <1>1, ResolvePreserves DEF CancelDeny, workerLocal

LEMMA DropDenyPreserves ==
    ASSUME SupervisorInv, DropDeny
    PROVE  SupervisorInv'
<1>1. client \in Clients /\ client.asks \subseteq AskIds /\ client.pc = "drop"
  BY DEF SupervisorInv, Typed, References, DropDeny
<1>2. PICK a \in client.asks : ResolveAsDenied(a) /\ client' = [client EXCEPT !.asks = @ \ {a}]
  BY DEF DropDeny
<1>3. client' \in Clients /\ client'.asks \subseteq AskIds /\ client'.pc # "flag"
  BY <1>1, <1>2 DEF Clients
<1> QED
  BY <1>2, <1>3, ResolvePreserves DEF DropDeny, workerLocal

LEMMA ExpirePreserves ==
    ASSUME SupervisorInv, NEW a \in AskIds, Expire(a)
    PROVE  SupervisorInv'
<1>1. a \in PendingIds /\ Settle(a, "deny") /\ jobs' = Clear(asks[a].job)
  BY DEF Expire, ResolveAsDenied
<1>2. /\ \/ client.pc # "flag"
         \/ client.pc = "flag" /\ client.job \in Jobs
      /\ client \in Clients /\ client.asks \subseteq AskIds
  BY DEF SupervisorInv, References, Typed
<1> QED
  BY <1>1, <1>2, DenialPreserves DEF Expire, clientLocal

LEMMA NextIdIsNew ==
    ASSUME SupervisorInv, nextId < MaxIds, NEW n, n = nextId + 1
    PROVE  /\ n \in Jobs /\ n \in Nat /\ nextId \in Nat /\ nextId <= n
           /\ ~Fresh(n) /\ \A o \in Owners : ~AtWork(o, n) /\ ~InHand(o, n)
           /\ \A a \in AskIds : asks[a].job # n
<1>1. n \in Jobs /\ n \in Nat /\ nextId \in Nat /\ nextId <= n /\ ~(n <= nextId)
  BY Constants DEF SupervisorInv, Typed, Jobs, Ids
<1> QED
  BY <1>1 DEF SupervisorInv, Places, Numbered

\* A step that makes a job of the id it hands out, new on the channel or in
\* a queue.
LEMMA NewJobPreserves ==
    ASSUME SupervisorInv, Typed', InboxOnce', QueueOnce', nextId < MaxIds,
           NEW n, n = nextId + 1, nextId' = n,
           UNCHANGED <<control, engine, jobs, stopped, asks, worker, draining,
                       outcome, retrievals, client>>,
           \A j \in Jobs : j # n => (Arrives(j)' => Arrives(j)) /\ (Queues(j)' => Queues(j)),
           \A o \in Owners, j \in Jobs : Resumes(o, j)' <=> Resumes(o, j),
           ~(Arrives(n)' /\ Queues(n)')
    PROVE  SupervisorInv'
<1>1. /\ n \in Jobs /\ n \in Nat /\ nextId \in Nat /\ nextId <= n
      /\ ~Fresh(n) /\ \A o \in Owners : ~AtWork(o, n) /\ ~InHand(o, n)
      /\ \A a \in AskIds : asks[a].job # n
  BY NextIdIsNew
<1>2. SameAsks
  BY DEF SameAsks, AskIds
<1>3. \A o, j : Waits(o, j)' <=> Waits(o, j)
  BY <1>2, AsksStay
<1>4. \A o \in Owners, j \in Jobs : AtWork(o, j)' <=> AtWork(o, j)
  BY <1>3, RetrievalsStay DEF AtWork
<1>5. Places'
  <2>1. \A j \in Jobs : j # n => Leaves(j)
    BY <1>3, RetrievalsStay, WorkerStays DEF Leaves
  <2>2. NoneTwice'
    BY RetrievalsStay DEF NoneTwice, SupervisorInv, Places, AsksOnce, AskIds
  <2>3. Apart(n)'
    <3>1. ~Starts(n)' /\ \A o \in Owners : ~AtWork(o, n)' /\ ~InHand(o, n)'
      BY <1>1, <1>4, WorkerStays DEF InHand, Fresh
    <3> QED
      BY <3>1 DEF Apart, AtWork
  <2>4. asks \in Seq(Approvals) /\ asks' \in Seq(Approvals) /\ AskIds' = AskIds
    BY DEF SupervisorInv, Typed, AskIds
  <2>5. \A a \in AskIds' : a \in AskIds /\ asks'[a].job = asks[a].job /\ asks'[a].kind = asks[a].kind
                           /\ asks'[a].job # n
    BY <1>1, <2>4
  <2> QED
    BY <1>1, <2>1, <2>2, <2>3, <2>4, <2>5, PlacesMove DEF SupervisorInv
<1>6. Registered' /\ Backed' /\ Exclusive'
  <2>1. \A j \in Jobs : j \in DeniedTurns => j \in DeniedTurns'
    BY DEF DeniedTurns, AskIds
  <2> QED
    BY <1>4, <2>1, WorkerStays, RegistryStays DEF SupervisorInv, Typed
<1>7. References' /\ Prompting' /\ SettledOnce' /\ DrainsBehindSuccess'
  BY DEF SupervisorInv, References, Prompting, SettledOnce, DrainsBehindSuccess, AskIds, At
<1> QED
  BY <1>5, <1>6, <1>7 DEF SupervisorInv

LEMMA SubmitPreserves ==
    ASSUME SupervisorInv, NEW o \in Owners, NEW type \in NewTypes, Submit(o, type)
    PROVE  SupervisorInv'
<1> DEFINE m == Message(type, o, nextId + 1)
<1>1. nextId < MaxIds /\ nextId' = nextId + 1 /\ Send(m)
  BY DEF Submit
<1>2. /\ nextId' \in Jobs /\ nextId' \in Ids /\ ~Fresh(nextId + 1)
      /\ \A p \in Owners : ~AtWork(p, nextId + 1)
  BY <1>1, NextIdIsNew, Constants
<1>3. m \in Messages /\ m.type = type /\ m.id = nextId + 1
  BY <1>1, <1>2 DEF Message, Messages, JobTypes
<1> HIDE DEF m
<1>4. /\ inbox' \in Seq(Messages)
      /\ \A j : Arrives(j)' <=> Arrives(j) \/ j = m.id
      /\ \A p, j : Resumes(p, j)' <=> Resumes(p, j)
      /\ InboxOnce'
  <2>1. type \notin ResumeTypes /\ ~Arrives(m.id) /\ \A p \in Owners : ~Resumes(p, m.id)
    BY <1>2, <1>3 DEF NewTypes, ResumeTypes, Fresh, AtWork
  <2> QED
    BY <1>1, <1>3, <2>1, Sending DEF SupervisorInv, Typed, Places
<1>5. Typed'
  BY <1>2, <1>4 DEF Submit, workerLocal, SupervisorInv, Typed
<1>6. /\ QueueOnce' /\ \A j : Queues(j)' <=> Queues(j)
  BY QueueStays DEF Submit, SupervisorInv, Places
<1>7. PICK n : n = nextId + 1
  OBVIOUS
<1>8. ~Queues(n)'
  BY <1>2, <1>6, <1>7 DEF Fresh
<1> QED
  BY <1>1, <1>3, <1>4, <1>5, <1>6, <1>7, <1>8, NewJobPreserves DEF Submit, workerLocal

LEMMA QueueFollowUpPreserves ==
    ASSUME SupervisorInv, NEW o \in Owners, QueueFollowUp(o)
    PROVE  SupervisorInv'
<1> DEFINE m == Message("followup", o, 0)
<1>1. PICK n : n = nextId + 1
  OBVIOUS
<1>2. /\ nextId < MaxIds /\ nextId' = n /\ Send(m)
      /\ queue' = [queue EXCEPT ![o] = Append(@, n)]
  BY <1>1 DEF QueueFollowUp
<1>3. n \in Jobs /\ n \in Ids /\ ~Fresh(n) /\ \A p \in Owners : ~AtWork(p, n)
  BY <1>1, <1>2, NextIdIsNew, Constants
<1>4. m \in Messages /\ m.type \notin JobTypes
  BY DEF Message, Messages, JobTypes, NewTypes, ResumeTypes
<1> HIDE DEF m
<1>5. /\ inbox' \in Seq(Messages)
      /\ \A j : Arrives(j)' <=> Arrives(j)
      /\ \A p, j : Resumes(p, j)' <=> Resumes(p, j)
      /\ InboxOnce'
  BY <1>2, <1>4, Sending DEF SupervisorInv, Typed, Places, JobTypes
<1>6. /\ queue' \in [Owners -> Seq(Jobs)] /\ QueueOnce'
      /\ \A j : Queues(j)' => Queues(j) \/ j = n
  BY <1>2, <1>3, Queueing DEF SupervisorInv, Typed, Places, Fresh
<1>7. Typed'
  BY <1>2, <1>3, <1>5, <1>6 DEF QueueFollowUp, workerLocal, SupervisorInv, Typed
<1>8. ~Arrives(n)'
  BY <1>3, <1>5 DEF Fresh
<1> QED
  BY <1>1, <1>2, <1>5, <1>6, <1>7, <1>8, NewJobPreserves DEF QueueFollowUp, workerLocal

LEMMA ControlTyped ==
    ASSUME control \in PermissionControls, NEW c \in ControlCommands,
           control.nextEpoch < MaxControls, Reserve(c)
    PROVE  /\ control' \in PermissionControls
           /\ control'.nextEpoch \in 1..MaxControls
<1>1. control.nextEpoch + 1 \in 1..MaxControls
  BY Constants DEF PermissionControls
<1>2. Append(control.submitted, [epoch |-> control.nextEpoch + 1, command |-> c]) \in Seq(Submissions)
  BY <1>1 DEF PermissionControls, Submissions
<1> DEFINE more == Append(control.submitted, [epoch |-> control.nextEpoch + 1, command |-> c])
           next == control.nextEpoch + 1
<1>3. control' = [control EXCEPT !.nextEpoch = next, !.submitted = more]
  BY DEF Reserve, PermissionControls
<1>4. next \in 0..MaxControls /\ more \in Seq(Submissions)
  BY <1>1, <1>2, Constants
<1> HIDE DEF more, next
<1>5. control' \in PermissionControls /\ control'.nextEpoch = next
  BY <1>3, <1>4 DEF PermissionControls
<1> QED
  BY <1>1, <1>5 DEF next

LEMMA SubmitControlPreserves ==
    ASSUME SupervisorInv, NEW c \in Controls, SubmitControl(c)
    PROVE  SupervisorInv'
<1> DEFINE m == ControlMessage(c, control'.nextEpoch)
<1>1. c \in ControlCommands
  BY ControlsAssumption
<1>2. control' \in PermissionControls /\ control'.nextEpoch \in 1..MaxControls
  BY <1>1, ControlTyped DEF SubmitControl, SupervisorInv, Typed
<1>3. m \in Messages /\ m.type \notin JobTypes
  BY <1>1, <1>2 DEF ControlMessage, Messages, JobTypes, NewTypes, ResumeTypes
<1>4. Send(m)
  BY DEF SubmitControl
<1> HIDE DEF m
<1>5. /\ inbox' \in Seq(Messages) /\ InboxOnce'
      /\ \A j \in Jobs : Arrives(j)' => Arrives(j)
      /\ \A o \in Owners, j \in Jobs : Resumes(o, j)' <=> Resumes(o, j)
  BY <1>3, <1>4, Sending DEF SupervisorInv, Typed, Places, JobTypes
<1>6. /\ asks' \in Seq(Approvals) /\ Len(asks') = Len(asks) /\ AskIds' = AskIds
      /\ \A a \in AskIds : /\ asks'[a].owner = asks[a].owner
                           /\ asks'[a].job = asks[a].job
                           /\ asks'[a].kind = asks[a].kind
                           /\ asks'[a].pending = asks[a].pending
                           /\ asks'[a].answer = asks[a].answer
                           /\ asks'[a].resolved = asks[a].resolved
  <2>1. asks \in Seq(Approvals) /\ Len(asks) \in Nat
    BY DEF SupervisorInv, Typed
  <2>2. \A a \in AskIds : asks[a] \in Approvals
    BY <2>1 DEF AskIds
  <2> DEFINE marked(a) == [asks[a] EXCEPT !.stale = @ \/ asks[a].pending]
  <2>3. \A a \in AskIds : marked(a) \in Approvals
    BY <2>2 DEF Approvals
  <2>4. \A a \in AskIds : /\ marked(a).owner = asks[a].owner
                          /\ marked(a).job = asks[a].job
                          /\ marked(a).kind = asks[a].kind
                          /\ marked(a).pending = asks[a].pending
                          /\ marked(a).answer = asks[a].answer
                          /\ marked(a).resolved = asks[a].resolved
    BY <2>2 DEF Approvals
  <2>5. asks' = [a \in AskIds |-> marked(a)]
    BY DEF SubmitControl
  <2> HIDE DEF marked
  <2>6. asks' \in [1..Len(asks) -> Approvals]
    BY <2>3, <2>5 DEF AskIds
  <2>7. asks' \in Seq(Approvals) /\ Len(asks') = Len(asks)
    BY <2>1, <2>6, SeqDef
  <2> QED
    BY <2>4, <2>5, <2>7 DEF AskIds
<1>7. Typed' /\ References'
  BY <1>2, <1>5, <1>6 DEF SupervisorInv, Typed, References, SubmitControl, workerLocal
<1>8. SameAsks
  BY <1>6 DEF SameAsks
<1> QED
  BY <1>5, <1>6, <1>7, <1>8, QuietPreserves DEF SubmitControl, workerLocal

LEMMA MarkReferences ==
    ASSUME SupervisorInv, NEW a \in 0..Len(asks),
           \A p \in Owners : /\ jobs'[p].id = jobs[p].id
                             /\ jobs'[p].ask \in {jobs[p].ask, a}
                             /\ jobs[p].id = 0 => jobs'[p] = jobs[p],
           Len(asks') = Len(asks), UNCHANGED client, worker'.ask = worker.ask,
           worker'.pc \in Posted => worker'.owner \in Owners,
           worker'.pc \in Posted \ {"drain"} => worker'.job \in Jobs
    PROVE  References'
<1>1. Len(asks) \in Nat /\ a <= Len(asks)
  BY DEF SupervisorInv, Typed
<1>2. \A o \in Owners : jobs'[o].ask <= Len(asks') /\ (jobs'[o].id = 0 => jobs'[o] = NoJob)
  BY <1>1 DEF SupervisorInv, References
<1> QED
  BY <1>2 DEF SupervisorInv, References, AskIds

\* The operator's answer to a turn; the turn stays at work.
LEMMA AnswerTurnPreserves ==
    ASSUME SupervisorInv, NEW a \in PendingIds, NEW d \in Answers, Settle(a, d),
           asks[a].kind = "turn", jobs' = Mark(asks[a].job, 0) \/ jobs' = jobs,
           UNCHANGED <<control, engine, inbox, stopped, worker, queue, draining,
                       outcome, retrievals, client, nextId>>
    PROVE  SupervisorInv'
<1>1. a \in AskIds /\ asks[a].job \in Jobs
  BY PendingFacts
<1>2. /\ asks' \in Seq(Approvals) /\ Len(asks') = Len(asks) /\ SameAsks
      /\ SettledOnce' /\ Prompting'
      /\ \A j \in Jobs : j \in DeniedTurns => j \in DeniedTurns'
      /\ \A o \in Owners, j \in Jobs : Waits(o, j)' <=> Waits(o, j) /\ j # asks[a].job
  BY SettlingKeeps
<1>3. \A o \in Owners, j \in Jobs : Waits(o, j)' <=> Waits(o, j)
  BY <1>2, PendingPlace
<1>4. /\ jobs' \in [Owners -> [id : Ids, ask : 0..MaxAsks]]
      /\ \A p \in Owners : /\ jobs'[p].id = jobs[p].id
                           /\ jobs'[p].ask \in {jobs[p].ask, 0}
                           /\ jobs[p].id = 0 => jobs'[p] = jobs[p]
  BY <1>1, Marking, Constants, SMTT(30) DEF SupervisorInv, Typed
<1>5. Typed'
  BY <1>2, <1>4 DEF SupervisorInv, Typed
<1>6. References'
  <2>1. 0 \in 0..Len(asks)
    BY DEF SupervisorInv, Typed
  <2> QED
    BY <1>2, <1>4, <2>1, MarkReferences DEF SupervisorInv, References
<1>7. DrainsBehindSuccess' /\ InboxOnce'
  BY InboxStays DEF SupervisorInv, DrainsBehindSuccess, At, Places
<1> QED
  BY <1>2, <1>3, <1>4, <1>5, <1>6, <1>7, InboxStays, WorkerStays, CalmPreserves

\* The operator lets a mutation or a retrieval run: its job goes from the
\* approvals to the channel, and stays in the registry.
LEMMA ReleasePreserves ==
    ASSUME SupervisorInv, NEW a \in PendingIds, NEW d \in Answers, Settle(a, d),
           asks[a].kind # "turn", NEW c, c = asks[a].job, NEW o, o = asks[a].owner,
           jobs' = Mark(c, 0), NEW type \in ResumeTypes, Send(Message(type, o, c)),
           UNCHANGED <<control, engine, stopped, worker, queue, draining, outcome,
                       retrievals, client, nextId>>
    PROVE  SupervisorInv'
<1>1. a \in AskIds /\ c \in Jobs /\ o \in Owners /\ Waits(o, c)
  BY PendingFacts
<1>2. /\ asks' \in Seq(Approvals) /\ Len(asks') = Len(asks) /\ SameAsks
      /\ SettledOnce' /\ Prompting'
      /\ \A j \in Jobs : j \in DeniedTurns => j \in DeniedTurns'
      /\ \A p \in Owners, j \in Jobs : Waits(p, j)' <=> Waits(p, j) /\ j # c
  BY SettlingKeeps
<1>3. Apart(c) /\ c \in Nat /\ c <= nextId
  BY <1>1, Constants DEF SupervisorInv, Places, Numbered, AtWork
<1>4. \A p \in Owners : Waits(p, c) => p = o
  BY <1>1 DEF Waits, SupervisorInv, Places, AsksOnce
<1>5. /\ ~Fresh(c)
      /\ \A p \in Owners : ~Resumes(p, c) /\ ~Retrieves(p, c) /\ ~InHand(p, c)
  BY <1>1, <1>3 DEF Apart, AtWork
<1> DEFINE m == Message(type, o, c)
<1>6. m \in Messages /\ m.type = type /\ m.id = c /\ m.owner = o
  BY <1>1 DEF Message, Messages, JobTypes
<1>7. Send(m)
  OBVIOUS
<1> HIDE DEF m
<1>8. /\ inbox' \in Seq(Messages) /\ InboxOnce'
      /\ \A j : Arrives(j)' <=> Arrives(j)
      /\ \A p, j : Resumes(p, j)' <=> Resumes(p, j) \/ (p = o /\ j = c)
  <2>1. type \notin NewTypes /\ ~Arrives(c)
    BY <1>5 DEF NewTypes, ResumeTypes, Fresh
  <2> QED
    BY <1>5, <1>6, <1>7, <2>1, Sending DEF SupervisorInv, Typed, Places
<1>9. /\ jobs' \in [Owners -> [id : Ids, ask : 0..MaxAsks]]
      /\ \A p \in Owners : /\ jobs'[p].id = jobs[p].id
                           /\ jobs'[p].ask \in {jobs[p].ask, 0}
                           /\ jobs[p].id = 0 => jobs'[p] = jobs[p]
  BY <1>1, Marking, Constants DEF SupervisorInv, Typed
<1>10. Typed' /\ References'
  <2>1. 0 \in 0..Len(asks)
    BY DEF SupervisorInv, Typed
  <2>2. References'
    BY <1>2, <1>9, <2>1, MarkReferences DEF SupervisorInv, References
  <2> QED
    BY <1>2, <1>8, <1>9, <2>2 DEF SupervisorInv, Typed
<1>11. Places'
  <2>1. \A j \in Jobs : j # c => Leaves(j)
    BY <1>2, <1>8, QueueStays, RetrievalsStay, WorkerStays DEF Leaves
  <2>2. NoneTwice'
    BY <1>2, <1>8, QueueStays, RetrievalsStay DEF NoneTwice, SupervisorInv, Places, AsksOnce, SameAsks
  <2>3. ~Fresh(c)' /\ \A p \in Owners : ~Waits(p, c)' /\ ~Retrieves(p, c)' /\ ~InHand(p, c)'
    BY <1>1, <1>2, <1>5, <1>8, QueueStays, RetrievalsStay, WorkerStays DEF Fresh, InHand
  <2>4. Apart(c)'
    BY <2>3 DEF Apart, AtWork, Fresh
  <2>5. ASSUME NEW b \in AskIds', NEW kind \in Kinds, asks'[b].job = c, asks'[b].kind = kind
        PROVE  KeepsKind(c, kind)'
    <3>1. kind # "turn"
      BY <1>1, <1>2, <2>5 DEF SameAsks, SupervisorInv, Places, AsksOnce
    <3> QED
      BY <2>3, <3>1 DEF KeepsKind, InHand
  <2>6. asks \in Seq(Approvals) /\ nextId \in Nat
    BY Constants DEF SupervisorInv, Typed
  <2>7. \A b \in AskIds' :
           /\ b \in AskIds /\ asks'[b].job = asks[b].job /\ asks'[b].kind = asks[b].kind
    BY <1>2 DEF SameAsks
  <2>8. nextId' \in Nat /\ nextId <= nextId' /\ c <= nextId'
    BY <1>3, <2>6
  <2> QED
    BY <1>1, <1>2, <2>1, <2>2, <2>4, <2>5, <2>6, <2>7, <2>8, PlacesMove DEF SupervisorInv
<1>12. Registered' /\ Backed' /\ Exclusive'
  <2>1. \A p \in Owners, j \in Jobs : AtWork(p, j)' <=> AtWork(p, j)
    BY <1>1, <1>2, <1>4, <1>8, RetrievalsStay DEF AtWork
  <2> QED
    BY <1>2, <1>9, <2>1, WorkerStays, RegistryStays DEF SupervisorInv, Typed
<1>13. DrainsBehindSuccess'
  BY DEF SupervisorInv, DrainsBehindSuccess, At
<1> QED
  BY <1>2, <1>10, <1>11, <1>12, <1>13 DEF SupervisorInv

LEMMA RespondPreserves ==
    ASSUME SupervisorInv, NEW a \in AskIds, NEW decision \in {"allow", "deny", "edit"},
           Respond(a, decision)
    PROVE  SupervisorInv'
<1> DEFINE runs   == decision = "deny" \/ PassesGates(a)
           result == IF runs THEN decision ELSE "deny"
           ask    == asks[a]
<1>1. result \in Answers /\ result \in {"deny", decision}
  BY DEF Answers
<1>2. a \in PendingIds /\ a \in AskIds
  BY DEF Respond, PendingIds
<1>3. /\ ask.job \in Jobs /\ ask.owner \in Owners /\ ask.kind \in Kinds
      /\ ask.kind # "turn" => Waits(ask.owner, ask.job)
  BY <1>2, PendingFacts
<1>4. ask.kind # "turn" => Held(ask.job)
  BY <1>3 DEF SupervisorInv, Registered, AtWork, Held
<1>5. UNCHANGED <<control, stopped, timersDown, queue, client, nextId, engine, worker,
                  draining, outcome, retrievals>>
  BY DEF Respond, workerLocal
<1>6. \/ /\ ask.kind = "turn"
         /\ Settle(a, result)
         /\ jobs' = IF result = "allow" THEN Mark(ask.job, 0) ELSE jobs
         /\ UNCHANGED inbox
      \/ /\ ask.kind # "turn"
         /\ result = "deny"
         /\ Settle(a, result)
         /\ jobs' = Clear(ask.job)
         /\ UNCHANGED inbox
      \/ /\ ask.kind # "turn"
         /\ Settle(a, result)
         /\ jobs' = Mark(ask.job, 0)
         /\ \E type \in ResumeTypes : Send(Message(type, ask.owner, ask.job))
      \/ ask.kind # "turn" /\ ~Held(ask.job)
  BY DEF Respond, ResumeTypes
<1> HIDE DEF result
<1>7. CASE /\ ask.kind = "turn"
           /\ Settle(a, result)
           /\ jobs' = IF result = "allow" THEN Mark(ask.job, 0) ELSE jobs
           /\ UNCHANGED inbox
  BY <1>1, <1>2, <1>5, <1>7, AnswerTurnPreserves
<1>8. CASE /\ ask.kind # "turn"
           /\ result = "deny"
           /\ Settle(a, result)
           /\ jobs' = Clear(ask.job)
           /\ UNCHANGED inbox
  <2>1. client' \in Clients /\ client'.asks \subseteq AskIds
        /\ (client'.pc = "flag" => client'.job \in Jobs)
    BY <1>5 DEF SupervisorInv, Typed, References
  <2> QED
    BY <1>2, <1>5, <1>8, <2>1, DenialPreserves
<1>9. CASE /\ ask.kind # "turn"
           /\ Settle(a, result)
           /\ jobs' = Mark(ask.job, 0)
           /\ \E type \in ResumeTypes : Send(Message(type, ask.owner, ask.job))
  BY <1>1, <1>2, <1>5, <1>9, ReleasePreserves
<1> QED
  BY <1>4, <1>6, <1>7, <1>8, <1>9

-----------------------------------------------------------------------------
\* The worker thread, with no job in its hands.

LEMMA HandsFree ==
    worker.pc \notin InTurn \cup {"start"} =>
       /\ \A j : ~Starts(j)
       /\ \A o, j : ~Claims(o, j) /\ ~Claimed(o, j) /\ ~Turns(o, j) /\ ~InHand(o, j)
BY DEF Starts, Claims, Claimed, Turns, InHand, At, InTurn

LEMMA TakenFacts ==
    ASSUME SupervisorInv, NEW type, Take(type), NEW m, m = Head(inbox)
    PROVE  /\ worker.pc = "idle" /\ worker.kind = "turn" /\ worker.pc \notin InTurn \cup {"start"}
           /\ m \in Messages /\ m.type = type
           /\ inbox' \in Seq(Messages) /\ InboxOnce'
           /\ type \in NewTypes => Arrives(m.id)
           /\ type \in ResumeTypes => Resumes(m.owner, m.id)
           /\ \A j : Arrives(j)' => Arrives(j)
           /\ \A o, j : Resumes(o, j)' => Resumes(o, j)
           /\ type \in JobTypes => ~Arrives(m.id)' /\ \A o : ~Resumes(o, m.id)'
           /\ \A o, j : Resumes(o, j) =>
                 Resumes(o, j)' \/ (type \in ResumeTypes /\ m.owner = o /\ m.id = j)
<1>1. /\ inbox \in Seq(Messages) /\ inbox # <<>> /\ inbox' = Tail(inbox) /\ InboxOnce
      /\ worker.pc = "idle" /\ m.type = type
  BY DEF SupervisorInv, Typed, Places, Take, At
<1>2. worker.kind = "turn" /\ worker.pc \notin InTurn \cup {"start"}
  BY <1>1 DEF SupervisorInv, Prompting, InTurn
<1> QED
  BY <1>1, <1>2, Taking

LEMMA FreeHandsPreserve ==
    ASSUME SupervisorInv, Typed', References', DrainsBehindSuccess',
           worker.pc \notin InTurn \cup {"start"}, worker'.pc \notin InTurn \cup {"start"},
           worker'.kind = "turn",
           UNCHANGED <<jobs, asks, queue, retrievals, nextId>>,
           InboxOnce',
           \A j \in Jobs : Arrives(j)' => Arrives(j),
           \A o \in Owners, j \in Jobs : Resumes(o, j)' <=> Resumes(o, j)
    PROVE  SupervisorInv'
<1>1. SameAsks /\ SettledOnce' /\ \A j \in Jobs : j \in DeniedTurns => j \in DeniedTurns'
  BY DEF SameAsks, SupervisorInv, SettledOnce, DeniedTurns, AskIds
<1>2. Prompting'
  BY DEF SupervisorInv, Prompting, InTurn, AskIds
<1>3. /\ \A j : ~Starts(j)'
      /\ \A o, j : ~Claims(o, j)' /\ ~Claimed(o, j)' /\ ~Turns(o, j)'
  BY HandsFree DEF Starts, Claims, Claimed, Turns, At, InTurn
<1>4. \A o, j : Waits(o, j)' <=> Waits(o, j)
  BY <1>1, AsksStay
<1> QED
  BY <1>1, <1>2, <1>3, <1>4, HandsFree, CalmPreserves

LEMMA TakeFollowUpPreserves ==
    ASSUME SupervisorInv, TakeFollowUp
    PROVE  SupervisorInv'
<1>1. PICK m : m = Head(inbox)
  OBVIOUS
<1>2. /\ worker.pc = "idle" /\ worker.kind = "turn" /\ worker.pc \notin InTurn \cup {"start"}
      /\ m \in Messages /\ m.type = "followup"
      /\ inbox' \in Seq(Messages) /\ InboxOnce'
      /\ \A j : Arrives(j)' => Arrives(j)
      /\ \A o, j : Resumes(o, j)' <=> Resumes(o, j)
  BY <1>1, TakenFacts DEF TakeFollowUp, ResumeTypes
<1>3. m.owner \in Owners
  BY <1>2, MessageFacts
<1>4. UNCHANGED <<control, engine, jobs, stopped, asks, timersDown, queue,
                   draining, outcome, retrievals, client, nextId>>
  BY DEF TakeFollowUp, clientLocal
<1>5. CASE m.owner \in draining /\ Begin("drain", m.owner, 0, 0)
  <2>1. /\ worker' \in Workers /\ worker'.pc = "drain" /\ worker'.owner = m.owner
        /\ worker'.kind = "turn" /\ worker'.ask = 0
    BY <1>3, <1>5, Beginning DEF WorkerPcs
  <2>2. Typed'
    BY <1>2, <1>4, <2>1 DEF SupervisorInv, Typed
  <2>3. References'
    BY <1>3, <1>4, <2>1 DEF SupervisorInv, Typed, References, AskIds
  <2>4. DrainsBehindSuccess'
    BY <1>4, <1>5, <2>1 DEF SupervisorInv, DrainsBehindSuccess, At
  <2>5. worker'.pc \notin InTurn \cup {"start"}
    BY <2>1 DEF InTurn
  <2> QED
    BY <1>2, <1>4, <2>1, <2>2, <2>3, <2>4, <2>5, FreeHandsPreserve
<1>6. CASE worker' = worker
  <2>1. Typed' /\ References' /\ DrainsBehindSuccess'
    BY <1>2, <1>4, <1>6 DEF SupervisorInv, Typed, References, DrainsBehindSuccess, At, AskIds
  <2> QED
    BY <1>2, <1>4, <1>6, <2>1, FreeHandsPreserve
<1> QED
  BY <1>1, <1>5, <1>6 DEF TakeFollowUp, Armed

LEMMA EngineTyped ==
    ASSUME engine \in EngineValues, NEW c \in ControlCommands
    PROVE  EngineApplied(engine, c) \in EngineValues
<1>1. /\ engine.mode \in Modes /\ engine.permission \in {"default", "accept_edits", "plan"}
      /\ EngineValues = [mode : Modes, permission : {"default", "accept_edits", "plan"}]
  BY DEF EngineValues, LevelOf
<1>2. CASE c.set = "mode"
  <2>1. c.to \in Modes
    BY <1>2 DEF ControlCommands, SetWorkMode, SetPermissionLevel
  <2> QED
    BY <1>1, <1>2, <2>1 DEF EngineApplied, EngineSetWorkMode
<1>3. CASE c.set # "mode"
  <2>1. c.to \in Levels
    BY <1>3 DEF ControlCommands, SetWorkMode, SetPermissionLevel
  <2>2. PermissionMode[c.to] \in {"default", "accept_edits", "plan"}
    BY <2>1 DEF PermissionMode, Levels
  <2> QED
    BY <1>1, <1>3, <2>2 DEF EngineApplied, EngineSetPermissionMode, Modes
<1> QED
  BY <1>2, <1>3

\* The worker takes a message and has no job in its hands after it.
LEMMA TakeAndGoHomePreserves ==
    ASSUME SupervisorInv, NEW type, Take(type), type \notin JobTypes,
           worker' \in Workers, worker'.pc \in AtHome, worker'.kind = "turn", worker'.ask = 0,
           control' = control, engine' \in EngineValues,
           UNCHANGED <<jobs, stopped, asks, queue, draining, outcome, retrievals, nextId>>,
           client' \in Clients, client'.asks \subseteq AskIds,
           client'.pc = "flag" => client'.job \in Jobs
    PROVE  SupervisorInv'
<1>1. PICK m : m = Head(inbox)
  OBVIOUS
<1>2. /\ worker.pc = "idle" /\ worker.kind = "turn" /\ worker.pc \notin InTurn \cup {"start"}
      /\ inbox' \in Seq(Messages) /\ InboxOnce'
      /\ \A j : Arrives(j)' => Arrives(j)
      /\ \A o, j : Resumes(o, j)' <=> Resumes(o, j)
  BY <1>1, TakenFacts DEF JobTypes
<1>3. Typed'
  BY <1>2 DEF SupervisorInv, Typed
<1>4. References'
  BY <1>2 DEF SupervisorInv, Typed, References, AskIds, Posted
<1>5. DrainsBehindSuccess' /\ worker'.pc \notin InTurn \cup {"start"}
  BY DEF SupervisorInv, DrainsBehindSuccess, At, AtHome, InTurn
<1> QED
  BY <1>2, <1>3, <1>4, <1>5, FreeHandsPreserve

LEMMA TakeControlPreserves ==
    ASSUME SupervisorInv, TakeControl
    PROVE  SupervisorInv'
<1>1. PICK m : m = Head(inbox)
  OBVIOUS
<1>2. m \in Messages /\ m.type = "control" /\ Take("control")
  BY <1>1, TakenFacts DEF TakeControl
<1>3. m.id \in Nat /\ m.command \in ControlCommands
  BY <1>2, MessageFacts
<1>4. PICK pc \in {"commit", "reject"} : Begin(pc, NoOwner, m.id, 0)
  BY <1>1 DEF TakeControl
<1>5. /\ worker' \in Workers /\ worker'.pc = pc /\ worker'.kind = "turn" /\ worker'.ask = 0
  BY <1>3, <1>4, Beginning, Constants DEF WorkerPcs
<1>6. engine' \in EngineValues
  BY <1>1, <1>3, EngineTyped DEF TakeControl, SupervisorInv, Typed
<1>7. "control" \notin JobTypes /\ worker'.pc \in AtHome
  BY <1>5 DEF JobTypes, NewTypes, ResumeTypes, AtHome
<1> QED
  BY <1>2, <1>5, <1>6, <1>7, TakeAndGoHomePreserves
  DEF TakeControl, clientLocal, SupervisorInv, Typed, References

LEMMA AnswerSnapshotPreserves ==
    ASSUME SupervisorInv, AnswerSnapshot
    PROVE  SupervisorInv'
<1>1. Take("snapshot") /\ worker.pc = "idle" /\ worker' = worker /\ client' = Ready
  BY DEF AnswerSnapshot, Take, At
<1>2. "snapshot" \notin JobTypes /\ worker'.pc \in AtHome
  BY <1>1 DEF JobTypes, NewTypes, ResumeTypes, AtHome
<1>3. worker'.kind = "turn"
  BY <1>1 DEF SupervisorInv, Prompting
<1>4. PICK m : m = Head(inbox)
  OBVIOUS
<1>5. /\ inbox' \in Seq(Messages) /\ InboxOnce'
      /\ \A j : Arrives(j)' => Arrives(j)
      /\ \A o, j : Resumes(o, j)' <=> Resumes(o, j)
  BY <1>1, <1>2, <1>4, TakenFacts DEF JobTypes
<1>6. Typed' /\ References'
  BY <1>1, <1>5, Constants DEF AnswerSnapshot, SupervisorInv, Typed, References, AskIds
<1>7. SameAsks
  BY DEF SameAsks, AnswerSnapshot, AskIds
<1> QED
  BY <1>1, <1>5, <1>6, <1>7, QuietPreserves DEF AnswerSnapshot

LEMMA StopPreserves ==
    ASSUME SupervisorInv, Stop
    PROVE  SupervisorInv'
<1>1. Take("shutdown") /\ worker' = [Idle EXCEPT !.pc = "stopped"]
  BY DEF Stop
<1>2. worker' \in Workers /\ worker'.pc = "stopped" /\ worker'.kind = "turn" /\ worker'.ask = 0
  BY <1>1, Constants DEF Workers, WorkerPcs
<1>3. "shutdown" \notin JobTypes /\ worker'.pc \in AtHome
  BY <1>2 DEF JobTypes, NewTypes, ResumeTypes, AtHome
<1> QED
  BY <1>1, <1>2, <1>3, TakeAndGoHomePreserves
  DEF Stop, clientLocal, SupervisorInv, Typed, References

\* What reject leaves.
LEMMA Withdrawing ==
    ASSUME control.submitted \in Seq(Submissions), NEW epoch
    PROVE  WithoutEpoch(epoch) \in Seq(Submissions)
<1> DEFINE s == control.submitted
           found == {i \in DOMAIN s : s[i].epoch = epoch}
           i == CHOOSE k \in found : TRUE
<1>1. Len(s) \in Nat /\ DOMAIN s = 1..Len(s) /\ \A k \in 1..Len(s) : s[k] \in Submissions
  OBVIOUS
<1>2. CASE found = {}
  BY <1>2 DEF WithoutEpoch
<1>3. CASE found # {}
  <2>1. i \in 1..Len(s)
    BY <1>1, <1>3
  <2>2. SubSeq(s, 1, i - 1) \in Seq(Submissions) /\ SubSeq(s, i + 1, Len(s)) \in Seq(Submissions)
    <3>1. \A k \in 1..(i - 1) : k \in 1..Len(s)
      BY <1>1, <2>1
    <3>2. \A k \in (i + 1)..Len(s) : k \in 1..Len(s)
      BY <1>1, <2>1
    <3>3. 1 \in Int /\ i - 1 \in Int /\ i + 1 \in Int /\ Len(s) \in Int
      BY <1>1, <2>1
    <3> HIDE DEF i, s
    <3> QED
      BY <1>1, <3>1, <3>2, <3>3, SubSeqProperties
  <2>3. WithoutEpoch(epoch) = SubSeq(s, 1, i - 1) \o SubSeq(s, i + 1, Len(s))
    BY <1>3 DEF WithoutEpoch, RemoveAt
  <2> QED
    BY <2>2, <2>3, ConcatProperties
<1> QED
  BY <1>2, <1>3

LEMMA AppliedTyped ==
    ASSUME NEW v \in Values, NEW c \in ControlCommands
    PROVE  Applied(v, c) \in Values
<1>1. CASE c.set = "mode"
  <2>1. c.to \in Modes
    BY <1>1 DEF ControlCommands, SetWorkMode, SetPermissionLevel
  <2> QED
    BY <1>1, <2>1 DEF Applied, Values, Levels
<1>2. CASE c.set # "mode"
  <2>1. c.to \in Levels
    BY <1>2 DEF ControlCommands, SetWorkMode, SetPermissionLevel
  <2> QED
    BY <1>2, <2>1 DEF Applied, Values, Modes
<1> QED
  BY <1>1, <1>2

LEMMA CommitTyped ==
    ASSUME control \in PermissionControls, control.submitted # <<>>, Commit
    PROVE  control' \in PermissionControls
<1>1. /\ control.submitted \in Seq(Submissions) /\ control.applied \in Values
      /\ Head(control.submitted) \in Submissions
  BY DEF PermissionControls
<1> DEFINE v == Applied(control.applied, Head(control.submitted).command)
           s == Tail(control.submitted)
<1>2. v \in Values /\ s \in Seq(Submissions)
  <2>1. Head(control.submitted).command \in ControlCommands
    BY <1>1 DEF Submissions
  <2> QED
    BY <1>1, <2>1, AppliedTyped
<1>3. control' = [control EXCEPT !.applied = v, !.submitted = s]
  BY DEF Commit, PermissionControls
<1> HIDE DEF v, s
<1> QED
  BY <1>2, <1>3 DEF PermissionControls

LEMMA RejectTyped ==
    ASSUME control \in PermissionControls, NEW epoch, Reject(epoch)
    PROVE  control' \in PermissionControls
<1>1. WithoutEpoch(epoch) \in Seq(Submissions)
  BY Withdrawing DEF PermissionControls
<1> QED
  BY <1>1 DEF Reject, PermissionControls

\* The worker goes home from where it had no job in its hands.
LEMMA GoHomePreserves ==
    ASSUME SupervisorInv, worker.pc \notin InTurn \cup {"start"}, worker' = Idle,
           control' \in PermissionControls, DrainsBehindSuccess', draining' \subseteq Owners,
           outcome' \in [Owners -> Outcomes],
           UNCHANGED <<engine, inbox, jobs, stopped, asks, queue, retrievals, client, nextId>>
    PROVE  SupervisorInv'
<1>1. Typed' /\ References'
  BY Constants DEF SupervisorInv, Typed, References, AskIds, Posted, AtHome
<1>2. worker'.pc \notin InTurn \cup {"start"} /\ worker'.kind = "turn"
  BY Constants DEF InTurn
<1>3. InboxOnce'
  BY InboxStays DEF SupervisorInv, Places
<1> QED
  BY <1>1, <1>2, <1>3, InboxStays, FreeHandsPreserve

LEMMA CommitControlPreserves ==
    ASSUME SupervisorInv, CommitControl
    PROVE  SupervisorInv'
<1>1. control' \in PermissionControls
  BY CommitTyped DEF CommitControl, CanCommit, SupervisorInv, Typed
<1>2. worker.pc \notin InTurn \cup {"start"} /\ DrainsBehindSuccess'
  BY Constants DEF CommitControl, At, InTurn, SupervisorInv, DrainsBehindSuccess
<1> QED
  BY <1>1, <1>2, GoHomePreserves DEF CommitControl, clientLocal, SupervisorInv, Typed

LEMMA RejectControlPreserves ==
    ASSUME SupervisorInv, RejectControl
    PROVE  SupervisorInv'
<1>1. control' \in PermissionControls
  BY RejectTyped DEF RejectControl, SupervisorInv, Typed
<1>2. worker.pc \notin InTurn \cup {"start"} /\ DrainsBehindSuccess'
  BY Constants DEF RejectControl, At, InTurn, SupervisorInv, DrainsBehindSuccess
<1> QED
  BY <1>1, <1>2, GoHomePreserves DEF RejectControl, clientLocal, SupervisorInv, Typed

LEMMA FinishTurnPreserves ==
    ASSUME SupervisorInv, FinishTurn
    PROVE  SupervisorInv'
<1>1. /\ worker.pc = "finish" /\ worker.owner \in Owners /\ worker.pc \notin InTurn \cup {"start"}
      /\ outcome \in [Owners -> Outcomes] /\ draining \subseteq Owners
  BY DEF FinishTurn, At, InTurn, SupervisorInv, Typed, References, Posted, AtHome, WorkerPcs
<1>2. UNCHANGED <<control, engine, inbox, jobs, stopped, asks, queue, retrievals, client, nextId>>
  BY DEF FinishTurn, clientLocal
<1> DEFINE o == worker.owner
<1>3. CASE /\ outcome' = [outcome EXCEPT ![o] = "completed"]
           /\ Begin("drain", o, 0, 0)
           /\ UNCHANGED draining
  <2>1. /\ worker' \in Workers /\ worker'.pc = "drain" /\ worker'.owner = o
        /\ worker'.kind = "turn" /\ worker'.ask = 0
    BY <1>1, <1>3, Beginning DEF WorkerPcs
  <2>2. /\ outcome' \in [Owners -> Outcomes] /\ outcome'[o] = "completed"
        /\ \A p \in Owners : outcome'[p] \in {outcome[p], "completed"}
    BY <1>1, <1>3 DEF Outcomes
  <2>3. Typed'
    BY <1>2, <1>3, <2>1, <2>2 DEF SupervisorInv, Typed
  <2>4. References'
    BY <1>1, <1>2, <2>1 DEF SupervisorInv, Typed, References, AskIds
  <2>5. DrainsBehindSuccess'
    BY <1>1, <1>3, <2>1, <2>2 DEF SupervisorInv, DrainsBehindSuccess, At
  <2>6. worker'.pc \notin InTurn \cup {"start"} /\ InboxOnce'
    BY <1>2, <2>1, InboxStays DEF InTurn, SupervisorInv, Places
  <2> QED
    BY <1>1, <1>2, <2>1, <2>3, <2>4, <2>5, <2>6, InboxStays, FreeHandsPreserve
<1>4. CASE /\ outcome' = [outcome EXCEPT
                    ![o] = IF worker.job \in stopped THEN "cancelled" ELSE "failed"]
           /\ draining' = draining \ {o}
           /\ worker' = Idle
  <2>1. outcome' \in [Owners -> Outcomes] /\ \A p \in Owners : p # o => outcome'[p] = outcome[p]
    BY <1>1, <1>4 DEF Outcomes
  <2>2. DrainsBehindSuccess'
    BY <1>1, <1>4, <2>1, Constants DEF SupervisorInv, DrainsBehindSuccess, At
  <2> QED
    BY <1>1, <1>2, <1>4, <2>1, <2>2, GoHomePreserves DEF SupervisorInv, Typed
<1> QED
  BY <1>3, <1>4 DEF FinishTurn

-----------------------------------------------------------------------------
\* The worker thread takes a job in its hands.

\* A new job becomes the worker's: from the channel, or from a queue.
LEMMA BeginJobPreserves ==
    ASSUME SupervisorInv, NEW c \in Jobs, Arrives(c) \/ Queues(c),
           worker.pc \notin InTurn \cup {"start"}, Typed', References',
           worker' \in Workers, worker'.pc = "start", worker'.job = c, worker'.kind = "turn",
           UNCHANGED <<jobs, asks, retrievals, draining, outcome, nextId>>,
           InboxOnce', QueueOnce',
           \A j \in Jobs : (Arrives(j)' => Arrives(j)) /\ (Queues(j)' => Queues(j)),
           \A o \in Owners, j \in Jobs : Resumes(o, j)' <=> Resumes(o, j),
           ~Arrives(c)', ~Queues(c)'
    PROVE  SupervisorInv'
<1>1. SameAsks /\ SettledOnce' /\ \A j \in Jobs : j \in DeniedTurns => j \in DeniedTurns'
  BY DEF SameAsks, SupervisorInv, SettledOnce, DeniedTurns, AskIds
<1>2. Prompting' /\ DrainsBehindSuccess'
  BY DEF SupervisorInv, Prompting, DrainsBehindSuccess, InTurn, At, AskIds
<1>3. \A o, j : Waits(o, j)' <=> Waits(o, j)
  BY <1>1, AsksStay
<1>4. \A o \in Owners, j \in Jobs : AtWork(o, j)' <=> AtWork(o, j)
  BY <1>3, RetrievalsStay DEF AtWork
<1>5. \A o, j : ~Claims(o, j)' /\ ~Claimed(o, j)' /\ ~Turns(o, j)'
  BY DEF Claims, Claimed, Turns, At, InTurn
<1>6. \A j : Starts(j)' <=> j = c
  BY DEF Starts, At
<1>7. Fresh(c) /\ ~(Arrives(c) /\ Queues(c)) /\ \A o \in Owners : ~AtWork(o, c)
  BY DEF SupervisorInv, Places, Apart, Fresh
<1>8. Places'
  <2>1. \A j \in Jobs : j # c => Leaves(j)
    BY <1>3, <1>5, <1>6, RetrievalsStay DEF Leaves
  <2>2. NoneTwice'
    BY RetrievalsStay DEF NoneTwice, SupervisorInv, Places, AsksOnce, AskIds
  <2>3. Apart(c)'
    <3>1. \A o \in Owners : ~AtWork(o, c)' /\ ~InHand(o, c)'
      BY <1>4, <1>5, <1>7 DEF InHand
    <3> QED
      BY <3>1 DEF Apart, AtWork
  <2>4. asks \in Seq(Approvals) /\ AskIds' = AskIds /\ asks' = asks
    BY DEF SupervisorInv, Typed, AskIds
  <2>5. \A a \in AskIds' : /\ a \in AskIds
                           /\ asks'[a].job = asks[a].job
                           /\ asks'[a].kind = asks[a].kind
                           /\ asks'[a].job # c
    BY <1>7, <2>4 DEF SupervisorInv, Places, PromptedOnce
  <2>6. c <= nextId /\ nextId \in Nat /\ nextId' = nextId
    BY <1>7, Constants DEF SupervisorInv, Places, Numbered, Typed
  <2> QED
    BY <2>1, <2>2, <2>3, <2>4, <2>5, <2>6, PlacesMove DEF SupervisorInv
<1>9. Registered' /\ Backed' /\ Exclusive'
  <2>1. \A o \in Owners, j \in Jobs : /\ Turns(o, j)' <=> Turns(o, j)
                                      /\ Claimed(o, j)' <=> Claimed(o, j)
    BY <1>5, HandsFree
  <2> QED
    BY <1>1, <1>4, <2>1, RegistryStays DEF SupervisorInv, Typed
<1> QED
  BY <1>1, <1>2, <1>8, <1>9 DEF SupervisorInv

LEMMA TakeInputPreserves ==
    ASSUME SupervisorInv, TakeInput
    PROVE  SupervisorInv'
<1>1. PICK m : m = Head(inbox)
  OBVIOUS
<1>2. PICK c : c = m.id
  OBVIOUS
<1>3. /\ worker.pc = "idle" /\ worker.pc \notin InTurn \cup {"start"}
      /\ m \in Messages /\ m.type = "input"
      /\ inbox' \in Seq(Messages) /\ InboxOnce'
      /\ Arrives(c) /\ ~Arrives(c)'
      /\ \A j : Arrives(j)' => Arrives(j)
      /\ \A o, j : Resumes(o, j)' <=> Resumes(o, j)
  BY <1>1, <1>2, TakenFacts DEF TakeInput, ResumeTypes, NewTypes, JobTypes
<1>4. m.owner \in Owners /\ c \in Jobs
  BY <1>2, <1>3, MessageFacts DEF JobTypes, NewTypes
<1>5. /\ worker' \in Workers /\ worker'.pc = "start" /\ worker'.owner = m.owner
      /\ worker'.job = c /\ worker'.kind = "turn" /\ worker'.ask = 0
  <2>1. Begin("start", m.owner, c, 0)
    BY <1>1, <1>2 DEF TakeInput
  <2> QED
    BY <1>4, <2>1, Beginning, Constants DEF WorkerPcs
<1>6. UNCHANGED <<control, engine, jobs, stopped, asks, timersDown, queue,
                   draining, outcome, retrievals, client, nextId>>
  BY DEF TakeInput, clientLocal
<1>7. Typed' /\ References'
  BY <1>3, <1>4, <1>5, <1>6 DEF SupervisorInv, Typed, References, AskIds
<1>8. QueueOnce' /\ \A j : Queues(j)' <=> Queues(j)
  BY <1>6, QueueStays DEF SupervisorInv, Places
<1>9. ~Queues(c)'
  BY <1>3, <1>4, <1>8 DEF SupervisorInv, Places, Apart
<1> QED
  BY <1>3, <1>4, <1>5, <1>6, <1>7, <1>8, <1>9, BeginJobPreserves

LEMMA DrainPreserves ==
    ASSUME SupervisorInv, Drain
    PROVE  SupervisorInv'
<1>1. PICK o : o = worker.owner
  OBVIOUS
<1>2. /\ worker.pc = "drain" /\ o \in Owners /\ worker.pc \notin InTurn \cup {"start"}
      /\ outcome[o] = "completed"
  BY <1>1 DEF Drain, At, SupervisorInv, References, Posted, AtHome, WorkerPcs, InTurn,
              DrainsBehindSuccess
<1>3. UNCHANGED <<control, engine, inbox, jobs, stopped, asks, timersDown,
                   outcome, retrievals, client, nextId>>
  BY DEF Drain, clientLocal
<1>4. CASE draining' = draining \cup {o} /\ worker' = Idle /\ UNCHANGED queue
  <2>1. DrainsBehindSuccess' /\ draining' \subseteq Owners
    BY <1>2, <1>3, <1>4, Constants DEF SupervisorInv, DrainsBehindSuccess, At, Typed
  <2> QED
    BY <1>2, <1>3, <1>4, <2>1, GoHomePreserves DEF SupervisorInv, Typed
<1>5. CASE /\ queue[o] # <<>>
           /\ queue' = [queue EXCEPT ![o] = Tail(@)]
           /\ Begin("start", o, Head(queue[o]), Head(queue[o]))
           /\ UNCHANGED draining
  <2>1. PICK c : c = Head(queue[o])
    OBVIOUS
  <2>2. /\ queue' \in [Owners -> Seq(Jobs)] /\ QueueOnce'
        /\ c \in Jobs /\ Queues(c) /\ ~Queues(c)'
        /\ \A j : Queues(j)' => Queues(j)
    BY <1>2, <1>5, <2>1, Dequeuing DEF SupervisorInv, Typed, Places
  <2>3. /\ worker' \in Workers /\ worker'.pc = "start" /\ worker'.owner = o
        /\ worker'.job = c /\ worker'.kind = "turn" /\ worker'.ask = 0
    BY <1>2, <1>5, <2>1, <2>2, Beginning, Constants DEF WorkerPcs
  <2>4. Typed' /\ References'
    BY <1>2, <1>3, <1>5, <2>2, <2>3 DEF SupervisorInv, Typed, References, AskIds
  <2>5. InboxOnce' /\ ~Arrives(c)'
    BY <1>3, <2>2, InboxStays DEF SupervisorInv, Places, Apart
  <2> QED
    BY <1>2, <1>3, <1>5, <2>2, <2>3, <2>4, <2>5, InboxStays, BeginJobPreserves
<1> QED
  BY <1>1, <1>4, <1>5 DEF Drain

\* A job that begins to be at work for an owner without one: a turn, a
\* retrieval that needs no approval, or a prompt's claim.
LEMMA AcquireReferences ==
    ASSUME SupervisorInv, NEW o \in Owners, NEW c \in Jobs, NEW a \in 0..Len(asks),
           jobs' = Acquire(o, c, a)
    PROVE  /\ jobs' \in [Owners -> [id : Ids, ask : 0..MaxAsks]]
           /\ \A p \in Owners : jobs'[p].ask <= Len(asks) /\ (jobs'[p].id = 0 => jobs'[p] = NoJob)
<1>1. Len(asks) \in Nat /\ a \in 0..MaxAsks /\ a <= Len(asks)
  BY Constants DEF SupervisorInv, Typed, References
<1>2. /\ jobs' \in [Owners -> [id : Ids, ask : 0..MaxAsks]]
      /\ jobs'[o].id = c /\ jobs'[o].ask = a
      /\ \A p \in Owners : p # o => jobs'[p] = jobs[p]
  BY <1>1, Acquiring DEF SupervisorInv, Typed
<1>3. \A p \in Owners : jobs[p].ask <= Len(asks) /\ (jobs[p].id = 0 => jobs[p] = NoJob)
  BY DEF SupervisorInv, References
<1> QED
  BY <1>1, <1>2, <1>3, Constants

LEMMA StartTurnPreserves ==
    ASSUME SupervisorInv, StartTurn
    PROVE  SupervisorInv'
<1>1. PICK o, c : o = worker.owner /\ c = worker.job
  OBVIOUS
<1>2. /\ worker.pc = "start" /\ worker.kind = "turn" /\ o \in Owners /\ c \in Jobs
      /\ worker \in Workers /\ worker.ask <= Len(asks)
  BY <1>1 DEF StartTurn, At, SupervisorInv, Prompting, References, Typed, Posted, AtHome, WorkerPcs
<1>3. UNCHANGED <<control, engine, inbox, stopped, asks, timersDown, queue,
                   outcome, retrievals, client, nextId>>
  BY DEF StartTurn, clientLocal
<1>4. SameAsks /\ SettledOnce' /\ (\A j \in Jobs : j \in DeniedTurns => j \in DeniedTurns')
      /\ InboxOnce'
  BY <1>3, InboxStays DEF SameAsks, SupervisorInv, SettledOnce, DeniedTurns, AskIds, Places
<1>5. /\ \A j : Starts(j) <=> j = c
      /\ \A p, j : ~Claims(p, j) /\ ~Claimed(p, j) /\ ~Turns(p, j)
  BY <1>1, <1>2 DEF Starts, Claims, Claimed, Turns, At, InTurn
<1>6. \A p, j : Waits(p, j)' <=> Waits(p, j)
  BY <1>3, <1>4, AsksStay
<1>7. CASE draining' = draining \ {o} /\ worker' = Idle /\ UNCHANGED jobs
  <2>1. /\ \A j : ~Starts(j)'
        /\ \A p, j : ~Claims(p, j)' /\ ~Claimed(p, j)' /\ ~Turns(p, j)'
    BY <1>7, Constants DEF Starts, Claims, Claimed, Turns, At, InTurn
  <2>2. Typed' /\ References' /\ Prompting' /\ DrainsBehindSuccess'
    BY <1>3, <1>7, Constants DEF SupervisorInv, Typed, References, Prompting,
       DrainsBehindSuccess, AskIds, At, Posted, AtHome
  <2> QED
    BY <1>3, <1>4, <1>5, <1>6, <1>7, <2>1, <2>2, InboxStays, CalmPreserves
<1>8. CASE /\ Free(o)
           /\ jobs' = Acquire(o, c, 0)
           /\ \E pc \in {"model", "slash"} : Goto(pc)
           /\ UNCHANGED draining
  <2>1. /\ worker' \in Workers /\ worker'.pc \in {"model", "slash"}
        /\ worker'.owner = o /\ worker'.job = c /\ worker'.kind = "turn"
        /\ worker'.ask = worker.ask
    BY <1>1, <1>2, <1>8, Going DEF WorkerPcs
  <2>2. /\ \A j : ~Starts(j)'
        /\ \A p, j : /\ ~Claims(p, j)' /\ ~Claimed(p, j)'
                     /\ Turns(p, j)' <=> p = o /\ j = c
    BY <2>1 DEF Starts, Claims, Claimed, Turns, At, InTurn
  <2>3. /\ jobs' \in [Owners -> [id : Ids, ask : 0..MaxAsks]]
        /\ jobs'[o].id = c /\ jobs'[o].ask = 0
        /\ \A p \in Owners : p # o => jobs'[p] = jobs[p]
    BY <1>2, <1>8, Acquiring, Constants DEF SupervisorInv, Typed
  <2>4. Typed' /\ References' /\ Prompting' /\ DrainsBehindSuccess'
    <3>1. Typed'
      BY <1>3, <1>8, <2>1, <2>3 DEF SupervisorInv, Typed
    <3>2. References'
      <4>1. \A p \in Owners : jobs'[p].ask <= Len(asks) /\ (jobs'[p].id = 0 => jobs'[p] = NoJob)
        <5>1. 0 \in 0..Len(asks)
          BY DEF SupervisorInv, Typed
        <5> QED
          BY <1>2, <1>8, <5>1, AcquireReferences
      <4> QED
        BY <1>2, <1>3, <2>1, <4>1 DEF SupervisorInv, References, AskIds
    <3>3. Prompting' /\ DrainsBehindSuccess'
      BY <1>3, <1>8, <2>1 DEF SupervisorInv, Prompting, DrainsBehindSuccess, AskIds, At
    <3> QED
      BY <3>1, <3>2, <3>3
  <2>5. \A p \in Owners, j \in Jobs : AtWork(p, j)' <=> AtWork(p, j)
    BY <1>3, <1>6, InboxStays, RetrievalsStay DEF AtWork
  <2>6. ~Arrives(c) /\ ~Queues(c) /\ \A p \in Owners : ~AtWork(p, c)
    BY <1>2, <1>5 DEF SupervisorInv, Places, Apart, Fresh
  <2>7. Places'
    <3>1. \A j \in Jobs : j # c => Leaves(j)
      BY <1>3, <1>6, <2>2, InboxStays, QueueStays, RetrievalsStay DEF Leaves
    <3>2. NoneTwice'
      BY <1>3, <1>4, QueueStays, RetrievalsStay DEF NoneTwice, SupervisorInv, Places, AsksOnce, AskIds
    <3>3. ~Fresh(c)' /\ \A p \in Owners : ~AtWork(p, c)' /\ ~Claims(p, c)'
      BY <1>2, <1>3, <2>2, <2>5, <2>6, InboxStays, QueueStays DEF Fresh
    <3>4. Apart(c)'
      BY <3>3 DEF Apart, AtWork, Fresh
    <3>5. asks \in Seq(Approvals) /\ AskIds' = AskIds /\ asks' = asks
      BY <1>3 DEF SupervisorInv, Typed, AskIds
    <3>6. \A a \in AskIds' : /\ a \in AskIds
                             /\ asks'[a].job = asks[a].job
                             /\ asks'[a].kind = asks[a].kind
                             /\ asks'[a].job # c
      BY <1>5, <3>5 DEF SupervisorInv, Places, PromptedOnce, Fresh
    <3>7. c <= nextId /\ nextId \in Nat /\ nextId' = nextId
      BY <1>2, <1>3, <1>5, Constants DEF SupervisorInv, Places, Numbered, Typed, Fresh
    <3> QED
      BY <1>2, <3>1, <3>2, <3>4, <3>5, <3>6, <3>7, PlacesMove DEF SupervisorInv
  <2>8. Exclusive'
    <3>1. \A k \in Jobs : ~AtWork(o, k)
      BY <1>2, <1>8, Constants DEF SupervisorInv, Registered, Free
    <3> QED
      BY <1>2, <2>2, <2>5, <3>1 DEF Exclusive
  <2>9. Registered' /\ Backed'
    <3>1. \A p \in Owners, j \in Jobs : j # c =>
              /\ AtWork(p, j)' <=> AtWork(p, j)
              /\ Turns(p, j)' <=> Turns(p, j)
              /\ Claimed(p, j)' <=> Claimed(p, j)
      BY <1>5, <2>2, <2>5
    <3>2. \A p \in Owners : p # o => /\ ~AtWork(p, c) /\ ~Turns(p, c) /\ ~Claimed(p, c)
                                     /\ ~AtWork(p, c)' /\ ~Turns(p, c)' /\ ~Claimed(p, c)'
      BY <1>2, <1>5, <2>2, <2>5, <2>6
    <3> QED
      BY <1>2, <1>4, <1>8, <2>2, <2>8, <3>1, <3>2, RegistryAcquires, Constants
      DEF SupervisorInv, Typed
  <2> QED
    BY <1>4, <2>4, <2>7, <2>8, <2>9 DEF SupervisorInv
<1> QED
  BY <1>1, <1>7, <1>8 DEF StartTurn

-----------------------------------------------------------------------------
\* The worker thread, with a turn in its hands.

LEMMA TurnGoesOn ==
    ASSUME SupervisorInv, worker.kind = "turn", worker.pc \in InTurn,
           worker' \in Workers, worker'.pc \in InTurn, worker'.owner = worker.owner,
           worker'.job = worker.job, worker'.kind = "turn", worker'.ask = worker.ask,
           asks' \in Seq(Approvals), Len(asks') = Len(asks), SameAsks, Prompting', SettledOnce',
           \A a \in AskIds : /\ asks[a].answer = "deny" => asks'[a].answer = "deny"
                             /\ asks[a].kind # "turn" => asks'[a].pending = asks[a].pending,
           jobs' \in [Owners -> [id : Ids, ask : 0..MaxAsks]],
           \A p \in Owners : /\ jobs'[p].id = jobs[p].id
                             /\ jobs'[p].ask <= Len(asks)
                             /\ jobs'[p].id = 0 => jobs'[p] = NoJob,
           engine' \in EngineValues,
           UNCHANGED <<control, inbox, stopped, queue, draining, outcome, retrievals,
                       client, nextId>>
    PROVE  SupervisorInv'
<1>1. Typed'
  BY DEF SupervisorInv, Typed
<1>2. References'
  <2>1. worker.owner \in Owners /\ worker.job \in Jobs
    BY DEF SupervisorInv, References, Posted, AtHome, InTurn, WorkerPcs
  <2> QED
    BY <2>1 DEF SupervisorInv, References, AskIds
<1>3. DrainsBehindSuccess' /\ InboxOnce'
  BY InboxStays DEF SupervisorInv, DrainsBehindSuccess, At, InTurn, Places
<1>4. \A j \in Jobs : j \in DeniedTurns => j \in DeniedTurns'
  BY DeniedStay DEF SameAsks
<1>5. /\ \A j : ~Starts(j)'
      /\ \A p, j : /\ ~Claims(p, j) /\ ~Claims(p, j)' /\ ~Claimed(p, j) /\ ~Claimed(p, j)'
                   /\ Turns(p, j)' <=> Turns(p, j)
  BY DEF Starts, Claims, Claimed, Turns, At, InTurn
<1>6. \A p, j : Waits(p, j)' <=> Waits(p, j)
  BY SMTT(30) DEF Waits, SameAsks
<1> QED
  BY <1>1, <1>2, <1>3, <1>4, <1>5, <1>6, InboxStays, CalmPreserves

\* The turns' actions that touch no approval.
LEMMA TurnWalks ==
    ASSUME SupervisorInv, worker.pc \in InTurn, worker.kind = "turn",
           worker' \in Workers, worker'.pc \in {"model", "reply", "close"}, worker'.owner = worker.owner,
           worker'.job = worker.job, worker'.kind = "turn", worker'.ask = worker.ask,
           engine' \in EngineValues,
           UNCHANGED <<control, inbox, jobs, stopped, asks, queue, draining, outcome,
                       retrievals, client, nextId>>
    PROVE  SupervisorInv'
<1>1. SameAsks /\ SettledOnce' /\ Prompting'
  BY DEF SameAsks, SupervisorInv, SettledOnce, Prompting, AskIds
<1>2. worker'.pc \in InTurn
  BY DEF InTurn
<1> QED
  BY <1>1, <1>2, TurnGoesOn DEF SupervisorInv, Typed, References

LEMMA SlashCommandPreserves ==
    ASSUME SupervisorInv, SlashCommand
    PROVE  SupervisorInv'
<1>1. worker.pc = "slash" /\ worker.kind = "turn" /\ worker.pc \in InTurn /\ worker \in Workers
  BY DEF SlashCommand, At, SupervisorInv, Prompting, InTurn, Typed
<1>2. /\ worker' \in Workers /\ worker'.pc = "close"
      /\ worker'.owner = worker.owner /\ worker'.job = worker.job
      /\ worker'.kind = worker.kind /\ worker'.ask = worker.ask
  BY <1>1, Ending DEF SlashCommand
<1>3. engine' \in EngineValues
  BY EngineTyped, ControlsAssumption DEF SlashCommand, SupervisorInv, Typed
<1> QED
  BY <1>1, <1>2, <1>3, TurnWalks DEF SlashCommand, clientLocal

LEMMA ModelRequestPreserves ==
    ASSUME SupervisorInv, ModelRequest
    PROVE  SupervisorInv'
<1>1. worker.pc = "model" /\ worker.kind = "turn" /\ worker.pc \in InTurn /\ worker \in Workers
  BY DEF ModelRequest, At, SupervisorInv, Prompting, InTurn, Typed
<1>2. /\ worker' \in Workers /\ worker'.pc \in {"reply", "close"}
      /\ worker'.owner = worker.owner /\ worker'.job = worker.job
      /\ worker'.kind = worker.kind /\ worker'.ask = worker.ask
  BY <1>1, Ending, Going DEF ModelRequest, WorkerPcs
<1> QED
  BY <1>1, <1>2, TurnWalks DEF ModelRequest, clientLocal, SupervisorInv, Typed

\* A turn asks about a tool call: its job is prompted for once more.
LEMMA PromptTurnPreserves ==
    ASSUME SupervisorInv, worker.kind = "turn", worker.pc \in {"reply", "await"},
           Prompt(worker.owner, worker.job, "turn"),
           UNCHANGED <<control, engine, inbox, jobs, stopped, queue, draining,
                       outcome, retrievals, client, nextId>>
    PROVE  SupervisorInv'
<1>1. PICK o, c : o = worker.owner /\ c = worker.job
  OBVIOUS
<1>2. o \in Owners /\ c \in Jobs /\ worker.pc \in InTurn
  BY <1>1 DEF SupervisorInv, References, Posted, AtHome, WorkerPcs, InTurn
<1>3. asks \in Seq(Approvals) /\ worker \in Workers /\ "turn" \in Kinds /\ Prompt(o, c, "turn")
  BY <1>1 DEF SupervisorInv, Typed, Kinds
<1>4. /\ asks' \in Seq(Approvals) /\ Len(asks') <= MaxAsks
      /\ Len(asks) \in Nat /\ Len(asks') = Len(asks) + 1
      /\ \A a \in AskIds : a \in AskIds' /\ asks'[a] = asks[a]
      /\ asks'[Len(asks')] = NewAsk(o, c, "turn")
      /\ worker' \in Workers /\ worker'.pc = "epoch"
      /\ worker'.owner = o /\ worker'.job = c /\ worker'.kind = "turn"
      /\ worker'.ask = Len(asks')
  BY <1>2, <1>3, Prompted
<1> DEFINE n == Len(asks')
<1>5. /\ n \in AskIds' /\ n \notin AskIds
      /\ \A a \in AskIds' : a = n \/ a \in AskIds
  BY <1>4 DEF AskIds
<1>6. /\ asks'[n].owner = o /\ asks'[n].job = c /\ asks'[n].kind = "turn"
      /\ ~asks'[n].pending /\ asks'[n].resolved = 0 /\ asks'[n].answer = "none"
  BY <1>4 DEF NewAsk
<1> HIDE DEF n
<1>7. SettledOnce'
  BY <1>4, <1>5, <1>6 DEF SupervisorInv, SettledOnce
<1>8. Prompting'
  BY <1>4, <1>5, <1>6 DEF SupervisorInv, Prompting, n
<1>9. Typed'
  BY <1>4 DEF SupervisorInv, Typed
<1>10. References'
  <2>1. client.asks \subseteq AskIds'
    BY <1>4 DEF SupervisorInv, References
  <2>2. \A p \in Owners : jobs[p].ask \in Nat
    BY Constants DEF SupervisorInv, Typed
  <2>3. \A p \in Owners : jobs'[p].ask <= Len(asks')
    BY <1>4, <2>2 DEF SupervisorInv, References
  <2> QED
    BY <1>2, <1>4, <2>1, <2>3 DEF SupervisorInv, References
<1>11. DrainsBehindSuccess'
  BY <1>4 DEF SupervisorInv, DrainsBehindSuccess, At
<1>12. \A j \in Jobs : j \in DeniedTurns => j \in DeniedTurns'
  BY <1>4, DeniedStay
<1>13. /\ \A j : ~Starts(j)'
       /\ \A p, j : /\ ~Claims(p, j) /\ ~Claims(p, j)' /\ ~Claimed(p, j) /\ ~Claimed(p, j)'
                    /\ Turns(p, j)' <=> Turns(p, j)
                    /\ Turns(p, j) <=> p = o /\ j = c
  BY <1>1, <1>2, <1>4 DEF Starts, Claims, Claimed, Turns, At, InTurn
<1>14. \A p, j : Waits(p, j)' <=> Waits(p, j)
  BY <1>4, <1>5, <1>6 DEF Waits
<1>15. \A p \in Owners, j \in Jobs : AtWork(p, j)' <=> AtWork(p, j)
  BY <1>14, InboxStays, RetrievalsStay DEF AtWork
<1>16. ~Fresh(c) /\ (\A p \in Owners : ~AtWork(p, c)) /\ c <= nextId /\ InHand(o, c)
  BY <1>2, <1>13 DEF SupervisorInv, Places, Apart, InHand, Numbered
<1>17. ~Fresh(c)' /\ \A p \in Owners : ~AtWork(p, c)' /\ ~Claims(p, c)'
  BY <1>2, <1>13, <1>15, <1>16, InboxStays, QueueStays DEF Fresh
<1>18. Places'
  <2>1. \A j \in Jobs : Leaves(j)
    BY <1>13, <1>14, InboxStays, QueueStays, RetrievalsStay DEF Leaves
  <2>2. AsksOnce'
    <3>1. ASSUME NEW a \in AskIds, asks[a].job = c
          PROVE  asks[a].kind = "turn"
      BY <1>2, <1>13, <3>1 DEF SupervisorInv, Places, PromptedOnce
    <3> QED
      BY <1>4, <1>5, <1>6, <3>1 DEF SupervisorInv, Places, AsksOnce
  <2>3. NoneTwice'
    BY <2>2, InboxStays, QueueStays, RetrievalsStay DEF NoneTwice, SupervisorInv, Places
  <2>4. Apart(c)'
    BY <1>17 DEF Apart, AtWork, Fresh
  <2>5. \A a \in AskIds' : \/ asks'[a].job = c
                           \/ /\ a \in AskIds
                              /\ asks'[a].job = asks[a].job
                              /\ asks'[a].kind = asks[a].kind
    BY <1>4, <1>5, <1>6
  <2>6. ASSUME NEW a \in AskIds', NEW kind \in Kinds, asks'[a].job = c, asks'[a].kind = kind
        PROVE  KeepsKind(c, kind)'
    <3>1. kind = "turn"
      BY <1>2, <1>4, <1>5, <1>6, <1>13, <2>6 DEF SupervisorInv, Places, PromptedOnce
    <3> QED
      BY <1>17, <3>1 DEF KeepsKind
  <2>7. nextId \in Nat /\ nextId' = nextId
    BY Constants DEF SupervisorInv, Typed
  <2> QED
    BY <1>2, <1>3, <1>4, <1>16, <2>1, <2>3, <2>4, <2>5, <2>6, <2>7, PlacesMove DEF SupervisorInv
<1>19. Registered' /\ Backed' /\ Exclusive'
  BY <1>12, <1>13, <1>15, RegistryStays DEF SupervisorInv, Typed
<1> QED
  BY <1>7, <1>8, <1>9, <1>10, <1>11, <1>18, <1>19 DEF SupervisorInv

LEMMA ReplyPreserves ==
    ASSUME SupervisorInv, Reply
    PROVE  SupervisorInv'
<1>1. worker.pc = "reply" /\ worker.kind = "turn" /\ worker.pc \in InTurn /\ worker \in Workers
  BY DEF Reply, At, SupervisorInv, Prompting, InTurn, Typed
<1>2. CASE EndTurn(TRUE) /\ UNCHANGED asks
  <2>1. /\ worker' \in Workers /\ worker'.pc = "close"
        /\ worker'.owner = worker.owner /\ worker'.job = worker.job
        /\ worker'.kind = worker.kind /\ worker'.ask = worker.ask
    BY <1>1, <1>2, Ending
  <2> QED
    BY <1>1, <1>2, <2>1, TurnWalks DEF Reply, clientLocal, SupervisorInv, Typed
<1>3. CASE Prompt(worker.owner, worker.job, "turn")
  BY <1>1, <1>3, PromptTurnPreserves DEF Reply, clientLocal
<1> QED
  BY <1>2, <1>3 DEF Reply

LEMMA ReceiveAnswerPreserves ==
    ASSUME SupervisorInv, ReceiveAnswer
    PROVE  SupervisorInv'
<1>1. worker.pc = "await" /\ worker.kind = "turn" /\ worker.pc \in InTurn /\ worker \in Workers
  BY DEF ReceiveAnswer, At, SupervisorInv, Prompting, InTurn, Typed
<1>2. CASE Goto("model") /\ UNCHANGED asks
  <2>1. /\ worker' \in Workers /\ worker'.pc = "model"
        /\ worker'.owner = worker.owner /\ worker'.job = worker.job
        /\ worker'.kind = worker.kind /\ worker'.ask = worker.ask
    BY <1>1, <1>2, Going DEF WorkerPcs
  <2> QED
    BY <1>1, <1>2, <2>1, TurnWalks DEF ReceiveAnswer, clientLocal, SupervisorInv, Typed
<1>3. CASE Prompt(worker.owner, worker.job, "turn")
  BY <1>1, <1>3, PromptTurnPreserves DEF ReceiveAnswer, clientLocal
<1> QED
  BY <1>2, <1>3 DEF ReceiveAnswer

-----------------------------------------------------------------------------
\* The worker thread, with the approval of the job in its hands.

\* One approval is written to, and stays what it is about.
LEMMA Rewriting ==
    ASSUME asks \in Seq(Approvals), NEW a \in AskIds, NEW x \in Approvals,
           x.owner = asks[a].owner, x.job = asks[a].job, x.kind = asks[a].kind,
           asks' = [asks EXCEPT ![a] = x]
    PROVE  /\ asks' \in Seq(Approvals) /\ Len(asks') = Len(asks) /\ SameAsks
           /\ asks'[a] = x
           /\ \A b \in AskIds : b # a => asks'[b] = asks[b]
<1>1. /\ asks' \in Seq(Approvals) /\ Len(asks') = Len(asks)
      /\ asks'[a] = x
      /\ \A b \in AskIds : b # a => asks'[b] = asks[b]
  BY ExceptSeq DEF AskIds
<1> QED
  BY <1>1 DEF SameAsks, AskIds

\* The facts of a prompt under way.
LEMMA PromptFacts ==
    ASSUME SupervisorInv, worker.pc \in {"epoch", "claim", "insert", "announce", "await"}
    PROVE  /\ worker \in Workers /\ asks \in Seq(Approvals) /\ Len(asks) \in Nat
           /\ worker.ask \in AskIds /\ worker.ask \in 0..Len(asks) /\ worker.ask \in 0..MaxAsks
           /\ asks[worker.ask] \in Approvals
           /\ worker.owner \in Owners /\ worker.job \in Jobs /\ worker.kind \in Kinds
           /\ asks[worker.ask].owner = worker.owner
           /\ asks[worker.ask].job = worker.job
           /\ asks[worker.ask].kind = worker.kind
           /\ worker.pc \in InTurn
<1>1. worker \in Workers /\ asks \in Seq(Approvals) /\ Len(asks) \in Nat /\ Len(asks) <= MaxAsks
  BY DEF SupervisorInv, Typed, References
<1>2. /\ worker.ask \in AskIds
      /\ asks[worker.ask].owner = worker.owner
      /\ asks[worker.ask].job = worker.job
      /\ asks[worker.ask].kind = worker.kind
  BY DEF SupervisorInv, Prompting
<1>3. asks[worker.ask] \in Approvals
  BY <1>1, <1>2 DEF AskIds
<1>4. worker.ask \in 0..Len(asks) /\ worker.ask \in 0..MaxAsks
  BY <1>1, <1>2, Constants DEF AskIds
<1>5. worker.owner \in Owners /\ worker.job \in Jobs /\ worker.pc \in InTurn
  BY DEF SupervisorInv, References, Posted, AtHome, WorkerPcs, InTurn
<1>6. worker.kind \in Kinds
  BY <1>2, <1>3 DEF Approvals
<1> QED
  BY <1>1, <1>2, <1>3, <1>4, <1>5, <1>6

\* A prompt of a mutation or a retrieval goes on without a step of its job.
LEMMA ClaimGoesOn ==
    ASSUME SupervisorInv, worker.pc \in {"epoch", "claim", "announce"}, worker.kind # "turn",
           worker' \in Workers,
           \/ worker'.owner = worker.owner /\ worker'.job = worker.job
                /\ worker'.kind = worker.kind /\ worker'.ask = worker.ask
                /\ \/ worker.pc = "epoch" /\ worker.kind = "retrieval" /\ worker'.pc = "claim"
                   \/ worker.pc = "epoch" /\ worker.kind = "mutation" /\ worker'.pc = "insert"
           \/ worker' = Idle /\ worker.pc # "epoch",
           asks' \in Seq(Approvals), Len(asks') = Len(asks), SameAsks,
           \A a \in AskIds : /\ asks'[a].pending = asks[a].pending
                             /\ asks'[a].answer = asks[a].answer
                             /\ asks'[a].resolved = asks[a].resolved,
           UNCHANGED <<control, engine, inbox, jobs, stopped, queue, draining, outcome, retrievals,
                       client, nextId>>
    PROVE  SupervisorInv'
<1>1. Typed'
  BY DEF SupervisorInv, Typed
<1>2. worker.owner \in Owners /\ worker.job \in Jobs
  BY PromptFacts
<1>3. References'
  BY <1>2, Constants DEF SupervisorInv, References, AskIds, Posted, AtHome
<1>4. DrainsBehindSuccess' /\ InboxOnce'
  BY InboxStays, Constants DEF SupervisorInv, DrainsBehindSuccess, At, Places
<1>5. \A j \in Jobs : j \in DeniedTurns => j \in DeniedTurns'
  BY DeniedStay DEF SameAsks
<1>6. /\ \A j : ~Starts(j)'
      /\ \A p, j : /\ Claims(p, j)' => Claims(p, j)
                   /\ Claimed(p, j)' <=> Claimed(p, j)
                   /\ ~Turns(p, j)' /\ ~Turns(p, j)
  BY Constants DEF Starts, Claims, Claimed, Turns, At, InTurn
<1>7. \A p, j : Waits(p, j)' <=> Waits(p, j)
  BY AsksStay
<1>8. SettledOnce'
  BY DEF SupervisorInv, SettledOnce, SameAsks
<1>9. Prompting'
  BY PromptFacts, Constants, SMTT(30) DEF SupervisorInv, Prompting, SameAsks
<1> QED
  BY <1>1, <1>3, <1>4, <1>5, <1>6, <1>7, <1>8, <1>9, InboxStays, CalmPreserves

LEMMA ReadEpochPreserves ==
    ASSUME SupervisorInv, ReadEpoch
    PROVE  SupervisorInv'
<1>1. worker.pc = "epoch"
  BY DEF ReadEpoch, At
<1>2. PICK a : a = worker.ask
  OBVIOUS
<1>3. /\ a \in AskIds /\ asks \in Seq(Approvals) /\ asks[a] \in Approvals /\ worker \in Workers
      /\ worker.owner \in Owners /\ worker.job \in Jobs /\ worker.kind \in Kinds
      /\ worker.pc \in InTurn
  BY <1>1, <1>2, PromptFacts
<1>4. CurrentEpoch \in 0..MaxControls
  BY DEF CurrentEpoch, SupervisorInv, Typed, PermissionControls
<1> DEFINE x == [asks[a] EXCEPT !.epoch = CurrentEpoch]
<1>5. /\ x \in Approvals
      /\ x.owner = asks[a].owner /\ x.job = asks[a].job /\ x.kind = asks[a].kind
      /\ x.pending = asks[a].pending /\ x.answer = asks[a].answer /\ x.resolved = asks[a].resolved
  BY <1>3, <1>4 DEF Approvals
<1>6. asks' = [asks EXCEPT ![a] = x]
  BY <1>2 DEF ReadEpoch
<1> HIDE DEF x
<1>7. /\ asks' \in Seq(Approvals) /\ Len(asks') = Len(asks) /\ SameAsks
      /\ asks'[a] = x
      /\ \A b \in AskIds : b # a => asks'[b] = asks[b]
  BY <1>3, <1>5, <1>6, Rewriting
<1>8. \A b \in AskIds : /\ asks'[b].pending = asks[b].pending
                        /\ asks'[b].answer = asks[b].answer
                        /\ asks'[b].resolved = asks[b].resolved
  BY <1>5, <1>7
<1>9. /\ worker' \in Workers /\ worker'.pc = (IF worker.kind = "mutation" THEN "insert" ELSE "claim")
      /\ worker'.owner = worker.owner /\ worker'.job = worker.job
      /\ worker'.kind = worker.kind /\ worker'.ask = worker.ask
  <2> DEFINE pc == IF worker.kind = "mutation" THEN "insert" ELSE "claim"
  <2>1. pc \in WorkerPcs /\ Goto(pc)
    BY DEF ReadEpoch, WorkerPcs
  <2> HIDE DEF pc
  <2> QED
    BY <1>3, <2>1, Going DEF pc
<1>10. UNCHANGED <<control, engine, inbox, jobs, stopped, queue, draining, outcome, retrievals,
                   client, nextId>>
  BY DEF ReadEpoch, clientLocal
<1>11. CASE worker.kind = "turn"
  <2>1. SettledOnce' /\ worker'.pc = "claim"
    BY <1>7, <1>8, <1>9, <1>11 DEF SupervisorInv, SettledOnce, SameAsks
  <2>2. Prompting'
    BY <1>1, <1>2, <1>3, <1>7, <1>8, <1>9, <1>11 DEF SupervisorInv, Prompting, SameAsks
  <2>3. worker'.pc \in InTurn
    BY <2>1 DEF InTurn
  <2>4. /\ jobs' \in [Owners -> [id : Ids, ask : 0..MaxAsks]] /\ engine' \in EngineValues
        /\ \A p \in Owners : /\ jobs'[p].id = jobs[p].id
                             /\ jobs'[p].ask <= Len(asks)
                             /\ jobs'[p].id = 0 => jobs'[p] = NoJob
    BY <1>10 DEF SupervisorInv, Typed, References
  <2> QED
    BY <1>3, <1>7, <1>8, <1>9, <1>10, <1>11, <2>1, <2>2, <2>3, <2>4, TurnGoesOn
<1>12. CASE worker.kind # "turn"
  BY <1>1, <1>3, <1>7, <1>8, <1>9, <1>10, <1>12, ClaimGoesOn DEF Kinds
<1> QED
  BY <1>11, <1>12

\* A prompt acquires its job, unless the owner got one meanwhile; a turn has
\* it already.
LEMMA ClaimPreserves ==
    ASSUME SupervisorInv, Claim
    PROVE  SupervisorInv'
<1>1. worker.pc = "claim"
  BY DEF Claim, At
<1>2. PICK a, o, c : a = worker.ask /\ o = worker.owner /\ c = worker.job
  OBVIOUS
<1>3. /\ a \in AskIds /\ asks \in Seq(Approvals) /\ worker \in Workers
      /\ a \in 0..Len(asks) /\ a \in 0..MaxAsks
      /\ o \in Owners /\ c \in Jobs /\ worker.kind \in Kinds
      /\ worker.pc \in InTurn
  BY <1>1, <1>2, PromptFacts
<1>4. UNCHANGED <<control, engine, inbox, stopped, asks, queue, draining, outcome, retrievals,
                  client, nextId>>
  BY DEF Claim, clientLocal
<1>5. SameAsks /\ SettledOnce' /\ (\A j \in Jobs : j \in DeniedTurns => j \in DeniedTurns')
  BY <1>4 DEF SameAsks, AskIds, SupervisorInv, SettledOnce, DeniedTurns
<1>6. CASE worker.kind = "turn" /\ jobs' = Mark(c, a) /\ Goto("insert")
  <2>1. /\ worker' \in Workers /\ worker'.pc = "insert" /\ worker'.pc \in InTurn
        /\ worker'.owner = worker.owner /\ worker'.job = worker.job
        /\ worker'.kind = worker.kind /\ worker'.ask = worker.ask
    BY <1>3, <1>6, Going DEF WorkerPcs, InTurn
  <2>2. Prompting'
    BY <1>1, <1>4, <1>6, <2>1 DEF SupervisorInv, Prompting, AskIds
  <2>3. /\ jobs' \in [Owners -> [id : Ids, ask : 0..MaxAsks]]
        /\ \A p \in Owners : /\ jobs'[p].id = jobs[p].id
                             /\ jobs'[p].ask \in {jobs[p].ask, a}
                             /\ jobs[p].id = 0 => jobs'[p] = jobs[p]
    BY <1>3, <1>6, Marking DEF SupervisorInv, Typed
  <2>4. \A p \in Owners : jobs'[p].ask <= Len(asks) /\ (jobs'[p].id = 0 => jobs'[p] = NoJob)
    BY <1>3, <2>3 DEF SupervisorInv, References
  <2>5. engine' \in EngineValues /\ asks' \in Seq(Approvals) /\ Len(asks') = Len(asks)
    BY <1>4 DEF SupervisorInv, Typed
  <2> QED
    BY <1>3, <1>4, <1>5, <1>6, <2>1, <2>2, <2>3, <2>4, <2>5, TurnGoesOn
<1>7. CASE worker.kind # "turn" /\ worker' = Idle /\ UNCHANGED jobs
  <2>1. worker' \in Workers /\ asks' \in Seq(Approvals) /\ Len(asks') = Len(asks)
    BY <1>3, <1>4, <1>7, Constants
  <2> QED
    BY <1>1, <1>4, <1>5, <1>7, <2>1, ClaimGoesOn
<1>8. CASE /\ worker.kind # "turn"
           /\ Free(o)
           /\ jobs' = Acquire(o, c, a)
           /\ Goto(IF worker.kind = "mutation" THEN "epoch" ELSE "insert")
  <2>1. /\ worker' \in Workers
        /\ worker'.pc = (IF worker.kind = "mutation" THEN "epoch" ELSE "insert")
        /\ worker'.owner = worker.owner /\ worker'.job = worker.job
        /\ worker'.kind = worker.kind /\ worker'.ask = worker.ask
    <3> DEFINE pc == IF worker.kind = "mutation" THEN "epoch" ELSE "insert"
    <3>1. pc \in WorkerPcs /\ Goto(pc)
      BY <1>8 DEF WorkerPcs
    <3> HIDE DEF pc
    <3> QED
      BY <1>3, <3>1, Going DEF pc
  <2>2. Prompting'
    BY <1>1, <1>4, <1>8, <2>1 DEF SupervisorInv, Prompting, AskIds
  <2>3. /\ jobs' \in [Owners -> [id : Ids, ask : 0..MaxAsks]]
        /\ \A p \in Owners : jobs'[p].ask <= Len(asks) /\ (jobs'[p].id = 0 => jobs'[p] = NoJob)
    BY <1>3, <1>8, AcquireReferences
  <2>4. Typed' /\ References'
    BY <1>2, <1>3, <1>4, <2>1, <2>3 DEF SupervisorInv, Typed, References, AskIds
  <2>5. DrainsBehindSuccess'
    BY <1>4, <2>1 DEF SupervisorInv, DrainsBehindSuccess, At
  <2>6. /\ \A j : ~Starts(j)'
        /\ \A p, j : /\ Claims(p, j)' <=> Claims(p, j)
                     /\ Claims(p, j) <=> p = o /\ j = c
                     /\ ~Claimed(p, j)
                     /\ Claimed(p, j)' <=> p = o /\ j = c
                     /\ ~Turns(p, j)' /\ ~Turns(p, j)
    BY <1>1, <1>2, <1>3, <1>8, <2>1 DEF Starts, Claims, Claimed, Turns, At, InTurn, Kinds
  <2>7. \A p, j : Waits(p, j)' <=> Waits(p, j)
    BY <1>4, <1>5, AsksStay
  <2>8. \A p \in Owners, j \in Jobs : AtWork(p, j)' <=> AtWork(p, j)
    BY <1>4, <2>7, InboxStays, RetrievalsStay DEF AtWork
  <2>9. Places'
    <3>1. \A j \in Jobs : Leaves(j)
      BY <1>4, <2>6, <2>7, InboxStays, QueueStays, RetrievalsStay DEF Leaves
    <3>2. InboxOnce' /\ QueueOnce' /\ RetrievalsOnce'
      BY <1>4, InboxStays, QueueStays, RetrievalsStay DEF SupervisorInv, Places
    <3> QED
      BY <1>3, <1>4, <1>5, <3>1, <3>2, PlacesShrink, Constants DEF SupervisorInv, Typed
  <2>10. Exclusive'
    BY <2>6 DEF Exclusive
  <2>11. \A p \in Owners : ~AtWork(p, c)
    BY <1>3, <2>6 DEF SupervisorInv, Places, Apart, InHand
  <2>12. Registered' /\ Backed'
    <3>1. \A p \in Owners, j \in Jobs : j # c =>
              /\ AtWork(p, j)' <=> AtWork(p, j)
              /\ Turns(p, j)' <=> Turns(p, j)
              /\ Claimed(p, j)' <=> Claimed(p, j)
      BY <2>6, <2>8
    <3>2. \A p \in Owners : p # o => /\ ~AtWork(p, c) /\ ~Turns(p, c) /\ ~Claimed(p, c)
                                     /\ ~AtWork(p, c)' /\ ~Turns(p, c)' /\ ~Claimed(p, c)'
      BY <1>3, <2>6, <2>8, <2>11
    <3>3. Claimed(o, c)'
      BY <2>6
    <3> QED
      BY <1>3, <1>5, <1>8, <2>10, <3>1, <3>2, <3>3, RegistryAcquires
      DEF SupervisorInv, Typed
  <2> QED
    BY <1>5, <2>2, <2>4, <2>5, <2>9, <2>10, <2>12 DEF SupervisorInv
<1> QED
  BY <1>2, <1>6, <1>7, <1>8 DEF Claim

\* The approval is pending from now on: a turn's job stays in the worker's
\* hands, any other waits for its answer.
LEMMA InsertPendingPreserves ==
    ASSUME SupervisorInv, InsertPending
    PROVE  SupervisorInv'
<1>1. worker.pc = "insert"
  BY DEF InsertPending, At
<1>2. PICK a, o, c : a = worker.ask /\ o = worker.owner /\ c = worker.job
  OBVIOUS
<1>3. /\ a \in AskIds /\ asks \in Seq(Approvals) /\ asks[a] \in Approvals /\ worker \in Workers
      /\ o \in Owners /\ c \in Jobs /\ worker.kind \in Kinds
      /\ asks[a].owner = o /\ asks[a].job = c /\ asks[a].kind = worker.kind
      /\ worker.pc \in InTurn
  BY <1>1, <1>2, PromptFacts
<1> DEFINE x == [asks[a] EXCEPT !.pending = TRUE]
<1>4. /\ x \in Approvals
      /\ x.owner = asks[a].owner /\ x.job = asks[a].job /\ x.kind = asks[a].kind
      /\ x.pending /\ x.answer = asks[a].answer /\ x.resolved = asks[a].resolved
  BY <1>3 DEF Approvals
<1>5. asks' = [asks EXCEPT ![a] = x]
  BY <1>2 DEF InsertPending
<1> HIDE DEF x
<1>6. /\ asks' \in Seq(Approvals) /\ Len(asks') = Len(asks) /\ SameAsks
      /\ asks'[a] = x
      /\ \A b \in AskIds : b # a => asks'[b] = asks[b]
  BY <1>3, <1>4, <1>5, Rewriting
<1>7. asks[a].answer = "none" /\ asks[a].resolved = 0 /\ ~asks[a].pending
  BY <1>1, <1>2 DEF SupervisorInv, Prompting
<1>8. /\ worker' \in Workers /\ worker'.pc = "announce" /\ worker'.pc \in InTurn
      /\ worker'.owner = o /\ worker'.job = c
      /\ worker'.kind = worker.kind /\ worker'.ask = a
  BY <1>2, <1>3, Going DEF InsertPending, WorkerPcs, InTurn
<1>9. UNCHANGED <<control, engine, inbox, jobs, stopped, queue, draining, outcome, retrievals,
                  client, nextId>>
  BY DEF InsertPending, clientLocal
<1>10. SettledOnce'
  BY <1>4, <1>6, <1>7 DEF SupervisorInv, SettledOnce, SameAsks
<1>11. Prompting'
  BY <1>3, <1>4, <1>6, <1>7, <1>8 DEF SupervisorInv, Prompting, SameAsks
<1>12. CASE worker.kind = "turn"
  <2>1. /\ jobs' \in [Owners -> [id : Ids, ask : 0..MaxAsks]] /\ engine' \in EngineValues
        /\ \A p \in Owners : /\ jobs'[p].id = jobs[p].id
                             /\ jobs'[p].ask <= Len(asks)
                             /\ jobs'[p].id = 0 => jobs'[p] = NoJob
    BY <1>9 DEF SupervisorInv, Typed, References
  <2>2. \A b \in AskIds : /\ asks[b].answer = "deny" => asks'[b].answer = "deny"
                          /\ asks[b].kind # "turn" => asks'[b].pending = asks[b].pending
    BY <1>3, <1>4, <1>6, <1>12
  <2> QED
    BY <1>2, <1>3, <1>6, <1>8, <1>9, <1>10, <1>11, <1>12, <2>1, <2>2, TurnGoesOn
<1>13. CASE worker.kind # "turn"
  <2>1. Typed' /\ References'
    BY <1>3, <1>6, <1>8, <1>9 DEF SupervisorInv, Typed, References, AskIds
  <2>2. DrainsBehindSuccess'
    BY <1>8, <1>9 DEF SupervisorInv, DrainsBehindSuccess, At
  <2>3. /\ \A j : ~Starts(j)'
        /\ \A p, j : /\ ~Claims(p, j)' /\ ~Claimed(p, j)'
                     /\ Claims(p, j) <=> p = o /\ j = c
                     /\ Claimed(p, j) <=> p = o /\ j = c
                     /\ ~Turns(p, j)' /\ ~Turns(p, j)
    BY <1>1, <1>2, <1>8, <1>13 DEF Starts, Claims, Claimed, Turns, At, InTurn
  <2>4. Claims(o, c) /\ Claimed(o, c) /\ InHand(o, c)
    BY <2>3 DEF InHand
  <2>5. ~Fresh(c) /\ (\A p \in Owners : ~AtWork(p, c)) /\ c <= nextId
    BY <1>3, <2>4 DEF SupervisorInv, Places, Apart, Numbered
  <2>6. \A p \in Owners, j \in Jobs : Waits(p, j)' <=> Waits(p, j) \/ (p = o /\ j = c)
    BY <1>3, <1>4, <1>6, <1>7, <1>13 DEF Waits, SameAsks
  <2>7. \A p \in Owners, j \in Jobs : AtWork(p, j)' <=> AtWork(p, j) \/ (p = o /\ j = c)
    BY <1>9, <2>6, InboxStays, RetrievalsStay DEF AtWork
  <2>8. Places'
    <3>1. \A j \in Jobs : j # c => Leaves(j)
      BY <1>9, <2>3, <2>6, InboxStays, QueueStays, RetrievalsStay DEF Leaves
    <3>2. NoneTwice'
      BY <1>6, <1>9, InboxStays, QueueStays, RetrievalsStay
      DEF NoneTwice, SupervisorInv, Places, AsksOnce, SameAsks
    <3>3. ~Fresh(c)'
      BY <1>9, <2>3, <2>5, InboxStays, QueueStays DEF Fresh
    <3>4. \A p \in Owners : ~Resumes(p, c)' /\ ~Retrieves(p, c)' /\ ~InHand(p, c)'
      BY <1>3, <1>9, <2>3, <2>5, InboxStays, RetrievalsStay DEF AtWork, InHand
    <3>5. Apart(c)'
      BY <3>3, <3>4 DEF Apart, Fresh
    <3>6. \A b \in AskIds' : /\ b \in AskIds
                             /\ asks'[b].job = asks[b].job
                             /\ asks'[b].kind = asks[b].kind
      BY <1>6 DEF SameAsks
    <3>7. ASSUME NEW b \in AskIds', NEW kind \in Kinds, asks'[b].job = c, asks'[b].kind = kind
          PROVE  KeepsKind(c, kind)'
      <4>1. kind # "turn"
        BY <1>3, <1>13, <3>6, <3>7 DEF SupervisorInv, Places, AsksOnce
      <4> QED
        BY <3>3, <3>4, <4>1 DEF KeepsKind, InHand
    <3>8. nextId \in Nat /\ nextId' = nextId
      BY <1>9, Constants DEF SupervisorInv, Typed
    <3> QED
      BY <1>3, <1>6, <2>5, <3>1, <3>2, <3>5, <3>6, <3>7, <3>8, PlacesMove DEF SupervisorInv
  <2>9. Registered'
    BY <1>3, <1>9, <2>3, <2>4, <2>7 DEF SupervisorInv, Registered
  <2>10. Backed'
    <3>1. ASSUME NEW p \in Owners, NEW j \in Jobs, jobs'[p].id = j
          PROVE  AtWork(p, j)'
      BY <1>9, <2>3, <2>7, <3>1, Constants DEF SupervisorInv, Backed
    <3>2. \A p \in Owners : jobs'[p].id # 0 => jobs'[p].id \in Jobs
      BY <1>9 DEF SupervisorInv, Typed, Jobs
    <3> QED
      BY <3>1, <3>2 DEF Backed
  <2>11. Exclusive'
    BY <2>3 DEF Exclusive
  <2> QED
    BY <1>10, <1>11, <2>1, <2>2, <2>8, <2>9, <2>10, <2>11 DEF SupervisorInv
<1> QED
  BY <1>12, <1>13

LEMMA AnnouncePreserves ==
    ASSUME SupervisorInv, Announce
    PROVE  SupervisorInv'
<1>1. worker.pc = "announce"
  BY DEF Announce, At
<1>2. PICK a : a = worker.ask
  OBVIOUS
<1>3. /\ a \in AskIds /\ asks \in Seq(Approvals) /\ asks[a] \in Approvals /\ worker \in Workers
      /\ worker.owner \in Owners /\ worker.job \in Jobs /\ worker.kind \in Kinds
      /\ worker.pc \in InTurn
  BY <1>1, <1>2, PromptFacts
<1> DEFINE x == [asks[a] EXCEPT !.shown = TRUE, !.armed = TRUE]
<1>4. /\ x \in Approvals
      /\ x.owner = asks[a].owner /\ x.job = asks[a].job /\ x.kind = asks[a].kind
      /\ x.pending = asks[a].pending /\ x.answer = asks[a].answer /\ x.resolved = asks[a].resolved
  BY <1>3 DEF Approvals
<1>5. asks' = [asks EXCEPT ![a] = x]
  BY <1>2, <1>3 DEF Announce, Scheduled, AskIds
<1> HIDE DEF x
<1>6. /\ asks' \in Seq(Approvals) /\ Len(asks') = Len(asks) /\ SameAsks
      /\ asks'[a] = x
      /\ \A b \in AskIds : b # a => asks'[b] = asks[b]
  BY <1>3, <1>4, <1>5, Rewriting
<1>7. \A b \in AskIds : /\ asks'[b].pending = asks[b].pending
                        /\ asks'[b].answer = asks[b].answer
                        /\ asks'[b].resolved = asks[b].resolved
  BY <1>4, <1>6
<1>8. UNCHANGED <<control, engine, inbox, jobs, stopped, queue, draining, outcome, retrievals,
                  client, nextId>>
  BY DEF Announce, clientLocal
<1>9. CASE worker.kind = "turn"
  <2>1. /\ worker' \in Workers /\ worker'.pc = "await" /\ worker'.pc \in InTurn
        /\ worker'.owner = worker.owner /\ worker'.job = worker.job
        /\ worker'.kind = worker.kind /\ worker'.ask = worker.ask
    BY <1>3, <1>9, Going DEF Announce, WorkerPcs, InTurn
  <2>2. SettledOnce'
    BY <1>6, <1>7 DEF SupervisorInv, SettledOnce, SameAsks
  <2>3. Prompting'
    BY <1>1, <1>6, <1>7, <1>9, <2>1 DEF SupervisorInv, Prompting, SameAsks
  <2>4. /\ jobs' \in [Owners -> [id : Ids, ask : 0..MaxAsks]] /\ engine' \in EngineValues
        /\ \A p \in Owners : /\ jobs'[p].id = jobs[p].id
                             /\ jobs'[p].ask <= Len(asks)
                             /\ jobs'[p].id = 0 => jobs'[p] = NoJob
    BY <1>8 DEF SupervisorInv, Typed, References
  <2> QED
    BY <1>3, <1>6, <1>7, <1>8, <1>9, <2>1, <2>2, <2>3, <2>4, TurnGoesOn
<1>10. CASE worker.kind # "turn"
  <2>1. worker' = Idle /\ worker' \in Workers
    BY <1>10, Constants DEF Announce
  <2> QED
    BY <1>1, <1>6, <1>7, <1>8, <1>10, <2>1, ClaimGoesOn
<1> QED
  BY <1>9, <1>10

-----------------------------------------------------------------------------
\* A job is done.
LEMMA DonePreserves ==
    ASSUME SupervisorInv, NEW c \in Jobs, jobs' = Clear(c),
           worker' \in Workers, inbox' \in Seq(Messages),
           retrievals' \subseteq retrievals,
           worker'.owner = worker.owner, worker'.job = worker.job,
           worker'.kind = worker.kind, worker'.ask = worker.ask,
           worker'.pc = worker.pc \/ (worker.pc = "close" /\ worker'.pc = "finish"),
           UNCHANGED <<control, engine, stopped, asks, queue, draining, outcome, client, nextId>>,
           InboxOnce',
           \A j \in Jobs : Arrives(j)' => Arrives(j),
           \A o \in Owners, j \in Jobs :
              /\ Resumes(o, j)' => Resumes(o, j)
              /\ j # c => /\ Resumes(o, j) => Resumes(o, j)'
                          /\ Retrieves(o, j) => Retrieves(o, j)'
                          /\ Turns(o, j) => Turns(o, j)',
           \A o \in Owners : ~AtWork(o, c)' /\ ~Claimed(o, c)' /\ ~Turns(o, c)'
    PROVE  SupervisorInv'
<1>1. /\ jobs' \in [Owners -> [id : Ids, ask : 0..MaxAsks]]
      /\ \A p \in Owners : jobs'[p] \in {NoJob, jobs[p]}
  BY Clearing DEF SupervisorInv, Typed
<1>2. Typed'
  BY <1>1 DEF SupervisorInv, Typed
<1>3. References'
  <2>1. \A p \in Owners : jobs'[p].ask <= Len(asks) /\ (jobs'[p].id = 0 => jobs'[p] = NoJob)
    BY <1>1, Constants DEF SupervisorInv, Typed, References
  <2> QED
    BY <2>1 DEF SupervisorInv, References, AskIds, Posted, AtHome, WorkerPcs
<1>4. SameAsks /\ SettledOnce' /\ (\A j \in Jobs : j \in DeniedTurns => j \in DeniedTurns')
  BY DEF SameAsks, AskIds, SupervisorInv, SettledOnce, DeniedTurns
<1>5. Prompting' /\ DrainsBehindSuccess'
  BY DEF SupervisorInv, Prompting, DrainsBehindSuccess, AskIds, At
<1>6. \A p, j : Waits(p, j)' <=> Waits(p, j)
  BY <1>4, AsksStay
<1>7. /\ \A j : Starts(j)' <=> Starts(j)
      /\ \A p, j : /\ Claims(p, j)' <=> Claims(p, j)
                   /\ Claimed(p, j)' <=> Claimed(p, j)
                   /\ Turns(p, j)' => Turns(p, j)
  BY DEF Starts, Claims, Claimed, Turns, At, InTurn
<1>8. /\ \A p, j : Retrieves(p, j)' => Retrieves(p, j)
      /\ RetrievalsOnce'
  BY DEF Retrieves, RetrievalsOnce, SupervisorInv, Places
<1>9. Places'
  <2>1. \A j \in Jobs : Leaves(j)
    BY <1>6, <1>7, <1>8, QueueStays DEF Leaves
  <2>2. QueueOnce'
    BY QueueStays DEF SupervisorInv, Places
  <2> QED
    BY <1>4, <1>8, <2>1, <2>2, PlacesShrink, Constants DEF SupervisorInv, Typed
<1>10. Registered' /\ Backed' /\ Exclusive'
  <2>1. \A p \in Owners, j \in Jobs : j # c =>
              /\ AtWork(p, j)' <=> AtWork(p, j)
              /\ Turns(p, j)' <=> Turns(p, j)
              /\ Claimed(p, j)' <=> Claimed(p, j)
    BY <1>6, <1>7, <1>8 DEF AtWork
  <2> QED
    BY <1>4, <2>1, RegistryClears DEF SupervisorInv, Typed
<1> QED
  BY <1>2, <1>3, <1>4, <1>5, <1>9, <1>10 DEF SupervisorInv

LEMMA CloseTurnPreserves ==
    ASSUME SupervisorInv, CloseTurn
    PROVE  SupervisorInv'
<1>1. PICK o, c : o = worker.owner /\ c = worker.job
  OBVIOUS
<1>2. /\ worker.pc = "close" /\ worker.kind = "turn" /\ o \in Owners /\ c \in Jobs
      /\ worker \in Workers /\ jobs' = Clear(c)
  BY <1>1 DEF CloseTurn, At, SupervisorInv, Prompting, References, Typed, Posted, AtHome, WorkerPcs
<1>3. /\ worker' \in Workers /\ worker'.pc = "finish"
      /\ worker'.owner = worker.owner /\ worker'.job = worker.job
      /\ worker'.kind = worker.kind /\ worker'.ask = worker.ask
  BY <1>2, Going DEF CloseTurn, WorkerPcs
<1>4. UNCHANGED <<control, engine, inbox, stopped, asks, queue, draining, outcome, retrievals,
                  client, nextId>>
  BY DEF CloseTurn, clientLocal
<1>5. \A p, j : /\ Turns(p, j) <=> p = o /\ j = c
                /\ ~Turns(p, j)' /\ ~Claimed(p, j)'
  BY <1>1, <1>2, <1>3 DEF Turns, Claims, Claimed, At, InTurn
<1>6. \A p \in Owners : ~AtWork(p, c)
  BY <1>2, <1>5 DEF SupervisorInv, Places, Apart, InHand
<1>7. \A p, j : Waits(p, j)' <=> Waits(p, j)
  BY <1>4, AsksStay DEF SameAsks, AskIds
<1>8. \A p \in Owners : ~AtWork(p, c)'
  BY <1>4, <1>6, <1>7, InboxStays, RetrievalsStay DEF AtWork
<1>9. inbox' \in Seq(Messages) /\ InboxOnce' /\ retrievals' = retrievals
  BY <1>4, InboxStays DEF SupervisorInv, Typed, Places
<1> QED
  BY <1>2, <1>3, <1>4, <1>5, <1>8, <1>9, InboxStays, RetrievalsStay, DonePreserves

LEMMA FinishRetrievalPreserves ==
    ASSUME SupervisorInv, NEW r \in retrievals, FinishRetrieval(r)
    PROVE  SupervisorInv'
<1>1. PICK o, c : o = r.owner /\ c = r.job
  OBVIOUS
<1>2. o \in Owners /\ c \in Jobs /\ r = [job |-> c, owner |-> o]
  BY <1>1 DEF SupervisorInv, Typed
<1>3. /\ jobs' = Clear(c) /\ retrievals' = retrievals \ {r}
      /\ UNCHANGED <<control, engine, inbox, stopped, asks, worker, queue, draining, outcome,
                     client, nextId>>
  BY <1>1 DEF FinishRetrieval, clientLocal
<1>4. Retrieves(o, c) /\ AtWork(o, c)
  BY <1>2 DEF Retrieves, AtWork
<1>5. \A p \in Owners : ~Waits(p, c) /\ ~Resumes(p, c) /\ ~InHand(p, c)
  BY <1>2, <1>4 DEF SupervisorInv, Places, Apart
<1>6. \A p, j : Waits(p, j)' <=> Waits(p, j)
  BY <1>3, AsksStay DEF SameAsks, AskIds
<1>7. \A p : ~Retrieves(p, c)'
  BY <1>1, <1>3 DEF Retrieves, SupervisorInv, Places, RetrievalsOnce
<1>8. \A p \in Owners : ~AtWork(p, c)' /\ ~Claimed(p, c)' /\ ~Turns(p, c)'
  BY <1>3, <1>5, <1>6, <1>7, InboxStays, WorkerStays DEF AtWork, InHand, Claimed
<1>9. \A p, j : j # c => (Retrieves(p, j) => Retrieves(p, j)')
  BY <1>2, <1>3 DEF Retrieves
<1>10. inbox' \in Seq(Messages) /\ InboxOnce' /\ worker' \in Workers
  BY <1>3, InboxStays DEF SupervisorInv, Typed, Places
<1> QED
  BY <1>2, <1>3, <1>8, <1>9, <1>10, InboxStays, WorkerStays, DonePreserves

\* A released job that the worker comes to.
LEMMA ResumedFacts ==
    ASSUME SupervisorInv, NEW type \in ResumeTypes, Take(type), NEW m, m = Head(inbox),
           NEW o, o = m.owner, NEW c, c = m.id
    PROVE  /\ o \in Owners /\ c \in Jobs /\ Resumes(o, c) /\ c <= nextId
           /\ inbox' \in Seq(Messages) /\ InboxOnce'
           /\ \A j : Arrives(j)' => Arrives(j)
           /\ \A p, j : Resumes(p, j)' => Resumes(p, j)
           /\ \A p, j : Resumes(p, j) => Resumes(p, j)' \/ (p = o /\ j = c)
           /\ \A p : ~Resumes(p, c)'
           /\ ~Fresh(c)
           /\ \A p \in Owners : ~Waits(p, c) /\ ~Retrieves(p, c) /\ ~InHand(p, c)
           /\ jobs[o].id = c /\ Held(c)
<1>1. /\ m \in Messages /\ m.type = type
      /\ inbox' \in Seq(Messages) /\ InboxOnce'
      /\ Resumes(o, c)
      /\ \A j : Arrives(j)' => Arrives(j)
      /\ \A p, j : Resumes(p, j)' => Resumes(p, j)
      /\ \A p : ~Resumes(p, c)'
      /\ \A p, j : Resumes(p, j) => Resumes(p, j)' \/ (p = o /\ j = c)
  BY TakenFacts DEF JobTypes
<1>2. o \in Owners /\ c \in Jobs
  BY <1>1, MessageFacts DEF JobTypes
<1>3. AtWork(o, c)
  BY <1>1 DEF AtWork
<1>4. jobs[o].id = c /\ Held(c)
  BY <1>2, <1>3 DEF SupervisorInv, Registered, Held
<1>5. ~Fresh(c) /\ \A p \in Owners : ~Waits(p, c) /\ ~Retrieves(p, c) /\ ~InHand(p, c)
  BY <1>1, <1>2, <1>3 DEF SupervisorInv, Places, Apart
<1>6. c <= nextId
  BY <1>2, <1>3 DEF SupervisorInv, Places, Numbered
<1> QED
  BY <1>1, <1>2, <1>4, <1>5, <1>6

\* A released job that ends where the worker comes to it.
LEMMA ResumedEndsPreserves ==
    ASSUME SupervisorInv, NEW type \in ResumeTypes, Take(type), NEW c, c = Head(inbox).id,
           jobs' = Clear(c),
           UNCHANGED <<control, engine, stopped, asks, worker, queue, draining, outcome,
                       retrievals, client, nextId>>
    PROVE  SupervisorInv'
<1>1. PICK m, o : m = Head(inbox) /\ o = m.owner
  OBVIOUS
<1>2. /\ o \in Owners /\ c \in Jobs /\ Resumes(o, c) /\ c <= nextId
      /\ inbox' \in Seq(Messages) /\ InboxOnce'
      /\ \A j : Arrives(j)' => Arrives(j)
      /\ \A p, j : Resumes(p, j)' => Resumes(p, j)
      /\ \A p, j : Resumes(p, j) => Resumes(p, j)' \/ (p = o /\ j = c)
      /\ \A p : ~Resumes(p, c)'
      /\ \A p \in Owners : ~Waits(p, c) /\ ~Retrieves(p, c) /\ ~InHand(p, c)
  BY <1>1, ResumedFacts
<1>3. \A p, j : Waits(p, j)' <=> Waits(p, j)
  BY AsksStay DEF SameAsks, AskIds
<1>4. \A p \in Owners : ~AtWork(p, c)' /\ ~Claimed(p, c)' /\ ~Turns(p, c)'
  BY <1>2, <1>3, RetrievalsStay, WorkerStays DEF AtWork, InHand, Claimed
<1>5. worker' \in Workers
  BY DEF SupervisorInv, Typed
<1> QED
  BY <1>2, <1>4, <1>5, RetrievalsStay, WorkerStays, DonePreserves

LEMMA ResumeMutationPreserves ==
    ASSUME SupervisorInv, ResumeMutation
    PROVE  SupervisorInv'
<1>1. "resume_mutation" \in ResumeTypes
  BY DEF ResumeTypes
<1> QED
  BY <1>1, ResumedEndsPreserves DEF ResumeMutation, clientLocal

LEMMA ResumeRetrievalPreserves ==
    ASSUME SupervisorInv, ResumeRetrieval
    PROVE  SupervisorInv'
<1>1. PICK m, o, c : m = Head(inbox) /\ o = m.owner /\ c = m.id
  OBVIOUS
<1>2. "resume_retrieval" \in ResumeTypes /\ Take("resume_retrieval")
  BY DEF ResumeTypes, ResumeRetrieval
<1>3. /\ o \in Owners /\ c \in Jobs /\ Resumes(o, c) /\ c <= nextId
      /\ inbox' \in Seq(Messages) /\ InboxOnce'
      /\ \A j : Arrives(j)' => Arrives(j)
      /\ \A p, j : Resumes(p, j)' => Resumes(p, j)
      /\ \A p, j : Resumes(p, j) => Resumes(p, j)' \/ (p = o /\ j = c)
      /\ \A p : ~Resumes(p, c)'
      /\ ~Fresh(c)
      /\ \A p \in Owners : ~Waits(p, c) /\ ~Retrieves(p, c) /\ ~InHand(p, c)
      /\ jobs[o].id = c /\ Held(c)
  BY <1>1, <1>2, ResumedFacts
<1>4. UNCHANGED <<control, engine, stopped, asks, worker, queue, draining, outcome, client, nextId>>
  BY DEF ResumeRetrieval, clientLocal
<1>5. CASE jobs' = Clear(c) /\ UNCHANGED retrievals
  BY <1>1, <1>2, <1>4, <1>5, ResumedEndsPreserves
<1>6. CASE jobs' = Mark(c, 0) /\ retrievals' = retrievals \cup {[job |-> c, owner |-> o]}
  <2>1. /\ jobs' \in [Owners -> [id : Ids, ask : 0..MaxAsks]]
        /\ \A p \in Owners : /\ jobs'[p].id = jobs[p].id
                             /\ jobs'[p].ask \in {jobs[p].ask, 0}
                             /\ jobs[p].id = 0 => jobs'[p] = jobs[p]
    BY <1>3, <1>6, Marking, Constants DEF SupervisorInv, Typed
  <2>2. Typed' /\ References'
    <3>1. 0 \in 0..Len(asks)
      BY DEF SupervisorInv, Typed
    <3>2. References'
      BY <1>4, <2>1, <3>1, MarkReferences DEF SupervisorInv, References
    <3> QED
      BY <1>3, <1>4, <1>6, <2>1, <3>2 DEF SupervisorInv, Typed
  <2>3. SameAsks /\ SettledOnce' /\ (\A j \in Jobs : j \in DeniedTurns => j \in DeniedTurns')
    BY <1>4 DEF SameAsks, AskIds, SupervisorInv, SettledOnce, DeniedTurns
  <2>4. Prompting' /\ DrainsBehindSuccess'
    BY <1>4 DEF SupervisorInv, Prompting, DrainsBehindSuccess, AskIds, At
  <2>5. \A p, j : Waits(p, j)' <=> Waits(p, j)
    BY <1>4, <2>3, AsksStay
  <2>6. \A p, j : Retrieves(p, j)' <=> Retrieves(p, j) \/ (p = o /\ j = c)
    BY <1>6 DEF Retrieves
  <2>7. \A p \in Owners, j \in Jobs : AtWork(p, j)' <=> AtWork(p, j)
    BY <1>3, <2>5, <2>6 DEF AtWork
  <2>8. RetrievalsOnce'
    <3>1. \A r \in retrievals : r.job # c
      <4>1. ASSUME NEW r \in retrievals, r.job = c
            PROVE  FALSE
        <5>1. r \in [job : Jobs, owner : Owners]
          BY DEF SupervisorInv, Typed
        <5>2. PICK p \in Owners : p = r.owner
          BY <5>1
        <5>3. r = [job |-> c, owner |-> p]
          BY <4>1, <5>1, <5>2
        <5> QED
          BY <1>3, <5>3 DEF Retrieves
      <4> QED
        BY <4>1
    <3> QED
      BY <1>6, <3>1 DEF SupervisorInv, Places, RetrievalsOnce
  <2>9. Places'
    <3>1. \A j \in Jobs : j # c => Leaves(j)
      BY <1>3, <1>4, <2>5, <2>6, QueueStays, WorkerStays DEF Leaves
    <3>2. NoneTwice'
      BY <1>3, <1>4, <2>3, <2>8, QueueStays DEF NoneTwice, SupervisorInv, Places, AsksOnce, SameAsks
    <3>3. ~Fresh(c)' /\ \A p \in Owners : ~Waits(p, c)' /\ ~Resumes(p, c)' /\ ~InHand(p, c)'
      BY <1>3, <1>4, <2>5, QueueStays, WorkerStays DEF Fresh, InHand
    <3>4. Apart(c)'
      BY <3>3 DEF Apart, Fresh
    <3>5. asks \in Seq(Approvals) /\ asks' = asks /\ AskIds' = AskIds /\ nextId \in Nat /\ nextId' = nextId
      BY <1>4, Constants DEF SupervisorInv, Typed, AskIds
    <3>6. ASSUME NEW b \in AskIds', NEW kind \in Kinds, asks'[b].job = c, asks'[b].kind = kind
          PROVE  KeepsKind(c, kind)'
      <4>1. kind # "turn"
        BY <1>3, <3>5, <3>6 DEF SupervisorInv, Places, PromptedOnce, AtWork
      <4> QED
        BY <3>3, <4>1 DEF KeepsKind, InHand
    <3> QED
      BY <1>3, <3>1, <3>2, <3>4, <3>5, <3>6, PlacesMove DEF SupervisorInv
  <2>10. Registered' /\ Backed' /\ Exclusive'
    BY <1>4, <2>1, <2>3, <2>7, WorkerStays, RegistryStays DEF SupervisorInv, Typed
  <2> QED
    BY <2>2, <2>3, <2>4, <2>9, <2>10 DEF SupervisorInv
<1> QED
  BY <1>1, <1>3, <1>5, <1>6 DEF ResumeRetrieval

-----------------------------------------------------------------------------
\* The worker thread comes to a retrieval or a mutation.

\* A new job that the worker comes to.
LEMMA ArrivedFacts ==
    ASSUME SupervisorInv, NEW type \in NewTypes, Take(type), NEW m, m = Head(inbox),
           NEW o, o = m.owner, NEW c, c = m.id
    PROVE  /\ worker.pc = "idle" /\ worker.kind = "turn" /\ worker.pc \notin InTurn \cup {"start"}
           /\ o \in Owners /\ c \in Jobs /\ c \in Nat /\ c <= nextId
           /\ inbox' \in Seq(Messages) /\ InboxOnce'
           /\ Arrives(c)
           /\ ~Arrives(c)' /\ ~Queues(c)
           /\ \A j : Arrives(j)' => Arrives(j)
           /\ \A p, j : Resumes(p, j)' <=> Resumes(p, j)
           /\ \A p \in Owners : ~AtWork(p, c) /\ ~InHand(p, c)
           /\ \A a \in AskIds : asks[a].job # c
<1>1. /\ worker.pc = "idle" /\ worker.kind = "turn" /\ worker.pc \notin InTurn \cup {"start"}
      /\ m \in Messages /\ m.type = type
      /\ inbox' \in Seq(Messages) /\ InboxOnce'
      /\ Arrives(c) /\ ~Arrives(c)'
      /\ \A j : Arrives(j)' => Arrives(j)
      /\ \A p, j : Resumes(p, j)' <=> Resumes(p, j)
  BY TakenFacts DEF JobTypes, NewTypes, ResumeTypes
<1>2. o \in Owners /\ c \in Jobs /\ c \in Nat
  BY <1>1, MessageFacts, Constants DEF JobTypes
<1>3. Fresh(c)
  BY <1>1 DEF Fresh
<1> QED
  BY <1>1, <1>2, <1>3 DEF SupervisorInv, Places, Apart, Numbered, PromptedOnce

\* A retrieval or a mutation is refused, or done at once.
LEMMA TurnedAwayPreserves ==
    ASSUME SupervisorInv, NEW type \in NewTypes, Take(type),
           UNCHANGED <<control, engine, jobs, stopped, asks, worker, queue, draining, outcome,
                       retrievals, client, nextId>>
    PROVE  SupervisorInv'
<1>1. PICK m, o, c : m = Head(inbox) /\ o = m.owner /\ c = m.id
  OBVIOUS
<1>2. /\ worker.kind = "turn" /\ worker.pc \notin InTurn \cup {"start"}
      /\ inbox' \in Seq(Messages) /\ InboxOnce'
      /\ \A j : Arrives(j)' => Arrives(j)
      /\ \A p, j : Resumes(p, j)' <=> Resumes(p, j)
  BY <1>1, ArrivedFacts
<1>3. Typed' /\ References' /\ DrainsBehindSuccess'
  BY <1>2 DEF SupervisorInv, Typed, References, DrainsBehindSuccess, At, AskIds
<1> QED
  BY <1>2, <1>3, FreeHandsPreserve

\* A retrieval or a mutation is prompted for.
LEMMA PromptNewPreserves ==
    ASSUME SupervisorInv, NEW type \in NewTypes, Take(type),
           NEW o, NEW c, o = Head(inbox).owner, c = Head(inbox).id,
           NEW kind \in {"mutation", "retrieval"}, Prompt(o, c, kind),
           UNCHANGED <<control, engine, jobs, stopped, queue, draining, outcome,
                       retrievals, client, nextId>>
    PROVE  SupervisorInv'
<1>1. PICK m : m = Head(inbox)
  OBVIOUS
<1>2. /\ worker.pc = "idle" /\ worker.kind = "turn" /\ worker.pc \notin InTurn \cup {"start"}
      /\ o \in Owners /\ c \in Jobs /\ c \in Nat /\ c <= nextId
      /\ inbox' \in Seq(Messages) /\ InboxOnce'
      /\ ~Arrives(c)' /\ ~Queues(c)
      /\ \A j : Arrives(j)' => Arrives(j)
      /\ \A p, j : Resumes(p, j)' <=> Resumes(p, j)
      /\ \A p \in Owners : ~AtWork(p, c) /\ ~InHand(p, c)
      /\ \A a \in AskIds : asks[a].job # c
  BY <1>1, ArrivedFacts
<1>3. asks \in Seq(Approvals) /\ worker \in Workers /\ kind \in Kinds /\ kind # "turn"
  BY DEF SupervisorInv, Typed, Kinds
<1>4. /\ asks' \in Seq(Approvals) /\ Len(asks') <= MaxAsks
      /\ Len(asks) \in Nat /\ Len(asks') = Len(asks) + 1
      /\ \A a \in AskIds : a \in AskIds' /\ asks'[a] = asks[a]
      /\ asks'[Len(asks')] = NewAsk(o, c, kind)
      /\ worker' \in Workers /\ worker'.pc = (IF kind = "mutation" THEN "claim" ELSE "epoch")
      /\ worker'.owner = o /\ worker'.job = c /\ worker'.kind = kind
      /\ worker'.ask = Len(asks')
  BY <1>2, <1>3, Prompted
<1> DEFINE n == Len(asks')
<1>5. /\ n \in AskIds' /\ n \notin AskIds
      /\ \A a \in AskIds' : a = n \/ a \in AskIds
  BY <1>4 DEF AskIds
<1>6. /\ asks'[n].owner = o /\ asks'[n].job = c /\ asks'[n].kind = kind
      /\ ~asks'[n].pending /\ asks'[n].resolved = 0 /\ asks'[n].answer = "none"
  BY <1>4 DEF NewAsk
<1> HIDE DEF n
<1>7. SettledOnce'
  BY <1>4, <1>5, <1>6 DEF SupervisorInv, SettledOnce
<1>8. Prompting'
  BY <1>3, <1>4, <1>5, <1>6 DEF SupervisorInv, Prompting, n
<1>9. Typed'
  BY <1>2, <1>4 DEF SupervisorInv, Typed
<1>10. References'
  <2>1. client.asks \subseteq AskIds'
    BY <1>4 DEF SupervisorInv, References
  <2>2. \A p \in Owners : jobs[p].ask \in Nat
    BY Constants DEF SupervisorInv, Typed
  <2>3. \A p \in Owners : jobs'[p].ask <= Len(asks')
    BY <1>4, <2>2 DEF SupervisorInv, References
  <2> QED
    BY <1>2, <1>4, <2>1, <2>3 DEF SupervisorInv, References
<1>11. DrainsBehindSuccess'
  BY <1>4 DEF SupervisorInv, DrainsBehindSuccess, At
<1>12. \A j \in Jobs : j \in DeniedTurns => j \in DeniedTurns'
  BY <1>4, DeniedStay
<1>13. /\ \A j : ~Starts(j)'
       /\ \A p, j : /\ ~Claims(p, j) /\ ~Claimed(p, j) /\ ~Turns(p, j)
                    /\ ~Claimed(p, j)' /\ ~Turns(p, j)'
                    /\ Claims(p, j)' <=> p = o /\ j = c
  BY <1>2, <1>3, <1>4 DEF Starts, Claims, Claimed, Turns, At, InTurn
<1>14. \A p, j : Waits(p, j)' <=> Waits(p, j)
  BY <1>4, <1>5, <1>6 DEF Waits
<1>15. \A p \in Owners, j \in Jobs : AtWork(p, j)' <=> AtWork(p, j)
  BY <1>2, <1>14, RetrievalsStay DEF AtWork
<1>16. ~Fresh(c)' /\ \A p \in Owners : ~AtWork(p, c)' /\ ~Turns(p, c)'
  BY <1>2, <1>13, <1>15, QueueStays DEF Fresh
<1>17. Places'
  <2>1. \A j \in Jobs : j # c => Leaves(j)
    BY <1>2, <1>13, <1>14, QueueStays, RetrievalsStay DEF Leaves
  <2>2. AsksOnce'
    BY <1>2, <1>4, <1>5, <1>6 DEF SupervisorInv, Places, AsksOnce
  <2>3. NoneTwice'
    BY <1>2, <2>2, QueueStays, RetrievalsStay DEF NoneTwice, SupervisorInv, Places
  <2>4. Apart(c)'
    BY <1>16 DEF Apart, AtWork, Fresh
  <2>5. \A a \in AskIds' : \/ asks'[a].job = c
                           \/ /\ a \in AskIds
                              /\ asks'[a].job = asks[a].job
                              /\ asks'[a].kind = asks[a].kind
    BY <1>4, <1>5, <1>6
  <2>6. ASSUME NEW a \in AskIds', NEW k \in Kinds, asks'[a].job = c, asks'[a].kind = k
        PROVE  KeepsKind(c, k)'
    <3>1. k # "turn"
      BY <1>2, <1>3, <1>4, <1>5, <1>6, <2>6
    <3> QED
      BY <1>16, <3>1 DEF KeepsKind
  <2>7. nextId \in Nat /\ nextId' = nextId
    BY Constants DEF SupervisorInv, Typed
  <2>8. /\ Places /\ asks \in Seq(Approvals) /\ asks' \in Seq(Approvals)
        /\ nextId \in Nat /\ nextId' \in Nat /\ nextId <= nextId'
        /\ c \in Jobs /\ c <= nextId'
    BY <1>2, <1>3, <1>4, <2>7 DEF SupervisorInv
  <2>9. \A a \in AskIds', k \in Kinds :
           asks'[a].job = c /\ asks'[a].kind = k => KeepsKind(c, k)'
    BY <2>6
  <2> QED
    BY ONLY <2>1, <2>3, <2>4, <2>5, <2>8, <2>9, PlacesMove
<1>18. Registered' /\ Backed' /\ Exclusive'
  BY <1>12, <1>13, <1>15, RegistryStays DEF SupervisorInv, Typed
<1> QED
  BY <1>7, <1>8, <1>9, <1>10, <1>11, <1>17, <1>18 DEF SupervisorInv

LEMMA TakeMutatePreserves ==
    ASSUME SupervisorInv, TakeMutate
    PROVE  SupervisorInv'
<1>1. "mutate" \in NewTypes /\ Take("mutate")
  BY DEF NewTypes, TakeMutate
<1>2. UNCHANGED <<control, engine, jobs, stopped, queue, draining, outcome, retrievals,
                  client, nextId>>
  BY DEF TakeMutate, clientLocal
<1>3. CASE UNCHANGED <<asks, worker>>
  BY <1>1, <1>2, <1>3, TurnedAwayPreserves
<1>4. CASE Prompt(Head(inbox).owner, Head(inbox).id, "mutation")
  BY <1>1, <1>2, <1>4, PromptNewPreserves
<1> QED
  BY <1>3, <1>4 DEF TakeMutate

\* A retrieval that needs no approval runs at once.
LEMMA RunAtOncePreserves ==
    ASSUME SupervisorInv, Take("retrieve"),
           NEW o, NEW c, o = Head(inbox).owner, c = Head(inbox).id, Free(o),
           jobs' = Acquire(o, c, 0),
           retrievals' = retrievals \cup {[job |-> c, owner |-> o]},
           UNCHANGED <<control, engine, stopped, asks, worker, queue, draining, outcome,
                       client, nextId>>
    PROVE  SupervisorInv'
<1>1. PICK m : m = Head(inbox)
  OBVIOUS
<1>2. /\ worker.kind = "turn" /\ worker.pc \notin InTurn \cup {"start"}
      /\ o \in Owners /\ c \in Jobs /\ c \in Nat /\ c <= nextId
      /\ inbox' \in Seq(Messages) /\ InboxOnce'
      /\ ~Arrives(c)' /\ ~Queues(c)
      /\ \A j : Arrives(j)' => Arrives(j)
      /\ \A p, j : Resumes(p, j)' <=> Resumes(p, j)
      /\ \A p \in Owners : ~AtWork(p, c) /\ ~InHand(p, c)
      /\ \A a \in AskIds : asks[a].job # c
  BY <1>1, ArrivedFacts DEF NewTypes
<1>3. /\ jobs' \in [Owners -> [id : Ids, ask : 0..MaxAsks]]
      /\ \A p \in Owners : jobs'[p].ask <= Len(asks) /\ (jobs'[p].id = 0 => jobs'[p] = NoJob)
  <2>1. 0 \in 0..Len(asks)
    BY DEF SupervisorInv, Typed
  <2> QED
    BY <1>2, <2>1, AcquireReferences
<1>4. Typed' /\ References'
  BY <1>2, <1>3 DEF SupervisorInv, Typed, References, AskIds
<1>5. SameAsks /\ SettledOnce' /\ (\A j \in Jobs : j \in DeniedTurns => j \in DeniedTurns')
  BY DEF SameAsks, AskIds, SupervisorInv, SettledOnce, DeniedTurns
<1>6. Prompting' /\ DrainsBehindSuccess'
  BY DEF SupervisorInv, Prompting, DrainsBehindSuccess, AskIds, At
<1>7. \A p, j : Waits(p, j)' <=> Waits(p, j)
  BY <1>5, AsksStay
<1>8. \A p, j : Retrieves(p, j)' <=> Retrieves(p, j) \/ (p = o /\ j = c)
  BY DEF Retrieves
<1>9. \A p \in Owners, j \in Jobs : AtWork(p, j)' <=> AtWork(p, j) \/ (p = o /\ j = c)
  BY <1>2, <1>7, <1>8 DEF AtWork
<1>10. \A p, j : ~Turns(p, j) /\ ~Turns(p, j)' /\ ~Claimed(p, j) /\ ~Claimed(p, j)' /\ ~InHand(p, j)'
                 /\ ~Starts(j)'
  BY <1>2, HandsFree DEF Turns, Claims, Claimed, InHand, Starts, At, InTurn
<1>11. RetrievalsOnce'
  <2>1. ASSUME NEW r \in retrievals, r.job = c
        PROVE  FALSE
    <3>1. r \in [job : Jobs, owner : Owners]
      BY DEF SupervisorInv, Typed
    <3>2. PICK p \in Owners : p = r.owner
      BY <3>1
    <3>3. r = [job |-> c, owner |-> p]
      BY <2>1, <3>1, <3>2
    <3> QED
      BY <1>2, <3>3 DEF AtWork, Retrieves
  <2> QED
    BY <2>1 DEF SupervisorInv, Places, RetrievalsOnce
<1>12. Places'
  <2>1. \A j \in Jobs : j # c => Leaves(j)
    BY <1>2, <1>7, <1>8, QueueStays, WorkerStays DEF Leaves
  <2>2. NoneTwice'
    BY <1>2, <1>5, <1>11, QueueStays DEF NoneTwice, SupervisorInv, Places, AsksOnce, SameAsks
  <2>3. ~Fresh(c)' /\ \A p \in Owners : ~Waits(p, c)' /\ ~Resumes(p, c)'
    BY <1>2, <1>7, <1>10, QueueStays DEF Fresh, AtWork
  <2>4. Apart(c)'
    BY <1>10, <2>3 DEF Apart, Fresh
  <2>5. asks \in Seq(Approvals) /\ AskIds' = AskIds /\ nextId \in Nat
    BY Constants DEF SupervisorInv, Typed, AskIds
  <2>6. \A b \in AskIds' : /\ b \in AskIds
                           /\ asks'[b].job = asks[b].job
                           /\ asks'[b].kind = asks[b].kind
                           /\ asks'[b].job # c
    BY <1>2, <2>5
  <2> QED
    BY <1>2, <2>1, <2>2, <2>4, <2>5, <2>6, PlacesMove DEF SupervisorInv
<1>13. Exclusive'
  BY <1>10 DEF Exclusive
<1>14. Registered' /\ Backed'
  <2>1. \A p \in Owners, j \in Jobs : j # c =>
              /\ AtWork(p, j)' <=> AtWork(p, j)
              /\ Turns(p, j)' <=> Turns(p, j)
              /\ Claimed(p, j)' <=> Claimed(p, j)
    BY <1>9, <1>10
  <2>2. \A p \in Owners : p # o => /\ ~AtWork(p, c) /\ ~Turns(p, c) /\ ~Claimed(p, c)
                                   /\ ~AtWork(p, c)' /\ ~Turns(p, c)' /\ ~Claimed(p, c)'
    BY <1>2, <1>9, <1>10
  <2>3. AtWork(o, c)' /\ 0 \in 0..MaxAsks
    BY <1>2, <1>9, Constants
  <2> QED
    BY <1>2, <1>5, <1>13, <2>1, <2>2, <2>3, RegistryAcquires DEF SupervisorInv, Typed
<1> QED
  BY <1>4, <1>5, <1>6, <1>12, <1>13, <1>14 DEF SupervisorInv

LEMMA TakeRetrievePreserves ==
    ASSUME SupervisorInv, TakeRetrieve
    PROVE  SupervisorInv'
<1>1. "retrieve" \in NewTypes /\ Take("retrieve")
  BY DEF NewTypes, TakeRetrieve
<1>2. UNCHANGED <<control, engine, stopped, queue, draining, outcome, client, nextId>>
  BY DEF TakeRetrieve, clientLocal
<1>3. CASE UNCHANGED <<jobs, retrievals, asks, worker>>
  BY <1>1, <1>2, <1>3, TurnedAwayPreserves
<1>4. PICK o, c : o = Head(inbox).owner /\ c = Head(inbox).id
  OBVIOUS
<1>5. CASE /\ Free(o)
           /\ jobs' = Acquire(o, c, 0)
           /\ retrievals' = retrievals \cup {[job |-> c, owner |-> o]}
           /\ UNCHANGED <<asks, worker>>
  BY <1>1, <1>2, <1>4, <1>5, RunAtOncePreserves
<1>6. CASE /\ Prompt(o, c, "retrieval")
           /\ UNCHANGED <<jobs, retrievals>>
  BY <1>1, <1>2, <1>4, <1>6, PromptNewPreserves
<1> QED
  BY <1>3, <1>4, <1>5, <1>6 DEF TakeRetrieve

-----------------------------------------------------------------------------
\* The invariant holds.

LEMMA InitTyped ==
    ASSUME Init
    PROVE  Typed
<1>1. control \in PermissionControls
  BY InitialValuesAssumption, Constants DEF Init, ControlInit, PermissionControls
<1>2. engine \in EngineValues
  BY InitialValuesAssumption
  DEF Init, EngineAt, EngineValues, Values, Levels, PermissionMode, LevelOf
<1>3. /\ jobs \in [Owners -> [id : Ids, ask : 0..MaxAsks]]
      /\ queue \in [Owners -> Seq(Jobs)] /\ outcome \in [Owners -> Outcomes]
  BY Constants DEF Init, Outcomes
<1>4. worker \in Workers /\ client \in Clients /\ nextId \in Ids
  BY Constants DEF Init
<1>5. asks \in Seq(Approvals) /\ inbox \in Seq(Messages)
  BY DEF Init
<1> QED
  BY <1>1, <1>2, <1>3, <1>4, <1>5 DEF Init, Typed

LEMMA InitInv ==
    ASSUME Init
    PROVE  SupervisorInv
<1>1. Typed
  BY InitTyped
<1>2. asks = <<>> /\ inbox = <<>> /\ worker = Idle /\ client = Ready /\ retrievals = {}
      /\ draining = {} /\ (\A o \in Owners : jobs[o] = NoJob /\ queue[o] = <<>>)
  BY DEF Init
<1>3. Len(asks) = 0 /\ AskIds = {} /\ 1..Len(inbox) = {} /\ \A o \in Owners : 1..Len(queue[o]) = {}
  BY <1>2 DEF AskIds
<1>4. References
  BY <1>2, <1>3, Constants DEF References, Posted, AtHome
<1>5. /\ \A j : ~Arrives(j) /\ ~Queues(j) /\ ~Starts(j)
      /\ \A o, j : /\ ~Waits(o, j) /\ ~Resumes(o, j) /\ ~Retrieves(o, j)
                   /\ ~Claims(o, j) /\ ~Claimed(o, j) /\ ~Turns(o, j)
  BY <1>2, <1>3, Constants
  DEF Arrives, Queues, Starts, Waits, Resumes, Retrieves, Claims, Claimed, Turns, At, InTurn
<1>6. Places
  BY <1>2, <1>3, <1>5
  DEF Places, Numbered, InboxOnce, QueueOnce, AsksOnce, RetrievalsOnce, Apart, PromptedOnce,
      Fresh, InHand, AtWork
<1>7. Prompting /\ SettledOnce /\ DrainsBehindSuccess
  BY <1>2, <1>3, Constants DEF Prompting, SettledOnce, DrainsBehindSuccess, At
<1>8. Registered /\ Backed /\ Exclusive
  BY <1>2, <1>5, Constants DEF Registered, Backed, Exclusive, AtWork
<1> QED
  BY <1>1, <1>4, <1>6, <1>7, <1>8 DEF SupervisorInv

LEMMA StutterPreserves ==
    ASSUME SupervisorInv, UNCHANGED vars
    PROVE  SupervisorInv'
BY ClientMovePreserves DEF vars, SupervisorInv, Typed, References

LEMMA ClientRequestPreserves ==
    ASSUME SupervisorInv, ClientRequest
    PROVE  SupervisorInv'
<1>1. ASSUME NEW o \in Owners, NEW type \in Requests \cap {"input", "retrieve", "mutate"},
             Submit(o, type)
      PROVE  SupervisorInv'
  <2>1. type \in NewTypes
    BY DEF NewTypes
  <2> QED
    BY <1>1, <2>1, SubmitPreserves
<1>2. ASSUME NEW o \in Owners, QueueFollowUp(o)
      PROVE  SupervisorInv'
  BY <1>2, QueueFollowUpPreserves
<1>3. ASSUME NEW c \in Controls, SubmitControl(c)
      PROVE  SupervisorInv'
  BY <1>3, SubmitControlPreserves
<1>4. ASSUME NEW a \in AskIds, NEW d \in {"allow", "deny", "edit"}, Respond(a, d)
      PROVE  SupervisorInv'
  BY <1>4, RespondPreserves
<1>5. ASSUME NEW o \in Owners, Cancel(o)
      PROVE  SupervisorInv'
  BY <1>5, CancelPreserves
<1>6. (AskSnapshot \/ Drop) => SupervisorInv'
  BY AskSnapshotPreserves, DropPreserves
<1> QED
  BY <1>1, <1>2, <1>3, <1>4, <1>5, <1>6 DEF ClientRequest

LEMMA ClientStepPreserves ==
    ASSUME SupervisorInv, ClientStep
    PROVE  SupervisorInv'
BY CancelFlagPreserves, CancelDenyPreserves, DropListPreserves, DropDenyPreserves,
   DropShutdownPreserves, DropJoinPreserves DEF ClientStep

LEMMA WorkerStepPreserves ==
    ASSUME SupervisorInv, WorkerStep
    PROVE  SupervisorInv'
BY TakeInputPreserves, TakeFollowUpPreserves, TakeRetrievePreserves, TakeMutatePreserves,
   TakeControlPreserves, CommitControlPreserves, RejectControlPreserves,
   ResumeRetrievalPreserves, ResumeMutationPreserves, AnswerSnapshotPreserves, StopPreserves,
   DrainPreserves, StartTurnPreserves, SlashCommandPreserves, ModelRequestPreserves,
   ReplyPreserves, ReadEpochPreserves, ClaimPreserves, InsertPendingPreserves,
   AnnouncePreserves, ReceiveAnswerPreserves, CloseTurnPreserves, FinishTurnPreserves
DEF WorkerStep

LEMMA NextInv == SupervisorInv /\ [Next]_vars => SupervisorInv'
<1> SUFFICES ASSUME SupervisorInv, [Next]_vars PROVE SupervisorInv'
  OBVIOUS
<1>1. CASE ClientRequest
  BY <1>1, ClientRequestPreserves
<1>2. CASE ClientStep
  BY <1>2, ClientStepPreserves
<1>3. CASE WorkerStep
  BY <1>3, WorkerStepPreserves
<1>4. CASE \E a \in AskIds : Expire(a)
  BY <1>4, ExpirePreserves
<1>5. CASE \E r \in retrievals : FinishRetrieval(r)
  BY <1>5, FinishRetrievalPreserves
<1>6. CASE Gone \/ UNCHANGED vars
  BY <1>6, StutterPreserves DEF Gone
<1> QED
  BY <1>1, <1>2, <1>3, <1>4, <1>5, <1>6 DEF Next

\* The inductive invariant: every job is in one place, what is at work is in
\* the registry and what is in the registry is at work.
THEOREM SupervisorInvariance == Spec => []SupervisorInv
<1>1. Init => SupervisorInv
  BY InitInv
<1> QED
  BY <1>1, NextInv, PTL DEF Spec

-----------------------------------------------------------------------------
\* What follows from it.

LEMMA InvTypes == SupervisorInv => TypeOK
<1> SUFFICES ASSUME SupervisorInv PROVE TypeOK
  OBVIOUS
<1>1. \A a \in AskIds : asks[a] \in Approvals
  BY DEF SupervisorInv, Typed, AskIds
<1>2. worker.ask \in 0..Len(asks)
  BY DEF SupervisorInv, Typed, References, Workers
<1>3. worker.pc \in WorkerPcs /\ worker.owner \in Owners \cup {NoOwner}
  BY DEF SupervisorInv, Typed, Workers
<1>4. client.pc \in ClientPcs /\ client.asks \subseteq AskIds
  BY DEF SupervisorInv, Typed, References, Clients
<1>5. control.applied \in Values /\ control.nextEpoch \in 0..MaxControls
  BY DEF SupervisorInv, Typed, PermissionControls
<1>6. \A a \in AskIds : /\ asks[a].owner \in Owners
                        /\ asks[a].job \in Ids \ {0}
                        /\ asks[a].kind \in Kinds
                        /\ asks[a].epoch \in 0..MaxControls
                        /\ asks[a].answer \in Answers
  BY <1>1 DEF Approvals, Jobs
<1> QED
  BY <1>2, <1>3, <1>4, <1>5, <1>6 DEF SupervisorInv, Typed, TypeOK, Jobs

\* The supervisor's shared and thread-local state is of its type.
THEOREM TypesHold == Spec => []TypeOK
BY SupervisorInvariance, InvTypes, PTL

\* An approval is settled at most once, whichever of its timer, the
\* operator's answer, a cancel and a shutdown comes first.
THEOREM ApprovalsAreSettledOnce == Spec => []SettledOnce
<1>1. SupervisorInv => SettledOnce
  BY DEF SupervisorInv
<1> QED
  BY <1>1, SupervisorInvariance, PTL

\* The sets of jobs the properties speak of.
LEMMA WorkIs ==
    ASSUME SupervisorInv, NEW o \in Owners
    PROVE  /\ \A j : j \in TurnWork(o) <=> Turns(o, j) /\ j \in Jobs
           /\ \A j : j \in BackgroundWork(o) <=> AtWork(o, j) /\ j \in Jobs
           /\ \A j : Claimed(o, j) => j \in Claiming(o)
<1>1. /\ asks \in Seq(Approvals) /\ inbox \in Seq(Messages)
      /\ retrievals \subseteq [job : Jobs, owner : Owners]
  BY DEF SupervisorInv, Typed
<1>2. worker.pc \in InTurn => worker.job \in Jobs
  BY DEF SupervisorInv, References, Posted, AtHome, WorkerPcs, InTurn
<1>3. \A j : j \in TurnWork(o) <=> Turns(o, j) /\ j \in Jobs
  BY <1>2 DEF TurnWork, Turns
<1>4. \A j : Claimed(o, j) => j \in Claiming(o)
  BY DEF Claimed, Claims, Claiming, At
<1>5. ASSUME NEW j
      PROVE  j \in {asks[a].job : a \in {b \in PendingIds : asks[b].owner = o /\ asks[b].kind # "turn"}}
                <=> Waits(o, j) /\ j \in Jobs
  BY <1>1, JobsOfAsks DEF Waits, PendingIds
<1>6. ASSUME NEW j
      PROVE  j \in {inbox[i].id : i \in {k \in 1..Len(inbox) :
                                 /\ inbox[k].type \in {"resume_mutation", "resume_retrieval"}
                                 /\ inbox[k].owner = o}}
                <=> Resumes(o, j) /\ j \in Jobs
  <2>1. ASSUME NEW i \in 1..Len(inbox), inbox[i].type \in ResumeTypes
        PROVE  inbox[i].id \in Jobs
    <3>1. inbox[i] \in Messages
      BY <1>1
    <3> QED
      BY <2>1, <3>1, MessageFacts DEF JobTypes
  <2> QED
    BY <2>1 DEF Resumes, ResumeTypes
<1>7. ASSUME NEW j
      PROVE  j \in {r.job : r \in {s \in retrievals : s.owner = o}} <=> Retrieves(o, j) /\ j \in Jobs
  <2>1. \A r \in retrievals : r.owner = o => r = [job |-> r.job, owner |-> o] /\ r.job \in Jobs
    BY <1>1
  <2> QED
    BY <2>1 DEF Retrieves
<1>8. \A j : j \in BackgroundWork(o) <=> AtWork(o, j) /\ j \in Jobs
  BY <1>5, <1>6, <1>7 DEF BackgroundWork, AtWork
<1> QED
  BY <1>3, <1>4, <1>8

LEMMA InvRegistry == SupervisorInv => RegistryIsTheWork
<1> SUFFICES ASSUME SupervisorInv, NEW o \in Owners
             PROVE  /\ jobs[o] # NoJob =>
                          jobs[o].id \in TurnWork(o) \cup BackgroundWork(o) \cup Claiming(o)
                    /\ \A j \in TurnWork(o) \cup BackgroundWork(o) :
                          jobs[o].id = j \/ j \in DeniedTurns
  BY DEF RegistryIsTheWork
<1>1. jobs[o] # NoJob => jobs[o].id \in Jobs
  BY DEF SupervisorInv, Typed, References, Jobs
<1>2. jobs[o] # NoJob => jobs[o].id \in TurnWork(o) \cup BackgroundWork(o) \cup Claiming(o)
  BY <1>1, WorkIs, Constants DEF SupervisorInv, Backed
<1>3. \A j \in TurnWork(o) \cup BackgroundWork(o) : jobs[o].id = j \/ j \in DeniedTurns
  BY WorkIs DEF SupervisorInv, Registered
<1> QED
  BY <1>2, <1>3

\* The registry is the work: no entry is left without work, which would turn
\* every later job of its owner away, and no work is out of a cancel's reach
\* but a turn that a timer or a cancel denied.
THEOREM RegistryHolds == Spec => []RegistryIsTheWork
BY SupervisorInvariance, InvRegistry, PTL

LEMMA InvOneJob == SupervisorInv => OneJobPerOwner
<1> SUFFICES ASSUME SupervisorInv, NEW o \in Owners
             PROVE  Cardinality(TurnWork(o) \cup BackgroundWork(o)) <= 1
  BY DEF OneJobPerOwner
<1> DEFINE work == TurnWork(o) \cup BackgroundWork(o)
<1>1. \A j, k \in work : j = k
  <2>1. \A j, k \in TurnWork(o) : j = k
    BY DEF TurnWork
  <2>2. \A j, k \in BackgroundWork(o) : j = k
    BY WorkIs DEF SupervisorInv, Registered
  <2>3. \A j \in TurnWork(o), k \in BackgroundWork(o) : FALSE
    BY WorkIs DEF SupervisorInv, Exclusive
  <2> QED
    BY <2>1, <2>2, <2>3
<1> HIDE DEF work
<1>2. CASE work = {}
  BY <1>2, FS_EmptySet DEF work
<1>3. CASE work # {}
  <2>1. PICK j : work = {j}
    BY <1>1, <1>3
  <2> QED
    <3>1. Cardinality({j}) = 1
      BY FS_Singleton
    <3> QED
      BY <2>1, <3>1 DEF work
<1> QED
  BY <1>2, <1>3

\* An owner never has two jobs at work.
THEOREM OneJobAtATime == Spec => []OneJobPerOwner
BY SupervisorInvariance, InvOneJob, PTL

\* A queue gets shorter in a drain only, and a drain is behind a success.
LEMMA StepDrains ==
    ASSUME SupervisorInv, Next, NEW o \in Owners, Len(queue'[o]) < Len(queue[o])
    PROVE  outcome[o] = "completed"
<1>1. queue[o] \in Seq(Jobs) /\ Len(queue[o]) \in Nat /\ queue \in [Owners -> Seq(Jobs)]
  BY DEF SupervisorInv, Typed
<1>2. queue'[o] # queue[o]
  BY <1>1
<1>3. ASSUME NEW p \in Owners, QueueFollowUp(p)
      PROVE  FALSE
  <2>1. \/ queue'[o] = queue[o]
        \/ \E n : queue'[o] = Append(queue[o], n)
    BY <1>1, <1>3 DEF QueueFollowUp
  <2> QED
    BY <1>1, <1>2, <2>1
<1>4. CASE Drain
  <2>1. worker.owner = o
    BY <1>1, <1>2, <1>4 DEF Drain
  <2> QED
    BY <1>4, <2>1 DEF Drain, SupervisorInv, DrainsBehindSuccess
<1>5. ClientRequest => UNCHANGED queue \/ \E p \in Owners : QueueFollowUp(p)
  BY DEF ClientRequest, Submit, SubmitControl, Respond, Cancel, AskSnapshot, Drop
<1>6. ClientStep => UNCHANGED queue
  BY DEF ClientStep, CancelFlag, CancelDeny, DropList, DropDeny, DropShutdown, DropJoin
<1>7. WorkerStep => UNCHANGED queue \/ Drain
  BY DEF WorkerStep, TakeInput, TakeFollowUp, TakeRetrieve, TakeMutate, TakeControl,
         CommitControl, RejectControl, ResumeRetrieval, ResumeMutation, AnswerSnapshot, Stop,
         StartTurn, SlashCommand, ModelRequest, Reply, ReadEpoch, Claim, InsertPending,
         Announce, ReceiveAnswer, CloseTurn, FinishTurn
<1>8. (\E a \in AskIds : Expire(a)) \/ (\E r \in retrievals : FinishRetrieval(r)) \/ Gone
         => UNCHANGED queue
  BY DEF Expire, FinishRetrieval, Gone, vars
<1> QED
  BY <1>2, <1>3, <1>4, <1>5, <1>6, <1>7, <1>8 DEF Next

\* Nothing queued runs behind an owner's turn that failed or was cancelled.
THEOREM QueuesWaitForSuccess == Spec => NothingRunsBehindFailure
<1>1. SupervisorInv /\ [Next]_vars =>
         [\A o \in Owners : Len(queue'[o]) < Len(queue[o]) => outcome[o] = "completed"]_vars
  BY StepDrains
<1> QED
  BY <1>1, SupervisorInvariance, PTL DEF Spec, NothingRunsBehindFailure
=============================================================================
