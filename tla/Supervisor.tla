----------------------------- MODULE Supervisor -----------------------------
(***************************************************************************)
(* The runtime supervisor: one client thread that sends commands, one      *)
(* worker thread that runs turns, mutations and retrievals, one timer      *)
(* thread per approval and one thread per running retrieval               *)
(* (crates/runtime/src/runtime_supervisor.rs).  They share the active-job  *)
(* registry, the pending approvals, the permission controls and the        *)
(* follow-up queues, each under a lock of its own, so every step here is   *)
(* one critical section.  What a thread does with what it just took out of *)
(* the pending approvals (publish, release the job, answer the waiter) is  *)
(* joined to the removal: only the remover acts on a removed approval.     *)
(***************************************************************************)
EXTENDS PermissionControl

CONSTANTS
    Owners,        \* who commands are sent for: the session, or a lane
    Requests,      \* what clients send in this instance, from RequestKinds
    Controls,      \* the control commands they send
    SlashControls, \* the control commands they type as a turn's input
    MaxIds,        \* bound: commands that name a job or a queue entry
    MaxAsks,       \* bound: approvals prompted for
    MaxControls    \* bound: control commands sent

RequestKinds == {"input", "retrieve", "mutate", "followup", "cancel",
                 "respond", "edit", "snapshot", "drop"}

ASSUME RequestsAssumption == Requests \subseteq RequestKinds
ASSUME ControlsAssumption == Controls \cup SlashControls \subseteq ControlCommands
ASSUME SupervisorBounds   ==
    MaxIds \in Nat /\ MaxAsks \in Nat /\ MaxControls \in Nat

VARIABLES
    engine,     \* the work mode and permission mode in force
    inbox,      \* the worker's command channel
    jobs,       \* the active-job registry, by owner
    stopped,    \* the jobs whose ModelRequestControl was cancelled
    asks,       \* every approval, by id, and what became of it
    timersDown, \* the approval timers were told to shut down
    worker,     \* where the worker thread is
    queue,      \* the follow-up queues, by owner
    draining,   \* the owners whose queue drain is armed
    outcome,    \* history: how the owner's last turn ended
    retrievals, \* the retrieval threads running, as [job, owner]
    client,     \* where the client thread is
    nextId      \* the last id handed out

vars == <<control, engine, inbox, jobs, stopped, asks, timersDown, worker,
          queue, draining, outcome, retrievals, client, nextId>>

NoOwner == "no owner"
NoJob   == [id |-> 0, ask |-> 0]  \* ask 0: Running; else PendingApproval
Idle    == [pc |-> "idle", owner |-> NoOwner, job |-> 0, entry |-> 0,
            kind |-> "turn", ask |-> 0, ok |-> FALSE]
Ready   == [pc |-> "ready", job |-> 0, asks |-> {}]

Message(type, owner, id)   == [type |-> type, owner |-> owner, id |-> id]
ControlMessage(c, epoch)   == [type |-> "control", command |-> c, id |-> epoch]

\* An approval before its owner, epoch and answer are settled.
NewAsk(owner, job, kind) ==
    [owner |-> owner, job |-> job, kind |-> kind, epoch |-> 0,
     pending |-> FALSE, armed |-> FALSE, shown |-> FALSE, resolved |-> 0,
     stale |-> FALSE, answer |-> "none"]

AskIds     == 1..Len(asks)
PendingIds == {a \in AskIds : asks[a].pending}

-----------------------------------------------------------------------------
\* The active-job registry.

\* Mutant of Free: nobody looks whether the owner has a job.
FreeAlways(o) == TRUE

\* acquire_active_job and active_owner_id let an owner without a job pass.
Free(o) == jobs[o] = NoJob

\* Mutant of Blocking: a running job is taken for a waiting one.
BlockingAny(job) == {job.ask}

\* The approval a job of the registry is waiting for.
Blocking(job) == {job.ask} \ {0}

Held(job) == \E o \in Owners : jobs[o].id = job

Acquire(owner, job, ask) == [jobs EXCEPT ![owner] = [id |-> job, ask |-> ask]]

\* mark_active_running (ask 0) and mark_active_pending; a job that is not in
\* the registry stays out of it.
Mark(job, ask) ==
    [o \in Owners |-> IF jobs[o].id = job THEN [id |-> job, ask |-> ask]
                                          ELSE jobs[o]]

\* Mutant of Clear: a job that waits for an approval is kept.
ClearRunning(job) ==
    [o \in Owners |-> IF jobs[o] = [id |-> job, ask |-> 0] THEN NoJob ELSE jobs[o]]

\* clear_active_control
Clear(job) ==
    [o \in Owners |-> IF jobs[o].id = job THEN NoJob ELSE jobs[o]]

-----------------------------------------------------------------------------
\* Settling an approval.

\* Mutant of Settle: the approval is read, not removed.
SettleKeep(a, decision) ==
    asks' = [asks EXCEPT
        ![a].shown = FALSE,
        ![a].resolved = @ + 1,
        ![a].answer = IF @ = "none" THEN decision ELSE @]

\* Taken out of the pending approvals, ApprovalResolved published, and the
\* thread that waits for the answer told.
Settle(a, decision) ==
    asks' = [asks EXCEPT
        ![a].pending = FALSE,
        ![a].shown = FALSE,
        ![a].resolved = @ + 1,
        ![a].answer = IF @ = "none" THEN decision ELSE @]

\* resolve_pending_approval_by_id with a denial, as the timers, a cancel and
\* a shutdown use it; an approval somebody else removed is left alone.
ResolveAsDenied(a) ==
    \/ /\ a \in PendingIds
       /\ Settle(a, "deny")
       /\ jobs' = Clear(asks[a].job)
    \/ /\ a \notin PendingIds
       /\ UNCHANGED <<asks, jobs>>

-----------------------------------------------------------------------------

Init ==
    /\ ControlInit
    /\ engine = EngineAt(InitialValues)
    /\ inbox = <<>>
    /\ jobs = [o \in Owners |-> NoJob]
    /\ stopped = {}
    /\ asks = <<>>
    /\ timersDown = FALSE
    /\ worker = Idle
    /\ queue = [o \in Owners |-> <<>>]
    /\ draining = {}
    /\ outcome = [o \in Owners |-> "none"]
    /\ retrievals = {}
    /\ client = Ready
    /\ nextId = 0

-----------------------------------------------------------------------------
\* The client thread.

workerLocal == <<engine, worker, draining, outcome, retrievals>>

Send(m) == inbox' = Append(inbox, m)

\* The front door turns a second job of an owner away; a mutation is let
\* through and meets the same test on the worker.
FrontDoor(o, type) == type = "mutate" \/ Free(o)

Submit(o, type) ==
    /\ client.pc = "ready"
    /\ nextId < MaxIds
    /\ FrontDoor(o, type)
    /\ nextId' = nextId + 1
    /\ Send(Message(type, o, nextId'))
    /\ UNCHANGED <<control, jobs, stopped, asks, timersDown, queue, client,
                   workerLocal>>

\* The entry joins its owner's queue and is announced at once; the worker is
\* told that it may have to drain.
QueueFollowUp(o) ==
    /\ client.pc = "ready"
    /\ nextId < MaxIds
    /\ nextId' = nextId + 1
    /\ queue' = [queue EXCEPT ![o] = Append(@, nextId')]
    /\ Send(Message("followup", o, 0))
    /\ UNCHANGED <<control, jobs, stopped, asks, timersDown, client,
                   workerLocal>>

\* A control command: its epoch is reserved before the worker hears of it.
SubmitControl(c) ==
    /\ client.pc = "ready"
    /\ control.nextEpoch < MaxControls
    /\ Reserve(c)
    /\ Send(ControlMessage(c, control'.nextEpoch))
    /\ asks' = [a \in AskIds |-> [asks[a] EXCEPT !.stale = @ \/ asks[a].pending]]
    /\ UNCHANGED <<jobs, stopped, timersDown, queue, client, nextId,
                   workerLocal>>

\* An answer that asks for something to run has to clear two gates.
PassesGates(a) ==
    /\ asks[a].epoch = CurrentEpoch
    /\ asks[a].kind # "retrieval" => ~BlocksMutation(Projected)

\* RespondToApproval for an approval the client can see.
Respond(a, decision) ==
    /\ client.pc = "ready"
    /\ asks[a].shown
    /\ asks[a].pending
    /\ decision = "edit" => asks[a].kind = "turn"
    /\ LET ask    == asks[a]
           runs   == decision = "deny" \/ PassesGates(a)
           result == IF runs THEN decision ELSE "deny"
           resume == IF ask.kind = "mutation" THEN "resume_mutation"
                                              ELSE "resume_retrieval"
       IN  \/ /\ ask.kind = "turn"
              /\ Settle(a, result)
              /\ jobs' = IF result = "allow" THEN Mark(ask.job, 0) ELSE jobs
              /\ UNCHANGED inbox
           \/ /\ ask.kind # "turn"
              /\ result = "deny"
              /\ Settle(a, result)
              /\ jobs' = Clear(ask.job)
              /\ UNCHANGED inbox
           \/ /\ ask.kind # "turn"
              /\ result # "deny"
              /\ Held(ask.job)
              /\ Settle(a, result)
              /\ jobs' = Mark(ask.job, 0)
              /\ Send(Message(resume, ask.owner, ask.job))
           \/ /\ ask.kind = "mutation"
              /\ result # "deny"
              /\ ~Held(ask.job)
              /\ Settle(a, result)
              /\ UNCHANGED <<inbox, jobs>>
           \/ /\ ask.kind = "retrieval"
              /\ result # "deny"
              /\ ~Held(ask.job)
              /\ asks' = [asks EXCEPT ![a].pending = FALSE]
              /\ UNCHANGED <<inbox, jobs>>
    /\ UNCHANGED <<control, stopped, timersDown, queue, client, nextId,
                   workerLocal>>

\* CancelActiveTurn reads the owner's entry, lets go of the lock, and works
\* on its copy: first the cancel flag, then the approval the copy names.
Cancel(o) ==
    /\ client.pc = "ready"
    /\ jobs[o] # NoJob
    /\ client' = [pc |-> "flag", job |-> jobs[o].id,
                  asks |-> Blocking(jobs[o])]
    /\ UNCHANGED <<control, inbox, jobs, stopped, asks, timersDown, queue,
                   nextId, workerLocal>>

CancelFlag ==
    /\ client.pc = "flag"
    /\ stopped' = stopped \cup {client.job}
    /\ client' = IF client.asks = {} THEN Ready ELSE [client EXCEPT !.pc = "deny"]
    /\ UNCHANGED <<control, inbox, jobs, asks, timersDown, queue, nextId,
                   workerLocal>>

CancelDeny ==
    /\ client.pc = "deny"
    /\ \E a \in client.asks : ResolveAsDenied(a)
    /\ client' = Ready
    /\ UNCHANGED <<control, inbox, stopped, timersDown, queue, nextId,
                   workerLocal>>

\* snapshot_envelope and load_transcript_page: the client waits for the worker.
AskSnapshot ==
    /\ client.pc = "ready"
    /\ Send(Message("snapshot", NoOwner, 0))
    /\ client' = [Ready EXCEPT !.pc = "waiting"]
    /\ UNCHANGED <<control, jobs, stopped, asks, timersDown, queue, nextId,
                   workerLocal>>

\* Drop: cancel every job, list the pending approvals, deny them one by one,
\* send Shutdown, join the worker, and only then stop the timers.
Drop ==
    /\ client.pc = "ready"
    /\ stopped' = stopped \cup {jobs[o].id : o \in {p \in Owners : jobs[p] # NoJob}}
    /\ client' = [Ready EXCEPT !.pc = "list"]
    /\ UNCHANGED <<control, inbox, jobs, asks, timersDown, queue, nextId,
                   workerLocal>>

DropList ==
    /\ client.pc = "list"
    /\ client' = [Ready EXCEPT !.pc = "drop", !.asks = PendingIds]
    /\ UNCHANGED <<control, inbox, jobs, stopped, asks, timersDown, queue,
                   nextId, workerLocal>>

DropDeny ==
    /\ client.pc = "drop"
    /\ \E a \in client.asks :
          /\ ResolveAsDenied(a)
          /\ client' = [client EXCEPT !.asks = @ \ {a}]
    /\ UNCHANGED <<control, inbox, stopped, timersDown, queue, nextId,
                   workerLocal>>

\* Mutant of DropShutdown: the timers are stopped before the worker is joined.
DropShutdownTimersFirst ==
    /\ client.pc = "drop"
    /\ client.asks = {}
    /\ timersDown' = TRUE
    /\ Send(Message("shutdown", NoOwner, 0))
    /\ client' = [Ready EXCEPT !.pc = "join"]
    /\ UNCHANGED <<control, jobs, stopped, asks, queue, nextId, workerLocal>>

DropShutdown ==
    /\ client.pc = "drop"
    /\ client.asks = {}
    /\ Send(Message("shutdown", NoOwner, 0))
    /\ client' = [Ready EXCEPT !.pc = "join"]
    /\ UNCHANGED <<control, jobs, stopped, asks, timersDown, queue, nextId,
                   workerLocal>>

DropJoin ==
    /\ client.pc = "join"
    /\ worker.pc = "stopped"
    /\ timersDown' = TRUE
    /\ client' = [Ready EXCEPT !.pc = "gone"]
    /\ UNCHANGED <<control, inbox, jobs, stopped, asks, queue, nextId,
                   workerLocal>>

ClientRequest ==
    \/ \E o \in Owners, type \in Requests \cap {"input", "retrieve", "mutate"} :
          Submit(o, type)
    \/ "followup" \in Requests /\ \E o \in Owners : QueueFollowUp(o)
    \/ \E c \in Controls : SubmitControl(c)
    \/ "respond" \in Requests /\ \E a \in AskIds, d \in {"allow", "deny"} : Respond(a, d)
    \/ "edit" \in Requests /\ \E a \in AskIds : Respond(a, "edit")
    \/ "cancel" \in Requests /\ \E o \in Owners : Cancel(o)
    \/ "snapshot" \in Requests /\ AskSnapshot
    \/ "drop" \in Requests /\ Drop

\* What the client thread does next once it began, without being asked.
ClientStep ==
    CancelFlag \/ CancelDeny \/ DropList \/ DropDeny \/ DropShutdown \/ DropJoin

-----------------------------------------------------------------------------
\* The worker thread.

clientLocal == <<client, nextId>>

At(pc) == worker.pc = pc

Goto(pc) == worker' = [worker EXCEPT !.pc = pc]

\* The worker takes the oldest message of its channel.
Take(type) ==
    /\ At("idle")
    /\ inbox # <<>>
    /\ Head(inbox).type = type
    /\ inbox' = Tail(inbox)

Begin(pc, owner, job, entry) ==
    worker' = [Idle EXCEPT !.pc = pc, !.owner = owner, !.job = job,
                           !.entry = entry]

\* A prompt begins: an approval id is made; then the epoch is read and the
\* job claimed, in the order the three kinds of prompt have.
Prompt(owner, job, kind) ==
    /\ Len(asks) < MaxAsks
    /\ asks' = Append(asks, NewAsk(owner, job, kind))
    /\ worker' = [worker EXCEPT
          !.pc = IF kind = "mutation" THEN "claim" ELSE "epoch",
          !.owner = owner, !.job = job, !.kind = kind, !.ask = Len(asks')]

TakeInput ==
    /\ Take("input")
    /\ Begin("start", Head(inbox).owner, Head(inbox).id, 0)
    /\ UNCHANGED <<control, engine, jobs, stopped, asks, timersDown, queue,
                   draining, outcome, retrievals, clientLocal>>

\* Mutant of Armed: every follow-up is drained as it comes.
ArmedAlways(o) == TRUE

\* FollowUpQueued drains only behind a turn that completed.
Armed(o) == o \in draining

TakeFollowUp ==
    /\ Take("followup")
    /\ IF Armed(Head(inbox).owner)
         THEN Begin("drain", Head(inbox).owner, 0, 0)
         ELSE UNCHANGED worker
    /\ UNCHANGED <<control, engine, jobs, stopped, asks, timersDown, queue,
                   draining, outcome, retrievals, clientLocal>>

\* RetrieveContext: refused while the owner has a job, run at once on a
\* thread of its own, or prompted for.
TakeRetrieve ==
    /\ Take("retrieve")
    /\ LET m == Head(inbox)
       IN  \/ /\ ~Free(m.owner)
              /\ UNCHANGED <<jobs, retrievals, asks, worker>>
           \/ /\ Free(m.owner)
              /\ jobs' = Acquire(m.owner, m.id, 0)
              /\ retrievals' = retrievals \cup {[job |-> m.id, owner |-> m.owner]}
              /\ UNCHANGED <<asks, worker>>
           \/ /\ Free(m.owner)
              /\ Prompt(m.owner, m.id, "retrieval")
              /\ UNCHANGED <<jobs, retrievals>>
    /\ UNCHANGED <<control, engine, stopped, timersDown, queue, draining,
                   outcome, clientLocal>>

\* A project mutation: refused, done at once, or prompted for.
TakeMutate ==
    /\ Take("mutate")
    /\ LET m == Head(inbox)
       IN  \/ UNCHANGED <<asks, worker>>
           \/ /\ Free(m.owner)
              /\ Prompt(m.owner, m.id, "mutation")
    /\ UNCHANGED <<control, engine, jobs, stopped, timersDown, queue, draining,
                   outcome, retrievals, clientLocal>>

\* A control command takes effect in the engine, or its metadata cannot be
\* persisted; the shared control state is told in the next critical section.
TakeControl ==
    /\ Take("control")
    /\ \/ /\ engine' = EngineApplied(engine, Head(inbox).command)
          /\ Begin("commit", NoOwner, Head(inbox).id, 0)
       \/ /\ UNCHANGED engine
          /\ Begin("reject", NoOwner, Head(inbox).id, 0)
    /\ UNCHANGED <<control, jobs, stopped, asks, timersDown, queue, draining,
                   outcome, retrievals, clientLocal>>

CommitControl ==
    /\ At("commit")
    /\ IF CanCommit(worker.job) THEN Commit ELSE UNCHANGED control
    /\ worker' = Idle
    /\ UNCHANGED <<engine, inbox, jobs, stopped, asks, timersDown, queue,
                   draining, outcome, retrievals, clientLocal>>

RejectControl ==
    /\ At("reject")
    /\ Reject(worker.job)
    /\ worker' = Idle
    /\ UNCHANGED <<engine, inbox, jobs, stopped, asks, timersDown, queue,
                   draining, outcome, retrievals, clientLocal>>

\* The approved retrieval: gone from the registry, refused when looked at
\* again, or started.
ResumeRetrieval ==
    /\ Take("resume_retrieval")
    /\ LET m == Head(inbox)
       IN  \/ /\ ~Held(m.id)
              /\ UNCHANGED <<jobs, retrievals>>
           \/ /\ Held(m.id)
              /\ jobs' = Clear(m.id)
              /\ UNCHANGED retrievals
           \/ /\ Held(m.id)
              /\ jobs' = Mark(m.id, 0)
              /\ retrievals' = retrievals \cup {[job |-> m.id, owner |-> m.owner]}
    /\ UNCHANGED <<control, engine, stopped, asks, timersDown, worker, queue,
                   draining, outcome, clientLocal>>

\* The approved mutation runs to its end.
ResumeMutation ==
    /\ Take("resume_mutation")
    /\ jobs' = Clear(Head(inbox).id)
    /\ UNCHANGED <<control, engine, stopped, asks, timersDown, worker, queue,
                   draining, outcome, retrievals, clientLocal>>

AnswerSnapshot ==
    /\ Take("snapshot")
    /\ client' = Ready
    /\ UNCHANGED <<control, engine, jobs, stopped, asks, timersDown, worker,
                   queue, draining, outcome, retrievals, nextId>>

Stop ==
    /\ Take("shutdown")
    /\ worker' = [Idle EXCEPT !.pc = "stopped"]
    /\ UNCHANGED <<control, engine, jobs, stopped, asks, timersDown, queue,
                   draining, outcome, retrievals, clientLocal>>

\* The oldest queued entry is announced as dequeued and becomes a turn; an
\* empty queue leaves the drain armed.
Drain ==
    /\ At("drain")
    /\ LET o == worker.owner
       IN  \/ /\ queue[o] = <<>>
              /\ draining' = draining \cup {o}
              /\ worker' = Idle
              /\ UNCHANGED queue
           \/ /\ queue[o] # <<>>
              /\ queue' = [queue EXCEPT ![o] = Tail(@)]
              /\ Begin("start", o, Head(queue[o]), Head(queue[o]))
              /\ UNCHANGED draining
    /\ UNCHANGED <<control, engine, inbox, jobs, stopped, asks, timersDown,
                   outcome, retrievals, clientLocal>>

\* A native turn takes its owner's place in the registry, or is refused.
StartTurn ==
    /\ At("start")
    /\ LET o == worker.owner
       IN  \/ /\ ~Free(o)
              /\ draining' = draining \ {o}
              /\ worker' = Idle
              /\ UNCHANGED jobs
           \/ /\ Free(o)
              /\ jobs' = Acquire(o, worker.job, 0)
              /\ \E pc \in {"model"} \cup IF SlashControls = {} THEN {} ELSE {"slash"} :
                    Goto(pc)
              /\ UNCHANGED draining
    /\ UNCHANGED <<control, engine, inbox, stopped, asks, timersDown, queue,
                   outcome, retrievals, clientLocal>>

EndTurn(ok) == worker' = [worker EXCEPT !.pc = "close", !.ok = ok]

\* A turn whose input is a slash command changes the engine by itself, or
\* fails because the change cannot be persisted.
SlashCommand ==
    /\ At("slash")
    /\ \/ /\ \E c \in SlashControls : engine' = EngineApplied(engine, c)
          /\ EndTurn(TRUE)
       \/ /\ UNCHANGED engine
          /\ EndTurn(FALSE)
    /\ UNCHANGED <<control, inbox, jobs, stopped, asks, timersDown, queue,
                   draining, outcome, retrievals, clientLocal>>

\* A provider request looks at the cancel flag, and may fail by itself.
ModelRequest ==
    /\ At("model")
    /\ \/ worker.job \notin stopped /\ Goto("reply")
       \/ EndTurn(FALSE)
    /\ UNCHANGED <<control, engine, inbox, jobs, stopped, asks, timersDown,
                   queue, draining, outcome, retrievals, clientLocal>>

\* The reply ends the turn, or calls a tool that has to be asked about.
Reply ==
    /\ At("reply")
    /\ \/ /\ EndTurn(TRUE)
          /\ UNCHANGED asks
       \/ Prompt(worker.owner, worker.job, "turn")
    /\ UNCHANGED <<control, engine, inbox, jobs, stopped, timersDown, queue,
                   draining, outcome, retrievals, clientLocal>>

ReadEpoch ==
    /\ At("epoch")
    /\ asks' = [asks EXCEPT ![worker.ask].epoch = CurrentEpoch]
    /\ Goto(IF worker.kind = "mutation" THEN "insert" ELSE "claim")
    /\ UNCHANGED <<control, engine, inbox, jobs, stopped, timersDown, queue,
                   draining, outcome, retrievals, clientLocal>>

\* A turn marks the job it holds as waiting; the others acquire one.
Claim ==
    /\ At("claim")
    /\ \/ /\ worker.kind = "turn"
          /\ jobs' = Mark(worker.job, worker.ask)
          /\ Goto("insert")
       \/ /\ worker.kind # "turn"
          /\ Free(worker.owner)
          /\ jobs' = Acquire(worker.owner, worker.job, worker.ask)
          /\ Goto(IF worker.kind = "mutation" THEN "epoch" ELSE "insert")
       \/ /\ worker.kind # "turn"
          /\ ~Free(worker.owner)
          /\ worker' = Idle
          /\ UNCHANGED jobs
    /\ UNCHANGED <<control, engine, inbox, stopped, asks, timersDown, queue,
                   draining, outcome, retrievals, clientLocal>>

InsertPending ==
    /\ At("insert")
    /\ asks' = [asks EXCEPT ![worker.ask].pending = TRUE]
    /\ Goto("announce")
    /\ UNCHANGED <<control, engine, inbox, jobs, stopped, timersDown, queue,
                   draining, outcome, retrievals, clientLocal>>

\* Mutant of Scheduled: no expiry timer is started.
ScheduledNever(ask) == [ask EXCEPT !.shown = TRUE]

Scheduled(ask) == [ask EXCEPT !.shown = TRUE, !.armed = TRUE]

\* ApprovalRequested is published and the expiry timer started; a turn waits
\* for its answer, the other kinds leave the worker free.
Announce ==
    /\ At("announce")
    /\ asks' = [asks EXCEPT ![worker.ask] = Scheduled(@)]
    /\ IF worker.kind = "turn" THEN Goto("await") ELSE worker' = Idle
    /\ UNCHANGED <<control, engine, inbox, jobs, stopped, timersDown, queue,
                   draining, outcome, retrievals, clientLocal>>

\* The answer: a revision may have to be asked about again.
ReceiveAnswer ==
    /\ At("await")
    /\ asks[worker.ask].answer # "none"
    /\ \/ Goto("model") /\ UNCHANGED asks
       \/ /\ asks[worker.ask].answer = "edit"
          /\ Prompt(worker.owner, worker.job, "turn")
    /\ UNCHANGED <<control, engine, inbox, jobs, stopped, timersDown, queue,
                   draining, outcome, retrievals, clientLocal>>

CloseTurn ==
    /\ At("close")
    /\ jobs' = Clear(worker.job)
    /\ Goto("finish")
    /\ UNCHANGED <<control, engine, inbox, stopped, asks, timersDown, queue,
                   draining, outcome, retrievals, clientLocal>>

\* TurnFinished: a completed turn drains its owner's queue, any other disarms.
FinishTurn ==
    /\ At("finish")
    /\ LET o == worker.owner
       IN  \/ /\ worker.ok
              /\ outcome' = [outcome EXCEPT ![o] = "completed"]
              /\ Begin("drain", o, 0, 0)
              /\ UNCHANGED draining
           \/ /\ ~worker.ok
              /\ outcome' = [outcome EXCEPT
                    ![o] = IF worker.job \in stopped THEN "cancelled" ELSE "failed"]
              /\ draining' = draining \ {o}
              /\ worker' = Idle
    /\ UNCHANGED <<control, engine, inbox, jobs, stopped, asks, timersDown,
                   queue, retrievals, clientLocal>>

WorkerStep ==
    \/ TakeInput \/ TakeFollowUp \/ TakeRetrieve \/ TakeMutate \/ TakeControl
    \/ CommitControl \/ RejectControl \/ ResumeRetrieval \/ ResumeMutation
    \/ AnswerSnapshot \/ Stop \/ Drain \/ StartTurn \/ SlashCommand
    \/ ModelRequest \/ Reply \/ ReadEpoch \/ Claim \/ InsertPending \/ Announce
    \/ ReceiveAnswer \/ CloseTurn \/ FinishTurn

-----------------------------------------------------------------------------
\* The other threads.

\* An approval's timer runs out.
Expire(a) ==
    /\ a \in PendingIds
    /\ asks[a].armed
    /\ ~timersDown
    /\ ResolveAsDenied(a)
    /\ UNCHANGED <<control, engine, inbox, stopped, timersDown, worker, queue,
                   draining, outcome, retrievals, clientLocal>>

\* A retrieval thread is done.
FinishRetrieval(r) ==
    /\ retrievals' = retrievals \ {r}
    /\ jobs' = Clear(r.job)
    /\ UNCHANGED <<control, engine, inbox, stopped, asks, timersDown, worker,
                   queue, draining, outcome, clientLocal>>

\* The process outlives the supervisor it dropped.
Gone == client.pc = "gone" /\ UNCHANGED vars

Next ==
    \/ ClientRequest
    \/ ClientStep
    \/ WorkerStep
    \/ \E a \in AskIds : Expire(a)
    \/ \E r \in retrievals : FinishRetrieval(r)
    \/ Gone

\* The worker runs while it can (a provider or a tool that is asked answers),
\* a timer that is due fires, a retrieval ends, and the client thread finishes
\* the call it is in.  Nobody has to send a command or answer an approval.
Fairness ==
    /\ WF_vars(WorkerStep)
    /\ WF_vars(ClientStep)
    /\ \A a \in 1..MaxAsks : WF_vars(a \in AskIds /\ Expire(a))
    /\ WF_vars(\E r \in retrievals : FinishRetrieval(r))

Spec     == Init /\ [][Next]_vars
FairSpec == Spec /\ Fairness

-----------------------------------------------------------------------------
\* Properties.

WorkerPcs == {"idle", "start", "slash", "model", "reply", "epoch", "claim",
              "insert", "announce", "await", "close", "finish", "drain",
              "commit", "reject", "stopped"}
ClientPcs == {"ready", "flag", "deny", "waiting", "list", "drop", "join", "gone"}
Kinds     == {"turn", "mutation", "retrieval"}
Answers   == {"none", "allow", "deny", "edit"}
Ids       == 0..MaxIds

\* Type correctness of the supervisor's shared and thread-local state.
TypeOK ==
    /\ control.applied \in Values
    /\ control.nextEpoch \in 0..MaxControls
    /\ engine \in EngineValues
    /\ \A o \in Owners : jobs[o] \in [id : Ids, ask : 0..MaxAsks]
    /\ stopped \subseteq Ids \ {0}
    /\ \A a \in AskIds : /\ asks[a].owner \in Owners
                         /\ asks[a].job \in Ids \ {0}
                         /\ asks[a].kind \in Kinds
                         /\ asks[a].epoch \in 0..MaxControls
                         /\ asks[a].answer \in Answers
    /\ worker.pc \in WorkerPcs
    /\ worker.owner \in Owners \cup {NoOwner}
    /\ worker.ask \in 0..Len(asks)
    /\ draining \subseteq Owners
    /\ client.pc \in ClientPcs
    /\ client.asks \subseteq AskIds

\* An approval is settled at most once, however its timer, the operator's
\* answer, a cancel and a shutdown meet, and never while it can still be
\* answered.
SettledOnce ==
    \A a \in AskIds : asks[a].resolved <= IF asks[a].pending THEN 0 ELSE 1

InTurn == {"model", "reply", "epoch", "claim", "insert", "announce", "await",
           "slash", "close"}

\* The jobs at work for an owner: its turn, its prompted or resumed mutation
\* or retrieval, its retrieval thread.
TurnWork(o) ==
    IF worker.pc \in InTurn /\ worker.kind = "turn" /\ worker.owner = o
      THEN {worker.job} ELSE {}

BackgroundWork(o) ==
    {asks[a].job : a \in {b \in PendingIds : asks[b].owner = o /\ asks[b].kind # "turn"}}
    \cup {inbox[i].id : i \in {j \in 1..Len(inbox) :
                                 /\ inbox[j].type \in {"resume_mutation", "resume_retrieval"}
                                 /\ inbox[j].owner = o}}
    \cup {r.job : r \in {s \in retrievals : s.owner = o}}

Claiming(o) ==
    IF worker.pc \in {"epoch", "insert"} /\ worker.kind # "turn" /\ worker.owner = o
      THEN {worker.job} ELSE {}

\* An owner never has two jobs at work, even after an expired approval took
\* a turn that still runs out of the registry.
OneJobPerOwner ==
    \A o \in Owners : Cardinality(TurnWork(o) \cup BackgroundWork(o)) <= 1

\* The turns one of whose prompts was denied.  A timer or a cancel that
\* denies takes the entry out; the turn then goes on.
DeniedTurns == {asks[a].job : a \in {b \in AskIds : asks[b].kind = "turn" /\ asks[b].answer = "deny"}}

\* The registry is the work: an entry without work would turn every later job
\* of its owner away, and work without its entry is out of a cancel's reach.
RegistryIsTheWork ==
    \A o \in Owners :
       /\ jobs[o] # NoJob =>
             jobs[o].id \in TurnWork(o) \cup BackgroundWork(o) \cup Claiming(o)
       /\ \A j \in TurnWork(o) \cup BackgroundWork(o) :
             jobs[o].id = j \/ j \in DeniedTurns

\* What the engine publishes once it saw every control of the channel.
EngineProjected ==
    LET seen[n \in 0..Len(inbox)] ==
          IF n = 0 THEN engine
          ELSE IF inbox[n].type = "control"
            THEN EngineApplied(seen[n - 1], inbox[n].command)
          ELSE seen[n - 1]
    IN  Published(seen[Len(inbox)])

\* The values approvals are judged by are those the engine will have once
\* every control sent so far took effect.  A control the worker could not
\* persist counts until it is rejected.
ProjectionIsExact == ~At("reject") => Projected = EngineProjected

\* An operator's allow releases nothing that was prompted for before a
\* permission control was sent, even one that failed or was taken back, and
\* no mutation while the controls sent so far forbid it.
AllowIsCurrent ==
    [][\A a \in AskIds :
          asks[a].answer = "none" /\ asks'[a].answer \in {"allow", "edit"} =>
             /\ ~asks[a].stale
             /\ \/ asks[a].kind = "retrieval"
                \/ At("reject")
                \/ ~BlocksMutation(EngineProjected)]_vars

\* Nothing queued runs behind an owner's turn that failed or was cancelled.
NothingRunsBehindFailure ==
    [][\A o \in Owners :
          Len(queue'[o]) < Len(queue[o]) => outcome[o] = "completed"]_vars

\* A queue entry announced as dequeued becomes a turn.
DequeuedEntryRuns ==
    [][At("start") /\ worker.entry # 0 => worker'.pc # "idle"]_vars

\* A client that waits for a snapshot gets it, also while the worker waits
\* for an answer only that client can give, and also when a cancel came too
\* early to find the prompt it should have denied.
SnapshotIsAnswered == (client.pc = "waiting") ~> (client.pc = "ready")

\* A supervisor that is dropped goes, whatever its worker was doing.
DropFinishes == (client.pc = "list") ~> (client.pc = "gone")
=============================================================================
