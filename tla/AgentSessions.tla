---------------------------- MODULE AgentSessions ----------------------------
(***************************************************************************)
(* One external agent's session under the supervisor: start, input, retry, *)
(* pause, resume, cancel, kill (crates/runtime/src/runtime_supervisor.rs,  *)
(* crates/agents/src/glue.rs, codex.rs and acp.rs).  Three kinds of thread *)
(* meet here.  Clients submit commands and answer prompts; the worker      *)
(* handles the commands one after another and owns the inputs a paused     *)
(* session holds; each turn has a thread of its own, which runs the        *)
(* adapter, asks the operator, and at its end tells what became of the     *)
(* turn.  The worker cannot reach that thread: it leaves a marker file     *)
(* and a job record, and each side reads what the other wrote.             *)
(*                                                                         *)
(* Sessions of different lanes share nothing but the worker, and a lane    *)
(* has one session for good, so the module has one session.  A lane may    *)
(* have other jobs, though: a retrieval of context or a project mutation   *)
(* that asks takes a place in the registry, too, and while any job of the  *)
(* lane has one the session gets none; they come and go as they like, so   *)
(* a turn may always find its place taken (CheckTurn).                     *)
(***************************************************************************)
EXTENDS PermissionControl

CONSTANTS
    Operations,   \* the session commands clients send, a subset of Commands
    Controls,     \* the permission controls clients send
    MaxHeld,      \* MAX_HELD_SESSION_INPUTS (50)
    MaxRuns,      \* bound: starts, retries and inputs ever sent
    MaxCommands,  \* bound: other commands ever sent, controls included
    MaxQueue,     \* bound: messages waiting for the worker
    MaxPrompts,   \* bound: prompts the agent ever raises
    MaxFailures   \* bound: starts, terminations and controls that fail

Commands == {"start", "retry", "cancel", "pause", "resume", "kill", "stop"}

ASSUME AgentConstants ==
    /\ Operations \subseteq Commands
    /\ Controls \subseteq ControlCommands
    /\ MaxHeld \in Nat \ {0}
    /\ {MaxRuns, MaxCommands, MaxQueue, MaxPrompts, MaxFailures}
          \subseteq Nat

VARIABLES
    view,    \* the session's status in the live view
    job,     \* its latest job record: status, the turn it is of, a pid, and
             \* whether its result file names an agent session to resume
    marker,  \* the cancel marker file of the session
    active,  \* the session's entry in the active-control registry
    prompts, \* per prompt: where its approval is, and the epoch it is under
    turns,   \* per turn: where its thread is
    held,    \* held_session_inputs of the session
    inbox,   \* the worker's command channel
    worker,  \* where the worker is
    kept,    \* history: the inputs held and neither discarded nor handed on
    stalled, \* history: a held input was refused, and no turn started since
    used     \* the bounds spent

vars == <<control, view, job, marker, active, prompts, turns, held,
          inbox, worker, kept, stalled, used>>

-----------------------------------------------------------------------------
\* A turn belongs to a start, a retry or an input.
Turns   == 1..MaxRuns
Inputs  == 1..MaxRuns
Prompts == 1..MaxPrompts

Live     == {"starting", "running", "waiting_approval"}
Terminal == {"completed", "failed", "cancelled", "killed"}
Statuses == Live \cup Terminal \cup {"paused", "none"}

Interrupts == {"cancel", "pause", "kill"}

\* What a job record says, and what the code that reads it knows.
JobStatuses == {"none", "running", "waiting_approval", "finished", "failed"}
                 \cup {"cancelled", "paused", "killed"}

\* AgentJobInterrupt::job_status.
StatusOf == [cancel |-> "cancelled", pause |-> "paused", kill |-> "killed"]

Record(status, t) == [status |-> status, turn |-> t, pid |-> FALSE, result |-> FALSE]
Message(op, n)    == [op |-> op, n |-> n]
NoPrompt == [state |-> "none", epoch |-> 0]
NoEntry == [state |-> "none", prompt |-> 0]
Idle    == [pc |-> "idle", op |-> "start", input |-> 0, status |-> "none"]
Off     == [pc |-> "off", prompt |-> 0, ending |-> "none", pid |-> FALSE,
            result |-> FALSE]
Gone    == [Off EXCEPT !.pc = "done"]

Init ==
    /\ ControlInit
    /\ view = "none"
    /\ job = Record("none", 0)
    /\ marker = "none"
    /\ active = NoEntry
    /\ prompts = [p \in Prompts |-> NoPrompt]
    /\ turns = [t \in Turns |-> Off]
    /\ held = <<>>
    /\ inbox = <<>>
    /\ worker = Idle
    /\ kept = {}
    /\ stalled = FALSE
    /\ used = [runs |-> 0, commands |-> 0, prompts |-> 0, failures |-> 0,
               turns |-> 0]

\* The named bound is spent, or the step is not taken.
Spend(name, limit) ==
    /\ used[name] < limit
    /\ used' = [used EXCEPT ![name] = @ + 1]

-----------------------------------------------------------------------------
\* Approvals.

\* Mutant of Deny: the prompt goes, and nobody is told.
DenyUntold(p) ==
    /\ prompts' = [prompts EXCEPT ![p] = NoPrompt]
    /\ active' = NoEntry

\* The denial of a prompt sets the agent's thread free and gives the place in
\* the registry back, although the turn goes on.
Deny(p) ==
    /\ prompts' = [prompts EXCEPT ![p].state = "deny"]
    /\ active' = NoEntry

\* The prompt the registry says the session waits for, if it is still there.
DenyAwaited ==
    IF active.state = "pending" /\ prompts[active.prompt].state = "pending"
      THEN Deny(active.prompt)
      ELSE UNCHANGED <<prompts, active>>

approvalLeaves == <<control, view, job, marker, turns, held, inbox,
                    worker, kept, stalled>>

\* The timer of a published prompt.
Expire(p) ==
    /\ prompts[p].state = "pending"
    /\ Deny(p)
    /\ UNCHANGED <<used, approvalLeaves>>

\* RespondToApproval.  An allow is a denial when the epoch has changed or
\* mutations are blocked; a denial given here leaves the registry alone.
Respond(p, allow) ==
    LET allowed == allow /\ prompts[p].epoch = CurrentEpoch /\ ~BlocksMutation(Projected)
    IN  /\ prompts[p].state = "pending"
        /\ prompts' = [prompts EXCEPT ![p].state = IF allowed THEN "allow" ELSE "deny"]
        /\ active' = IF allowed /\ active # NoEntry
                       THEN [state |-> "running", prompt |-> 0] ELSE active
        /\ UNCHANGED <<used, approvalLeaves>>

\* CancelActiveTurn from the session's owner: no message to the adapter, but
\* a prompt is denied.
CancelActiveTurn ==
    /\ "stop" \in Operations
    /\ active # NoEntry
    /\ Spend("commands", MaxCommands)
    /\ DenyAwaited
    /\ UNCHANGED approvalLeaves

-----------------------------------------------------------------------------
\* Clients.  The owner is right and the session known, or the command is
\* rejected on the way in.

clientLeaves == <<view, job, marker, active, prompts, turns, held,
                  worker, kept, stalled>>

Submit(op) ==
    /\ Len(inbox) < MaxQueue
    /\ IF op = "start" THEN view = "none" /\ active = NoEntry ELSE view # "none"
    /\ IF op \in {"start", "retry"} THEN Spend("runs", MaxRuns)
                                 ELSE Spend("commands", MaxCommands)
    /\ inbox' = Append(inbox, Message(op, 0))
    /\ UNCHANGED <<control, clientLeaves>>

SendInput ==
    /\ Len(inbox) < MaxQueue
    /\ view # "none"
    /\ Spend("runs", MaxRuns)
    /\ inbox' = Append(inbox, Message("input", used.runs + 1))
    /\ UNCHANGED <<control, clientLeaves>>

SendControl(c) ==
    /\ Len(inbox) < MaxQueue
    /\ Spend("commands", MaxCommands)
    /\ Reserve(c)
    /\ inbox' = Append(inbox, Message("control", CurrentEpoch + 1))
    /\ UNCHANGED clientLeaves

ClientStep ==
    \/ \E op \in Operations \ {"stop"} : Submit(op)
    \/ SendInput
    \/ \E c \in Controls : SendControl(c)
    \/ CancelActiveTurn
    \/ \E p \in Prompts, allow \in BOOLEAN : Respond(p, allow)

-----------------------------------------------------------------------------
\* The worker.

workerLeaves == <<control, turns, stalled>>

Take(op) ==
    /\ worker.pc = "idle"
    /\ inbox # <<>>
    /\ Head(inbox).op = op
    /\ inbox' = Tail(inbox)

\* A permission control, which the engine accepts or not.
TakeControl ==
    /\ Take("control")
    /\ \/ Commit /\ UNCHANGED used
       \/ Reject(Head(inbox).n) /\ Spend("failures", MaxFailures)
    /\ UNCHANGED <<view, job, marker, active, prompts, turns, held,
                   worker, kept, stalled>>

\* StartAgentSession and RetryAgentSession; a lane that has its session
\* rejects another.
TakeStart ==
    \E op \in {"start", "retry"} :
        /\ Take(op)
        /\ worker' = IF op = "start" /\ view # "none" THEN Idle
                     ELSE [Idle EXCEPT !.pc = "check", !.op = op]
        /\ UNCHANGED <<view, job, marker, active, prompts, held, kept, used,
                       workerLeaves>>

HasRoom(queue) == Len(queue) < MaxHeld

\* SendAgentSessionInput: a paused session holds the input and counts it.
TakeInput ==
    /\ Take("input")
    /\ LET i == Head(inbox).n
       IN  IF view # "paused"
             THEN /\ worker' = [Idle EXCEPT !.pc = "check", !.op = "input", !.input = i]
                  /\ UNCHANGED <<held, kept>>
             ELSE /\ IF HasRoom(held)
                       THEN /\ held' = Append(held, i)
                            /\ kept' = kept \cup {i}
                       ELSE UNCHANGED <<held, kept>>
                  /\ UNCHANGED worker
    /\ UNCHANGED <<view, job, marker, active, prompts, used, workerLeaves>>

\* Mutant of NextHeld: the input held last goes first.
LastHeld(queue) == Len(queue)

\* remove(0)
NextHeld(queue) == 1

\* The next held input leaves the queue and goes the way of an input.
ForwardHeld ==
    /\ held' = RemoveAt(held, NextHeld(held))
    /\ worker' = [Idle EXCEPT !.pc = "check", !.op = "input",
                             !.input = held[NextHeld(held)]]

\* ResumeAgentSession.  Completed here means that no turn is in flight; the
\* check of the turn that follows wants to see it.
TakeResume ==
    /\ Take("resume")
    /\ view' = IF view = "paused" THEN "completed" ELSE view
    /\ IF view = "paused" /\ held # <<>>
         THEN ForwardHeld
         ELSE UNCHANGED <<held, worker>>
    /\ UNCHANGED <<job, marker, active, prompts, kept, used, workerLeaves>>

\* Mutant of MayDrain: the drain waits for a session nobody has ended.
MayDrainNever(status) == status = "paused"

MayDrain(status) == status \in Terminal

\* DrainHeldSessionInput, posted by the thread of a turn that completed.
TakeDrain ==
    /\ Take("drain")
    /\ IF held # <<>> /\ MayDrain(view)
         THEN ForwardHeld
         ELSE UNCHANGED <<held, worker>>
    /\ UNCHANGED <<view, job, marker, active, prompts, kept, used, workerLeaves>>

\* CancelAgentSession: the held inputs go first.  A session that has ended
\* is left as it is.
TakeCancel ==
    /\ Take("cancel")
    /\ held' = <<>>
    /\ kept' = {}
    /\ IF view \in Terminal
         THEN UNCHANGED <<prompts, active, worker>>
         ELSE /\ DenyAwaited
              /\ worker' = [Idle EXCEPT !.pc = "mark", !.op = "cancel"]
    /\ UNCHANGED <<view, job, marker, used, workerLeaves>>

\* PauseAgentSession and KillAgentSession: the prompt is denied, then the
\* adapter is interrupted.
TakeInterrupt ==
    \E op \in {"pause", "kill"} :
        /\ Take(op)
        /\ IF \/ op = "pause" /\ view \notin Live
              \/ op = "kill" /\ view \in Terminal
             THEN UNCHANGED <<prompts, active, worker>>
             ELSE /\ DenyAwaited
                  /\ worker' = [Idle EXCEPT !.pc = "mark", !.op = op]
        /\ UNCHANGED <<view, job, marker, held, kept, used, workerLeaves>>

interruptLeaves == <<prompts, inbox, used, workerLeaves>>

\* interrupt_codex_job: the marker carries the reason to the turn's thread.
\* Without a pid nothing can be confirmed, and the command is rejected; the
\* marker stays.
MarkInterrupt ==
    /\ worker.pc = "mark"
    /\ IF job.status \in {"cancelled", "finished", "killed"}
         THEN /\ worker' = [worker EXCEPT !.pc = "publish"]
              /\ UNCHANGED marker
         ELSE /\ marker' = worker.op
              /\ worker' = IF job.pid
                             THEN [worker EXCEPT !.pc = "stop", !.status = job.status]
                             ELSE Idle
    /\ UNCHANGED <<view, job, active, held, kept, interruptLeaves>>

\* The grace of a cancel or a pause, and the termination of a process that
\* was not told in it, or that a pause does not keep.  A termination may fail
\* and the command is rejected.  Either way the record read before the grace
\* is written back over what the turn's thread wrote meanwhile.
StopProcess ==
    /\ worker.pc = "stop"
    /\ \/ /\ job' = [job EXCEPT !.status = StatusOf[worker.op], !.pid = TRUE]
          /\ worker' = [worker EXCEPT !.pc = "publish", !.status = "none"]
          /\ UNCHANGED used
       \/ /\ Spend("failures", MaxFailures)
          /\ job' = [job EXCEPT !.status = worker.status, !.pid = TRUE]
          /\ worker' = Idle
    /\ UNCHANGED <<view, marker, active, prompts, held, kept, inbox, workerLeaves>>

\* Mutant of LeftHeld: a kill leaves what the session held.
LeftHeldByAll(op, queue) == queue

LeftHeld(op, queue) == IF op = "kill" THEN <<>> ELSE queue

\* The end of pause, cancel and kill: the fact, and the registry.
PublishInterrupt ==
    /\ worker.pc = "publish"
    /\ held' = LeftHeld(worker.op, held)
    /\ kept' = IF worker.op = "kill" THEN {} ELSE kept
    /\ view' = StatusOf[worker.op]
    /\ active' = NoEntry
    /\ worker' = Idle
    /\ UNCHANGED <<job, marker, interruptLeaves>>

-----------------------------------------------------------------------------
\* The worker: a turn, first or continued.

\* What run_supervised_agent_session and its continuation ask for, and the
\* place in the registry.  A held input that is refused for the mode or for
\* another job of the lane is lost, and no drain is on its way to the next.
CheckTurn ==
    /\ worker.pc = "check"
    /\ \E laneJob \in BOOLEAN :
       IF /\ ~BlocksMutation(control.applied)
          /\ worker.op # "start" => view \in Terminal
          /\ active = NoEntry /\ ~laneJob
         THEN /\ active' = [state |-> "running", prompt |-> 0]
              /\ worker' = [worker EXCEPT !.pc = "start"]
              /\ UNCHANGED <<kept, stalled>>
         ELSE /\ worker' = Idle
              /\ kept' = kept \ {worker.input}
              /\ stalled' = \/ stalled
                            \/ /\ worker.input \in kept
                               /\ BlocksMutation(control.applied) \/ laneJob
              /\ UNCHANGED active
    /\ UNCHANGED <<control, view, job, marker, prompts, turns, held, inbox, used>>

\* resume_typed_agent_session: no turn while the record says one is running,
\* and none without a result that names the agent's own session.
Resumable ==
    /\ job.status \notin {"none", "running", "waiting_approval"}
    /\ job.result

\* start_typed_agent_session_attempt: the marker is removed, the record
\* written, the start published, and the turn's thread spawned.
StartTurn ==
    /\ worker.pc = "start"
    /\ worker.op # "start" => Resumable
    /\ LET t == used.turns + 1
       IN  /\ used' = [used EXCEPT !.turns = t]
           /\ marker' = "none"
           /\ job' = Record("running", t)
           /\ view' = "starting"
           /\ turns' = [turns EXCEPT ![t] = [Off EXCEPT !.pc = "spawn"]]
    /\ kept' = kept \ {worker.input}
    /\ stalled' = FALSE
    /\ worker' = Idle
    /\ UNCHANGED <<control, active, prompts, held, inbox>>

\* A turn that cannot be resumed, or whose files cannot be written.
FailTurn ==
    /\ worker.pc = "start"
    /\ \/ worker.op # "start" /\ ~Resumable /\ UNCHANGED used
       \/ Spend("failures", MaxFailures)
    /\ active' = NoEntry
    /\ view' = "failed"
    /\ kept' = kept \ {worker.input}
    /\ worker' = Idle
    /\ UNCHANGED <<job, marker, prompts, held, inbox, workerLeaves>>

WorkerStep ==
    \/ TakeControl \/ TakeStart \/ TakeInput \/ TakeResume \/ TakeDrain
    \/ TakeCancel \/ TakeInterrupt
    \/ MarkInterrupt \/ StopProcess \/ PublishInterrupt
    \/ CheckTurn \/ StartTurn \/ FailTurn

-----------------------------------------------------------------------------
\* The thread of a turn.

turnLeaves == <<control, held, worker, kept, stalled>>

Step(t, from, to) ==
    /\ turns[t].pc = from
    /\ turns' = [turns EXCEPT ![t].pc = to]

\* The reason of an interruption: the marker's, or the job record's.
InterruptRead ==
    IF marker # "none" THEN marker
    ELSE IF \E op \in Interrupts : StatusOf[op] = job.status
      THEN CHOOSE op \in Interrupts : StatusOf[op] = job.status
      ELSE "none"

\* The status the turn ends in: an interruption's, whatever the runner says.
Ending(outcome) ==
    IF InterruptRead # "none" THEN StatusOf[InterruptRead]
    ELSE IF outcome = "ok" THEN "completed"
    ELSE "failed"

\* The runner is back, with evidence of the turn (ok, or a failed status) or
\* with an error; the thread reads whether it was interrupted, and writes the
\* result when there is one.
Returned(t, outcome) ==
    /\ turns' = [turns EXCEPT ![t].pc = "record", ![t].ending = Ending(outcome),
                             ![t].result = outcome # "error"]
    /\ job' = IF job.turn = t THEN [job EXCEPT !.result = outcome # "error"] ELSE job

\* The adapter's process is there, new or still resident from the last turn,
\* and the record is written with its pid; or there is none.
Spawned(t) ==
    /\ turns[t].pc = "spawn"
    /\ \/ /\ turns' = [turns EXCEPT ![t].pc = "work", ![t].pid = TRUE]
          /\ job' = [Record("running", t) EXCEPT !.pid = TRUE]
          /\ UNCHANGED used
       \/ /\ Spend("failures", MaxFailures)
          /\ Returned(t, "error")
    /\ UNCHANGED <<view, marker, active, prompts, inbox, turnLeaves>>

\* The approver.  It notes the prompt in the registry, if the session still
\* has a place there, and in the job record;
Ask(t) ==
    LET p == used.prompts + 1
    IN  /\ turns[t].pc = "work"
        /\ Spend("prompts", MaxPrompts)
        /\ turns' = [turns EXCEPT ![t].pc = "ask", ![t].prompt = p]
        /\ prompts' = [prompts EXCEPT ![p].epoch = CurrentEpoch]
        /\ active' = IF active = NoEntry THEN active ELSE [state |-> "pending", prompt |-> p]
        /\ job' = [job EXCEPT !.status = "waiting_approval"]
        /\ UNCHANGED <<view, marker, inbox, turnLeaves>>

\* makes it answerable, publishes it and starts its timer;
AnnounceApproval(t) ==
    /\ Step(t, "ask", "await")
    /\ prompts' = [prompts EXCEPT ![turns[t].prompt].state = "pending"]
    /\ view' = "waiting_approval"
    /\ UNCHANGED <<job, marker, active, inbox, used, turnLeaves>>

\* and goes on with whatever answer comes, over whatever status is shown.
Answered(t) ==
    /\ turns[t].pc = "await"
    /\ prompts[turns[t].prompt].state \in {"allow", "deny"}
    /\ turns' = [turns EXCEPT ![t].pc = "work", ![t].prompt = 0]
    /\ prompts' = [prompts EXCEPT ![turns[t].prompt] = NoPrompt]
    /\ job' = [job EXCEPT !.status = "running"]
    /\ view' = "running"
    /\ UNCHANGED <<marker, active, inbox, used, turnLeaves>>

\* An interrupted turn, too, ends in any of these ways.
Return(t) ==
    /\ turns[t].pc = "work"
    /\ \E outcome \in {"ok", "failed", "error"} : Returned(t, outcome)
    /\ UNCHANGED <<view, marker, active, prompts, inbox, used, turnLeaves>>

\* After a pause or a kill there is nothing to tell: the worker does that.
Silent(ending) == ending \in {"paused", "killed"}

\* Mutant of JobStatus: the job takes the status of the session.
JobStatusAsShown(ending) == {ending}

\* acp_session_job_status and the interruptions: the job of a turn that
\* completed says what the agent said of it (or observed, like finished).
JobStatus(ending) ==
    IF ending = "completed" THEN {"finished", "cancelled"} ELSE {ending}

\* The whole record as this thread knows it, over whatever the last one says.
RecordEnd(t) ==
    /\ turns[t].pc = "record"
    /\ turns' = [turns EXCEPT ![t] = IF Silent(turns[t].ending) THEN Gone
                                     ELSE [@ EXCEPT !.pc = "tell"]]
    /\ \E status \in JobStatus(turns[t].ending) :
          job' = [status |-> status, turn |-> t, pid |-> turns[t].pid,
                  result |-> turns[t].result]
    /\ UNCHANGED <<view, marker, active, prompts, inbox, used, turnLeaves>>

\* Only a turn that completed lets the next held input go.
Releases(ending) == ending = "completed"

\* The sink: the terminal fact, the registry,
Tell(t) ==
    /\ turns[t].pc = "tell"
    /\ turns' = [turns EXCEPT ![t] = IF Releases(turns[t].ending)
                                       THEN [Off EXCEPT !.pc = "arm"] ELSE Gone]
    /\ view' = turns[t].ending
    /\ active' = NoEntry
    /\ UNCHANGED <<job, marker, prompts, inbox, used, turnLeaves>>

\* and the drain, which only the worker can do.
ArmDrain(t) ==
    /\ Step(t, "arm", "done")
    /\ inbox' = Append(inbox, Message("drain", 0))
    /\ UNCHANGED <<view, job, marker, active, prompts, used, turnLeaves>>

TurnStep(t) ==
    \/ Spawned(t) \/ Ask(t) \/ AnnounceApproval(t) \/ Answered(t)
    \/ Return(t) \/ RecordEnd(t) \/ Tell(t) \/ ArmDrain(t)

-----------------------------------------------------------------------------
Next ==
    \/ ClientStep
    \/ WorkerStep
    \/ \E t \in Turns : TurnStep(t)
    \/ \E p \in Prompts : Expire(p)

Spec == Init /\ [][Next]_vars

\* The worker and the turns' threads run when they can, an adapter comes to
\* an end or to its timeout, and timers fire.  Clients owe nothing.
Fairness ==
    /\ WF_vars(WorkerStep)
    /\ \A t \in Turns : WF_vars(TurnStep(t))
    /\ \A p \in Prompts : WF_vars(Expire(p))

FairSpec == Spec /\ Fairness

-----------------------------------------------------------------------------
\* Properties.

\* The type of the session's copies of its state: the view, the job record and
\* the marker that the threads read from each other, and the held inputs,
\* which stay within their cap.
TypeOK ==
    /\ view \in Statuses
    /\ job \in [status : JobStatuses, turn : 0..used.turns, pid : BOOLEAN,
               result : BOOLEAN]
    /\ marker \in Interrupts \cup {"none"}
    /\ active \in [state : {"none", "running", "pending"}, prompt : 0..MaxPrompts]
    /\ held \in Seq(Inputs) /\ Len(held) <= MaxHeld
    /\ worker.op \in Commands \cup {"input"}
    /\ kept \subseteq 1..used.runs

\* What a paused session was given it hands on in the order in which it was
\* given: what leaves is older than what stays.
HeldRunInOrder ==
    [][\A i \in kept \ kept', j \in kept' : i < j]_vars

\* The comment on cancelling: "a held prompt that outlived the session it was
\* written for would be sent into the next one".  A cancel, a kill and a turn
\* each take their inputs out of the queue for good.
NoInputOutlivesItsSession == Range(held) \subseteq kept

\* A turn ends: its thread waits for ever neither for a prompt nobody can
\* answer nor for an adapter that does not come back.  (Turns are bounded and
\* a thread that is done stays so: every one of them ends.)
EveryTurnEnds == []<>(\A t \in Turns : turns[t].pc \in {"off", "done"})

\* Inputs held behind a turn that completed run one after another, whatever
\* is sent, cancelled, paused and resumed meanwhile: a session rests as
\* completed over inputs it holds only if the one before them was refused,
\* for the mode or for another job of its lane, and nothing has run since.
HeldInputsDrain == []<>(view = "completed" /\ held # <<>> => stalled)
=============================================================================
