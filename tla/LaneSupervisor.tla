--------------------------- MODULE LaneSupervisor ---------------------------
(***************************************************************************)
(* Parallel lanes (crates/lanes).  Every lane has a worker thread that     *)
(* owns its record, asks the operator before it mutates anything, and      *)
(* writes a durable event before it believes its own change.  The runtime  *)
(* worker (`super`) routes commands and answers to the lane workers, a     *)
(* reaper thread retires workers whose lane reached a terminal state, and  *)
(* the client's thread cancels, and audits an answer before forwarding it. *)
(*                                                                         *)
(* All of them meet at the `lanes` lock: the runtime worker keeps it from  *)
(* the lookup of a worker to the delivery of a command, and for the whole  *)
(* of an approved effect; the reaper keeps it while it joins a worker.     *)
(* A step of this module is one critical section or one call that reaches  *)
(* the disk; the runtime can stop between any two of them (Restart).       *)
(***************************************************************************)
EXTENDS Naturals, Sequences

CONSTANTS
    Lanes,        \* lane ids
    Operations,   \* the lane commands clients send, a subset of AllOperations
    Autonomous,   \* the lanes with MutationPolicy::Autonomous
    StartMode,    \* the permission mode of the first session, one of Modes
    Controls,     \* the permission modes clients switch to, a subset of Modes
    Answers,      \* what operators answer, a subset of Decisions
    MaxCommands,  \* bound: lane commands ever sent
    MaxControls,  \* bound: permission controls ever sent
    MaxCancels,   \* bound: cancels ever sent
    MaxAnswers,   \* bound: answers ever sent to one approval
    MaxQueue,     \* bound: commands waiting for the runtime worker
    MaxFailures,  \* bound: appends to the lane log that fail
    MaxKills,     \* bound: stops of an agent that fail, or are given up
    MaxRestarts   \* bound: runtime restarts

\* ask and allow: a permission mode under which a mutation is asked for, or
\* allowed.  plan: work mode plan, which blocks every mutation.  (A read-only
\* permission level in build mode gets past LaneSupervisor::send and is refused
\* by the worker; the model refuses both at the first place.)
Modes     == {"ask", "allow", "plan"}
Decisions == {"once", "session", "deny"}

\* The operations that only change the status, and the status they lead to.
StatusOf ==
    [attach  |-> "attached",    detach  |-> "detached", accept |-> "done",
     revise  |-> "needs_input", discard |-> "cancelled"]

AllOperations ==
    DOMAIN StatusOf \cup {"create", "start", "stop", "input", "apply",
                          "resolve", "archive", "cleanup"}

ASSUME LaneConstants ==
    /\ Operations \subseteq AllOperations
    /\ Autonomous \subseteq Lanes
    /\ "none" \notin Lanes
    /\ StartMode \in Modes
    /\ Controls \subseteq Modes
    /\ Answers \subseteq Decisions
    /\ {MaxCommands, MaxControls, MaxCancels, MaxAnswers, MaxQueue,
        MaxFailures, MaxKills, MaxRestarts} \subseteq Nat

VARIABLES
    log,       \* per lane: what its events in lanes.jsonl reduce to
    disk,      \* per lane: its worktree, the handle of its agent (`runtime`),
               \* and whether an agent may live that no handle reaches (`stray`)
    worker,    \* per lane: LaneWorkerHandle and LaneWorker in one record
    hydrated,  \* per lane: the record kept for a lane without a worker
    terminal,  \* per lane: terminal_lanes
    reaper,    \* completions on their way, the one in hand, the worker joined
    super,     \* the runtime worker: its channel and where it is
    policy,    \* permission mode and generation, as applied and as submitted
    asks,      \* history: every lane approval ever asked for
    used       \* the bounds spent

vars == <<log, disk, worker, hydrated, terminal, reaper, super, policy, asks, used>>

-----------------------------------------------------------------------------
Statuses ==
    {"absent", "draft", "starting", "running", "waiting", "blocked", "failed",
     "archived"} \cup {StatusOf[op] : op \in DOMAIN StatusOf}

\* A lane record: its status, the one summary that is ever read again
\* ("cleaned"), the runs started, those whose end was measured, and whether
\* one is open.  `refused` is history: the last that was written is the "done"
\* of an apply that then refused.  The two are no part of a record that is
\* handed on.
Record == [status : Statuses, mark : {"none", "cleaned"},
           runs : Nat, walls : Nat, open : BOOLEAN, refused : BOOLEAN]
Absent == [status |-> "absent", mark |-> "none", runs |-> 0, walls |-> 0,
           open |-> FALSE, refused |-> FALSE]
Draft  == [Absent EXCEPT !.status = "draft"]

HandedOn(record) == [record EXCEPT !.open = FALSE, !.refused = FALSE]

Known(l) == log[l].status # "absent"

\* The statuses of a lane that is in the middle of something.
Busy == {"starting", "running", "waiting"}

NoAsk == [ask |-> 0, op |-> "none", prev |-> "absent", epoch |-> 0, late |-> FALSE]

Gone ==
    [up |-> FALSE, record |-> Absent, registered |-> FALSE, inbox |-> <<>>,
     pending |-> NoAsk, mode |-> "ask", epoch |-> 0, ruled |-> {},
     doing |-> "none", runtime |-> FALSE, complete |-> "none", exited |-> FALSE]

Message(type, op, ask, decision) ==
    [type |-> type, op |-> op, ask |-> ask, decision |-> decision]
CommandMsg(op)  == Message("command", op, 0, "deny")
ResumeMsg(a, d) == Message("resume", "none", a, d)
CancelMsg       == Message("cancel", "none", 0, "deny")
ShutdownMsg     == Message("shutdown", "none", 0, "deny")

AskIds == 1..Len(asks)

\* Nobody holds the `lanes` lock.
LockFree == super.at = "idle" /\ reaper.joining = "none"

\* Does an append to the log succeed?  An event of an unknown lane never does.
Appends(l) ==
    IF ~Known(l) THEN {FALSE}
    ELSE IF used.failures < MaxFailures THEN BOOLEAN ELSE {TRUE}

Failures(n) == used' = [used EXCEPT !.failures = @ + n]

\* A failed append of a known lane counts against the bound.
Count(l, ok) == Failures(IF ok \/ ~Known(l) THEN 0 ELSE 1)

Put(l, w) == worker' = [worker EXCEPT ![l] = w]

Post(w, message) == [w EXCEPT !.inbox = Append(@, message)]

-----------------------------------------------------------------------------
\* Writing a lane event.

\* Mutant of Believed: memory follows although the append failed.
BelievedAnyway(w, ok, record) == [w EXCEPT !.record = record]

\* change_status and observe_run touch the worker's record after the append.
Believed(w, ok, record) == IF ok THEN [w EXCEPT !.record = record] ELSE w

WithStatus(record, status, mark) ==
    [record EXCEPT !.status = status, !.mark = mark, !.refused = FALSE]

\* What a measured start or end of a run makes of the record; an end without a
\* start has no wall time.
Measured(record, edge) ==
    IF edge = "start" THEN [record EXCEPT !.runs = @ + 1, !.open = TRUE]
    ELSE [record EXCEPT !.walls = IF record.open THEN @ + 1 ELSE @, !.open = FALSE]

\* change_status: the worker of lane l, otherwise w, takes a status.
ChangeStatus(l, w, status, mark, ok) ==
    /\ log' = IF ok THEN [log EXCEPT ![l] = WithStatus(@, status, mark)] ELSE log
    /\ Put(l, Believed(w, ok, WithStatus(w.record, status, mark)))
    /\ Count(l, ok)

-----------------------------------------------------------------------------
Init ==
    /\ log = [l \in Lanes |-> Absent]
    /\ disk = [l \in Lanes |-> [worktree |-> FALSE, runtime |-> FALSE,
                              stray |-> FALSE]]
    /\ worker = [l \in Lanes |-> Gone]
    /\ hydrated = [l \in Lanes |-> Absent]
    /\ terminal = [l \in Lanes |-> "none"]
    /\ reaper = [inbox |-> <<>>, inHand |-> "none", joining |-> "none"]
    /\ super = [inbox |-> <<>>, at |-> "idle", lane |-> "none", op |-> "none",
                reaped |-> {}]
    /\ policy = [mode |-> StartMode, epoch |-> 0, submitted |-> 0, broken |-> FALSE]
    /\ asks = <<>>
    /\ used = [commands |-> 0, controls |-> 0, cancels |-> 0, failures |-> 0,
               kills |-> 0, restarts |-> 0]

-----------------------------------------------------------------------------
\* The client's thread.

ToSuper(message) == super' = [super EXCEPT !.inbox = Append(@, message)]

SendCommand(l, op) ==
    /\ used.commands < MaxCommands
    /\ Len(super.inbox) < MaxQueue
    /\ used' = [used EXCEPT !.commands = @ + 1]
    /\ ToSuper([type |-> "lane", lane |-> l, op |-> op])
    /\ UNCHANGED <<log, disk, worker, hydrated, terminal, reaper, policy, asks>>

\* A control reserves its generation at once and is applied later.
SendControl(mode) ==
    /\ used.controls < MaxControls
    /\ used' = [used EXCEPT !.controls = @ + 1]
    /\ policy' = [policy EXCEPT !.submitted = @ + 1]
    /\ ToSuper([type |-> "control", mode |-> mode, epoch |-> policy.submitted + 1])
    /\ UNCHANGED <<log, disk, worker, hydrated, terminal, reaper, asks>>

\* blocks_mutation: the last control on its way, or else the applied mode.
ProjectedMode ==
    LET controls == {i \in DOMAIN super.inbox : super.inbox[i].type = "control"}
        Last     == CHOOSE i \in controls : \A j \in controls : j <= i
    IN  IF controls = {} THEN policy.mode ELSE super.inbox[Last].mode

\* Mutant of Intake: the generation is not compared.
IntakeAnyEpoch(pending, decision, epoch) == decision # "deny" /\ ~pending.late

\* LanePendingApproval::intake, read by the client for the audit row and by
\* the lane worker for the effect.  The model's answers are of offered scopes.
Intake(pending, decision, epoch) ==
    /\ decision # "deny"
    /\ ~pending.late
    /\ epoch = pending.epoch

\* RespondToApproval: the audit row is written from what the client sees, then
\* the answer joins the runtime worker's channel.
Respond(l, decision) ==
    LET w == worker[l]
        a == w.pending.ask
        audited == IF Intake(w.pending, decision, w.epoch) /\ ProjectedMode # "plan"
                   THEN "allowed" ELSE "denied"
    IN  /\ LockFree
        /\ w.up /\ a # 0
        /\ Len(asks[a].audited) < MaxAnswers
        /\ asks' = [asks EXCEPT ![a].audited = Append(@, audited)]
        /\ ToSuper([type |-> "answer", ask |-> a, decision |-> decision])
        /\ UNCHANGED <<log, disk, worker, hydrated, terminal, reaper, policy, used>>

\* CancelActiveTurn of a lane: LaneSupervisor::cancel on the client's thread.
\* The send fails when the worker's thread is gone.
Cancel(l) ==
    /\ used.cancels < MaxCancels
    /\ LockFree
    /\ worker[l].up
    /\ used' = [used EXCEPT !.cancels = @ + 1]
    /\ IF worker[l].exited THEN UNCHANGED worker
                           ELSE Put(l, Post(worker[l], CancelMsg))
    /\ UNCHANGED <<log, disk, hydrated, terminal, reaper, super, policy, asks>>

-----------------------------------------------------------------------------
\* The runtime worker.

\* A permission control that commits, or fails to; sync_permissions then gives
\* every lane worker the engine and its generation.  A session rule of a lane
\* survives unless mutations are now blocked.
TakeControl ==
    /\ LockFree
    /\ super.inbox # <<>>
    /\ LET m == Head(super.inbox) IN
       /\ m.type = "control"
       /\ super' = [super EXCEPT !.inbox = Tail(@)]
       /\ \/ UNCHANGED <<policy, worker>>
          \/ /\ policy' = [policy EXCEPT !.mode = m.mode, !.epoch = m.epoch]
             /\ worker' = [l \in Lanes |->
                    IF worker[l].up
                    THEN [worker[l] EXCEPT !.mode = m.mode, !.epoch = m.epoch,
                                           !.ruled = IF m.mode = "plan" THEN {} ELSE @]
                    ELSE worker[l]]
    /\ UNCHANGED <<log, disk, hydrated, terminal, reaper, asks, used>>

\* Mutant of Reaped: the worker is not told to stop.
ReapedSilently(w) == [w EXCEPT !.complete = "none"]

\* reap_terminal_lanes: completions are taken out of the workers' hands, and
\* the workers told to stop; they are joined under the lock (Route waits).
Reaped(w) == Post([w EXCEPT !.complete = "none"], ShutdownMsg)

Completed == {l \in Lanes : worker[l].up /\ worker[l].complete # "none"}

\* LaneSupervisor::send up to the reaping; refused in plan mode, and always
\* after a hydration that failed.
TakeCommand ==
    /\ LockFree
    /\ super.inbox # <<>>
    /\ LET m == Head(super.inbox) IN
       /\ m.type = "lane"
       /\ IF policy.mode = "plan" \/ policy.broken
          THEN /\ super' = [super EXCEPT !.inbox = Tail(@)]
               /\ UNCHANGED <<worker, hydrated, terminal>>
          ELSE /\ super' = [super EXCEPT !.inbox = Tail(@), !.at = "route",
                                         !.lane = m.lane, !.op = m.op,
                                         !.reaped = Completed]
               /\ hydrated' = [l \in Lanes |->
                      IF l \in Completed THEN HandedOn(worker[l].record)
                                         ELSE hydrated[l]]
               /\ terminal' = [l \in Lanes |->
                      IF l \in Completed THEN worker[l].complete ELSE terminal[l]]
               /\ worker' = [l \in Lanes |->
                      IF l \in Completed
                      THEN Reaped(worker[l])
                      ELSE worker[l]]
    /\ UNCHANGED <<log, disk, reaper, policy, asks, used>>

Spawned(record, registered) ==
    [Gone EXCEPT !.up = TRUE, !.record = record, !.registered = registered,
                 !.mode = policy.mode, !.epoch = policy.epoch]

\* Which worker gets the command: its own, a new one for a new lane, a new one
\* for a lane the log or the reaper handed over, or nobody.
Routed(w, l, op) ==
    IF op = "create"
    THEN IF w.up THEN IF w.registered THEN Gone ELSE w
         ELSE IF hydrated[l].status # "absent" THEN Gone
         ELSE Spawned(Draft, FALSE)
    ELSE IF terminal[l] = "cleaned" \/ (terminal[l] = "archived" /\ op # "cleanup")
         THEN Gone
    ELSE IF w.up THEN w
    ELSE IF hydrated[l].status # "absent" THEN Spawned(hydrated[l], TRUE)
    ELSE Gone

\* The rest of send: the reaped workers have been joined, a worker is looked up
\* or spawned, LaneCommandAccepted published.  An archived lane leaves the
\* terminal registry when it is to be cleaned up.
Route ==
    LET l == super.lane
        w == IF l \in super.reaped THEN Gone ELSE worker[l]
        r == Routed(w, l, super.op)
    IN  /\ super.at = "route"
        /\ \A k \in super.reaped : worker[k].exited
        /\ worker' = [k \in Lanes |->
               IF k = l THEN IF r.up THEN r ELSE w
               ELSE IF k \in super.reaped THEN Gone ELSE worker[k]]
        /\ terminal' = IF super.op = "cleanup" /\ terminal[l] = "archived"
                       THEN [terminal EXCEPT ![l] = "none"] ELSE terminal
        /\ super' = [super EXCEPT !.at = IF r.up THEN "forward" ELSE "idle",
                                  !.reaped = {}]
        /\ UNCHANGED <<log, disk, hydrated, reaper, policy, asks, used>>

\* The command goes into the worker's channel, or an error is published because
\* its thread has gone meanwhile.
Forward ==
    LET w == worker[super.lane] IN
    /\ super.at = "forward"
    /\ super' = [super EXCEPT !.at = "idle"]
    /\ IF w.exited THEN UNCHANGED worker
                   ELSE Put(super.lane, Post(w, CommandMsg(super.op)))
    /\ UNCHANGED <<log, disk, hydrated, terminal, reaper, policy, asks, used>>

\* respond_to_approval: find the worker that owns the approval, hand it the
\* answer if its thread is there, and wait with the lock held until it has
\* dealt with it.
TakeAnswer ==
    /\ LockFree
    /\ super.inbox # <<>>
    /\ LET m == Head(super.inbox)
           owners == {l \in Lanes : worker[l].up /\ worker[l].pending.ask = m.ask}
       IN /\ m.type = "answer"
          /\ \/ /\ owners = {}
                /\ super' = [super EXCEPT !.inbox = Tail(@)]
                /\ UNCHANGED worker
             \/ \E l \in owners :
                IF worker[l].exited
                THEN super' = [super EXCEPT !.inbox = Tail(@)] /\ UNCHANGED worker
                ELSE /\ super' = [super EXCEPT !.inbox = Tail(@), !.at = "answer",
                                               !.lane = l]
                     /\ Put(l, Post(worker[l], ResumeMsg(m.ask, m.decision)))
    /\ UNCHANGED <<log, disk, hydrated, terminal, reaper, policy, asks, used>>

\* The completion arrives once the handler of the answer has returned.
AnswerDone ==
    LET w == worker[super.lane] IN
    /\ super.at = "answer"
    /\ \A i \in DOMAIN w.inbox : w.inbox[i].type # "resume"
    /\ w.doing \in {"none", "check", "drained"}
    /\ super' = [super EXCEPT !.at = "idle"]
    /\ UNCHANGED <<log, disk, worker, hydrated, terminal, reaper, policy, asks, used>>
-----------------------------------------------------------------------------
\* The lane worker, between two messages.

AtRest(w)  == w.up /\ ~w.exited /\ w.doing = "none"
Hears(w, type) == AtRest(w) /\ w.inbox # <<>> /\ Head(w.inbox).type = type
Next1(w)   == [w EXCEPT !.inbox = Tail(@)]
Goto(w, s) == [w EXCEPT !.doing = s]

\* What every step of a lane worker leaves alone.
OnlyLane == UNCHANGED <<hydrated, terminal, super, policy>>

\* handle_command and dispatch_mutation: what is rejected outright.
Refused(w, op) ==
    \/ w.pending.ask # 0
    \/ w.record.status = "archived" /\ op \notin {"archive", "cleanup"}
    \/ op = "create" /\ w.registered
    \/ op = "start" /\ w.record.status \notin {"draft", "detached"}
    \/ op = "apply" /\ w.record.status # "done"
    \/ op = "resolve" /\ w.record.status # "blocked"
    \/ w.mode = "plan"

\* An autonomous lane runs what the mode or a session rule allows; any other
\* operation asks, even one the engine would allow.
Cleared(l, w, op) == l \in Autonomous /\ (w.mode = "allow" \/ op \in w.ruled)

\* queue_mutation_approval of the worker of l, otherwise w: a registered lane
\* writes that it waits before it asks, and does not ask when it could not.
AskFor(l, w, op) ==
    \E ok \in IF w.registered THEN Appends(l) ELSE {TRUE} :
       LET waiting == WithStatus(w.record, "waiting", "none")
           record  == IF w.registered THEN waiting ELSE w.record
           pending == [ask |-> Len(asks) + 1, op |-> op,
                       prev |-> w.record.status, epoch |-> w.epoch, late |-> FALSE]
       IN  /\ Count(l, ok)
           /\ log' = IF ok /\ w.registered
                     THEN [log EXCEPT ![l] = WithStatus(@, "waiting", "none")] ELSE log
           /\ IF ok
              THEN /\ Put(l, [w EXCEPT !.record = record, !.pending = pending])
                   /\ asks' = Append(asks, [lane |-> l, epoch |-> w.epoch,
                                            state |-> "pending", audited |-> <<>>])
              ELSE Put(l, w) /\ UNCHANGED asks

HandleCommand(l) ==
    LET w  == worker[l]
        op == Head(w.inbox).op
    IN  /\ Hears(w, "command")
        /\ IF Refused(w, op)
           THEN Put(l, Next1(w)) /\ UNCHANGED <<log, asks, used>>
           ELSE IF Cleared(l, w, op)
           THEN Put(l, Goto(Next1(w), op)) /\ UNCHANGED <<log, asks, used>>
           ELSE AskFor(l, Next1(w), op)
        /\ UNCHANGED <<disk, reaper>>
        /\ OnlyLane

\* A pending mutation that is not run: the prompt is denied and the status goes
\* back to what it was before the question.
PutBack(l, w) ==
    /\ asks' = [asks EXCEPT ![w.pending.ask].state = "denied"]
    /\ LET idle == [w EXCEPT !.pending = NoAsk] IN
       IF w.registered
       THEN \E ok \in Appends(l) : ChangeStatus(l, idle, w.pending.prev, "none", ok)
       ELSE Put(l, idle) /\ UNCHANGED <<log, used>>

\* resume_approval: the answer is judged again, with the engine and generation
\* read by respond_to_approval under the lock, and through the injected gate.
HandleAnswer(l) ==
    LET w  == Next1(worker[l])
        m  == Head(worker[l].inbox)
        op == w.pending.op
        ok == Intake(w.pending, m.decision, w.epoch) /\ w.mode # "plan"
    IN  /\ Hears(worker[l], "resume")
        /\ IF w.pending.ask # m.ask
           THEN Put(l, w) /\ UNCHANGED <<log, asks, used>>
           ELSE IF ~ok THEN PutBack(l, w)
           ELSE /\ asks' = [asks EXCEPT ![m.ask].state = "allowed"]
                /\ Put(l, [Goto(w, op) EXCEPT
                           !.pending = NoAsk,
                           !.ruled = IF m.decision = "session" THEN @ \cup {op} ELSE @])
                /\ UNCHANGED <<log, used>>
        /\ UNCHANGED <<disk, reaper>>
        /\ OnlyLane

\* cancel: the pending mutation is denied and the lane cancelled, or what the
\* lane is running is stopped first.
HandleCancel(l) ==
    LET w == Next1(worker[l])
        a == w.pending.ask
    IN  /\ Hears(worker[l], "cancel")
        /\ IF a # 0
           THEN /\ asks' = [asks EXCEPT ![a].state = "denied"]
                /\ Put(l, [Goto(w, "cancelled") EXCEPT !.pending = NoAsk])
           ELSE Put(l, Goto(w, "cancel")) /\ UNCHANGED asks
        /\ UNCHANGED <<log, disk, reaper, used>>
        /\ OnlyLane

\* shutdown_lane: the handle leaves the registry before its agent is stopped,
\* and a stop that fails leaves the agent alive with nobody to stop it.
StopOutcomes(l) ==
    IF disk[l].runtime /\ used.kills < MaxKills THEN BOOLEAN ELSE {TRUE}

Release(l, stopped) ==
    disk' = [disk EXCEPT ![l].runtime = FALSE, ![l].stray = @ \/ ~stopped]

Kills(stopped) == used' = [used EXCEPT !.kills = @ + IF stopped THEN 0 ELSE 1]

\* The runtime of a lane whose thread ends is stopped, whatever comes of it;
\* the open run is not measured.  What is still in its channel is lost.
Exited(w) == [w EXCEPT !.exited = TRUE, !.inbox = <<>>, !.doing = "none",
                       !.runtime = FALSE]

ThreadEnd(l) ==
    /\ Put(l, Exited(worker[l]))
    /\ IF worker[l].runtime
       THEN \E stopped \in StopOutcomes(l) : Release(l, stopped) /\ Kills(stopped)
       ELSE UNCHANGED <<disk, used>>
    /\ UNCHANGED <<log, reaper, asks>>
    /\ OnlyLane

HandleShutdown(l) == Hears(worker[l], "shutdown") /\ ThreadEnd(l)

\* The deadline of a pending approval passes ...
PassTime(l) ==
    /\ worker[l].up /\ worker[l].pending.ask # 0 /\ ~worker[l].pending.late
    /\ Put(l, [worker[l] EXCEPT !.pending.late = TRUE])
    /\ UNCHANGED <<log, disk, reaper, asks, used>>
    /\ OnlyLane

\* ... and the worker notices when its channel is empty for a while.
Expire(l) ==
    LET w == worker[l] IN
    /\ AtRest(w)
    /\ w.inbox = <<>>
    /\ w.pending.ask # 0 /\ w.pending.late
    /\ PutBack(l, w)
    /\ UNCHANGED <<disk, reaper>>
    /\ OnlyLane

-----------------------------------------------------------------------------
\* The lane worker, in the middle of an operation: `doing` is the next step.

\* Mutant of Write: a status that cannot be written does not stop the operation.
WriteAnyway(to, next, otherwise) == [to |-> to, next |-> next, otherwise |-> next]

\* Mutant of Write: a status the log does not know.
WriteUnknown(to, next, otherwise) ==
    [to |-> IF to = "blocked" THEN "conflict" ELSE to, next |-> next,
     otherwise |-> otherwise]

\* Steps that write a status, and where they lead when the append succeeds and
\* when it fails.
Write(to, next, otherwise) ==
    [to |-> to, next |-> next, otherwise |-> otherwise]

OwnSteps ==
    [start     |-> Write("starting", "spawn", "none"),
     run       |-> Write("running", "count", "unspawn"),
     detached  |-> Write("detached", "none", "none"),
     cancelled |-> Write("cancelled", "none", "none"),
     fail      |-> Write("failed", "none", "none"),
     block     |-> Write("blocked", "none", "none"),
     cleanup   |-> Write("starting", "clearing", "none"),
     archived  |-> Write("archived", "terminal", "none"),
     cleaned   |-> Write("archived", "terminal", "none")]

StatusSteps ==
    [step \in DOMAIN StatusOf \cup DOMAIN OwnSteps |->
        IF step \in DOMAIN OwnSteps THEN OwnSteps[step]
        ELSE Write(StatusOf[step], "none", "none")]

WriteStatus(l) ==
    LET w    == worker[l]
        step == StatusSteps[w.doing]
        mark == IF w.doing = "cleaned" THEN "cleaned" ELSE "none"
    IN  /\ w.doing \in DOMAIN StatusSteps
        /\ \E ok \in Appends(l) :
              ChangeStatus(l, Goto(w, IF ok THEN step.next ELSE step.otherwise),
                           step.to, mark, ok)
        /\ UNCHANGED <<disk, reaper, asks>>
        /\ OnlyLane

\* Mutant of Create: the outcome of the effect is not looked at.
CreateUnchecked(l) ==
    /\ worker[l].doing = "create"
    /\ Put(l, Goto(worker[l], "register"))
    /\ \E ok \in BOOLEAN : disk' = [disk EXCEPT ![l].worktree = @ \/ ok]
    /\ UNCHANGED <<log, reaper, asks, used>>
    /\ OnlyLane

\* create: the worktree first, the registration after it; a registration that
\* cannot be written takes the worktree back, if it can.
Create(l) ==
    LET w == worker[l] IN
    /\ w.doing = "create"
    /\ \/ Put(l, Goto(w, "none")) /\ UNCHANGED disk
       \/ Put(l, Goto(w, "register")) /\ disk' = [disk EXCEPT ![l].worktree = TRUE]
    /\ UNCHANGED <<log, reaper, asks, used>>
    /\ OnlyLane

Register(l) ==
    LET w == worker[l] IN
    /\ w.doing = "register"
    /\ \/ /\ ~Known(l)
          /\ log' = [log EXCEPT ![l] = Draft]
          /\ Put(l, [Goto(w, "none") EXCEPT !.registered = TRUE])
          /\ UNCHANGED <<disk, used>>
       \/ /\ Known(l) \/ used.failures < MaxFailures
          /\ Failures(IF Known(l) THEN 0 ELSE 1)
          /\ Put(l, Goto(w, "none"))
          /\ \E gone \in BOOLEAN : disk' = [disk EXCEPT ![l].worktree = @ /\ ~gone]
          /\ UNCHANGED log
    /\ UNCHANGED <<reaper, asks>>
    /\ OnlyLane

\* start: a lane has one handle at most.  What a failed spawn leaves behind,
\* such as a tmux session that cannot be killed again, has none.
Spawn(l) ==
    LET w == worker[l] IN
    /\ w.doing = "spawn"
    /\ \/ /\ Put(l, Goto(w, "fail"))
          /\ \/ UNCHANGED <<disk, used>>
             \/ /\ ~disk[l].runtime /\ used.kills < MaxKills
                /\ Release(l, FALSE) /\ Kills(FALSE)
       \/ /\ ~disk[l].runtime
          /\ disk' = [disk EXCEPT ![l].runtime = TRUE]
          /\ Put(l, [Goto(w, "run") EXCEPT !.runtime = TRUE])
          /\ UNCHANGED used
    /\ UNCHANGED <<log, reaper, asks>>
    /\ OnlyLane

\* Mutant of Unspawn: the runtime is only forgotten.
UnspawnForgets(l) ==
    /\ worker[l].doing = "unspawn"
    /\ Put(l, [Goto(worker[l], "detached") EXCEPT !.runtime = FALSE])
    /\ UNCHANGED <<log, disk, reaper, asks, used>>
    /\ OnlyLane

\* The runtime of a start that could not be written is taken down unmeasured,
\* whatever comes of it.
Unspawn(l) ==
    /\ worker[l].doing = "unspawn"
    /\ \E stopped \in StopOutcomes(l) : Release(l, stopped) /\ Kills(stopped)
    /\ Put(l, [Goto(worker[l], "detached") EXCEPT !.runtime = FALSE])
    /\ UNCHANGED <<log, reaper, asks>>
    /\ OnlyLane

\* observe_run, on both sides: what the log reduces to and the worker's mirror.
Observe(l, w, edge, ok) ==
    /\ log' = IF ok THEN [log EXCEPT ![l] = Measured(@, edge)] ELSE log
    /\ Put(l, Believed(w, ok, Measured(w.record, edge)))
    /\ Count(l, ok)

CountRun(l) ==
    /\ worker[l].doing = "count"
    /\ \E ok \in Appends(l) : Observe(l, Goto(worker[l], "none"), "start", ok)
    /\ UNCHANGED <<disk, reaper, asks>>
    /\ OnlyLane

\* shutdown_lane and close_active_run: a stop that fails ends the operation,
\* one that succeeds is measured as the end of the run.
AfterShutdown ==
    [stop |-> "detached", cancel |-> "cancelled", archive |-> "archived",
     clearing |-> "remove"]

StopRuntime(l) ==
    LET w    == worker[l]
        next == Goto([w EXCEPT !.runtime = FALSE], AfterShutdown[w.doing])
    IN  /\ w.doing \in DOMAIN AfterShutdown
        /\ \E stopped \in StopOutcomes(l) :
              /\ Release(l, stopped)
              /\ \/ ~stopped /\ Put(l, Goto(w, "fail")) /\ Kills(FALSE) /\ UNCHANGED log
                 \/ stopped /\ ~w.runtime /\ Put(l, next) /\ UNCHANGED <<log, used>>
                 \/ /\ stopped /\ w.runtime
                    /\ \E ok \in Appends(l) : Observe(l, next, "end", ok)
        /\ UNCHANGED <<reaper, asks>>
        /\ OnlyLane

\* cleanup: the worktree is gone, or never was there, or cannot be removed.
RemoveWorktree(l) ==
    LET w == worker[l] IN
    /\ w.doing = "remove"
    /\ \/ Put(l, Goto(w, "cleaned")) /\ disk' = [disk EXCEPT ![l].worktree = FALSE]
       \/ disk[l].worktree /\ Put(l, Goto(w, "fail")) /\ UNCHANGED disk
    /\ UNCHANGED <<log, reaper, asks, used>>
    /\ OnlyLane

\* send_input: needs a runtime; a delivery rewrites the status it finds.
SendInput(l) ==
    LET w == worker[l] IN
    /\ w.doing = "input"
    /\ \/ Put(l, Goto(w, "fail")) /\ UNCHANGED <<log, used>>
       \/ /\ disk[l].runtime
          /\ \E ok \in Appends(l) :
                ChangeStatus(l, Goto(w, "none"), w.record.status, "none", ok)
    /\ UNCHANGED <<disk, reaper, asks>>
    /\ OnlyLane

\* apply: the patch and its durable event are one transaction, which a failed
\* append rolls back; a conflict blocks the lane.  A patch of nothing but
\* binary files changes none, has its event written, and is then reported as a
\* conflict of those files.
ApplyPatch(l) ==
    LET w == worker[l] IN
    /\ w.doing \in {"apply", "resolve"}
    /\ \/ \E next \in {"block", "fail"} : Put(l, Goto(w, next)) /\ UNCHANGED <<log, used>>
       \/ \E ok \in Appends(l) :
             ChangeStatus(l, Goto(w, IF ok THEN "none" ELSE "fail"), "done", "none", ok)
       \/ /\ Known(l)
          /\ log' = [log EXCEPT ![l] = WithStatus(@, "done", "none")]
          /\ Put(l, [Goto(w, "block") EXCEPT !.record.refused = TRUE])
          /\ UNCHANGED used
    /\ UNCHANGED <<disk, reaper, asks>>
    /\ OnlyLane

\* mark_terminal: leave the completion for whoever reaps, and tell the reaper.
MarkTerminal(l) ==
    LET w    == worker[l]
        kind == IF w.record.mark = "cleaned" THEN "cleaned" ELSE "archived"
    IN  /\ w.doing = "terminal"
        /\ Put(l, [Goto(w, "check") EXCEPT !.complete = kind])
        /\ reaper' = [reaper EXCEPT !.inbox =
                          Append(@, [lane |-> l, kind |-> kind,
                                     record |-> HandedOn(w.record)])]
        /\ UNCHANGED <<log, disk, asks, used>>
        /\ OnlyLane

\* The loop: a worker that still has its completion rejects what is queued and
\* ends; one whose completion was reaped meanwhile goes on to the next message.
CheckTerminal(l) ==
    LET w == worker[l] IN
    /\ w.doing = "check"
    /\ Put(l, IF w.complete = "none" THEN Goto(w, "none")
              ELSE [Goto(w, "drained") EXCEPT !.inbox = <<>>])
    /\ UNCHANGED <<log, disk, reaper, asks, used>>
    /\ OnlyLane

\* A command sent after the drain is lost with the channel.
Exit(l) == worker[l].doing = "drained" /\ ThreadEnd(l)

-----------------------------------------------------------------------------
\* The reaper.

\* A completion enters the registries (reap_terminal_lanes keeps those locked
\* while it joins).
RecordCompletion ==
    /\ reaper.inbox # <<>> /\ reaper.inHand = "none"
    /\ super.reaped = {}
    /\ LET done == Head(reaper.inbox) IN
       /\ hydrated' = [hydrated EXCEPT ![done.lane] = done.record]
       /\ terminal' = [terminal EXCEPT ![done.lane] = done.kind]
       /\ reaper' = [reaper EXCEPT !.inbox = Tail(@), !.inHand = done.lane]
    /\ UNCHANGED <<log, disk, worker, super, policy, asks, used>>

\* lanes.remove, whatever worker is found: it is told to stop and joined.
RemoveWorker ==
    LET l == reaper.inHand IN
    /\ l # "none" /\ LockFree
    /\ IF worker[l].up
       THEN /\ reaper' = [reaper EXCEPT !.joining = l]
            /\ IF worker[l].exited THEN UNCHANGED worker
               ELSE Put(l, Post(worker[l], ShutdownMsg))
       ELSE reaper' = [reaper EXCEPT !.inHand = "none"] /\ UNCHANGED worker
    /\ UNCHANGED <<log, disk, hydrated, terminal, super, policy, asks, used>>

JoinWorker ==
    LET l == reaper.joining IN
    /\ l # "none"
    /\ worker[l].exited
    /\ Put(l, Gone)
    /\ reaper' = [reaper EXCEPT !.inHand = "none", !.joining = "none"]
    /\ UNCHANGED <<log, disk, hydrated, terminal, super, policy, asks, used>>

-----------------------------------------------------------------------------
\* The process ends anywhere and LaneSupervisor::new reads the log again: a
\* lane that was in the middle of something is written down as blocked, in
\* order, until an append fails.  An agent outlives the process that held its
\* handle: it runs in a process group, or a tmux session, of its own.
Restart ==
    LET busy == {l \in Lanes : log[l].status \in Busy} IN
    /\ used.restarts < MaxRestarts
    /\ \E done \in SUBSET busy :
       LET broken == done # busy
           lost   == {a \in AskIds : asks[a].state = "pending"}
       IN  /\ broken => used.failures < MaxFailures
           /\ used' = [used EXCEPT !.restarts = @ + 1,
                                   !.failures = @ + IF broken THEN 1 ELSE 0]
           /\ log' = [l \in Lanes |-> IF l \in done THEN WithStatus(log[l], "blocked", "none")
                                                    ELSE log[l]]
           /\ hydrated' = [l \in Lanes |-> HandedOn(log'[l])]
           /\ terminal' = [l \in Lanes |->
                  IF log[l].status # "archived" THEN "none"
                  ELSE IF log[l].mark = "cleaned" THEN "cleaned" ELSE "archived"]
           /\ policy' = [policy EXCEPT !.epoch = 0, !.submitted = 0, !.broken = broken]
           /\ asks' = [a \in AskIds |-> IF a \in lost THEN [asks[a] EXCEPT !.state = "dropped"]
                                                      ELSE asks[a]]
    /\ disk' = [l \in Lanes |-> [disk[l] EXCEPT !.runtime = FALSE,
                                               !.stray = @ \/ disk[l].runtime]]
    /\ worker' = [l \in Lanes |-> Gone]
    /\ reaper' = [inbox |-> <<>>, inHand |-> "none", joining |-> "none"]
    /\ super' = [inbox |-> <<>>, at |-> "idle", lane |-> "none", op |-> "none",
                 reaped |-> {}]

-----------------------------------------------------------------------------
Client ==
    \/ \E l \in Lanes : \/ \E op \in Operations : SendCommand(l, op)
                        \/ \E d \in Answers : Respond(l, d)
                        \/ Cancel(l)
    \/ \E mode \in Controls : SendControl(mode)

RuntimeWorker ==
    TakeControl \/ TakeCommand \/ Route \/ Forward \/ TakeAnswer \/ AnswerDone

LaneWorker(l) ==
    \/ HandleCommand(l) \/ HandleAnswer(l) \/ HandleCancel(l) \/ HandleShutdown(l)
    \/ Expire(l) \/ WriteStatus(l) \/ Create(l) \/ Register(l) \/ Spawn(l)
    \/ Unspawn(l) \/ CountRun(l) \/ StopRuntime(l) \/ RemoveWorktree(l)
    \/ SendInput(l) \/ ApplyPatch(l) \/ MarkTerminal(l) \/ CheckTerminal(l) \/ Exit(l)

Reaper == RecordCompletion \/ RemoveWorker \/ JoinWorker

Next ==
    \/ Client \/ RuntimeWorker \/ Reaper \/ Restart
    \/ \E l \in Lanes : LaneWorker(l) \/ PassTime(l)

Spec == Init /\ [][Next]_vars

\* The threads run as long as they can and deadlines pass; operators, clients
\* and restarts are not fair, and an effect may always fail.
FairSpec ==
    /\ Spec
    /\ WF_vars(RuntimeWorker)
    /\ WF_vars(Reaper)
    /\ \A l \in Lanes : WF_vars(LaneWorker(l)) /\ WF_vars(PassTime(l))

-----------------------------------------------------------------------------
\* Properties.

Steps == {"none", "register", "spawn", "count", "unspawn", "remove", "terminal",
          "check", "drained"} \cup Operations \cup DOMAIN StatusSteps
            \cup DOMAIN AfterShutdown

TypeOK ==
    /\ log \in [Lanes -> Record]
    /\ disk \in [Lanes -> [worktree : BOOLEAN, runtime : BOOLEAN, stray : BOOLEAN]]
    /\ \A l \in Lanes :
          /\ worker[l].record \in Record
          /\ worker[l].doing \in Steps
          /\ worker[l].mode \in Modes
          /\ worker[l].ruled \subseteq Operations
          /\ worker[l].pending.ask \in AskIds \cup {0}
          /\ worker[l].complete \in {"none", "archived", "cleaned"}
    /\ hydrated \in [Lanes -> Record]
    /\ terminal \in [Lanes -> {"none", "archived", "cleaned"}]
    /\ super.at \in {"idle", "route", "forward", "answer"}
    /\ \A a \in AskIds :
          asks[a].state \in {"pending", "allowed", "denied", "dropped"}

\* What the log tells of a lane whose worker has the given record.
Told(record) == IF record.refused THEN WithStatus(record, "done", "none") ELSE record

\* A lane worker believes its own change only after the durable append: what
\* it shows of a registered lane and decides from is what the log reduces to.
\* The exception is a refused patch of binary files: its "done" stays in the
\* log until the "blocked" that follows is written, and if that append fails,
\* until the next one; the comment "The apply refused and rolled back" knows
\* nothing of it.  For lanes that no reaping has touched (see CleanedIsFinal).
RecordIsDurable ==
    \A l \in Lanes :
        LET w    == worker[l]
            told == Told(w.record)
        IN  (w.up /\ w.registered) =>
                /\ told.status = log[l].status
                /\ told.mark = log[l].mark
                /\ told.runs = log[l].runs

\* An agent that a handle reaches has a lane worker that will stop it,
\* whichever of start, its two appends, stop, cancel and the end of the thread
\* fails or comes first; and none is left without a handle unless a stop, or
\* the process, failed.  Such an agent stays: no code looks for it.
AgentsAreHeld ==
    \A l \in Lanes :
        /\ disk[l].runtime => /\ worker[l].up /\ ~worker[l].exited
                              /\ worker[l].runtime
        /\ disk[l].stray => used.kills > 0 \/ used.restarts > 0

\* A lane enters the log only once its worktree is there, and keeps it as long
\* as nobody cleans it up, whatever failed and wherever the runtime stopped.
RegisteredHasWorktree == \A l \in Lanes : Known(l) => disk[l].worktree

\* cleanup: "Persist cleanup intent before irreversible worktree removal".
RemovalIsIntended ==
    [][\A l \in Lanes :
         (Known(l) /\ disk[l].worktree /\ ~disk'[l].worktree) =>
            log[l].status = "starting"]_vars

\* An answer releases a lane mutation only under the permission generation it
\* was asked in, outside plan mode and before its deadline, although the
\* generation, the mode and the clock move while the answer is on its way.
LaneAllowIsCurrent ==
    [][\A a \in AskIds :
         (asks[a].state = "pending" /\ asks'[a].state = "allowed") =>
            /\ policy.epoch = asks[a].epoch
            /\ policy.mode # "plan"
            /\ ~worker[asks[a].lane].pending.late]_vars

\* The runtime worker comes back from the lock, the reaped workers and the
\* approved effect it waits for: the barrier never waits for itself.
SupervisorReturns == (super.at # "idle") ~> (super.at = "idle")

\* A lane that was cleaned up "already reached a durable terminal state": no
\* later event changes it.
CleanedIsFinal ==
    [][\A l \in Lanes : log[l].mark = "cleaned" => log'[l] = log[l]]_vars
=============================================================================
