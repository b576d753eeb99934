# Verification of Viden's core

Viden is a coding agent: a Rust core (`src/crates`) that runs model turns,
tools, agents and parallel *lanes* for a front end (CLI, TUI or a Tauri GUI,
`src/apps`). This directory holds TLA+ models of the core's concurrent parts,
the TLC instances that check them, and TLAPS proofs about them. Paths below are
relative to the repository; "supervisor.rs" is
`crates/runtime/src/runtime_supervisor.rs`.

## 1. Inventory

| component | state it keeps | operations | hard behaviour | what makes it correct |
|---|---|---|---|---|
| event journal and bus (`event_journal.rs`, `emit_known_event`) | retained envelopes, stream id, live view | record, replay, snapshot | eviction while a client catches up, restart with a fresh stream | every envelope under its own sequence number, no hole in a replay, cursor and view from one moment |
| core client (`core/src/client.rs`, `local_transport.rs`) | handshake, confirmed snapshot | discover, recv, snapshot, replay, send | recv makes several calls while the world moves on; lost, repeated, overtaken envelopes | the view is always a real moment, and only moves forward |
| permission controls (supervisor.rs 117-234) | applied values, submitted commands, next epoch | reserve, commit, reject, projected | reserved on one thread, committed on another | the projection is what the engine will become; a stale approval is refused |
| runtime supervisor (supervisor.rs) | active jobs, pending approvals, timers, command channel | 40-odd commands, a worker loop, expiry, shutdown | client, worker, timers and retrieval threads interleave; the worker blocks on an answer | one settlement per approval, one job per owner, nobody blocked for ever |
| follow-up queues (`runtime_contract.rs` 98-300) | one queue per session or lane, an armed flag | push, take_oldest, drain | queued while a turn runs | nothing runs behind a failure, nothing is lost |
| adapter probes (supervisor.rs 516-637) | waiters, running, queued | admit, release | four slots, coalescing | every waiter answered, bound kept |
| agent sessions and tasks (supervisor.rs 4020-5380, `agents/src/glue.rs`, `codex.rs`) | session status on show, held inputs, job record, cancel marker, bindings | start, send, retry, pause, resume, cancel, kill, drain | a turn runs on a thread the worker cannot reach; the two talk through files and messages | held inputs run in order and die with their session; every turn ends; what is held behind a completed turn runs |
| standing approvals (supervisor.rs 1013-1136, `config/src/standing_approvals.rs`) | settings file, live rules, the list on show | grant, revoke, load | a crash between file, audit, event and engine; engines that are replaced, copied and restored | never announced without the file, gone from every copy once revoked |
| lane supervisor and workers (`crates/lanes`) | lane log, lane records, workers, pending lane approvals, worktrees and agent processes | create, start, stop, input, accept, apply, archive, clean up, cancel, recover | one thread per lane and a reaper, all behind one lock; permission generations; effects beside their durable record | no lane action under stale permissions, nothing believed that is not in the log, no worktree removed without intent |
| permission engine and execution gate (`crates/permissions`, `permission_gate.rs`) | rules, mode, 32 clearances | decide, apply_approval, clear | mode changes during a call | deny wins; nothing runs uncleared |
| trust loop (`trust_loop.rs`) | reviews, contracts, merge gates | decide, accept, merge, bounce, revert | long legal sequences | only accepted work is merged |
| workspace host (`core/src/host.rs`) | staged secrets | stage, take | lifetime, capacity, one use | a secret is used once, in its workspace |
| workflow and session stores (`crates/workflows`, `crates/session`) | append-only logs, SQLite index, locks | append, load, rebuild, import | torn tails, two processes | a reload shows what was acknowledged |
| context store and reducer (`crates/context`) | handles and payloads | put, retrieve, reduce | retention | a handle resolves to its content |
| agent adapters (`crates/agents`) | JSON-RPC requests in flight | prompt, cancel, permission | a child process | every request answered once |
| config, providers, plugin host, tools, git, LSP, front ends | mostly I/O and parsing | | | |

**How they interact.** A front end owns a `StatefulCoreClient` over a
`CoreTransport`; the local transport calls one `RuntimeSupervisor` in the same
process. Commands go to the supervisor on the client's thread, which handles
some of them itself (follow-ups, cancels, approval answers, reservations of
permission controls) and forwards the others over an unbounded channel to one
worker thread that owns the session engine. While a turn waits for an approval
the worker is blocked. Approval timers and context retrievals run on threads of
their own. All threads publish through the event bus, one critical section that
records the event, folds it into the live view and sends it to the client. The
threads share the active-job registry, the pending approvals and the permission
controls, each behind its own mutex, so what can interleave is exactly the
critical sections.

The hazards of this code, at the lines where they bite and with the properties
that watch them, are in `PROJECT.json`.

## 2. Modules

| module | models | runs |
|---|---|---|
| `EventJournal` | the journal and the bus's critical section | through `CoreClient` |
| `ReplicatedView` | abstract: a view that shows published moments and never goes back | refinement target |
| `CoreClient` | the client over a faulty transport, composed with `EventJournal` | `MCCoreClient` |
| `MCCoreClient` | TLC instances: `CoreClientFaults.cfg`, `CoreClientLive.cfg` | |
| `EventJournalProofs`, `CoreClientProofs` | TLAPS proofs | |
| `PermissionControl` | the shared control state and the engine's own mode rules | through `Supervisor` |
| `Supervisor` | client thread, worker, timers, retrieval threads | `MCSupervisor` |
| `MCSupervisor` | TLC instances: the `Supervisor*.cfg` files | |
| `SupervisorProofs`, `SupervisorControlProofs` | TLAPS proofs: jobs, approvals, queues; controls and their epochs | |
| `ProbeService` | abstract: probes are answered, busy slots are bounded and never idle while somebody waits | refinement target |
| `AdapterProbes` | the adapter-probe scheduler, its messages and threads | `MCAdapterProbes` |
| `MCAdapterProbes` | TLC instance: `AdapterProbes.cfg` | |
| `AdapterProbesProofs` | TLAPS proofs | |
| `AgentSessions` | an external agent's session: worker, turn threads, timers, clients, over `PermissionControl` | `MCAgentSessions` |
| `MCAgentSessions` | TLC instance: `AgentSessions.cfg` | |
| `AgentSessionsProofs` | TLAPS proofs | |
| `LaneSupervisor` | lane workers, the reaper, the runtime worker's routing, cancels, recovery | `MCLaneSupervisor` |
| `MCLaneSupervisor` | TLC instances: `LaneWork.cfg`, `LaneRetire.cfg`, `LaneRevived.cfg` | |
| `LaneSupervisorProofs` | TLAPS proofs | |
| `StandingApprovals` | standing rules from the prompt to the file and back, over `PermissionControl` | `MCStandingApprovals` |
| `MCStandingApprovals` | TLC instances: `StandingApprovals.cfg`, `StandingSilenced.cfg` | |
| `StandingApprovalsProofs` | TLAPS proofs | |

### 2.1 The event stream

`EventJournal` keeps the journal (`events`), the live view (`live`) and, as a
history variable, everything each supervisor ever recorded (`log`). A view is
the sequence of facts folded into it: the reducer is a deterministic function,
so views are equal when the sequences are. `Record` is the whole of
`emit_known_event` but the send, which `CoreClient!Emit` adds; `Replay` is
`RuntimeEventJournal::replay` branch by branch, with the batch limit as
`ReplayLimit`. Unknown wire events are folded as facts too, which only moves
the cursor in the code. Answering a snapshot may first publish a status event
(supervisor.rs 3024); that is an `Emit` before the answer.

`CoreClient` splits `recv` at its transport calls: `Receive` runs to the first
call, `FirstSnapshot`, `LoadSnapshot` and one `RecoverGap` per replay batch
continue it. Between them `Emit` and `Restart` may happen as often as the bounds
allow. The local transport is a lossless FIFO (`Faults = {}`); `CoreTransport`
is a trait, and what other transports may do is switched on by `Faults`. These
actions are the external part of the map. A recovery after an error forgets the
envelope it held, as the code does. Sequence numbers saturate at 2^64 in the
code; the models never come near, and `MaxEvents` bounds them.

### 2.2 The supervisor

Each action of `Supervisor` is one critical section of one thread:

| thread | variables | actions |
|---|---|---|
| client | `client` | `Submit`, `QueueFollowUp`, `SubmitControl`, `Respond`, `Cancel`/`CancelFlag`/`CancelDeny`, `AskSnapshot`, `Drop`...`DropJoin` |
| worker | `worker`, `engine`, `draining` | `Take...` (one per message), `StartTurn`...`FinishTurn`, the prompt `ReadEpoch`, `Claim`, `InsertPending`, `Announce`, `ReceiveAnswer`, `Drain`, `CommitControl`, `RejectControl`, `Resume...`, `Stop` |
| timers | `timersDown` | `Expire` |
| retrievals | `retrievals` | `FinishRetrieval` |
| shared | `jobs`, `asks`, `control`, `queue`, `inbox`, `stopped` | |

There is one client thread because the supervisor's receiver is not shared
between threads. A prompt has three forms in the code, and the model keeps the
order of each: a turn and a retrieval read the permission epoch before they
claim the job, a mutation after. `Respond` is one action although the code takes
two locks: it holds the permission-control lock from the epoch check on, only
the thread that removed an approval acts on it, and no other thread touches that
approval's job while it is in between. `asks` keeps settled approvals so that
properties can speak of what became of them; `stale` and `refused` are history.
A turn may prompt in any mode, an over-approximation of the permission engine.
`Explore` is merged with `review`, and `Auto` and `FullAccess` with
`auto_edit`: the control rules treat them alike. A failure to append the audit
row counts as accounted for, because the code publishes it as an error.

Not modelled here: agent sessions (2.6) and agent tasks, the lane supervisor's own
approvals (2.4), the lane-agent binding test in front of a turn, standing
grants (2.5), and rejections that change no state (owner mismatch, scope not
offered, unchanged revision).

### 2.3 The adapter probes

A client's `ProbeAgentAdapter` is accepted by the worker, runs as a handshake
with a subprocess on a thread of its own, and comes back as a message behind
whatever the worker's channel holds by then. `AdapterProbes` keeps the
scheduler's three collections under their names (`waiters`, `running`,
`queued`); `threads` counts the handshake threads themselves, so that the bound
is stated of the processes and not of the scheduler's books. `Admit` is `admit`
with the thread that `submit` starts, `Release` is `release` with the threads
that `finish` starts: its loop takes adapters off the queue while a slot is
free, which `Popped` states as the length of the prefix it takes. `FinishProbe`
and `AcceptProbe` are the worker's two handlers, `Handshake` the thread. A
result is an error only if the adapter left the registry meanwhile, so both
results are possible. The channel outlives the worker in the model, the messages
in it are then read by nobody. The rest of the worker's messages are left out:
they change nothing of the scheduler and only delay its steps.

### 2.4 The lanes

Every lane has a worker thread (`lane_worker.rs`) that owns the lane's record,
asks before it mutates, and appends a durable event before it believes its own
change. `LaneSupervisor` keeps what the log reduces to (`log`), the world
outside (`disk`: per lane its worktree, the handle of its agent, and `stray`,
whether an agent may live that no handle reaches), and the worker's own copy
(`worker`), so that the distance between the three can be stated.

| thread | actions |
|---|---|
| client | `SendCommand`, `SendControl`, `Respond`, `Cancel` |
| runtime worker | `TakeControl`, `TakeCommand`, `Route`, `Forward`, `TakeAnswer`, `AnswerDone` |
| lane worker | `Handle...` (one per message), `Expire`, and one action per effect or append of an operation: `WriteStatus`, `Create`, `Register`, `Spawn`, `Unspawn`, `CountRun`, `StopRuntime`, `RemoveWorktree`, `SendInput`, `ApplyPatch`, `MarkTerminal`, `CheckTerminal`, `Exit` (`ThreadEnd`) |
| reaper | `RecordCompletion`, `RemoveWorker`, `JoinWorker` |
| the world | `PassTime`, `Restart` |

`worker[l].doing` names the next step of the operation the worker is in; the
tables `OwnSteps` and `StatusSteps` give the status each step writes and where it leads when
the append succeeds or fails. The `lanes` lock is not a variable: it is held
exactly while the runtime worker is inside a command or an answer, or the reaper
joins a worker, and `LockFree` says so. A permission generation is reserved by
`SendControl`, applied by `TakeControl` and given to every worker in the same
critical section. An append fails as a whole; an event of an unknown lane is
always refused. Not modelled: starter lanes and previews, owner mismatches,
read-only lanes, event texts and the statistics of a run beyond its start and
end, and the import of legacy records.

*Stopping an agent* takes its handle out of the registry first
(`lane_runtime.rs` 302) and can then fail: a kill or a `tmux kill-session` that
returns an error leaves the agent alive with nobody to stop it. `StopOutcomes`
and `Release` are that, in an operation (which then fails), in the take-back of
a start that could not be written, and at the end of a worker's thread (whose
error the code ignores). A spawn that fails may leave a tmux session behind in
the same way, and `Restart` leaves every running agent, however the host ended.
`MaxKills` bounds the stops that fail.

*A patch that is refused.* A patch of nothing but binary files changes none, so
its transaction succeeds and writes `done`; only then is it reported as not
applied, and the worker goes on to `blocked` (`tools/src/patch.rs` 139-164,
`lane_worker.rs` 1121-1134). If that append fails the log says `done` and the
worker what it said before. The third branch of `ApplyPatch` is this case, and
`refused` the history of it, which `RecordIsDurable` reads (`Told`).

### 2.5 The standing approvals

`StandingApprovals` follows one answer through every place it reaches: the
settings file (`settings`), the clients' list (`view`), the session engine's
rules (`rules`) and clearances (`cleared`), the copy a task keeps for its end
(`worker.scope`) and the engine of an external agent's thread (`agent.rules`).

| thread | actions |
|---|---|
| client | `Respond`, `Persist`, `AnnounceGrant`, `Deliver`; `Revoke`, `AnnounceRevocation`, `TellWorker`; `SendCommand`, `SendControl` |
| worker | `TakeTurn`, `TakeTask`, `TakeResume`, `TakeSession`, `TakeControl`, `TakeRevocation`; in a turn `Call`, `Apply`, `Run`, `EndTurn` |
| external agent | `AgentCall`, `AgentApply`, `AgentEnd` |
| the world | `Expire`, `Restart` |

A call is a tool with its input. `Covered` abstracts `matches_rule`, which is a
substring test: the rule of one call may match another's. `Resolution` is the
loop of `resolve_permission` cut at its prompts, so that a revision asks again,
up to `MaxRevisions` times. The calls in `Unregistered` (`context_read`) run
outside the tool registry: their clearances are never spent. The settings are
written with `fs::write`, which truncates first. A grant's or a revocation's
write that fails (`WriteFails`) leaves the file as it was, with the first of its
rows, or so that it does not parse (`Torn`), while the engine and the clients
keep what they hold; `lost` is the history of the rows such a write took off the
file in this process, and what `EngineIsOnFile`, `ShownIsOnFile` and
`RevocationLands` exempt: only they are off the file and in force. `Restart`
loads the rules the file holds; if it interrupts a write, the file is torn as
well. The mode rules and epochs are those of
`PermissionControl`. The audit row is not in the model: a failed append is
reported and stops nothing. Not modelled: deny and ask rules, path scopes,
repository allowlists, bypass modes, project mutations and retrievals (their
prompts offer no `always`), and other processes that edit the settings file.

### 2.6 The agent sessions

An external agent's turn runs on a thread of its own that the worker cannot
interrupt. What each side knows of the other goes through shared places: the
live view's status (`view`), the job record (`job`), the marker file of an
interruption (`marker`), the session's entry in the active-control registry
(`active`), the pending approval (`prompts`) and the worker's channel (`inbox`).
The inputs a paused session holds (`held`) belong to the worker alone.

| thread | actions |
|---|---|
| client | `Submit`, `SendInput`, `SendControl`, `Respond`, `CancelActiveTurn` |
| worker, per message | `TakeControl`, `TakeStart`, `TakeInput`, `TakeResume`, `TakeDrain`, `TakeCancel`, `TakeInterrupt` |
| worker, interrupting a turn | `MarkInterrupt`, `StopProcess`, `PublishInterrupt` |
| worker, starting a turn | `CheckTurn`, `StartTurn`, `FailTurn` |
| the thread of a turn | `Spawned`, `Ask`, `AnnounceApproval`, `Answered`, `Return`, `RecordEnd`, `Tell`, `ArmDrain` |
| timers | `Expire` |

The worker is inside a handler for as long as the grace of a cancel or a pause
lasts, and the turn's thread goes on meanwhile: that is why an interruption is
three actions, and why `worker.status` keeps the record it read before the
grace, which it writes back after it. `Return` lets an agent end in any way,
interrupted or not; `Ending` reads the marker and then the record, as the thread
does, and for a pause or a kill the thread stays silent. `MarkInterrupt` leaves
the marker where it is when no process is known yet. The continuation of a
session needs the lane's place in the active-job registry, which a context
retrieval or a prompted mutation of the same lane may hold (supervisor.rs
3446-3474): `CheckTurn` lets such a job (`laneJob`) be there at any time. The
input is then refused, and if it was a held one, the rest of what is held stays
behind a session that shows `completed`; `stalled` is the history of that. An input, a retry and a
start share one bound (`MaxRuns`), and an input is named by its place in it, so
`<` on inputs is the order in which clients sent them. `kept` is history: the
inputs the session holds and has neither discarded nor handed on.

Sessions of different lanes share only the worker and a lane keeps its session,
so there is one. Not modelled: the starter lanes (start of lane and session in
one command), the count of held inputs and the control record on show, the lane
queue that a kill discards with the held inputs, audit rows, the text of
results beyond whether they name a session to resume, and agent tasks
(`agent_dispatch.rs`), which run on the worker like a turn of `Supervisor`.

## 3. Runs

All bounds are constants named in the cfg files.

| run | asks | bounds, and why they are enough |
|---|---|---|
| `faults` (`CoreClientFaults.cfg`) | safety of the client under every fault, and the refinement of `ReplicatedView` | journal of 2, batches of 1, 3 events, 2 supervisors: eviction, a recovery of several batches, an eviction between two of them and a restart in the middle all happen |
| `stream_live` | what is published is shown | journal of 1; restarts only, because a lost envelope need not be noticed. The channel is a lossless FIFO, so recovery starts only from a mismatched stream: that half of it is shown to end, while recovery from a gap is checked for safety in `faults` alone |
| `supervisor_approvals` | approvals are settled once; snapshots are answered and a drop ends, under fairness | 2 jobs and 2 approvals of one owner, every command including drop and a revision that prompts again |
| `supervisor_owners` | the registry, the queues, the projection, staleness | session and lane, 2 jobs, an approval, 2 controls out of all six: change and change back, or a failure between them, around a prompt; owners are symmetric |
| `agent_sessions` (`AgentSessions.cfg`) | order and fate of held inputs, the end of turns, the drain | 3 turns, 2 commands of any kind (controls into plan mode and out of it among them), a prompt, a failure, 1 message in the channel besides drains, room for 2 held inputs: pause, hold, hold, resume, drain; a kill or a cancel over held inputs and behind a prompt; a held input refused in between; a thread that outlives its interruption beside the next turn. The cap of 50 itself is not reached |
| `probes` (`AdapterProbes.cfg`) | the bound, the slot, the waiters, the order of service, the refinement of `ProbeService`, and that accepted probes are answered | 4 commands, 3 registered adapters and an unknown one, 1 slot: a full slot, a queue of two, coalescing onto a running, a queued and a just finished adapter. The proofs cover every other number |
| `lane_work` (`LaneWork.cfg`) | worker, log and world agree | 1 autonomous lane, 4 operations of eight kinds, a cancel, a failing append, a failing stop (`MaxKills`), a restart: every operation is cut off and repeated |
| `lane_retire` (`LaneRetire.cfg`) | answers and generations; removal; the lock | 2 lanes, one of which asks, 3 operations (create, archive, clean up; no agent, so no stop can fail), a control, an answer, a failing append: a reaping meets a command to the same and to the other lane |
| `standing` (`StandingApprovals.cfg`) | rules in file, list and engine; clearances; revocations land | 3 calls, of which one rule covers two and one is unregistered; 2 tool calls, 2 grants, 3 commands of every kind, 2 prompts per call, 1 clearance, a failing write and a restart: a grant and its revocation across a task, a resume, a write that tears the file and a crash, a retry of either after it, and a clearance left behind by an abandoned call |
| `lost_follow_up`, `lane_revived`, `standing_silenced` | the three findings of section 5 | the smallest bounds that show them |

`CHECK_DEADLOCK FALSE` in the `CoreClient`, `AdapterProbes`, `LaneSupervisor`,
`AgentSessions` and `StandingApprovals` runs and in `supervisor_owners`: a system
whose bounds are used up, or whose supervisor is gone, stops. The other
supervisor runs check deadlock: a client can always ask for a snapshot, or has
dropped the supervisor and is gone (`Gone`).

**Fairness.** `CoreClient`: the front ends call `recv` in a loop
(`WF` of `RecvHead` and of the calls inside `recv`), and the in-process calls
answer. No fairness of `Emit`, `Restart` or any fault. `Supervisor`: the worker
thread runs while it can, which includes that a provider request and a tool
return; the client thread completes a call it began; an armed timer that was
not shut down fires; a retrieval thread ends. Nobody has to send a command or
answer an approval: the liveness properties hold for an operator who walked
away, because every prompt is timed. That includes a cancel that lands between
`mark_active_pending` and `insert_pending_approval` and finds nothing to deny. `AdapterProbes`: the worker reads its channel, and a
handshake ends, because its own timeout kills the child (30 or 90 seconds).
`LaneSupervisor`: the runtime worker, the reaper and each lane worker run while
they can, and deadlines pass; an effect may always fail. `StandingApprovals`:
the client thread finishes the call it is in, the worker runs while it can, and
the timer of the worker's prompt fires; an external agent need not do anything.
`AgentSessions`: the worker and the turns' threads run while they can, which
includes that an adapter comes back (its prompt timeout or the termination of
its process ends it), and timers fire; clients owe nothing.

Every property of a passing run is paired in `PROJECT.json` with a plausible bug
in a definition (an operator beside it, commented as a mutant) under which TLC
finds the property violated.

## 4. Proofs

`CoreClientProofs` proves, for every `Capacity`, `ReplayLimit`, number of
events and supervisors, set of facts and set of faults, all properties of the
run `faults`, the refinement included, and two more that the run leaves to the
proof: what `recv` returned is part of the confirmed view (`DeliveredIsShown`)
and the confirmed cursor never goes back (`ConfirmedNeverRegresses`). The only assumptions are
those of the modules: capacity and batch limit are positive naturals, the
bounds are naturals and the faults are among `FaultKinds`.

The argument. `EventJournalProofs` shows that `JournalIsSuffix` and
`SnapshotIsConsistent` are inductive for the journal, and derives `ReplayIsExact`
from them. The client's invariants are not inductive alone: that a delivered
envelope carries the right fact depends on what is in transit, and that a
recovery cannot fail depends on the clone it works on. `ClientInv` adds that
every envelope in transit, held or found is one the log of its stream holds;
that the clone of `recover_gap` is itself a moment of the incoming envelope's
stream, at or after the confirmed one and, as long as the envelope was not
found, before it; and that the handshake came first. `ClientInvariance` is its
invariance; the safety theorems are consequences, the action properties follow
from one lemma on forward steps, and `Implements` maps every step to
`Publish`, `StartSupervisor`, `Advance` or a stutter.

`AdapterProbesProofs` proves `TypeOK`, the safety properties of the run
`probes`, the refinement included, and that no slot is idle while somebody
queues (`NoIdleSlot`), for every number of slots, adapters and commands, from the module's two assumptions (there
is a slot; registered adapters are adapters). None of the properties is
inductive: that a freed slot was really taken, and is taken once, depends on the
messages in the channel. `ProbesInv` adds four facts. `SlotIsUsed`: an adapter
holds a slot exactly while its one thread is alive or its one result is in the
channel. `Scheduled`: slots and queue hold, disjointly and once each, exactly
the adapters with waiters. `UnreadIsUnanswered`: a command still in the channel
was told nothing. `AcceptedWaits`: an accepted command is in the books. The key
lemma is `ReleaseHandsOver`: with this invariant the loop of `release` always
starts exactly the oldest queued adapter, or none when the queue is empty, so
its test for waiters never fails. `Bounded`, `SlotsAreFilled` and
`NothingForgotten` follow; `Implements` maps the three handlers to `Refuse`,
`Accept` and `Conclude`. `FirstComeFirstServed` needs one more invariant,
`BooksAreAccepted`: the commands in the books were accepted, each once.

`SupervisorProofs` proves the supervisor's types, `SettledOnce`,
`RegistryIsTheWork`, `OneJobPerOwner` and `NothingRunsBehindFailure` for any
number of owners, jobs, approvals and controls. The registry of active jobs is
keyed by owner, while the work itself is spread over the channel, the queues,
the worker's hands, the pending approvals, the resumptions in the channel and
the retrieval threads. `SupervisorInv` therefore first says *where a job is*:
`Places` puts every job in exactly one of these places and once in it, which is
what keeps a cancel, an expiry or a resumption from hitting another job's entry.
On that rest `Registered` (work is in the registry, a turn with a denied prompt
apart) and `Backed` (what is in the registry is at work), whose conjunction is
`RegistryIsTheWork`; `Exclusive` adds that a turn has its owner to itself even
while it is out of the registry. `Prompting` ties the approval the worker
prompts for to the job in its hands, and is what makes `SettledOnce` inductive:
nobody can answer an approval before it is pending. `DrainsBehindSuccess` is the
same for `NothingRunsBehindFailure`: a queue is armed, and its drain begins, only
while the last turn of its owner is one that completed.

`SupervisorControlProofs` proves that the projection the client thread judges
approvals by is what the engine will be (`ProjectionIsExact`) and that an allow
is applied only under the controls it was prompted for (`AllowIsCurrent`).
Both sides of the projection are folds, one over the submitted commands and one
over the channel. The invariant relates the two sequences: the epochs grow in
both, every control in the channel was submitted, and every submission but the
one in the worker's hands is in the channel. One lemma (`SameFold`) follows the
two folds along the channel, cut at the same submission, to the same end. The two
theorems assume `SlashControls = {}`, as the run `supervisor_owners` does: a mode
that is changed by a slash command does not reach the projection (section 5).
`OldPromptsAreShut`, that a prompt whose epoch has passed is never answered with
an allow, needs no such assumption.

`AgentSessionsProofs` proves the types, `NoInputOutlivesItsSession` and
`HeldRunInOrder` for any number of turns, prompts, commands and held inputs.
Neither property is inductive. An input is handed on after it left the queue, so
`HeldInOrder` says that what is kept is the queue and the input in the worker's
hands, which is older than all of the queue; and an input that is still in the
channel will join the queue at its end, so `InputsSent` says that it is younger
than everything held. `ThreadSound` and `Working` say that a turn's thread which
tells its end was not paused or killed, and that the worker has an input in hand
only while it is about to start a turn with it.

`LaneSupervisorProofs` proves the types, `AgentsAreHeld`, `RemovalIsIntended` and
`LaneAllowIsCurrent`, and, where no lane is cleaned up, `RecordIsDurable` and
`RegisteredHasWorktree`, for any number of lanes, operations, failures and
restarts. `LanesInv` has one part per lane and one for the lanes that change
hands. `Alive`: a worker in the middle of an operation, or whose agent a handle
reaches, is there and waits for no answer; without it a worker could end beside
a handle nobody uses (the first half of `AgentsAreHeld`) or take an answer
between two steps. The second half, that an agent without a handle is owed to a
failed stop or a restart, is an invariant of its own (`StraysCounted`).
`Holds`: a worker has the policy's mode and generation, and its record is a draft
exactly as long as the lane is not in the log. `Ready`: it registers only a lane whose worktree is
there, and removes a worktree only under a `starting` that is in the log, which
is `RemovalIsIntended`. `Waiting`: the approval it waits for is its own, pending,
and of its generation, which with `Holds` gives `LaneAllowIsCurrent`. `Durable`:
the log tells what the worker's record tells (`Told`, which reads the record of
a refused patch as the `done` it wrote), and what a record tells that is kept
for a worker to come, unless the lane is over. `Handed` says the same of the records in the
reaper's hands. Two theorems, and the run `lane_work`, assume `"cleanup" \notin Operations`:
a cleanup is what removes a worktree, and a lane that is handled after its
cleanup starts from a record that the log has overtaken (finding 2).

`StandingApprovalsProofs` proves the five invariants of the run
`standing`, for every set of calls and whatever the rules match,
and every bound. `RoleRulesEnd` needs what a task will give back (`worker.scope`)
to be free of role rules. A failed write moves rows from the file to
`lost` and never out of both (`WriteFailed`), which is all that the properties
lose by it. `EngineIsOnFile` is not inductive for three reasons,
and each gives a conjunct of `StandingInv`: an `always` that was delivered is
installed later, so its rule must still be on file or lost from it, or its revocation behind it
in the channel (`GrantIsBacked`, which rests on `PromptsMatch`: the worker reads
no revocation while it waits for an answer); a task's end brings back the rules
its start found (`ScopeIsBacked`, which rests on the same argument); and an
answer is changed by nobody else while the client thread writes it
(`AnswerIsTaken`). `ShownIsOnFile` needs that the row about to be announced is
on file or lost. For `ApprovedCallPasses` the newest clearance is the call's own as long
as the list has room for one, and between the gate and the registry the worker
does nothing else. `TypeOK` needs a second invariant, `LimitsInv`: the values a
control leads to are values only because no control reaches the worker without
its submission (`ControlsMatch`), and ids, clearances and rounds stay within
their limits because each is tested before it is spent (`RowsFit`,
`FewClearances`, `RoundsEnd`).

With that, every invariant and every action property of a passing run is a
theorem. Only model-checked is liveness (`PublishedIsShown`, `AcceptedIsAnswered`,
`SnapshotIsAnswered`, `DropFinishes`, `SupervisorReturns`, `RevocationLands`,
`EveryTurnEnds`, `HeldInputsDrain`), which the prover does not reach under
fairness.

## 5. Findings

1. **A dequeued follow-up can be lost** (`DequeuedEntryRuns`). The drain pops
   the entry and publishes `InputDequeued` before the turn acquires the owner's
   active job. When a retrieval or a prompted mutation of that owner holds it,
   the turn is refused and the entry is gone.
2. **A lane that was cleaned up can change again** (`CleanedIsFinal`). The
   reaping that precedes every routed command takes the completion out of the
   slot in which the worker's loop looks whether its lane is finished. If it is
   faster than that look, the worker handles what is queued behind the cleanup;
   a cancel is then appended to a lane "already" in "a durable terminal state".
3. **`/resume` drops the standing rules** (`SilencedStaysSilent`). A resumed
   session gets a new permission engine; the rules stay on file and on show,
   but the session prompts for the calls they cover until the next start.

Seen while modelling, without a run:

- A settings write that fails has truncated the file (`config/src/lib.rs`
  435-444): the engine and the clients keep rules that the next start will not
  load, and a revocation that failed so is answered `not in force` on a retry
  while its rule is still applied. The comments promise the opposite
  (supervisor.rs 1053-1060 and 2017-2020, `config/src/standing_approvals.rs`
  23-24). `EngineIsOnFile`, `ShownIsOnFile` and `RevocationLands` hold of every
  other rule.
- "The apply refused and rolled back" (`lane_worker.rs` 1121-1124) is not true
  of a patch of binary files only: its `done` stays in the log, and if the
  `blocked` that follows cannot be appended, a restart shows the lane as done.
- An agent whose stop failed is forgotten: its handle is gone before the stop
  (`lane_runtime.rs` 297-313), errors at a start's take-back and at the end of a
  worker are dropped (`lane_worker.rs` 154-163, 996), and nobody looks for the
  tmux sessions or processes of an earlier run.
- A held input that is refused because another job of the lane is running
  strands the inputs behind it: the session rests as `completed` over them until
  somebody sends, retries or resumes (supervisor.rs 3446-3480, 4489-4503).
- An approval that expires takes its turn out of the active-job registry
  (supervisor.rs 3668) although the turn goes on: it cannot be cancelled any
  more. `RegistryIsTheWork` makes exactly this exception (`DeniedTurns`).
- A cancel between an approval's insertion (3350) and its announcement (3368)
  publishes `ApprovalResolved` first; the view keeps the prompt.
- Denials by expiry, cancel and shutdown have no audit row, while the event
  names one (3657).
- A mode changed by a slash command does not reach the permission controls: an
  allow may be refused as stale though nothing changed after the prompt (1987).
- The answer to the last permitted prompt of a call is applied, rule and
  clearance included, and the call is denied all the same
  (`crates/permissions/src/lib.rs` 536-561).
- An external agent's thread has an engine of its own
  (`crates/agents/src/glue.rs` 851): an `always` answered there is not in force
  for the session before the next start, and a revocation never reaches it.
- A task that ends restores the rules of its start: a standing rule granted
  meanwhile is on file but no longer in force for this process.
- After a turn that failed, the inputs a session holds are still there, but a
  retry or a new input publishes the session without its control record
  (supervisor.rs 4487), so "held and counted" (4369-4370) holds only up to the
  next turn.
- `CancelAgentSession` discards the held inputs before it knows whether the
  cancel is accepted (2717); a cancel that is then rejected has lost them.
- The record an interruption read before its grace is written back after it
  (`codex.rs` 725, 738): a termination that fails restores `running` over what
  the turn's thread wrote at its end, and the session cannot be resumed.
- An expired prompt clears the session's registry entry while the turn goes on
  (3668): a second prompt of that turn is not found by pause, cancel and kill,
  and waits for its timer.
- The approver publishes `Running` after its answer, over a `Paused` or `Killed`
  the worker published meanwhile (4279-4285); the session shows as running with
  no turn in flight until it is cancelled or killed.
- A resume in plan mode takes the oldest held input out of the queue and is then
  refused by the continuation (4928, 4414): the input is lost.
- A pair granted twice has two rows and one engine rule: revoking one row
  removes the rule while the other row is still on show.

## 6. Plan

*Done:* the event stream; permission controls and supervisor; the adapter-probe
scheduler; the lanes; the standing approvals; the agent sessions; each with the
proofs of its safety properties.

Left, in order of importance:

1. The lanes' two durability theorems with cleanups allowed: what still holds of
   a lane between its cleanup and its removal from the supervisor, and of every
   other lane.
2. `WorkflowLog`: torn tails of the append-only logs and what recovery makes of
   them; the session store beside its index.
3. `MergeGate` (`trust_loop.rs`) and `CredentialStaging` (`core/src/host.rs`).

**Not modelled.** Agent tasks, starter lanes, the trust loop,
credential staging, the workflow and session stores beyond appends that fail as
a whole, and the context store: nothing in them resists modelling, they are
next. Text (prompts, rendering, the context reducer's summaries), HTTP and
process I/O, git, configuration parsing and the front ends, two thirds of the
code, are out of scope: they hold no concurrent state of their own and appear as
the free choices of the client thread, of a provider or of an effect.
