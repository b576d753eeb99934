-------------------------- MODULE StandingApprovals --------------------------
(***************************************************************************)
(* What an operator's answer to a tool prompt leaves behind.  `always` is  *)
(* a rule that is written to the user's settings file, shown to clients    *)
(* and installed in the permission engine of whoever asked; a revocation   *)
(* takes it back in the same order (crates/config, crates/permissions,     *)
(* crates/runtime).  The client thread answers and revokes; the worker     *)
(* thread runs turns and agent tasks with the session's engine, and an     *)
(* external agent's thread runs with an engine of its own.  The process    *)
(* can stop between any two steps and in the middle of a file write, and   *)
(* a write can fail under it and leave the file cut short.                 *)
(***************************************************************************)
EXTENDS PermissionControl

CONSTANTS
    Calls,         \* a tool with its input, as the rules are keyed
    Unregistered,  \* the calls that do not go through the tool registry
    Covered,       \* per call: the calls its rule matches (`contains`)
    RoleCalls,     \* the calls a task's role may allow
    Answers,       \* what operators answer, a subset of AllAnswers
    Commands,      \* what clients send, a subset of AllCommands
    Controls,      \* the permission controls among it
    MaxRevisions,  \* MAX_APPROVAL_REVISIONS (8)
    MaxClearances, \* MAX_EXECUTION_CLEARANCES (32)
    MaxCommands,   \* bound: commands sent
    MaxRules,      \* bound: standing rules granted
    MaxCalls,      \* bound: tool calls made
    MaxFailures,   \* bound: file writes and transcript appends that fail
    MaxRestarts    \* bound: restarts

AllAnswers  == {"once", "session", "always", "edit", "deny"}
AllCommands == {"turn", "task", "resume", "session"}

ASSUME StandingConstants ==
    /\ Unregistered \cup RoleCalls \subseteq Calls
    /\ Covered \in [Calls -> SUBSET Calls]
    /\ \A k \in Calls : k \in Covered[k]
    /\ Answers \subseteq AllAnswers
    /\ Commands \subseteq AllCommands
    /\ Controls \subseteq ControlCommands
    /\ "none" \notin Calls
    /\ MaxRevisions \in Nat \ {0}
    /\ MaxClearances \in Nat \ {0}
    /\ {MaxCommands, MaxRules, MaxCalls, MaxFailures, MaxRestarts} \subseteq Nat

VARIABLES
    engine,   \* the session's engine: work mode and permission mode,
    rules,    \* its allow rules, and
    cleared,  \* the clearances of calls that were approved
    settings, \* the user's settings file
    view,     \* live_view.standing_approvals
    prompts,  \* per asker: its pending approval, or the answer to it
    inbox,    \* the worker's command channel
    worker,   \* where the worker thread is
    agent,    \* where the external agent's thread is, and its own rules
    client,   \* where the client thread is
    lost,     \* history: the rows a failed write took off the file since the
              \* process started, with nobody told
    used      \* the bounds spent

vars == <<control, engine, rules, cleared, settings, view, prompts, inbox,
          worker, agent, client, lost, used>>

-----------------------------------------------------------------------------
Askers  == {"worker", "agent"}
Sources == {"standing", "session", "role"}
NoCall  == "none"

Rule(source, k) == [source |-> source, call |-> k]
AllRules == [source : Sources, call : Calls]

\* A standing approval: [[permissions.standing]] and StandingApprovalView.
Row  == [id : 1..MaxRules, call : Calls]
NoRow == [id |-> 0, call |-> NoCall]

Silent  == [state |-> "none", call |-> NoCall, epoch |-> 0, answer |-> "deny",
            revised |-> NoCall]
Idle    == [pc |-> "idle", call |-> NoCall, round |-> 0, scope |-> {}]
Off     == [pc |-> "off", call |-> NoCall, round |-> 0, rules |-> {}]
Ready   == [pc |-> "ready", asker |-> "worker", row |-> NoRow]
Unspent == [commands |-> 0, rules |-> 0, calls |-> 0, failures |-> 0, restarts |-> 0]

\* Bootstrap: the engine starts with the standing rules the file holds.
Loaded(file) == {Rule("standing", row.call) : row \in file.rows}

Init ==
    /\ ControlInit
    /\ engine = EngineAt(InitialValues)
    /\ rules = {}
    /\ cleared = <<>>
    /\ settings = [rows |-> {}, readable |-> TRUE]
    /\ view = {}
    /\ prompts = [a \in Askers |-> Silent]
    /\ inbox = <<>>
    /\ worker = Idle
    /\ agent = Off
    /\ client = Ready
    /\ lost = {}
    /\ used = Unspent

\* used' with the named bounds spent, one of each.
Spend(names) == used' = [n \in DOMAIN used |-> used[n] + IF n \in names THEN 1 ELSE 0]

-----------------------------------------------------------------------------
\* The permission engine.

Allows(rs, k) == \E r \in rs : k \in Covered[r.call]

\* decide: an allow rule goes before the mode, plan mode before the prompt.
Decide(rs, planning, k) ==
    IF Allows(rs, k) THEN "allow" ELSE IF planning THEN "deny" ELSE "ask"

Planning == engine.permission = "plan"

\* apply_approval's rule for an allow of the given scope.
Installed(rs, answer, k) ==
    CASE answer = "session" -> rs \cup {Rule("session", k)}
      [] answer = "always"  -> rs \cup {Rule("standing", k)}
      [] OTHER              -> rs

\* Mutant of Revoked: the session rule of the pair is taken for it.
RevokedSession(rs, k) == rs \ {Rule("session", k)}

\* remove_standing_allow_rule takes only UserSettings rules.
Revoked(rs, k) == rs \ {Rule("standing", k)}

\* Where apply_approval leads: to the call that may run, to another prompt,
\* or nowhere.  `round` counts the prompts of this call; the answer to the
\* last one is applied, and then the loop of resolve_permission is over.
Resolution(rs, planning, k, round, p) ==
    LET again == IF p.answer = "edit" THEN Decide(rs, planning, p.revised) ELSE "none"
        denied == p.answer = "deny" \/ planning \/ again = "deny"
        allows == ~denied /\ again # "ask"
    IN  [rules   |-> IF denied THEN rs ELSE Installed(rs, p.answer, k),
         call    |-> IF p.answer = "edit" THEN p.revised ELSE k,
         clears  |-> allows,
         outcome |-> IF round = MaxRevisions THEN "denied"
                     ELSE IF allows THEN "allowed"
                     ELSE IF again = "ask" /\ ~denied THEN "ask" ELSE "denied"]

\* Mutants of Push: nothing is forgotten; a full list drops what was pushed.
PushForever(list, k) == Append(list, k)

PushNewest(list, k) ==
    IF Len(list) = MaxClearances THEN list ELSE Append(list, k)

\* A clearance is remembered, and the oldest beyond the limit forgotten.
Push(list, k) ==
    LET longer == Append(list, k)
    IN  IF Len(longer) > MaxClearances THEN Tail(longer) ELSE longer

\* take_execution_clearance removes the oldest entry of the call.
Takes(list, k) == RemoveFirst(list, k)

-----------------------------------------------------------------------------
\* Prompts, shared by the two askers.

\* The approval is inserted under the current epoch and published.
Ask(a, k) ==
    prompts' = [prompts EXCEPT ![a] =
        [Silent EXCEPT !.state = "pending", !.call = k, !.epoch = CurrentEpoch]]

Hear(a) == prompts' = [prompts EXCEPT ![a] = Silent]

\* The timer denies what nobody answered.
Expire(a) ==
    /\ prompts[a].state = "pending"
    /\ prompts' = [prompts EXCEPT ![a].state = "answered"]
    /\ UNCHANGED <<control, engine, rules, cleared, settings, view, inbox,
                   worker, agent, client, lost, used>>

-----------------------------------------------------------------------------
\* The client thread: RespondToApproval.

clientLeaves == <<engine, rules, cleared, worker, agent>>

\* An allow or a revision prompted for under other permission settings, or
\* while mutations are blocked, is a denial.
Gated(p, answer) ==
    IF /\ answer # "deny"
       /\ p.epoch # CurrentEpoch \/ BlocksMutation(Projected)
      THEN "deny" ELSE answer

\* The approval leaves the pending ones.  Only a tool that can be revised is
\* (context_read cannot), and a revision has to change something.
Respond(a, answer, revised) ==
    /\ client.pc = "ready"
    /\ prompts[a].state = "pending"
    /\ IF answer = "edit"
         THEN /\ {revised, prompts[a].call} \subseteq Calls \ Unregistered
              /\ revised # prompts[a].call
         ELSE revised = NoCall
    /\ answer = "always" => used.rules < MaxRules
    /\ prompts' = [prompts EXCEPT ![a].state = "taken",
                                  ![a].answer = Gated(prompts[a], answer),
                                  ![a].revised = revised]
    /\ client' = [Ready EXCEPT !.pc = "persist", !.asker = a]
    /\ UNCHANGED <<control, settings, view, inbox, lost, used, clientLeaves>>

\* Mutant of Answered: a grant nothing holds is delivered.
AnsweredAlways(p, granted) == p

\* What is delivered: `always` only when the rule reached the file.
Answered(p, granted) ==
    IF p.answer = "always" /\ ~granted THEN [p EXCEPT !.answer = "once"] ELSE p

\* fs::write truncates before it writes, and a row is written after those
\* granted earlier: what is left of a write that does not end is a part that
\* does not parse, or the first of the rows.
Torn(rows) ==
    {[rows |-> {}, readable |-> FALSE]}
        \cup {[rows |-> {row \in rows : row.id <= n}, readable |-> TRUE] : n \in 0..MaxRules}

\* A write of the given rows fails, before it touches the file or after; the
\* process goes on, and nothing puts back what was there.
WriteFails(rows) ==
    /\ used.failures < MaxFailures
    /\ settings' \in {settings} \cup Torn(rows)
    /\ lost' = lost \cup (settings.rows \ settings'.rows)

\* persist_standing_grant: the file is read and written back with the rule,
\* or the answer is degraded to `once`.
Persist ==
    /\ client.pc = "persist"
    /\ LET p == prompts[client.asker]
           row == [id |-> used.rules + 1, call |-> p.call]
       IN  \/ /\ p.answer = "always"
              /\ settings.readable
              /\ settings' = [settings EXCEPT !.rows = @ \cup {row}]
              /\ client' = [client EXCEPT !.pc = "grant", !.row = row]
              /\ prompts' = [prompts EXCEPT ![client.asker] = Answered(p, TRUE)]
              /\ Spend({"rules"})
              /\ UNCHANGED lost
           \/ /\ p.answer = "always"
              /\ \/ ~settings.readable /\ UNCHANGED <<settings, lost, used>>
                 \/ /\ settings.readable
                    /\ WriteFails(settings.rows \cup {row})
                    /\ Spend({"rules", "failures"})
              /\ client' = [client EXCEPT !.pc = "deliver"]
              /\ prompts' = [prompts EXCEPT ![client.asker] = Answered(p, FALSE)]
           \/ /\ p.answer # "always"
              /\ client' = [client EXCEPT !.pc = "deliver"]
              /\ UNCHANGED <<settings, prompts, lost, used>>
    /\ UNCHANGED <<control, view, inbox, clientLeaves>>

\* StandingApprovalGranted, behind the audit row.
AnnounceGrant ==
    /\ client.pc = "grant"
    /\ view' = view \cup {client.row}
    /\ client' = [client EXCEPT !.pc = "deliver"]
    /\ UNCHANGED <<control, settings, prompts, inbox, lost, used, clientLeaves>>

\* ApprovalResolved, and the answer to whoever waits for it.
Deliver ==
    /\ client.pc = "deliver"
    /\ prompts' = [prompts EXCEPT ![client.asker].state = "answered"]
    /\ client' = Ready
    /\ UNCHANGED <<control, settings, view, inbox, lost, used, clientLeaves>>

-----------------------------------------------------------------------------
\* The client thread: RevokeStandingApproval.

\* The file is the authority: what it does not hold, or cannot be read, is
\* rejected, and so is what it cannot be written without: the engine and the
\* clients then keep the rule, whatever the write left of the file.
Revoke(row) ==
    /\ client.pc = "ready"
    /\ used.commands < MaxCommands
    /\ settings.readable
    /\ row \in settings.rows
    /\ \/ /\ settings' = [settings EXCEPT !.rows = @ \ {row}]
          /\ client' = [Ready EXCEPT !.pc = "revoked", !.row = row]
          /\ Spend({"commands"})
          /\ UNCHANGED lost
       \/ /\ WriteFails(settings.rows \ {row})
          /\ Spend({"commands", "failures"})
          /\ UNCHANGED client
    /\ UNCHANGED <<control, view, prompts, inbox, clientLeaves>>

\* Mutant of Withdrawn: the entries behind the revoked one are dropped, not
\* the entry itself.
WithdrawnBehind(shown, id) == {row \in shown : row.id <= id}

Withdrawn(shown, id) == {row \in shown : row.id # id}

\* StandingApprovalRevoked, behind the audit row; the reducer drops the row.
AnnounceRevocation ==
    /\ client.pc = "revoked"
    /\ view' = Withdrawn(view, client.row.id)
    /\ client' = [client EXCEPT !.pc = "tell"]
    /\ UNCHANGED <<control, settings, prompts, inbox, lost, used, clientLeaves>>

\* The live engine is told last, on the thread that owns it.
TellWorker ==
    /\ client.pc = "tell"
    /\ inbox' = Append(inbox, [type |-> "revoke", call |-> client.row.call])
    /\ client' = Ready
    /\ UNCHANGED <<control, settings, view, prompts, lost, used, clientLeaves>>

\* Everything else a client sends goes straight to the worker.
SendCommand(type) ==
    /\ client.pc = "ready"
    /\ used.commands < MaxCommands
    /\ Spend({"commands"})
    /\ inbox' = Append(inbox, [type |-> type, call |-> NoCall])
    /\ UNCHANGED <<control, settings, view, prompts, client, lost, clientLeaves>>

SendControl(c) ==
    /\ client.pc = "ready"
    /\ used.commands < MaxCommands
    /\ Spend({"commands"})
    /\ Reserve(c)
    /\ inbox' = Append(inbox, [type |-> "control", epoch |-> CurrentEpoch + 1,
                               command |-> c])
    /\ UNCHANGED <<settings, view, prompts, client, lost, clientLeaves>>

ClientRequest ==
    \/ \E a \in Askers, answer \in Answers, revised \in Calls \cup {NoCall} :
          Respond(a, answer, revised)
    \/ \E row \in settings.rows : Revoke(row)
    \/ \E type \in Commands : SendCommand(type)
    \/ \E c \in Controls : SendControl(c)

ClientStep ==
    Persist \/ AnnounceGrant \/ Deliver \/ AnnounceRevocation \/ TellWorker

-----------------------------------------------------------------------------
\* The worker thread.

workerLeaves == <<control, settings, view, client, lost>>

Take(type) ==
    /\ worker.pc = "idle"
    /\ inbox # <<>>
    /\ Head(inbox).type = type
    /\ inbox' = Tail(inbox)

TakeTurn ==
    /\ Take("turn")
    /\ worker' = [Idle EXCEPT !.pc = "model"]
    /\ UNCHANGED <<engine, rules, cleared, prompts, agent, used, workerLeaves>>

\* agent_permission_mode_for_policy: plan mode stays plan mode.
TaskEngines ==
    IF Planning THEN {engine} ELSE {engine, [mode |-> "plan", permission |-> "plan"]}

\* apply_agent_permission_policy: the task runs with a permission mode and
\* rules of its role, and what was there before is kept for its end.
TakeTask ==
    /\ Take("task")
    /\ engine' \in TaskEngines
    /\ \E own \in SUBSET RoleCalls : rules' = rules \cup {Rule("role", k) : k \in own}
    /\ worker' = [Idle EXCEPT !.pc = "model",
                              !.scope = {[engine |-> engine, rules |-> rules]}]
    /\ UNCHANGED <<cleared, prompts, agent, used, workerLeaves>>

\* `/resume`: another transcript, a new engine in the mode it was left in.
TakeResume ==
    /\ Take("resume")
    /\ engine' \in {EngineAt(InitialValues), EngineAt([mode |-> "plan", level |-> "readonly"])}
    /\ rules' = {}
    /\ UNCHANGED <<cleared, prompts, worker, agent, used, workerLeaves>>

\* StartAgentSession: a thread with a PermissionContext::default().
TakeSession ==
    /\ Take("session")
    /\ agent' = IF agent.pc = "off" THEN [Off EXCEPT !.pc = "model"] ELSE agent
    /\ UNCHANGED <<engine, rules, cleared, prompts, worker, used, workerLeaves>>

\* A control takes effect and its epoch is committed, or it cannot be
\* persisted and is rejected.
TakeControl ==
    /\ Take("control")
    /\ LET m == Head(inbox)
       IN  \/ /\ engine' = EngineApplied(engine, m.command)
              /\ Commit
              /\ UNCHANGED used
           \/ /\ used.failures < MaxFailures
              /\ Spend({"failures"})
              /\ Reject(m.epoch)
              /\ UNCHANGED engine
    /\ UNCHANGED <<rules, cleared, prompts, worker, agent, settings, view, client, lost>>

TakeRevocation ==
    /\ Take("revoke")
    /\ rules' = Revoked(rules, Head(inbox).call)
    /\ UNCHANGED <<engine, cleared, prompts, worker, agent, used, workerLeaves>>

\* The model calls a tool.
Call(k) ==
    /\ worker.pc = "model"
    /\ used.calls < MaxCalls
    /\ Spend({"calls"})
    /\ LET decision == Decide(rules, Planning, k)
       IN  /\ worker' = [worker EXCEPT
                 !.pc = CASE decision = "allow" -> "run"
                          [] decision = "ask"   -> "asking"
                          [] OTHER              -> "model",
                 !.call = IF decision = "deny" THEN NoCall ELSE k,
                 !.round = IF decision = "ask" THEN 1 ELSE 0]
           /\ IF decision = "ask" THEN Ask("worker", k) ELSE UNCHANGED prompts
    /\ UNCHANGED <<engine, rules, cleared, inbox, agent, workerLeaves>>

\* The answer reaches the call that waits for it.
Apply ==
    /\ worker.pc = "asking"
    /\ prompts["worker"].state = "answered"
    /\ LET r == Resolution(rules, Planning, worker.call, worker.round, prompts["worker"])
       IN  /\ rules' = r.rules
           /\ cleared' = IF r.clears THEN Push(cleared, r.call) ELSE cleared
           /\ worker' = [worker EXCEPT
                 !.pc = CASE r.outcome = "allowed" -> "run"
                          [] r.outcome = "ask"     -> "asking"
                          [] OTHER                 -> "model",
                 !.call = IF r.outcome = "denied" THEN NoCall ELSE r.call,
                 !.round = IF r.outcome = "ask" THEN @ + 1 ELSE 0]
           /\ IF r.outcome = "ask" THEN Ask("worker", r.call) ELSE Hear("worker")
    /\ UNCHANGED <<engine, inbox, agent, used, workerLeaves>>

\* before_execute: what the backstop lets through.
Passes(k) ==
    \/ k \in Unregistered
    \/ Decide(rules, Planning, k) = "allow"
    \/ /\ Decide(rules, Planning, k) = "ask"
       /\ \E i \in 1..Len(cleared) : cleared[i] = k

\* The call runs, or is stopped at the registry; either way its clearance is
\* spent, unless it never gets there.
Run ==
    /\ worker.pc = "run"
    /\ cleared' = IF worker.call \in Unregistered \/ ~Passes(worker.call)
                    THEN cleared ELSE Takes(cleared, worker.call)
    /\ worker' = [worker EXCEPT !.pc = "model", !.call = NoCall]
    /\ UNCHANGED <<engine, rules, inbox, prompts, agent, used, workerLeaves>>

\* Mutant of Restored: only the mode is restored.
RestoredMode(scope) == UNCHANGED rules

Restored(scope) == rules' = scope.rules

\* The turn ends, also when a call was cleared and the transcript cannot be
\* appended; a task gives its permissions back.
EndTurn ==
    /\ \/ worker.pc = "model" /\ UNCHANGED used
       \/ worker.pc = "run" /\ used.failures < MaxFailures /\ Spend({"failures"})
    /\ worker' = Idle
    /\ IF worker.scope = {} THEN UNCHANGED <<engine, rules>>
       ELSE \E scope \in worker.scope : engine' = scope.engine /\ Restored(scope)
    /\ UNCHANGED <<cleared, inbox, prompts, agent, workerLeaves>>

WorkerStep ==
    \/ TakeTurn \/ TakeTask \/ TakeResume \/ TakeSession \/ TakeControl
    \/ TakeRevocation \/ (\E k \in Calls : Call(k)) \/ Apply \/ Run \/ EndTurn

-----------------------------------------------------------------------------
\* The external agent's thread: the same gate over rules of its own, and no
\* registry behind it.

agentLeaves ==
    <<control, engine, rules, cleared, settings, view, inbox, worker, client, lost>>

AgentCall(k) ==
    /\ agent.pc = "model"
    /\ used.calls < MaxCalls
    /\ Spend({"calls"})
    /\ IF Decide(agent.rules, FALSE, k) = "allow"
         THEN UNCHANGED <<agent, prompts>>
         ELSE /\ agent' = [agent EXCEPT !.pc = "asking", !.call = k, !.round = 1]
              /\ Ask("agent", k)
    /\ UNCHANGED agentLeaves

AgentApply ==
    /\ agent.pc = "asking"
    /\ prompts["agent"].state = "answered"
    /\ LET r == Resolution(agent.rules, FALSE, agent.call, agent.round, prompts["agent"])
       IN  /\ agent' = [pc    |-> IF r.outcome = "ask" THEN "asking" ELSE "model",
                        call  |-> IF r.outcome = "ask" THEN r.call ELSE NoCall,
                        round |-> IF r.outcome = "ask" THEN agent.round + 1 ELSE 0,
                        rules |-> r.rules]
           /\ IF r.outcome = "ask" THEN Ask("agent", r.call) ELSE Hear("agent")
    /\ UNCHANGED <<used, agentLeaves>>

AgentEnd ==
    /\ agent.pc = "model"
    /\ agent' = Off
    /\ UNCHANGED <<prompts, used, agentLeaves>>

AgentStep == (\E k \in Calls : AgentCall(k)) \/ AgentApply \/ AgentEnd

-----------------------------------------------------------------------------
\* The process stops and starts again with what the file says.

\* What a stop in the middle of a write leaves; a write that was complete is
\* a stop right after it.
Interrupted ==
    (IF client.pc = "persist" /\ prompts[client.asker].answer = "always"
       THEN Torn(settings.rows) ELSE {})
    \cup
    (IF client.pc = "ready"
       THEN UNION {Torn(settings.rows \ {row}) : row \in settings.rows} ELSE {})

Restart ==
    /\ used.restarts < MaxRestarts
    /\ Spend({"restarts"})
    /\ settings' \in {settings} \cup IF settings.readable THEN Interrupted ELSE {}
    /\ control' = [applied |-> InitialValues, submitted |-> <<>>, nextEpoch |-> 0]
    /\ engine' = EngineAt(InitialValues)
    /\ rules' = Loaded(settings')
    /\ view' = settings'.rows
    /\ cleared' = <<>>
    /\ prompts' = [a \in Askers |-> Silent]
    /\ inbox' = <<>>
    /\ worker' = Idle
    /\ agent' = Off
    /\ client' = Ready
    /\ lost' = {}

Next ==
    \/ ClientRequest
    \/ ClientStep
    \/ WorkerStep
    \/ AgentStep
    \/ \E a \in Askers : Expire(a)
    \/ Restart

\* The client thread finishes the call it is in, the worker runs while it
\* can, and a timer that is due fires.  Nobody has to send or answer
\* anything, and an external agent may stay as it is.
Fairness ==
    /\ WF_vars(ClientStep)
    /\ WF_vars(WorkerStep)
    /\ WF_vars(Expire("worker"))

Spec     == Init /\ [][Next]_vars
FairSpec == Spec /\ Fairness

-----------------------------------------------------------------------------
\* Properties.

TypeOK ==
    /\ control.applied \in Values
    /\ engine \in EngineValues
    /\ rules \in SUBSET AllRules
    /\ cleared \in Seq(Calls)
    /\ Len(cleared) <= MaxClearances
    /\ settings \in [rows : SUBSET Row, readable : BOOLEAN]
    /\ view \in SUBSET Row
    /\ \A a \in Askers :
          /\ prompts[a].state \in {"none", "pending", "taken", "answered"}
          /\ prompts[a].call \in Calls \cup {NoCall}
          /\ prompts[a].answer \in AllAnswers
    /\ worker.pc \in {"idle", "model", "asking", "run"}
    /\ worker.round \in 0..MaxRevisions
    /\ agent.pc \in {"off", "model", "asking"}
    /\ agent.round \in 0..MaxRevisions
    /\ agent.rules \in SUBSET AllRules
    /\ client.pc \in {"ready", "persist", "grant", "deliver", "revoked", "tell"}
    /\ client.row \in Row \cup {NoRow}
    /\ lost \in SUBSET Row

OnFile == {row.call : row \in settings.rows}
Shown  == {row.call : row \in view}

\* A revocation on its way to the engine.
Revoking(k) ==
    \/ client.pc \in {"revoked", "tell"} /\ client.row.call = k
    \/ \E i \in 1..Len(inbox) : inbox[i] = [type |-> "revoke", call |-> k]

\* The calls a failed write left without their rule.
Adrift == {row.call : row \in lost}

\* A standing rule of the session's engine is on file, or its revocation is
\* on its way: never the reverse of "gone from disk and will be gone from the
\* engine".  Only the rules a failed write took off the file are exempt: the
\* engine and the clients keep those until the process starts again, which
\* is not what the comments of revoke_standing_approval and
\* grant_user_standing_approval_at promise.
EngineIsOnFile ==
    \A r \in rules :
        r.source = "standing" => r.call \in OnFile \cup Adrift \/ Revoking(r.call)

\* A client is never shown a rule that the next bootstrap would not load,
\* the one just being revoked and those a failed write took apart.
ShownIsOnFile ==
    \A row \in view :
        row \in settings.rows \cup lost \/ (client.pc = "revoked" /\ client.row = row)

\* The rules of a task's role are gone with the task.
RoleRulesEnd ==
    \A r \in rules : r.source = "role" => worker.scope # {}

\* A call the gate let through is not stopped at the registry: its clearance
\* is there, however many others were left behind.
ApprovedCallPasses == worker.pc = "run" => Passes(worker.call)

\* A rule that a revocation took off the file leaves the engine, unless it
\* is granted again or a failed write loses it: a rule never stays in the
\* engine and off the file for good.
RevocationLands ==
    \A k \in Calls : []<>(k \in OnFile \cup Adrift \/ Rule("standing", k) \notin rules)

\* A call that a standing rule on show covers is not prompted for again by
\* the session.
SilencedStaysSilent ==
    [][\A k \in Calls, shown \in Shown :
          worker'.pc = "asking" /\ worker.pc = "model" /\ worker'.call = k
             => k \notin Covered[shown]]_vars
=============================================================================
