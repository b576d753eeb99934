----------------------- MODULE StandingApprovalsProofs -----------------------
(***************************************************************************)
(* The safety of standing approvals for every set of calls and whatever    *)
(* the rules match, for any number of commands, grants, failures and       *)
(* restarts: neither the session's engine nor a client holds a rule longer *)
(* than the settings file, but for those a failed write takes off it; a    *)
(* task's rules end with it, and a call that was let through passes the    *)
(* registry.                                                               *)
(***************************************************************************)
EXTENDS StandingApprovals, SequenceTheorems, FiniteSetTheorems, TLAPS

Named    == Calls \cup {NoCall}
Filed    == [id : Nat, call : Calls]
Rows     == [id : Nat, call : Named]
Messages ==
    [type : AllCommands, call : {NoCall}]
        \cup [type : {"revoke"}, call : Named]
        \cup [type : {"control"}, epoch : Nat, command : ControlCommands]
States   == {"none", "pending", "taken", "answered"}
Prompts  == [state : States, call : Named, epoch : Nat, answer : AllAnswers, revised : Named]
Kept     == [engine : EngineValues, rules : SUBSET AllRules]
Workers  == [pc : {"idle", "model", "asking", "run"}, call : Named, round : Nat,
             scope : SUBSET Kept]
Agents   == [pc : {"off", "model", "asking"}, call : Named, round : Nat,
             rules : SUBSET AllRules]
Clients  == [pc : {"ready", "persist", "grant", "deliver", "revoked", "tell"},
             asker : Askers, row : Rows]

\* The part of the type invariant the proof uses.
Typed ==
    /\ DOMAIN control = {"applied", "submitted", "nextEpoch"}
    /\ control.nextEpoch \in Nat
    /\ engine \in EngineValues
    /\ rules \in SUBSET AllRules
    /\ cleared \in Seq(Calls)
    /\ settings \in [rows : SUBSET Filed, readable : BOOLEAN]
    /\ prompts \in [Askers -> Prompts]
    /\ inbox \in Seq(Messages)
    /\ worker \in Workers
    /\ agent \in Agents
    /\ client \in Clients
    /\ used \in [{"commands", "rules", "calls", "failures", "restarts"} -> Nat]

\* A prompt is of the call its asker waits with, an asker that waits for
\* nothing has none, and a revision names a call.
PromptsMatch ==
    /\ worker.pc = "asking" => worker.call \in Calls /\ prompts["worker"].call = worker.call
    /\ worker.pc = "run" => worker.call \in Calls
    /\ worker.pc # "asking" => prompts["worker"] = Silent
    /\ agent.pc = "asking" => agent.call \in Calls
    /\ agent.pc # "asking" => prompts["agent"] = Silent
    /\ \A a \in Askers :
          /\ prompts[a].answer = "edit" => prompts[a].revised \in Calls
          /\ prompts[a].state # "none" => prompts[a].call \in Calls

\* The answer the client thread is busy with is nobody else's.
AnswerIsTaken ==
    client.pc \in {"persist", "grant", "deliver"} => prompts[client.asker].state = "taken"

\* A standing rule is on file or was lost there, or its revocation is on its
\* way.
Backed(k) == k \in OnFile \cup Adrift \/ Revoking(k)

\* An `always` that went through persist_standing_grant is backed until it
\* is applied, and what AnnounceGrant shows is on file.
GrantIsBacked ==
    /\ \/ prompts["worker"].answer # "always"
       \/ client.pc = "persist" /\ client.asker = "worker"
       \/ Backed(prompts["worker"].call)
    /\ client.pc = "grant" => client.row \in settings.rows

\* What a task will give back is no older than the file, and is not the
\* task's own.
ScopeIsBacked ==
    /\ worker.pc = "idle" => worker.scope = {}
    /\ \A scope \in worker.scope : \A r \in scope.rules :
          /\ r.source # "role"
          /\ r.source = "standing" => Backed(r.call)

\* The inductive invariant.
StandingInv ==
    /\ Typed
    /\ PromptsMatch
    /\ AnswerIsTaken
    /\ GrantIsBacked
    /\ ScopeIsBacked
    /\ EngineIsOnFile
    /\ ShownIsOnFile
    /\ RoleRulesEnd
    /\ ApprovedCallPasses
-----------------------------------------------------------------------------
\* Rules, records and the channel.

LEMMA RuleFields ==
    /\ \A r \in AllRules : r.source \in Sources /\ r.call \in Calls /\ r = Rule(r.source, r.call)
    /\ \A s \in Sources, k \in Calls :
          Rule(s, k) \in AllRules /\ Rule(s, k).source = s /\ Rule(s, k).call = k
BY DEF AllRules, Rule, Sources

\* The constants of a prompt and of the threads at rest are of their types.
LEMMA AtRestTyped ==
    /\ Silent \in Prompts
    /\ Idle \in Workers
    /\ Off \in Agents
    /\ Ready \in Clients /\ Ready.pc = "ready"
    /\ Silent.answer = "deny" /\ Silent.state = "none"
    /\ Idle.pc = "idle" /\ Idle.scope = {}
BY DEF Silent, Prompts, States, Named, AllAnswers, Idle, Workers, Off, Agents,
       AllRules, Clients, Rows, Ready, Askers, NoRow

\* What is sent joins the channel at its end.
LEMMA Sent ==
    ASSUME inbox \in Seq(Messages), NEW m \in Messages, inbox' = Append(inbox, m)
    PROVE  /\ inbox' \in Seq(Messages)
           /\ Len(inbox') = Len(inbox) + 1 /\ Len(inbox) \in Nat
           /\ inbox'[Len(inbox')] = m
           /\ \A i \in 1..Len(inbox) : i \in 1..Len(inbox') /\ inbox'[i] = inbox[i]
OBVIOUS

\* What is taken was the oldest message.
LEMMA Taken ==
    ASSUME inbox \in Seq(Messages), inbox # <<>>, inbox' = Tail(inbox)
    PROVE  /\ inbox' \in Seq(Messages)
           /\ Head(inbox) = inbox[1] /\ Head(inbox) \in Messages
           /\ \A i \in 1..Len(inbox) :
                 i = 1 \/ (i - 1 \in 1..Len(inbox') /\ inbox'[i - 1] = inbox[i])
OBVIOUS

LEMMA Messaging ==
    ASSUME NEW m \in Messages
    PROVE  /\ m.type = "revoke" => m.call \in Named
           /\ m.type = "control" => m.epoch \in Nat /\ m.command \in ControlCommands
BY DEF Messages, AllCommands

-----------------------------------------------------------------------------
\* What a step that is not the worker's leaves to the worker.

\* A rule stays backed while the file only grows, the channel is left alone
\* and no revocation leaves the client thread.
LEMMA BackedWhileFileGrows ==
    ASSUME settings.rows \cup lost \subseteq settings'.rows \cup lost', inbox' = inbox,
           \/ client.pc \notin {"revoked", "tell"}
           \/ client.pc \in {"revoked", "tell"} /\ client'.pc \in {"revoked", "tell"}
                 /\ client'.row = client.row,
           NEW k, Backed(k)
    PROVE  Backed(k)'
<1>1. CASE k \in OnFile \cup Adrift
  BY <1>1 DEF Backed, OnFile, Adrift
<1>2. CASE Revoking(k)
  BY <1>2 DEF Backed, Revoking
<1> QED
  BY <1>1, <1>2 DEF Backed

\* A file that a write left cut short holds rows of what was written.
LEMMA TornFile ==
    ASSUME NEW rows \in SUBSET Filed, NEW file \in Torn(rows)
    PROVE  file \in [rows : SUBSET Filed, readable : BOOLEAN] /\ file.rows \subseteq rows
<1>1. CASE file = [rows |-> {}, readable |-> FALSE]
  BY <1>1
<1>2. CASE \E n \in 0..MaxRules :
              file = [rows |-> {row \in rows : row.id <= n}, readable |-> TRUE]
  BY <1>2
<1> QED
  BY <1>1, <1>2, Zenon DEF Torn

\* A failed write loses no row without a record.
LEMMA WriteFailed ==
    ASSUME Typed, NEW rows \in SUBSET Filed, WriteFails(rows)
    PROVE  /\ settings' \in [rows : SUBSET Filed, readable : BOOLEAN]
           /\ settings.rows \cup lost \subseteq settings'.rows \cup lost'
           /\ settings'.rows \subseteq settings.rows \cup rows
           /\ lost' \subseteq lost \cup settings.rows
<1>1. settings' = settings \/ settings' \in Torn(rows)
  BY DEF WriteFails
<1>2. settings' \in [rows : SUBSET Filed, readable : BOOLEAN]
      /\ settings'.rows \subseteq settings.rows \cup rows
  BY <1>1, TornFile DEF Typed
<1>3. lost' = lost \cup (settings.rows \ settings'.rows)
  BY DEF WriteFails
<1> QED
  BY <1>2, <1>3

LEMMA WorkerIsLeft ==
    ASSUME StandingInv, UNCHANGED <<engine, rules, cleared, worker>>,
           \A k : Backed(k) => Backed(k)'
    PROVE  /\ ScopeIsBacked'
           /\ EngineIsOnFile'
           /\ RoleRulesEnd'
           /\ ApprovedCallPasses'
<1>1. ScopeIsBacked'
  BY DEF StandingInv, ScopeIsBacked
<1>2. EngineIsOnFile'
  BY DEF StandingInv, EngineIsOnFile, Backed
<1>3. RoleRulesEnd'
  BY DEF StandingInv, RoleRulesEnd
<1>4. ApprovedCallPasses'
  BY DEF StandingInv, ApprovedCallPasses, Passes, Planning
<1> QED
  BY <1>1, <1>2, <1>3, <1>4

-----------------------------------------------------------------------------
\* The client thread.

LEMMA RespondPreserves ==
    ASSUME StandingInv, NEW a \in Askers, NEW answer \in Answers,
           NEW revised \in Calls \cup {NoCall}, Respond(a, answer, revised)
    PROVE  StandingInv'
<1> USE DEF StandingInv
<1>1. /\ client.pc = "ready" /\ prompts[a].state = "pending"
      /\ client' = [Ready EXCEPT !.pc = "persist", !.asker = a]
      /\ prompts' = [prompts EXCEPT ![a].state = "taken",
                                    ![a].answer = Gated(prompts[a], answer),
                                    ![a].revised = revised]
      /\ UNCHANGED <<control, settings, view, inbox, used, engine, rules, cleared, worker, agent, lost>>
  BY DEF Respond, clientLeaves
<1>2. /\ client'.pc = "persist" /\ client'.asker = a /\ client' \in Clients
  BY <1>1, AtRestTyped DEF Clients, Ready
<1>3. Gated(prompts[a], answer) \in {answer, "deny"} /\ answer \in AllAnswers
  BY StandingConstants DEF Gated
<1>4. /\ prompts' \in [Askers -> Prompts]
      /\ prompts'[a].state = "taken" /\ prompts'[a].call = prompts[a].call
      /\ prompts'[a].answer \in {answer, "deny"} /\ prompts'[a].revised = revised
      /\ \A b \in Askers \ {a} : prompts'[b] = prompts[b]
  <2>1. prompts[a] \in Prompts
    BY DEF Typed
  <2>2. [prompts[a] EXCEPT !.state = "taken", !.answer = Gated(prompts[a], answer),
                           !.revised = revised] \in Prompts
    BY <2>1, <1>3 DEF Prompts, States, Named, AllAnswers
  <2> QED
    BY <1>1, <1>3, <2>1, <2>2 DEF Typed, Prompts
<1>5. \A k : Backed(k) => Backed(k)'
  BY <1>1, BackedWhileFileGrows
<1>6. Typed'
  BY <1>1, <1>2, <1>4 DEF Typed
<1>7. PromptsMatch'
  <2>1. prompts[a] # Silent
    BY <1>1, AtRestTyped
  <2>2. "worker" \in Askers /\ "agent" \in Askers
    BY DEF Askers
  <2>3. ASSUME NEW b \in Askers, prompts'[b].answer = "edit" PROVE prompts'[b].revised \in Calls
    <3>1. CASE b = a
      <4>1. answer = "edit"
        BY <2>3, <3>1, <1>4
      <4> QED
        BY <4>1, <3>1, <1>4 DEF Respond
    <3> QED
      BY <3>1, <2>3, <1>4 DEF PromptsMatch
  <2> QED
    BY <1>1, <1>4, <2>1, <2>2, <2>3 DEF PromptsMatch
<1>8. AnswerIsTaken'
  BY <1>2, <1>4 DEF AnswerIsTaken
<1>9. GrantIsBacked'
  BY <1>1, <1>2, <1>4, <1>5 DEF GrantIsBacked, Askers
<1>10. ShownIsOnFile'
  BY <1>1 DEF ShownIsOnFile
<1> QED
  BY <1>1, <1>5, <1>6, <1>7, <1>8, <1>9, <1>10, WorkerIsLeft

LEMMA SpendTyped ==
    ASSUME Typed, NEW names, Spend(names)
    PROVE  used' \in [{"commands", "rules", "calls", "failures", "restarts"} -> Nat]
BY DEF Typed, Spend

\* What a client-thread step leaves alone when it writes no answer.
LEMMA PromptsAreLeft ==
    ASSUME PromptsMatch, UNCHANGED <<prompts, worker, agent>>
    PROVE  PromptsMatch'
BY DEF PromptsMatch

LEMMA PersistPreserves ==
    ASSUME StandingInv, Persist
    PROVE  StandingInv'
<1> USE DEF StandingInv
<1> DEFINE a == client.asker
           p == prompts[a]
<1>1. /\ client.pc = "persist" /\ a \in Askers /\ p \in Prompts /\ p.state = "taken"
      /\ UNCHANGED <<control, view, inbox, engine, rules, cleared, worker, agent>>
  BY DEF Persist, clientLeaves, Typed, Clients, AnswerIsTaken
<1> DEFINE row == [id |-> used.rules + 1, call |-> p.call]
<1>2. \/ /\ p.answer = "always"
         /\ settings' = [settings EXCEPT !.rows = @ \cup {row}]
         /\ client' = [client EXCEPT !.pc = "grant", !.row = row]
         /\ prompts' = [prompts EXCEPT ![a] = Answered(p, TRUE)]
         /\ Spend({"rules"})
         /\ UNCHANGED lost
      \/ /\ p.answer = "always"
         /\ client' = [client EXCEPT !.pc = "deliver"]
         /\ prompts' = [prompts EXCEPT ![a] = Answered(p, FALSE)]
         /\ \/ UNCHANGED <<settings, lost, used>>
            \/ WriteFails(settings.rows \cup {row}) /\ Spend({"rules", "failures"})
      \/ /\ p.answer # "always"
         /\ client' = [client EXCEPT !.pc = "deliver"]
         /\ UNCHANGED <<settings, prompts, used, lost>>
  BY DEF Persist
<1>3. /\ settings.rows \cup lost \subseteq settings'.rows \cup lost'
      /\ settings' \in [rows : SUBSET Filed, readable : BOOLEAN]
      /\ client' \in Clients /\ client'.asker = a /\ client'.pc \in {"grant", "deliver"}
      /\ client'.pc = "grant" => client'.row \in settings'.rows /\ client'.row.call = p.call
      /\ p.answer = "always" /\ client'.pc = "deliver" => prompts'[a].answer # "always"
      /\ p.answer = "always" \/ client'.pc = "deliver"
  <2>1. row \in Filed \cap Rows /\ row.call = p.call
    BY <1>1 DEF Typed, Filed, Rows, Named, PromptsMatch
  <2>2. CASE settings' = [settings EXCEPT !.rows = @ \cup {row}]
             /\ client' = [client EXCEPT !.pc = "grant", !.row = row]
             /\ p.answer = "always" /\ UNCHANGED lost
    <3>1. settings' \in [rows : SUBSET Filed, readable : BOOLEAN]
          /\ settings'.rows = settings.rows \cup {row}
      BY <2>1, <2>2 DEF Typed
    <3>2. client' \in Clients /\ client'.asker = a /\ client'.pc = "grant" /\ client'.row = row
      BY <2>1, <2>2 DEF Typed, Clients
    <3> QED
      BY <2>1, <2>2, <3>1, <3>2
  <2>3. CASE client' = [client EXCEPT !.pc = "deliver"]
             /\ (UNCHANGED <<settings, lost>> \/ WriteFails(settings.rows \cup {row}))
             /\ (prompts' = [prompts EXCEPT ![a] = Answered(p, FALSE)] \/ p.answer # "always")
    <3>1. client' \in Clients /\ client'.asker = a /\ client'.pc = "deliver"
      BY <2>3 DEF Typed, Clients
    <3>2. p.answer = "always" => prompts'[a].answer # "always"
      BY <1>1, <2>3 DEF Answered, Typed, Prompts
    <3>3. settings.rows \cup {row} \in SUBSET Filed
      BY <2>1 DEF Typed
    <3> HIDE DEF row
    <3>4. /\ settings.rows \cup lost \subseteq settings'.rows \cup lost'
          /\ settings' \in [rows : SUBSET Filed, readable : BOOLEAN]
      BY <2>3, <3>3, WriteFailed DEF Typed
    <3> QED
      BY <2>3, <3>1, <3>2, <3>4
  <2> QED
    BY <1>2, <2>2, <2>3
<1>4. /\ prompts' \in [Askers -> Prompts]
      /\ \A b \in Askers : /\ prompts'[b].state = prompts[b].state
                           /\ prompts'[b].call = prompts[b].call
                           /\ prompts'[b].revised = prompts[b].revised
                           /\ prompts'[b].answer \in {prompts[b].answer, "once"}
      /\ \A b \in Askers \ {a} : prompts'[b] = prompts[b]
  <2>1. \A g \in BOOLEAN :
            /\ Answered(p, g) \in Prompts
            /\ Answered(p, g).state = p.state /\ Answered(p, g).call = p.call
            /\ Answered(p, g).revised = p.revised
            /\ Answered(p, g).answer \in {p.answer, "once"}
    BY <1>1 DEF Answered, Prompts, AllAnswers
  <2>2. prompts' = prompts \/ \E g \in BOOLEAN : prompts' = [prompts EXCEPT ![a] = Answered(p, g)]
    BY <1>2
  <2> QED
    BY <1>1, <2>1, <2>2 DEF Typed
<1>5. \A k : Backed(k) => Backed(k)'
  BY <1>1, <1>3, BackedWhileFileGrows
<1>6. Typed'
  <2>1. used' = used \/ \E names : Spend(names)
    BY <1>2
  <2>2. used' \in [{"commands", "rules", "calls", "failures", "restarts"} -> Nat]
    BY <2>1, SpendTyped DEF Typed
  <2> QED
    BY <1>1, <1>3, <1>4, <2>2 DEF Typed
<1>7. PromptsMatch'
  <2>1. "worker" \in Askers /\ "agent" \in Askers
    BY DEF Askers
  <2>2. Silent.state # "taken"
    BY AtRestTyped
  <2> QED
    BY <1>1, <1>4, <2>1, <2>2 DEF PromptsMatch
<1>8. AnswerIsTaken'
  BY <1>1, <1>3, <1>4 DEF AnswerIsTaken
<1>9. GrantIsBacked'
  <2>1. CASE a = "worker" /\ client'.pc = "grant"
    <3>1. p.call \in OnFile'
      BY <1>3, <2>1 DEF OnFile
    <3> QED
      BY <1>1, <1>3, <1>4, <2>1, <3>1 DEF GrantIsBacked, Backed
  <2>2. CASE a = "worker" /\ client'.pc = "deliver"
    BY <1>1, <1>3, <1>4, <2>2 DEF GrantIsBacked
  <2>3. CASE a # "worker"
    BY <1>1, <1>3, <1>4, <1>5, <2>3 DEF GrantIsBacked, Askers
  <2> QED
    BY <1>3, <2>1, <2>2, <2>3
<1>10. ShownIsOnFile'
  BY <1>1, <1>3 DEF ShownIsOnFile
<1> QED
  BY <1>1, <1>5, <1>6, <1>7, <1>8, <1>9, <1>10, WorkerIsLeft

LEMMA AnnounceGrantPreserves ==
    ASSUME StandingInv, AnnounceGrant
    PROVE  StandingInv'
<1> USE DEF StandingInv
<1>1. /\ client.pc = "grant" /\ view' = view \cup {client.row}
      /\ client' = [client EXCEPT !.pc = "deliver"]
      /\ UNCHANGED <<control, settings, prompts, inbox, used, engine, rules, cleared, worker, agent, lost>>
  BY DEF AnnounceGrant, clientLeaves
<1>2. client' \in Clients /\ client'.pc = "deliver" /\ client'.asker = client.asker
  BY <1>1 DEF Typed, Clients
<1>3. \A k : Backed(k) => Backed(k)'
  BY <1>1, BackedWhileFileGrows
<1>4. Typed'
  BY <1>1, <1>2 DEF Typed
<1>5. AnswerIsTaken' /\ ShownIsOnFile'
  BY <1>1, <1>2 DEF AnswerIsTaken, ShownIsOnFile, GrantIsBacked
<1>6. GrantIsBacked'
  BY <1>1, <1>2, <1>3 DEF GrantIsBacked
<1> QED
  BY <1>1, <1>3, <1>4, <1>5, <1>6, WorkerIsLeft, PromptsAreLeft

LEMMA DeliverPreserves ==
    ASSUME StandingInv, Deliver
    PROVE  StandingInv'
<1> USE DEF StandingInv
<1> DEFINE a == client.asker
<1>1. /\ client.pc = "deliver" /\ a \in Askers /\ prompts[a].state = "taken"
      /\ client' = Ready
      /\ UNCHANGED <<control, settings, view, inbox, used, engine, rules, cleared, worker, agent, lost>>
  BY DEF Deliver, clientLeaves, Typed, Clients, AnswerIsTaken
<1>2. /\ prompts' \in [Askers -> Prompts]
      /\ \A b \in Askers : /\ prompts'[b].call = prompts[b].call
                           /\ prompts'[b].revised = prompts[b].revised
                           /\ prompts'[b].answer = prompts[b].answer
      /\ \A b \in Askers \ {a} : prompts'[b] = prompts[b]
  BY <1>1, ZenonT(30) DEF Deliver, Typed, Prompts, States
<1>3. \A k : Backed(k) => Backed(k)'
  BY <1>1, BackedWhileFileGrows
<1>4. Typed'
  BY <1>1, <1>2, AtRestTyped DEF Typed
<1>5. PromptsMatch'
  <2>1. "worker" \in Askers /\ "agent" \in Askers
    BY DEF Askers
  <2>2. Silent.state # "taken"
    BY AtRestTyped
  <2> QED
    BY <1>1, <1>2, <2>1, <2>2 DEF PromptsMatch
<1>6. AnswerIsTaken' /\ ShownIsOnFile'
  BY <1>1, AtRestTyped DEF AnswerIsTaken, ShownIsOnFile, Ready
<1>7. GrantIsBacked'
  BY <1>1, <1>2, <1>3, AtRestTyped DEF GrantIsBacked, Ready, Askers
<1> QED
  BY <1>1, <1>3, <1>4, <1>5, <1>6, <1>7, WorkerIsLeft

\* A rule whose row is taken off the file is being revoked by then.
LEMMA RevokedRowPreserves ==
    ASSUME StandingInv, NEW row \in settings.rows, Revoke(row),
           settings' = [settings EXCEPT !.rows = @ \ {row}],
           client' = [Ready EXCEPT !.pc = "revoked", !.row = row], UNCHANGED lost
    PROVE  StandingInv'
<1> USE DEF StandingInv
<1>1. /\ client.pc = "ready" /\ row \in Rows
      /\ settings' = [settings EXCEPT !.rows = @ \ {row}]
      /\ client' = [Ready EXCEPT !.pc = "revoked", !.row = row]
      /\ Spend({"commands"}) \/ Spend({"commands", "failures"})
      /\ UNCHANGED <<control, view, prompts, inbox, engine, rules, cleared, worker, agent, lost>>
  BY DEF Revoke, clientLeaves, Typed, Filed, Rows, Named
<1>2. client' \in Clients /\ client'.pc = "revoked" /\ client'.row = row
  BY <1>1, AtRestTyped DEF Clients, Ready
<1>3. settings' \in [rows : SUBSET Filed, readable : BOOLEAN] /\ settings'.rows = settings.rows \ {row}
  BY <1>1 DEF Typed
<1>4. ASSUME NEW k, Backed(k) PROVE Backed(k)'
  <2>1. CASE k = row.call
    BY <1>2, <2>1 DEF Backed, Revoking
  <2>2. CASE k # row.call /\ k \in OnFile \cup Adrift
    BY <1>3, <2>2 DEF Backed, OnFile, Adrift
  <2>3. CASE Revoking(k)
    BY <1>1, <2>3 DEF Backed, Revoking
  <2> QED
    BY <1>4, <2>1, <2>2, <2>3 DEF Backed
<1>5. Typed'
  BY <1>1, <1>2, <1>3, SpendTyped DEF Typed
<1>6. AnswerIsTaken' /\ ShownIsOnFile'
  BY <1>1, <1>2, <1>3 DEF AnswerIsTaken, ShownIsOnFile
<1>7. GrantIsBacked'
  BY <1>1, <1>2, <1>4 DEF GrantIsBacked
<1> QED
  BY <1>1, <1>4, <1>5, <1>6, <1>7, WorkerIsLeft, PromptsAreLeft

\* A revocation that cannot be written changes the file alone.
LEMMA UnwrittenRevocationPreserves ==
    ASSUME StandingInv, NEW row \in settings.rows, Revoke(row),
           WriteFails(settings.rows \ {row}), UNCHANGED client
    PROVE  StandingInv'
<1> USE DEF StandingInv
<1>1. /\ client.pc = "ready"
      /\ Spend({"commands"}) \/ Spend({"commands", "failures"})
      /\ UNCHANGED <<control, view, prompts, inbox, engine, rules, cleared, worker, agent>>
  BY DEF Revoke, clientLeaves
<1>2. settings.rows \ {row} \in SUBSET Filed
  BY DEF Typed
<1>3. /\ settings' \in [rows : SUBSET Filed, readable : BOOLEAN]
      /\ settings.rows \cup lost \subseteq settings'.rows \cup lost'
  BY <1>2, WriteFailed
<1>4. \A k : Backed(k) => Backed(k)'
  BY <1>1, <1>3, BackedWhileFileGrows
<1>5. Typed'
  BY <1>1, <1>3, SpendTyped DEF Typed
<1>6. AnswerIsTaken' /\ ShownIsOnFile'
  BY <1>1, <1>3 DEF AnswerIsTaken, ShownIsOnFile
<1>7. GrantIsBacked'
  BY <1>1, <1>4 DEF GrantIsBacked
<1> QED
  BY <1>1, <1>4, <1>5, <1>6, <1>7, WorkerIsLeft, PromptsAreLeft

LEMMA RevokePreserves ==
    ASSUME StandingInv, NEW row \in settings.rows, Revoke(row)
    PROVE  StandingInv'
BY RevokedRowPreserves, UnwrittenRevocationPreserves DEF Revoke

LEMMA AnnounceRevocationPreserves ==
    ASSUME StandingInv, AnnounceRevocation
    PROVE  StandingInv'
<1> USE DEF StandingInv
<1>1. /\ client.pc = "revoked" /\ view' = {row \in view : row.id # client.row.id}
      /\ client' = [client EXCEPT !.pc = "tell"]
      /\ UNCHANGED <<control, settings, prompts, inbox, used, engine, rules, cleared, worker, agent, lost>>
  BY DEF AnnounceRevocation, Withdrawn, clientLeaves
<1>2. client' \in Clients /\ client'.pc = "tell" /\ client'.row = client.row
  BY <1>1 DEF Typed, Clients
<1>3. \A k : Backed(k) => Backed(k)'
  BY <1>1, <1>2, BackedWhileFileGrows
<1>4. Typed'
  BY <1>1, <1>2 DEF Typed
<1>5. AnswerIsTaken' /\ ShownIsOnFile'
  BY <1>1, <1>2 DEF AnswerIsTaken, ShownIsOnFile
<1>6. GrantIsBacked'
  BY <1>1, <1>2, <1>3 DEF GrantIsBacked
<1> QED
  BY <1>1, <1>3, <1>4, <1>5, <1>6, WorkerIsLeft, PromptsAreLeft

LEMMA TellWorkerPreserves ==
    ASSUME StandingInv, TellWorker
    PROVE  StandingInv'
<1> USE DEF StandingInv
<1> DEFINE m == [type |-> "revoke", call |-> client.row.call]
<1>1. /\ client.pc = "tell" /\ inbox' = Append(inbox, m) /\ client' = Ready
      /\ UNCHANGED <<control, settings, view, prompts, used, engine, rules, cleared, worker, agent, lost>>
  BY DEF TellWorker, clientLeaves
<1>2. m \in Messages
  BY DEF Typed, Clients, Rows, Messages
<1>3. /\ inbox' \in Seq(Messages) /\ Len(inbox) \in Nat /\ Len(inbox') = Len(inbox) + 1
      /\ inbox'[Len(inbox')] = m
      /\ \A i \in 1..Len(inbox) : i \in 1..Len(inbox') /\ inbox'[i] = inbox[i]
  BY <1>1, <1>2, Sent DEF Typed
<1>4. Ready \in Clients /\ Ready.pc = "ready"
  BY AtRestTyped
<1>5. ASSUME NEW k, Backed(k) PROVE Backed(k)'
  <2>1. CASE k \in OnFile \cup Adrift
    BY <1>1, <2>1 DEF Backed, OnFile, Adrift
  <2>2. CASE k = client.row.call
    <3>1. Len(inbox') \in 1..Len(inbox')
      BY <1>3
    <3>2. inbox'[Len(inbox')] = [type |-> "revoke", call |-> k]
      BY <1>3, <2>2
    <3> QED
      BY <3>1, <3>2 DEF Backed, Revoking
  <2>3. CASE \E i \in 1..Len(inbox) : inbox[i] = [type |-> "revoke", call |-> k]
    BY <1>3, <2>3 DEF Backed, Revoking
  <2> QED
    BY <1>5, <2>1, <2>2, <2>3 DEF Backed, Revoking
<1>6. Typed'
  BY <1>1, <1>3, <1>4 DEF Typed
<1>7. AnswerIsTaken' /\ ShownIsOnFile'
  BY <1>1, <1>4 DEF AnswerIsTaken, ShownIsOnFile
<1>8. GrantIsBacked'
  BY <1>1, <1>4, <1>5 DEF GrantIsBacked
<1> QED
  BY <1>1, <1>5, <1>6, <1>7, <1>8, WorkerIsLeft, PromptsAreLeft

\* Another command, or a control, joins the channel.
LEMMA SendPreserves ==
    ASSUME StandingInv, NEW m \in Messages, inbox' = Append(inbox, m),
           client.pc = "ready", Spend({"commands"}),
           DOMAIN control' = {"applied", "submitted", "nextEpoch"}, control'.nextEpoch \in Nat,
           UNCHANGED <<settings, view, prompts, client, engine, rules, cleared, worker, agent, lost>>
    PROVE  StandingInv'
<1> USE DEF StandingInv
<1>1. /\ inbox' \in Seq(Messages)
      /\ \A i \in 1..Len(inbox) : i \in 1..Len(inbox') /\ inbox'[i] = inbox[i]
  BY Sent DEF Typed
<1>2. ASSUME NEW k, Backed(k) PROVE Backed(k)'
  <2>1. CASE k \in OnFile \cup Adrift
    BY <2>1 DEF Backed, OnFile, Adrift
  <2>2. CASE Revoking(k)
    BY <1>1, <2>2 DEF Backed, Revoking
  <2> QED
    BY <1>2, <2>1, <2>2 DEF Backed
<1>3. Typed'
  BY <1>1, SpendTyped DEF Typed
<1>4. AnswerIsTaken' /\ ShownIsOnFile'
  BY DEF AnswerIsTaken, ShownIsOnFile
<1>5. GrantIsBacked'
  BY <1>2 DEF GrantIsBacked
<1> QED
  BY <1>2, <1>3, <1>4, <1>5, WorkerIsLeft, PromptsAreLeft

LEMMA ClientRequestPreserves ==
    ASSUME StandingInv, ClientRequest
    PROVE  StandingInv'
<1>1. ASSUME NEW type \in Commands, SendCommand(type) PROVE StandingInv'
  <2>1. [type |-> type, call |-> NoCall] \in Messages
    BY StandingConstants DEF Messages
  <2> QED
    BY <1>1, <2>1, SendPreserves DEF SendCommand, clientLeaves, StandingInv, Typed
<1>2. ASSUME NEW c \in Controls, SendControl(c) PROVE StandingInv'
  <2>1. control.nextEpoch \in Nat /\ DOMAIN control = {"applied", "submitted", "nextEpoch"}
    BY DEF StandingInv, Typed
  <2>2. [type |-> "control", epoch |-> CurrentEpoch + 1, command |-> c] \in Messages
    BY <2>1, StandingConstants DEF Messages, CurrentEpoch
  <2>3. DOMAIN control' = {"applied", "submitted", "nextEpoch"} /\ control'.nextEpoch \in Nat
    BY <1>2, <2>1 DEF SendControl, Reserve
  <2> QED
    BY <1>2, <2>2, <2>3, SendPreserves DEF SendControl, clientLeaves
<1> QED
  BY <1>1, <1>2, RespondPreserves, RevokePreserves DEF ClientRequest

\* A timer denies a prompt nobody has answered.
LEMMA ExpirePreserves ==
    ASSUME StandingInv, NEW a \in Askers, Expire(a)
    PROVE  StandingInv'
<1> USE DEF StandingInv
<1>1. /\ prompts[a].state = "pending"
      /\ UNCHANGED <<control, engine, rules, cleared, settings, view, inbox,
                     worker, agent, client, used, lost>>
  BY DEF Expire
<1>2. /\ prompts' \in [Askers -> Prompts]
      /\ \A b \in Askers : /\ prompts'[b].call = prompts[b].call
                           /\ prompts'[b].revised = prompts[b].revised
                           /\ prompts'[b].answer = prompts[b].answer
      /\ \A b \in Askers \ {a} : prompts'[b] = prompts[b]
  BY <1>1, SMTT(30) DEF Expire, Typed, Prompts, States
<1>3. \A k : Backed(k) => Backed(k)'
  BY <1>1 DEF Backed, OnFile, Adrift, Revoking
<1>4. Typed'
  BY <1>1, <1>2 DEF Typed
<1>5. PromptsMatch'
  <2>1. "worker" \in Askers /\ "agent" \in Askers
    BY DEF Askers
  <2>2. Silent.state # "pending"
    BY AtRestTyped
  <2> QED
    BY <1>1, <1>2, <2>1, <2>2 DEF PromptsMatch
<1>6. AnswerIsTaken'
  BY <1>1, <1>2 DEF AnswerIsTaken, Typed, Clients
<1>7. ShownIsOnFile'
  BY <1>1 DEF ShownIsOnFile
<1>8. GrantIsBacked'
  BY <1>1, <1>2, <1>3 DEF GrantIsBacked, Askers
<1> QED
  BY <1>1, <1>3, <1>4, <1>5, <1>6, <1>7, <1>8, WorkerIsLeft

-----------------------------------------------------------------------------
\* The worker thread.

\* EngineApplied leads to a work mode and a permission mode.
LEMMA EngineAppliedTyped ==
    ASSUME NEW e \in EngineValues, NEW c \in ControlCommands
    PROVE  EngineApplied(e, c) \in EngineValues
<1>1. CASE \E m \in Modes : c = SetWorkMode(m)
  BY <1>1 DEF EngineApplied, EngineSetWorkMode, SetWorkMode, EngineValues, LevelOf
<1>2. CASE \E l \in Levels : c = SetPermissionLevel(l)
  <2>1. c.set = "level" /\ PermissionMode[c.to] \in DOMAIN LevelOf
    BY <1>2 DEF SetPermissionLevel, PermissionMode, Levels, LevelOf
  <2> QED
    BY <2>1 DEF EngineApplied, EngineSetPermissionMode, EngineValues, Modes
<1> QED
  BY <1>1, <1>2 DEF ControlCommands

LEMMA EngineAtTyped ==
    ASSUME NEW v \in Values
    PROVE  EngineAt(v) \in EngineValues
<1>1. PermissionMode[v.level] \in DOMAIN LevelOf /\ v.mode \in Modes
  BY DEF Values, Levels, PermissionMode, LevelOf
<1> QED
  BY <1>1 DEF EngineAt, EngineValues

\* A worker that takes a message is idle and keeps nothing for a task; of what
\* was being revoked only the message it took is no longer.
LEMMA Taking ==
    ASSUME StandingInv, NEW type, Take(type)
    PROVE  /\ worker.pc = "idle" /\ worker.scope = {} /\ prompts["worker"] = Silent
           /\ inbox' \in Seq(Messages) /\ Head(inbox) \in Messages /\ Head(inbox).type = type
           /\ UNCHANGED <<settings, client, lost>> =>
                 \A k : Backed(k) =>
                    \/ Backed(k)'
                    \/ type = "revoke" /\ Head(inbox).call = k
<1> USE DEF StandingInv
<1>1. /\ inbox' \in Seq(Messages) /\ Head(inbox) \in Messages
      /\ Head(inbox) = inbox[1]
      /\ \A i \in 1..Len(inbox) :
            i = 1 \/ (i - 1 \in 1..Len(inbox') /\ inbox'[i - 1] = inbox[i])
  BY Taken DEF Take, Typed
<1>2. ASSUME UNCHANGED <<settings, client, lost>>, NEW k, Backed(k),
             ~(type = "revoke" /\ Head(inbox).call = k)
      PROVE  Backed(k)'
  <2>1. CASE k \in OnFile \cup Adrift
    BY <1>2, <2>1 DEF Backed, OnFile, Adrift
  <2>2. CASE client.pc \in {"revoked", "tell"} /\ client.row.call = k
    BY <1>2, <2>2 DEF Backed, Revoking
  <2>3. CASE \E i \in 1..Len(inbox) : inbox[i] = [type |-> "revoke", call |-> k]
    <3>1. PICK i \in 1..Len(inbox) : inbox[i] = [type |-> "revoke", call |-> k]
      BY <2>3
    <3>2. i # 1
      BY <1>1, <1>2, <3>1 DEF Take
    <3> QED
      BY <1>1, <3>1, <3>2 DEF Backed, Revoking
  <2> QED
    BY <1>2, <2>1, <2>2, <2>3 DEF Backed, Revoking
<1> QED
  BY <1>1, <1>2 DEF Take, ScopeIsBacked, PromptsMatch

\* The parts of the invariant a worker's step leaves alone when the prompts,
\* the client thread, the file and the list stay as they are.
LEMMA OthersAreLeft ==
    ASSUME StandingInv, UNCHANGED <<settings, view, prompts, client, lost>>,
           worker.pc # "asking", worker'.pc # "asking"
    PROVE  AnswerIsTaken' /\ ShownIsOnFile' /\ GrantIsBacked'
<1> USE DEF StandingInv
<1>1. AnswerIsTaken' /\ ShownIsOnFile'
  BY DEF AnswerIsTaken, ShownIsOnFile
<1>2. GrantIsBacked'
  BY AtRestTyped DEF GrantIsBacked, PromptsMatch
<1> QED
  BY <1>1, <1>2

LEMMA TakeTurnPreserves ==
    ASSUME StandingInv, TakeTurn
    PROVE  StandingInv'
<1> USE DEF StandingInv
<1>1. /\ worker' = [Idle EXCEPT !.pc = "model"]
      /\ UNCHANGED <<control, settings, view, client, engine, rules, cleared, prompts, agent, used, lost>>
  BY DEF TakeTurn, workerLeaves
<1>2. worker' \in Workers /\ worker'.pc = "model" /\ worker'.scope = {}
  BY <1>1, AtRestTyped DEF Workers, Idle
<1>3. /\ worker.pc = "idle" /\ worker.scope = {} /\ inbox' \in Seq(Messages)
      /\ \A k : Backed(k) => Backed(k)'
  BY <1>1, Taking DEF TakeTurn
<1>4. Typed' /\ PromptsMatch'
  BY <1>1, <1>2, <1>3 DEF Typed, PromptsMatch
<1>5. ScopeIsBacked' /\ ApprovedCallPasses' /\ RoleRulesEnd'
  BY <1>1, <1>2, <1>3 DEF ScopeIsBacked, ApprovedCallPasses, RoleRulesEnd
<1>6. EngineIsOnFile'
  BY <1>1, <1>3 DEF EngineIsOnFile, Backed
<1> QED
  BY <1>1, <1>2, <1>3, <1>4, <1>5, <1>6, OthersAreLeft

\* What the task will give back are the rules it found, and none is its own.
LEMMA TakeTaskPreserves ==
    ASSUME StandingInv, TakeTask
    PROVE  StandingInv'
<1> USE DEF StandingInv
<1> DEFINE kept == [engine |-> engine, rules |-> rules]
<1>1. /\ engine' \in TaskEngines
      /\ \E own \in SUBSET RoleCalls : rules' = rules \cup {Rule("role", k) : k \in own}
      /\ worker' = [Idle EXCEPT !.pc = "model", !.scope = {kept}]
      /\ UNCHANGED <<control, settings, view, client, cleared, prompts, agent, used, lost>>
  BY DEF TakeTask, workerLeaves
<1>2. kept \in Kept /\ kept.rules = rules
  BY DEF Typed, Kept
<1>3. worker' \in Workers /\ worker'.pc = "model" /\ worker'.scope = {kept}
  BY <1>1, <1>2, AtRestTyped DEF Workers, Idle
<1>4. /\ worker.pc = "idle" /\ worker.scope = {} /\ inbox' \in Seq(Messages)
      /\ \A k : Backed(k) => Backed(k)'
  BY <1>1, Taking DEF TakeTask
<1>5. engine' \in EngineValues
  BY <1>1 DEF TaskEngines, Typed, EngineValues, Modes, LevelOf
<1>6. rules' \in SUBSET AllRules /\ \A r \in rules' : r \in rules \/ r.source = "role"
  BY <1>1, RuleFields, StandingConstants DEF Typed, Sources
<1>7. Typed' /\ PromptsMatch'
  BY <1>1, <1>3, <1>4, <1>5, <1>6 DEF Typed, PromptsMatch
<1>8. ScopeIsBacked'
  <2>1. \A r \in rules : r.source # "role" /\ (r.source = "standing" => Backed(r.call))
    BY <1>4 DEF RoleRulesEnd, EngineIsOnFile, Backed
  <2> QED
    BY <1>2, <1>3, <1>4, <2>1 DEF ScopeIsBacked
<1>9. ApprovedCallPasses' /\ RoleRulesEnd'
  BY <1>3 DEF ApprovedCallPasses, RoleRulesEnd
<1>10. EngineIsOnFile'
  BY <1>4, <1>6 DEF EngineIsOnFile, Backed
<1> QED
  BY <1>1, <1>3, <1>4, <1>7, <1>8, <1>9, <1>10, OthersAreLeft

LEMMA TakeResumePreserves ==
    ASSUME StandingInv, TakeResume
    PROVE  StandingInv'
<1> USE DEF StandingInv
<1>1. /\ engine' \in {EngineAt(InitialValues), EngineAt([mode |-> "plan", level |-> "readonly"])}
      /\ rules' = {}
      /\ UNCHANGED <<control, settings, view, client, cleared, prompts, worker, agent, used, lost>>
  BY DEF TakeResume, workerLeaves
<1>2. worker.pc = "idle" /\ worker.scope = {} /\ inbox' \in Seq(Messages)
  BY Taking DEF TakeResume
<1>3. engine' \in EngineValues
  BY <1>1, EngineAtTyped, InitialValuesAssumption DEF Values, Modes, Levels
<1>4. Typed' /\ PromptsMatch'
  BY <1>1, <1>2, <1>3 DEF Typed, PromptsMatch
<1>5. ScopeIsBacked' /\ ApprovedCallPasses' /\ RoleRulesEnd' /\ EngineIsOnFile'
  BY <1>1, <1>2 DEF ScopeIsBacked, ApprovedCallPasses, RoleRulesEnd, EngineIsOnFile
<1> QED
  BY <1>1, <1>2, <1>4, <1>5, OthersAreLeft

\* A message that changes neither the rules nor where the worker is.
LEMMA TakeOtherPreserves ==
    ASSUME StandingInv, NEW type \in {"session", "control"}, Take(type),
           DOMAIN control' = {"applied", "submitted", "nextEpoch"}, control'.nextEpoch \in Nat,
           engine' \in EngineValues, agent' \in Agents,
           agent' = agent \/ (agent.pc # "asking" /\ agent'.pc # "asking"),
           used' \in [{"commands", "rules", "calls", "failures", "restarts"} -> Nat],
           UNCHANGED <<settings, view, client, rules, cleared, prompts, worker, lost>>
    PROVE  StandingInv'
<1> USE DEF StandingInv
<1>1. /\ worker.pc = "idle" /\ worker.scope = {} /\ inbox' \in Seq(Messages)
      /\ \A k : Backed(k) => Backed(k)'
  BY Taking
<1>2. Typed' /\ PromptsMatch'
  BY <1>1 DEF Typed, PromptsMatch
<1>3. ScopeIsBacked' /\ ApprovedCallPasses' /\ RoleRulesEnd'
  BY <1>1 DEF ScopeIsBacked, ApprovedCallPasses, RoleRulesEnd
<1>4. EngineIsOnFile'
  BY <1>1 DEF EngineIsOnFile, Backed
<1> QED
  BY <1>1, <1>2, <1>3, <1>4, OthersAreLeft

LEMMA TakeSessionPreserves ==
    ASSUME StandingInv, TakeSession
    PROVE  StandingInv'
<1>1. agent' = IF agent.pc = "off" THEN [Off EXCEPT !.pc = "model"] ELSE agent
  BY DEF TakeSession
<1>2. agent' \in Agents /\ (agent' = agent \/ (agent.pc # "asking" /\ agent'.pc # "asking"))
  <2>1. [Off EXCEPT !.pc = "model"] \in Agents /\ [Off EXCEPT !.pc = "model"].pc = "model"
    BY AtRestTyped DEF Agents, Off
  <2> QED
    BY <1>1, <2>1 DEF StandingInv, Typed
<1> QED
  BY <1>2, TakeOtherPreserves DEF TakeSession, workerLeaves, StandingInv, Typed

LEMMA TakeControlPreserves ==
    ASSUME StandingInv, TakeControl
    PROVE  StandingInv'
<1> DEFINE m == Head(inbox)
<1>1. m \in Messages /\ m.type = "control"
  BY Taking DEF TakeControl
<1>2. EngineApplied(engine, m.command) \in EngineValues
  BY <1>1, Messaging, EngineAppliedTyped DEF StandingInv, Typed
<1>3. DOMAIN control' = {"applied", "submitted", "nextEpoch"} /\ control'.nextEpoch \in Nat
  BY DEF TakeControl, Commit, Reject, StandingInv, Typed
<1>4. engine' \in EngineValues
  BY <1>2 DEF TakeControl, StandingInv, Typed
<1>5. used' \in [{"commands", "rules", "calls", "failures", "restarts"} -> Nat]
  BY SpendTyped DEF TakeControl, StandingInv, Typed
<1> QED
  <2>1. /\ Take("control")
        /\ UNCHANGED <<settings, view, client, rules, cleared, prompts, worker, agent, lost>>
    BY DEF TakeControl
  <2>2. agent' \in Agents
    BY <2>1 DEF StandingInv, Typed
  <2> QED
    BY <1>3, <1>4, <1>5, <2>1, <2>2, TakeOtherPreserves

\* The rule whose revocation arrives is gone from the engine by then.
LEMMA TakeRevocationPreserves ==
    ASSUME StandingInv, TakeRevocation
    PROVE  StandingInv'
<1> USE DEF StandingInv
<1> DEFINE c == Head(inbox).call
<1>1. /\ rules' = rules \ {Rule("standing", c)}
      /\ UNCHANGED <<control, settings, view, client, engine, cleared, prompts, worker, agent, used, lost>>
  BY DEF TakeRevocation, Revoked, workerLeaves
<1>2. /\ worker.pc = "idle" /\ worker.scope = {} /\ inbox' \in Seq(Messages)
      /\ \A k : Backed(k) => Backed(k)' \/ c = k
  BY <1>1, Taking DEF TakeRevocation
<1>3. Typed' /\ PromptsMatch'
  BY <1>1, <1>2 DEF Typed, PromptsMatch
<1>4. ScopeIsBacked' /\ ApprovedCallPasses' /\ RoleRulesEnd'
  BY <1>1, <1>2 DEF ScopeIsBacked, ApprovedCallPasses, RoleRulesEnd
<1>5. EngineIsOnFile'
  <2>1. ASSUME NEW r \in rules', r.source = "standing" PROVE Backed(r.call)'
    <3>1. r \in rules /\ r = Rule("standing", r.call)
      BY <1>1, <2>1, RuleFields DEF Typed
    <3>2. r.call # c
      BY <1>1, <2>1, <3>1
    <3> QED
      BY <1>2, <2>1, <3>1, <3>2 DEF EngineIsOnFile, Backed
  <2> QED
    BY <2>1 DEF EngineIsOnFile, Backed
<1> QED
  BY <1>1, <1>2, <1>3, <1>4, <1>5, OthersAreLeft

\* A step of a turn: the asker has no call on the client thread, and file,
\* list and channel stay as they are.
LEMMA BackedStays ==
    ASSUME UNCHANGED <<settings, inbox, client, lost>>, NEW k
    PROVE  Backed(k)' <=> Backed(k)
BY DEF Backed, OnFile, Adrift, Revoking

\* Asking and hearing, for either asker.
LEMMA Asking ==
    ASSUME Typed, NEW a \in Askers, NEW k \in Calls, Ask(a, k)
    PROVE  /\ prompts' \in [Askers -> Prompts]
           /\ prompts'[a].call = k /\ prompts'[a].answer = "deny"
           /\ \A b \in Askers \ {a} : prompts'[b] = prompts[b]
<1>1. [Silent EXCEPT !.state = "pending", !.call = k, !.epoch = CurrentEpoch] \in Prompts
  BY AtRestTyped DEF Silent, Prompts, States, Named, Typed, CurrentEpoch
<1> QED
  BY <1>1 DEF Ask, Typed, Silent

LEMMA Hearing ==
    ASSUME Typed, NEW a \in Askers, Hear(a)
    PROVE  /\ prompts' \in [Askers -> Prompts]
           /\ prompts'[a] = Silent
           /\ \A b \in Askers \ {a} : prompts'[b] = prompts[b]
BY AtRestTyped DEF Hear, Typed

\* What the client thread is busy with and what is shown stay as they are when
\* an asker whose prompt is not taken asks or hears.
LEMMA AskerSteps ==
    ASSUME StandingInv, NEW a \in Askers, prompts[a].state # "taken",
           \A b \in Askers \ {a} : prompts'[b] = prompts[b],
           prompts' = prompts \/ prompts'[a].answer = "deny",
           UNCHANGED <<settings, view, inbox, client, lost>>
    PROVE  AnswerIsTaken' /\ ShownIsOnFile' /\ GrantIsBacked'
<1> USE DEF StandingInv
<1>1. AnswerIsTaken'
  BY DEF AnswerIsTaken, Typed, Clients
<1>2. ShownIsOnFile'
  BY DEF ShownIsOnFile
<1>3. GrantIsBacked'
  BY BackedStays DEF GrantIsBacked, Askers
<1> QED
  BY <1>1, <1>2, <1>3

\* The model calls a tool: it is allowed by a rule, denied, or asked for.
LEMMA CallPreserves ==
    ASSUME StandingInv, NEW k \in Calls, Call(k)
    PROVE  StandingInv'
<1> USE DEF StandingInv
<1> DEFINE decision == Decide(rules, Planning, k)
<1>1. /\ worker.pc = "model" /\ prompts["worker"] = Silent
      /\ Spend({"calls"})
      /\ worker' = [worker EXCEPT
            !.pc = CASE decision = "allow" -> "run"
                     [] decision = "ask"   -> "asking"
                     [] OTHER              -> "model",
            !.call = IF decision = "deny" THEN NoCall ELSE k,
            !.round = IF decision = "ask" THEN 1 ELSE 0]
      /\ IF decision = "ask" THEN Ask("worker", k) ELSE UNCHANGED prompts
      /\ UNCHANGED <<control, settings, view, client, engine, rules, cleared, inbox, agent, lost>>
  BY DEF Call, workerLeaves, PromptsMatch
<1>2. decision \in {"allow", "deny", "ask"}
  BY DEF Decide
<1>3. /\ worker' \in Workers /\ worker'.scope = worker.scope
      /\ \/ worker'.pc = "run"    /\ decision = "allow" /\ worker'.call = k
         \/ worker'.pc = "asking" /\ decision = "ask"   /\ worker'.call = k
         \/ worker'.pc = "model"  /\ decision = "deny"
  <2> HIDE DEF decision
  <2> QED
    BY <1>1, <1>2 DEF Typed, Workers, Named
<1> HIDE DEF decision
<1>4. "worker" \in Askers /\ "agent" \in Askers
  BY DEF Askers
<1>5. /\ prompts' \in [Askers -> Prompts] /\ prompts'["agent"] = prompts["agent"]
      /\ decision = "ask" => prompts'["worker"].call = k /\ prompts'["worker"].answer = "deny"
      /\ decision # "ask" => prompts' = prompts
      /\ \A b \in Askers \ {"worker"} : prompts'[b] = prompts[b]
  BY <1>1, <1>4, Asking DEF Typed
<1>6. Typed'
  BY <1>1, <1>3, <1>5, SpendTyped DEF Typed
<1>7. PromptsMatch'
  <2>1. \A a \in Askers :
            /\ prompts'[a].answer = "edit" => prompts'[a].revised \in Calls
            /\ prompts'[a].state # "none" => prompts'[a].call \in Calls
    BY <1>1, <1>2, <1>4, <1>5 DEF PromptsMatch
  <2> QED
    BY <1>1, <1>3, <1>5, <2>1 DEF PromptsMatch
<1>8. AnswerIsTaken' /\ ShownIsOnFile' /\ GrantIsBacked'
  BY <1>1, <1>2, <1>4, <1>5, AtRestTyped, AskerSteps
<1>9. ScopeIsBacked' /\ EngineIsOnFile' /\ RoleRulesEnd'
  BY <1>1, <1>3, BackedStays DEF ScopeIsBacked, EngineIsOnFile, RoleRulesEnd, Backed
<1>10. ApprovedCallPasses'
  BY <1>1, <1>3 DEF ApprovedCallPasses, Passes, Planning, decision
<1> QED
  BY <1>6, <1>7, <1>8, <1>9, <1>10

\* An approved call is remembered as the newest clearance.
LEMMA Pushed ==
    ASSUME NEW list \in Seq(Calls), NEW k \in Calls
    PROVE  /\ Push(list, k) \in Seq(Calls)
           /\ \E i \in 1..Len(Push(list, k)) : Push(list, k)[i] = k
<1> DEFINE longer == Append(list, k)
<1>1. /\ longer \in Seq(Calls) /\ Len(longer) = Len(list) + 1 /\ Len(list) \in Nat
      /\ longer[Len(longer)] = k /\ longer # <<>>
  OBVIOUS
<1>2. CASE Len(longer) > MaxClearances
  <2>1. /\ Tail(longer) \in Seq(Calls) /\ Len(Tail(longer)) = Len(list)
        /\ \A i \in 1..Len(list) : Tail(longer)[i] = longer[i + 1]
    BY <1>1
  <2>2. Len(list) \in 1..Len(list)
    BY <1>1, <1>2, StandingConstants
  <2>3. Tail(longer)[Len(list)] = k
    BY <1>1, <2>1, <2>2
  <2> QED
    BY <1>2, <2>1, <2>2, <2>3 DEF Push
<1>3. CASE ~(Len(longer) > MaxClearances)
  <2>1. Len(longer) \in 1..Len(longer)
    BY <1>1
  <2> QED
    BY <1>1, <1>3, <2>1 DEF Push
<1> QED
  BY <1>2, <1>3

\* A set of naturals has a least element: of the intervals below its elements,
\* one is contained in all others.
LEMMA LeastNatural ==
    ASSUME NEW T \in SUBSET Nat, T # {}
    PROVE  Min(T) \in T
<1> DEFINE below == {1..n : n \in T}
           order == StrictSubsetOrdering(Nat)
<1>1. below \subseteq FiniteSubsetsOf(Nat) /\ below # {}
  <2>1. \A n \in T : 1..n \in SUBSET Nat /\ IsFiniteSet(1..n)
    BY FS_Interval
  <2> QED
    BY <2>1 DEF FiniteSubsetsOf
<1>2. \E x \in below : \A y \in below : ~ (<<y, x>> \in order)
  <2>1. IsWellFoundedOn(order, FiniteSubsetsOf(Nat))
    BY FS_StrictSubsetOrderingWellFounded
  <2> HIDE DEF below, order
  <2> QED
    BY <1>1, <2>1, WFMin
<1>3. PICK m \in T : \A n \in T : ~ (<<1..n, 1..m>> \in order)
  BY <1>2
<1>4. ASSUME NEW n \in T PROVE m =< n
  <2>1. CASE n < m
    <3>1. 1..n \subseteq 1..m /\ m \in 1..m /\ m \notin 1..n
      BY <2>1
    <3>2. <<1..n, 1..m>> \in order
      BY <3>1 DEF StrictSubsetOrdering
    <3> QED
      BY <1>3, <3>2
  <2> QED
    BY <2>1
<1> QED
  BY <1>4 DEF Min

LEMMA TakesTyped ==
    ASSUME NEW list \in Seq(Calls), NEW k
    PROVE  Takes(list, k) \in Seq(Calls) /\ Len(Takes(list, k)) <= Len(list)
<1> DEFINE Places == {i \in 1..Len(list) : list[i] = k}
           first  == Min(Places)
<1>1. CASE Places = {}
  BY <1>1 DEF Takes, RemoveFirst
<1>2. CASE Places # {}
  <2>1. first \in 1..Len(list)
    <3>1. Places \in SUBSET Nat
      OBVIOUS
    <3>2. first \in Places
      BY <1>2, <3>1, LeastNatural
    <3> QED
      BY <3>2
  <2> DEFINE a == SubSeq(list, 1, first - 1)
             b == SubSeq(list, first + 1, Len(list))
  <2>2. Takes(list, k) = a \o b
    BY <1>2 DEF Takes, RemoveFirst, RemoveAt, SelectInSeq
  <2> HIDE DEF first
  <2>3. /\ a \in Seq(Calls) /\ Len(a) = first - 1
        /\ b \in Seq(Calls) /\ Len(b) = Len(list) - first
    BY <2>1, SubSeqProperties
  <2> HIDE DEF a, b
  <2>4. a \o b \in Seq(Calls) /\ Len(a \o b) = Len(a) + Len(b)
    BY <2>3, ConcatProperties
  <2> QED
    BY <2>1, <2>2, <2>3, <2>4
<1> QED
  BY <1>1, <1>2

\* An answer installs the rule of the call it was given for, a standing one
\* only for `always`; a call it lets through is cleared, and not in plan mode.
LEMMA Resolved ==
    ASSUME NEW rs \in SUBSET AllRules, NEW planning \in BOOLEAN, NEW k \in Calls,
           NEW round, NEW p \in Prompts, p.answer = "edit" => p.revised \in Calls,
           NEW r, r = Resolution(rs, planning, k, round, p)
    PROVE  /\ r.call \in Calls
           /\ r.rules \in {rs, Installed(rs, p.answer, k)}
           /\ r.outcome \in {"allowed", "ask", "denied"}
           /\ r.outcome = "allowed" => r.clears = TRUE /\ planning = FALSE
<1>1. r.call = IF p.answer = "edit" THEN p.revised ELSE k
  BY DEF Resolution
<1>2. r.rules \in {rs, Installed(rs, p.answer, k)}
  BY DEF Resolution
<1>3. /\ r.outcome \in {"allowed", "ask", "denied"}
      /\ r.outcome = "allowed" => r.clears = TRUE /\ planning = FALSE
  BY DEF Resolution
<1> QED
  BY <1>1, <1>2, <1>3

LEMMA InstalledRules ==
    ASSUME NEW rs \in SUBSET AllRules, NEW k \in Calls, NEW answer \in AllAnswers
    PROVE  /\ Installed(rs, answer, k) \in SUBSET AllRules
           /\ \A x \in Installed(rs, answer, k) :
                 \/ x \in rs
                 \/ x.source = "session"
                 \/ answer = "always" /\ x.source = "standing" /\ x.call = k
BY RuleFields DEF Installed, Sources

LEMMA ApplyPreserves ==
    ASSUME StandingInv, Apply
    PROVE  StandingInv'
<1> USE DEF StandingInv
<1> DEFINE p == prompts["worker"]
           r == Resolution(rules, Planning, worker.call, worker.round, p)
<1>1. /\ worker.pc = "asking" /\ worker.call \in Calls /\ p.call = worker.call
      /\ p.state = "answered" /\ p \in Prompts
      /\ p.answer = "edit" => p.revised \in Calls
      /\ "worker" \in Askers /\ "agent" \in Askers
  BY DEF Apply, PromptsMatch, Typed, Askers
<1>2. /\ rules' = r.rules
      /\ cleared' = IF r.clears THEN Push(cleared, r.call) ELSE cleared
      /\ worker' = [worker EXCEPT
            !.pc = CASE r.outcome = "allowed" -> "run"
                     [] r.outcome = "ask"     -> "asking"
                     [] OTHER                 -> "model",
            !.call = IF r.outcome = "denied" THEN NoCall ELSE r.call,
            !.round = IF r.outcome = "ask" THEN @ + 1 ELSE 0]
      /\ IF r.outcome = "ask" THEN Ask("worker", r.call) ELSE Hear("worker")
      /\ UNCHANGED <<control, settings, view, client, engine, inbox, agent, used, lost>>
  BY DEF Apply, workerLeaves
<1>3. /\ r.call \in Calls
      /\ r.rules \in SUBSET AllRules
      /\ \A x \in r.rules :
            \/ x \in rules
            \/ x.source = "session"
            \/ p.answer = "always" /\ x.source = "standing" /\ x.call = worker.call
      /\ r.outcome \in {"allowed", "ask", "denied"}
      /\ r.outcome = "allowed" => r.clears /\ ~Planning
  <2>1. Planning \in BOOLEAN /\ rules \in SUBSET AllRules
    BY DEF Planning, Typed
  <2> DEFINE planning == Planning
             res == r
  <2>2. res = Resolution(rules, planning, worker.call, worker.round, p) /\ planning \in BOOLEAN
    BY <2>1
  <2>3. p.answer = "edit" => p.revised \in Calls
    BY <1>1
  <2>4. p \in Prompts /\ worker.call \in Calls
    BY <1>1
  <2> HIDE DEF r, p, planning, res
  <2>5. /\ res.call \in Calls
        /\ res.rules \in {rules, Installed(rules, p.answer, worker.call)}
        /\ res.outcome \in {"allowed", "ask", "denied"}
        /\ res.outcome = "allowed" => res.clears = TRUE /\ planning = FALSE
    BY <2>1, <2>2, <2>3, <2>4, Resolved
  <2>6. p.answer \in AllAnswers
    BY <2>4 DEF Prompts
  <2>7. /\ res.rules \in SUBSET AllRules
        /\ \A x \in res.rules :
              \/ x \in rules
              \/ x.source = "session"
              \/ p.answer = "always" /\ x.source = "standing" /\ x.call = worker.call
    BY <2>1, <2>4, <2>5, <2>6, InstalledRules
  <2> QED
    BY <2>5, <2>7 DEF res, planning
<1> HIDE DEF r
<1>4. /\ worker' \in Workers /\ worker'.scope = worker.scope
      /\ \/ worker'.pc = "run"    /\ r.outcome = "allowed" /\ worker'.call = r.call
         \/ worker'.pc = "asking" /\ r.outcome = "ask"     /\ worker'.call = r.call
         \/ worker'.pc = "model"  /\ r.outcome = "denied"
  <2>1. CASE r.outcome = "allowed"
    BY <1>2, <1>3, <2>1 DEF Typed, Workers, Named
  <2>2. CASE r.outcome = "ask"
    <3> DEFINE next == worker.round + 1
    <3>1. next \in Nat
      BY DEF Typed, Workers
    <3>2. worker' = [worker EXCEPT !.pc = "asking", !.call = r.call, !.round = next]
      BY <1>2, <2>2
    <3> HIDE DEF next
    <3> QED
      BY <1>3, <2>2, <3>1, <3>2 DEF Typed, Workers, Named
  <2>3. CASE r.outcome = "denied"
    BY <1>2, <1>3, <2>3 DEF Typed, Workers, Named
  <2> QED
    BY <1>3, <2>1, <2>2, <2>3
<1>5. cleared' \in Seq(Calls) /\ (r.clears => \E i \in 1..Len(cleared') : cleared'[i] = r.call)
  <2>1. CASE r.clears
    <3>1. cleared' = Push(cleared, r.call)
      BY <1>2, <2>1, Zenon
    <3>2. r.call \in Calls /\ cleared \in Seq(Calls)
      BY <1>3 DEF Typed
    <3>3. cleared' \in Seq(Calls) /\ \E i \in 1..Len(cleared') : cleared'[i] = r.call
      BY <3>1, <3>2, Pushed, Zenon
    <3> QED
      BY <3>3
  <2>2. CASE ~r.clears
    BY <1>2, <2>2 DEF Typed
  <2> QED
    BY <2>1, <2>2
<1>6. /\ prompts' \in [Askers -> Prompts] /\ prompts'["agent"] = prompts["agent"]
      /\ prompts'["worker"].answer = "deny"
      /\ r.outcome = "ask" => prompts'["worker"].call = r.call
      /\ r.outcome # "ask" => prompts'["worker"] = Silent
      /\ \A b \in Askers \ {"worker"} : prompts'[b] = prompts[b]
  <2>1. CASE r.outcome = "ask"
    BY <1>1, <1>2, <1>3, <2>1, Asking DEF Typed
  <2>2. CASE r.outcome # "ask"
    BY <1>1, <1>2, <2>2, Hearing, AtRestTyped DEF Typed
  <2> QED
    BY <2>1, <2>2
<1>7. Typed'
  BY <1>2, <1>3, <1>4, <1>5, <1>6 DEF Typed
<1>8. PromptsMatch'
  <2>1. \A a \in Askers :
            /\ prompts'[a].answer = "edit" => prompts'[a].revised \in Calls
            /\ prompts'[a].state # "none" => prompts'[a].call \in Calls
    BY <1>1, <1>3, <1>6, AtRestTyped DEF PromptsMatch, Askers
  <2> QED
    BY <1>2, <1>3, <1>4, <1>6, <2>1 DEF PromptsMatch
<1>9. AnswerIsTaken' /\ ShownIsOnFile' /\ GrantIsBacked'
  BY <1>1, <1>2, <1>6, AskerSteps
<1>10. ScopeIsBacked'
  BY <1>1, <1>2, <1>4, BackedStays DEF ScopeIsBacked
<1>11. EngineIsOnFile'
  <2>1. ASSUME NEW x \in rules', x.source = "standing" PROVE Backed(x.call)
    <3>1. CASE x \in rules
      BY <2>1, <3>1 DEF EngineIsOnFile, Backed
    <3>2. CASE p.answer = "always" /\ x.call = worker.call
      <4>1. ~(client.pc = "persist" /\ client.asker = "worker")
        BY <1>1 DEF AnswerIsTaken
      <4> QED
        BY <1>1, <3>2, <4>1 DEF GrantIsBacked
    <3> QED
      BY <1>2, <1>3, <2>1, <3>1, <3>2
  <2> QED
    BY <1>2, <2>1, BackedStays DEF EngineIsOnFile, Backed
<1>12. RoleRulesEnd'
  <2>1. ASSUME NEW x \in rules', x.source = "role" PROVE x \in rules
    BY <1>2, <1>3, <2>1
  <2> QED
    BY <1>4, <2>1 DEF RoleRulesEnd
<1>13. ApprovedCallPasses'
  <2> SUFFICES ASSUME worker'.pc = "run" PROVE Passes(worker.call)'
    BY DEF ApprovedCallPasses
  <2>1. r.clears /\ ~Planning /\ worker'.call = r.call
    BY <1>3, <1>4
  <2>2. ~Planning'
    BY <1>2, <2>1 DEF Planning
  <2>3. \E i \in 1..Len(cleared') : cleared'[i] = worker'.call
    BY <1>5, <2>1
  <2> QED
    BY <2>2, <2>3 DEF Passes, Decide
<1> QED
  BY <1>7, <1>8, <1>9, <1>10, <1>11, <1>12, <1>13

\* The call runs or is stopped; its clearance is spent.
LEMMA RunPreserves ==
    ASSUME StandingInv, Run
    PROVE  StandingInv'
<1> USE DEF StandingInv
<1>1. /\ worker.pc = "run"
      /\ worker' = [worker EXCEPT !.pc = "model", !.call = NoCall]
      /\ cleared' \in {cleared, Takes(cleared, worker.call)}
      /\ UNCHANGED <<control, settings, view, client, engine, rules, inbox, prompts, agent, used, lost>>
  BY DEF Run, workerLeaves
<1>2. worker' \in Workers /\ worker'.pc = "model" /\ worker'.scope = worker.scope
  BY <1>1 DEF Typed, Workers, Named
<1>3. cleared' \in Seq(Calls)
  BY <1>1, TakesTyped DEF Typed
<1>4. Typed' /\ PromptsMatch'
  BY <1>1, <1>2, <1>3 DEF Typed, PromptsMatch
<1>5. ScopeIsBacked' /\ EngineIsOnFile' /\ RoleRulesEnd' /\ ApprovedCallPasses'
  BY <1>1, <1>2, BackedStays DEF ScopeIsBacked, EngineIsOnFile, RoleRulesEnd,
     ApprovedCallPasses, Backed
<1> QED
  BY <1>1, <1>2, <1>4, <1>5, OthersAreLeft

\* A task gives back what it found, which is backed and not its own.
LEMMA EndTurnPreserves ==
    ASSUME StandingInv, EndTurn
    PROVE  StandingInv'
<1> USE DEF StandingInv
<1>1. /\ worker.pc \in {"model", "run"} /\ worker' = Idle
      /\ used' = used \/ Spend({"failures"})
      /\ IF worker.scope = {} THEN UNCHANGED <<engine, rules>>
         ELSE \E scope \in worker.scope : engine' = scope.engine /\ rules' = scope.rules
      /\ UNCHANGED <<control, settings, view, client, cleared, inbox, prompts, agent, lost>>
  BY DEF EndTurn, Restored, workerLeaves
<1>2. worker' \in Workers /\ worker'.pc = "idle" /\ worker'.scope = {}
  BY <1>1, AtRestTyped
<1>3. /\ engine' \in EngineValues /\ rules' \in SUBSET AllRules
      /\ \A x \in rules' : x.source # "role" /\ (x.source = "standing" => Backed(x.call))
  <2>1. CASE worker.scope = {}
    BY <1>1, <2>1 DEF Typed, RoleRulesEnd, EngineIsOnFile, Backed
  <2>2. CASE worker.scope # {}
    BY <1>1, <2>2 DEF Typed, Workers, Kept, ScopeIsBacked
  <2> QED
    BY <2>1, <2>2
<1>4. used' \in [{"commands", "rules", "calls", "failures", "restarts"} -> Nat]
  BY <1>1, SpendTyped DEF Typed
<1>5. Typed' /\ PromptsMatch'
  BY <1>1, <1>2, <1>3, <1>4 DEF Typed, PromptsMatch
<1>6. ScopeIsBacked' /\ RoleRulesEnd' /\ ApprovedCallPasses'
  BY <1>2, <1>3 DEF ScopeIsBacked, RoleRulesEnd, ApprovedCallPasses
<1>7. EngineIsOnFile'
  BY <1>1, <1>3, BackedStays DEF EngineIsOnFile, Backed
<1> QED
  BY <1>1, <1>2, <1>5, <1>6, <1>7, OthersAreLeft

-----------------------------------------------------------------------------
\* The external agent's thread and the process.

\* The agent's steps reach nothing of the session but its own prompt.
LEMMA AgentStepPreserves ==
    ASSUME StandingInv, prompts["agent"].state # "taken",
           agent' \in Agents,
           used' \in [{"commands", "rules", "calls", "failures", "restarts"} -> Nat],
           prompts' \in [Askers -> Prompts],
           prompts'["worker"] = prompts["worker"],
           prompts' = prompts \/ prompts'["agent"].answer = "deny",
           prompts'["agent"].state # "none" => prompts'["agent"].call \in Calls,
           \/ agent'.pc = "asking" /\ agent'.call \in Calls
           \/ agent'.pc # "asking" /\ prompts'["agent"] = Silent,
           UNCHANGED <<control, engine, rules, cleared, settings, view, inbox, worker, client, lost>>
    PROVE  StandingInv'
<1> USE DEF StandingInv
<1>1. Typed'
  BY DEF Typed
<1>2. PromptsMatch'
  <2>1. \A a \in Askers :
            /\ prompts'[a].answer = "edit" => prompts'[a].revised \in Calls
            /\ prompts'[a].state # "none" => prompts'[a].call \in Calls
    BY DEF PromptsMatch, Askers
  <2>2. /\ worker'.pc = "asking" =>
             worker'.call \in Calls /\ prompts'["worker"].call = worker'.call
        /\ worker'.pc = "run" => worker'.call \in Calls
        /\ worker'.pc # "asking" => prompts'["worker"] = Silent
    BY DEF PromptsMatch
  <2>3. /\ agent'.pc = "asking" => agent'.call \in Calls
        /\ agent'.pc # "asking" => prompts'["agent"] = Silent
    OBVIOUS
  <2> QED
    BY <2>1, <2>2, <2>3 DEF PromptsMatch
<1>3. AnswerIsTaken' /\ ShownIsOnFile' /\ GrantIsBacked'
  BY AskerSteps DEF Askers
<1>4. \A k : Backed(k) => Backed(k)'
  BY BackedStays
<1> QED
  BY <1>1, <1>2, <1>3, <1>4, WorkerIsLeft

LEMMA AgentCallPreserves ==
    ASSUME StandingInv, NEW k \in Calls, AgentCall(k)
    PROVE  StandingInv'
<1>1. /\ agent.pc = "model" /\ prompts["agent"] = Silent /\ Typed
      /\ "worker" \in Askers /\ "agent" \in Askers
  BY DEF AgentCall, StandingInv, PromptsMatch, Askers
<1>2. UNCHANGED <<control, engine, rules, cleared, settings, view, inbox, worker, client, lost>>
  BY DEF AgentCall, agentLeaves
<1>3. used' \in [{"commands", "rules", "calls", "failures", "restarts"} -> Nat]
  BY <1>1, SpendTyped DEF AgentCall
<1>4. CASE UNCHANGED <<agent, prompts>>
  BY <1>1, <1>2, <1>3, <1>4, AtRestTyped, AgentStepPreserves DEF Typed
<1>5. CASE agent' = [agent EXCEPT !.pc = "asking", !.call = k, !.round = 1] /\ Ask("agent", k)
  <2>1. agent' \in Agents /\ agent'.pc = "asking" /\ agent'.call = k
    BY <1>1, <1>5 DEF Typed, Agents, Named
  <2>2. /\ prompts' \in [Askers -> Prompts] /\ prompts'["agent"].answer = "deny"
        /\ prompts'["worker"] = prompts["worker"] /\ prompts'["agent"].call \in Calls
    BY <1>1, <1>5, Asking
  <2> QED
    BY <1>1, <1>2, <1>3, <2>1, <2>2, AtRestTyped, AgentStepPreserves
<1> QED
  BY <1>4, <1>5 DEF AgentCall

LEMMA AgentApplyPreserves ==
    ASSUME StandingInv, AgentApply
    PROVE  StandingInv'
<1> DEFINE p == prompts["agent"]
           r == Resolution(agent.rules, FALSE, agent.call, agent.round, p)
<1>1. /\ agent.pc = "asking" /\ agent.call \in Calls /\ agent.rules \in SUBSET AllRules
      /\ agent.round \in Nat
      /\ p.state = "answered" /\ p \in Prompts /\ p.answer \in AllAnswers
      /\ p.answer = "edit" => p.revised \in Calls
      /\ "worker" \in Askers /\ "agent" \in Askers /\ Typed
  BY DEF AgentApply, StandingInv, PromptsMatch, Typed, Askers, Agents, Prompts
<1>2. /\ agent' = [pc    |-> IF r.outcome = "ask" THEN "asking" ELSE "model",
                   call  |-> IF r.outcome = "ask" THEN r.call ELSE NoCall,
                   round |-> IF r.outcome = "ask" THEN agent.round + 1 ELSE 0,
                   rules |-> r.rules]
      /\ IF r.outcome = "ask" THEN Ask("agent", r.call) ELSE Hear("agent")
      /\ UNCHANGED <<used, control, engine, rules, cleared, settings, view, inbox, worker, client, lost>>
  BY DEF AgentApply, agentLeaves
<1>3. r.call \in Calls /\ r.rules \in SUBSET AllRules
  <2> DEFINE res == r
             own == agent.rules
  <2>1. res = Resolution(own, FALSE, agent.call, agent.round, p) /\ own \in SUBSET AllRules
    BY <1>1
  <2> HIDE DEF r, p, res, own
  <2>2. res.call \in Calls /\ res.rules \in {own, Installed(own, p.answer, agent.call)}
    BY <1>1, <2>1, Resolved, ZenonT(30)
  <2>3. Installed(own, p.answer, agent.call) \in SUBSET AllRules
    BY <1>1, <2>1, InstalledRules
  <2> QED
    BY <2>1, <2>2, <2>3 DEF res
<1> HIDE DEF r
<1>4. CASE r.outcome = "ask"
  <2>1. agent' \in Agents /\ agent'.pc = "asking" /\ agent'.call = r.call
    BY <1>1, <1>2, <1>3, <1>4 DEF Agents, Named
  <2>2. /\ prompts' \in [Askers -> Prompts] /\ prompts'["agent"].answer = "deny"
        /\ prompts'["worker"] = prompts["worker"] /\ prompts'["agent"].call \in Calls
    BY <1>1, <1>2, <1>3, <1>4, Asking
  <2> QED
    BY <1>1, <1>2, <1>3, <2>1, <2>2, AgentStepPreserves DEF Typed
<1>5. CASE r.outcome # "ask"
  <2>1. agent' \in Agents /\ agent'.pc = "model"
    BY <1>1, <1>2, <1>3, <1>5 DEF Agents, Named
  <2>2. /\ prompts' \in [Askers -> Prompts] /\ prompts'["agent"] = Silent
        /\ prompts'["worker"] = prompts["worker"]
    BY <1>1, <1>2, <1>5, Hearing
  <2> QED
    BY <1>1, <1>2, <2>1, <2>2, AtRestTyped, AgentStepPreserves DEF Typed
<1> QED
  BY <1>4, <1>5

LEMMA AgentEndPreserves ==
    ASSUME StandingInv, AgentEnd
    PROVE  StandingInv'
<1>1. /\ agent.pc = "model" /\ prompts["agent"] = Silent /\ Typed
      /\ agent' = Off
      /\ UNCHANGED <<prompts, used, control, engine, rules, cleared, settings, view, inbox,
                     worker, client, lost>>
  BY DEF AgentEnd, agentLeaves, StandingInv, PromptsMatch
<1>2. agent' \in Agents /\ agent'.pc = "off"
  BY <1>1, AtRestTyped DEF Off
<1> QED
  BY <1>1, <1>2, AtRestTyped, AgentStepPreserves DEF Typed

\* Where the process starts, its engine and its list hold what the file says.
LEMMA StartsBacked ==
    ASSUME NEW file \in [rows : SUBSET Filed, readable : BOOLEAN]
    PROVE  /\ Loaded(file) \in SUBSET AllRules
           /\ \A r \in Loaded(file) :
                 r.source = "standing" /\ r.call \in {row.call : row \in file.rows}
BY RuleFields DEF Loaded, Sources, Filed

\* The state a bootstrap leaves.
Started ==
    /\ DOMAIN control = {"applied", "submitted", "nextEpoch"} /\ control.nextEpoch \in Nat
    /\ engine = EngineAt(InitialValues)
    /\ settings \in [rows : SUBSET Filed, readable : BOOLEAN]
    /\ rules \subseteq Loaded(settings) /\ view \subseteq settings.rows
    /\ cleared = <<>> /\ inbox = <<>>
    /\ prompts = [a \in Askers |-> Silent]
    /\ worker = Idle /\ agent = Off /\ client = Ready
    /\ used \in [{"commands", "rules", "calls", "failures", "restarts"} -> Nat]

LEMMA StartedInv == Started => StandingInv
<1> SUFFICES ASSUME Started PROVE StandingInv
  OBVIOUS
<1> USE DEF Started
<1>1. Typed
  <2>1. engine \in EngineValues
    BY EngineAtTyped, InitialValuesAssumption
  <2>2. rules \in SUBSET AllRules
    BY StartsBacked
  <2>3. prompts \in [Askers -> Prompts]
    BY AtRestTyped
  <2>4. cleared \in Seq(Calls) /\ inbox \in Seq(Messages)
    OBVIOUS
  <2> QED
    BY <2>1, <2>2, <2>3, <2>4, AtRestTyped DEF Typed
<1>2. /\ worker.pc = "idle" /\ worker.scope = {} /\ agent.pc = "off" /\ client.pc = "ready"
      /\ prompts["worker"] = Silent /\ prompts["agent"] = Silent
      /\ \A a \in Askers : prompts[a] = Silent
  BY AtRestTyped DEF Askers, Off
<1>3. \A r \in rules : r.source = "standing" /\ r.call \in OnFile
  BY StartsBacked DEF OnFile
<1>4. PromptsMatch /\ AnswerIsTaken /\ GrantIsBacked
  BY <1>2, AtRestTyped DEF PromptsMatch, AnswerIsTaken, GrantIsBacked
<1>5. ScopeIsBacked /\ EngineIsOnFile /\ ShownIsOnFile /\ RoleRulesEnd /\ ApprovedCallPasses
  BY <1>2, <1>3 DEF ScopeIsBacked, EngineIsOnFile, ShownIsOnFile, RoleRulesEnd, ApprovedCallPasses
<1> QED
  BY <1>1, <1>4, <1>5 DEF StandingInv

LEMMA InitInv == Init => StandingInv
<1>1. Init => Started
  <2> SUFFICES ASSUME Init PROVE Started
    OBVIOUS
  <2>1. DOMAIN control = {"applied", "submitted", "nextEpoch"} /\ control.nextEpoch \in Nat
    BY DEF Init, ControlInit
  <2>2. used \in [{"commands", "rules", "calls", "failures", "restarts"} -> Nat]
    BY DEF Init, Unspent
  <2>3. settings \in [rows : SUBSET Filed, readable : BOOLEAN]
    BY DEF Init
  <2> QED
    BY <2>1, <2>2, <2>3 DEF Init, Started
<1> QED
  BY <1>1, StartedInv

\* What a stop leaves of the file: what it held, or rows of that.
LEMMA FileAfterStop ==
    ASSUME Typed, Restart
    PROVE  /\ settings' \in [rows : SUBSET Filed, readable : BOOLEAN]
           /\ settings'.rows \subseteq settings.rows
<1>1. CASE settings' = settings
  BY <1>1 DEF Typed
<1>2. CASE \E rows \in SUBSET settings.rows : settings' \in Torn(rows)
  <2>1. PICK rows \in SUBSET settings.rows : settings' \in Torn(rows)
    BY <1>2
  <2>2. rows \in SUBSET Filed
    BY DEF Typed
  <2> QED
    BY <2>1, <2>2, TornFile
<1>3. Interrupted \subseteq UNION {Torn(rows) : rows \in SUBSET settings.rows}
  <2>1. \A row \in settings.rows : settings.rows \ {row} \in SUBSET settings.rows
    OBVIOUS
  <2> QED
    BY <2>1 DEF Interrupted
<1>4. settings' = settings \/ settings' \in Interrupted
  BY Zenon DEF Restart
<1> QED
  BY <1>1, <1>2, <1>3, <1>4

LEMMA RestartPreserves ==
    ASSUME StandingInv, Restart
    PROVE  StandingInv'
<1>1. Started'
  <2>1. used' \in [{"commands", "rules", "calls", "failures", "restarts"} -> Nat]
    BY SpendTyped DEF Restart, StandingInv
  <2>2. settings' \in [rows : SUBSET Filed, readable : BOOLEAN]
    BY FileAfterStop DEF StandingInv
  <2>3. DOMAIN control' = {"applied", "submitted", "nextEpoch"} /\ control'.nextEpoch \in Nat
    BY DEF Restart
  <2> QED
    BY <2>1, <2>2, <2>3 DEF Restart, Started
<1>2. Started' => StandingInv'
  BY StartedInv, PTL
<1> QED
  BY <1>1, <1>2

-----------------------------------------------------------------------------
\* The theorems.

LEMMA StutterPreserves == StandingInv /\ UNCHANGED vars => StandingInv'
<1> SUFFICES ASSUME StandingInv, UNCHANGED vars PROVE StandingInv'
  OBVIOUS
<1>1. \A k : Backed(k) => Backed(k)'
  BY BackedStays DEF vars
<1>2. Typed' /\ AnswerIsTaken' /\ ShownIsOnFile'
  BY DEF vars, StandingInv, Typed, AnswerIsTaken, ShownIsOnFile
<1>3. GrantIsBacked'
  BY <1>1 DEF vars, StandingInv, GrantIsBacked
<1> QED
  BY <1>1, <1>2, <1>3, WorkerIsLeft, PromptsAreLeft DEF vars, StandingInv

\* Every step of Next preserves the invariant.
LEMMA NextInv == StandingInv /\ Next => StandingInv'
<1> SUFFICES ASSUME StandingInv, Next PROVE StandingInv'
  OBVIOUS
<1>1. CASE ClientStep
  BY <1>1, PersistPreserves, AnnounceGrantPreserves, DeliverPreserves,
     AnnounceRevocationPreserves, TellWorkerPreserves DEF ClientStep
<1>2. CASE WorkerStep
  <2>1. CASE TakeTurn \/ TakeTask \/ TakeResume \/ TakeSession \/ TakeControl \/ TakeRevocation
    BY <2>1, TakeTurnPreserves, TakeTaskPreserves, TakeResumePreserves,
       TakeSessionPreserves, TakeControlPreserves, TakeRevocationPreserves
  <2>2. CASE (\E k \in Calls : Call(k)) \/ Apply \/ Run \/ EndTurn
    BY <2>2, CallPreserves, ApplyPreserves, RunPreserves, EndTurnPreserves
  <2> QED
    BY <1>2, <2>1, <2>2 DEF WorkerStep
<1>3. CASE AgentStep
  BY <1>3, AgentCallPreserves, AgentApplyPreserves, AgentEndPreserves DEF AgentStep
<1> QED
  BY <1>1, <1>2, <1>3, ClientRequestPreserves, ExpirePreserves, RestartPreserves DEF Next

\* The invariant the other theorems rest on.
THEOREM StandingInvariance == Spec => []StandingInv
<1>1. StandingInv /\ [Next]_vars => StandingInv'
  BY NextInv, StutterPreserves
<1> QED
  BY InitInv, <1>1, PTL DEF Spec

\* The session's engine holds no standing rule that is off the settings file
\* and that no revocation on its way will take from it: remove_standing_rule
\* and persist_standing_grant are ordered right, across tasks, resumes and
\* restarts, and nothing but a failed write comes between the two.
THEOREM EngineOnFile == Spec => []EngineIsOnFile
<1>1. StandingInv => EngineIsOnFile
  BY DEF StandingInv
<1> QED
  BY StandingInvariance, <1>1, PTL

\* No client is shown a rule that the next bootstrap would not load, but for
\* the one whose StandingApprovalRevoked is about to be published and those
\* that a failed write took off the file.
THEOREM ShownOnFile == Spec => []ShownIsOnFile
<1>1. StandingInv => ShownIsOnFile
  BY DEF StandingInv
<1> QED
  BY StandingInvariance, <1>1, PTL

\* The rules of a task's role never outlive the task's permission scope.
THEOREM RolesEnd == Spec => []RoleRulesEnd
<1>1. StandingInv => RoleRulesEnd
  BY DEF StandingInv
<1> QED
  BY StandingInvariance, <1>1, PTL

\* The registry's before_execute stops no call that the gate let through,
\* however many clearances were left behind and evicted before.
THEOREM ApprovedPasses == Spec => []ApprovedCallPasses
<1>1. StandingInv => ApprovedCallPasses
  BY DEF StandingInv
<1> QED
  BY StandingInvariance, <1>1, PTL

-----------------------------------------------------------------------------
\* Types and limits.  What is applied stays a pair of values because no
\* control reaches the worker without its submission; what is filed, shown and
\* cleared stays within bounds.

Submissions == [epoch : Nat, command : ControlCommands]

Rising(s) == \A k, l \in 1..Len(s) : k < l => s[k].epoch < s[l].epoch

\* Every control in the channel q was submitted, and in that order.
Matched(s, q) ==
    /\ Rising(s)
    /\ \A i, j \in 1..Len(q) :
          q[i].type = "control" /\ q[j].type = "control" /\ i < j => q[i].epoch < q[j].epoch
    /\ \A i \in 1..Len(q) :
          q[i].type = "control" => \E k \in 1..Len(s) : s[k].epoch = q[i].epoch

ControlsMatch ==
    /\ control = [applied |-> control.applied, submitted |-> control.submitted,
                  nextEpoch |-> control.nextEpoch]
    /\ control.applied \in Values
    /\ control.submitted \in Seq(Submissions)
    /\ \A k \in 1..Len(control.submitted) : control.submitted[k].epoch <= control.nextEpoch
    /\ Matched(control.submitted, inbox)

\* A grant that is being written has room for its row.
RowsFit ==
    /\ used.rules <= MaxRules
    /\ client.pc = "persist" /\ prompts[client.asker].answer = "always" => used.rules < MaxRules
    /\ settings.rows \subseteq Row
    /\ view \subseteq Row
    /\ lost \subseteq Row
    /\ client.row \in Row \cup {NoRow}

FewClearances == Len(cleared) <= MaxClearances

RoundsEnd == worker.round <= MaxRevisions /\ agent.round <= MaxRevisions

LimitsInv == ControlsMatch /\ RowsFit /\ FewClearances /\ RoundsEnd

-----------------------------------------------------------------------------
\* The channel and the submissions.

\* Anything but a control joins the channel.
LEMMA OtherSent ==
    ASSUME NEW s \in Seq(Submissions), NEW q \in Seq(Messages), NEW m \in Messages,
           m.type # "control", Matched(s, q)
    PROVE  Matched(s, Append(q, m))
<1> DEFINE r == Append(q, m)
<1>1. /\ Len(r) = Len(q) + 1 /\ Len(q) \in Nat /\ r[Len(r)] = m
      /\ \A i \in 1..Len(r) : i = Len(r) \/ (i \in 1..Len(q) /\ r[i] = q[i])
  OBVIOUS
<1> HIDE DEF r
<1>2. \A i \in 1..Len(r) : r[i].type = "control" => i \in 1..Len(q) /\ r[i] = q[i]
  BY <1>1
<1> QED
  BY <1>2 DEF Matched, r

\* A control joins both.
LEMMA ControlSent ==
    ASSUME NEW s \in Seq(Submissions), NEW q \in Seq(Messages), NEW m \in Messages,
           NEW x \in Submissions, m.type = "control", m.epoch = x.epoch,
           \A k \in 1..Len(s) : s[k].epoch < x.epoch, Matched(s, q)
    PROVE  Matched(Append(s, x), Append(q, m))
<1> DEFINE r == Append(q, m)
           t == Append(s, x)
<1>1. /\ Len(r) = Len(q) + 1 /\ Len(q) \in Nat /\ r[Len(r)] = m
      /\ \A i \in 1..Len(r) : i = Len(r) \/ (i \in 1..Len(q) /\ r[i] = q[i])
  OBVIOUS
<1>2. /\ Len(t) = Len(s) + 1 /\ Len(s) \in Nat /\ t[Len(t)] = x
      /\ \A i \in 1..Len(t) : i = Len(t) \/ (i \in 1..Len(s) /\ t[i] = s[i])
      /\ \A i \in 1..Len(s) : i \in 1..Len(t) /\ t[i] = s[i]
      /\ Len(t) \in 1..Len(t)
  OBVIOUS
<1> HIDE DEF r, t
<1>3. Rising(t)
  <2> SUFFICES ASSUME NEW k \in 1..Len(t), NEW l \in 1..Len(t), k < l
               PROVE  t[k].epoch < t[l].epoch
    BY DEF Rising
  <2>1. k \in 1..Len(s) /\ t[k] = s[k]
    BY <1>2
  <2> QED
    BY <1>2, <2>1 DEF Matched, Rising
<1>4. ASSUME NEW i \in 1..Len(q), q[i].type = "control"
      PROVE  \E k \in 1..Len(t) : t[k].epoch = q[i].epoch /\ q[i].epoch < x.epoch
  <2>1. PICK k \in 1..Len(s) : s[k].epoch = q[i].epoch
    BY <1>4 DEF Matched
  <2> QED
    BY <1>2, <2>1
<1>5. ASSUME NEW i \in 1..Len(r), NEW j \in 1..Len(r), i < j,
             r[i].type = "control", r[j].type = "control"
      PROVE  r[i].epoch < r[j].epoch
  <2>1. i \in 1..Len(q) /\ r[i] = q[i]
    BY <1>1, <1>5
  <2>2. CASE j = Len(r)
    BY <1>1, <1>4, <1>5, <2>1, <2>2
  <2>3. CASE j # Len(r)
    <3>1. j \in 1..Len(q) /\ r[j] = q[j]
      BY <1>1, <2>3
    <3> QED
      BY <1>5, <2>1, <3>1 DEF Matched
  <2> QED
    BY <2>2, <2>3
<1>6. ASSUME NEW i \in 1..Len(r), r[i].type = "control"
      PROVE  \E k \in 1..Len(t) : t[k].epoch = r[i].epoch
  BY <1>1, <1>2, <1>4, <1>6
<1> QED
  BY <1>3, <1>5, <1>6 DEF Matched, r, t

\* Anything is taken.
LEMMA OneTaken ==
    ASSUME NEW s \in Seq(Submissions), NEW q \in Seq(Messages), q # <<>>, Matched(s, q)
    PROVE  Matched(s, Tail(q))
<1> DEFINE r == Tail(q)
<1>1. \A i \in 1..Len(r) : r[i] = q[i + 1] /\ i + 1 \in 1..Len(q)
  OBVIOUS
<1> HIDE DEF r
<1>2. Len(r) \in Nat
  BY DEF r
<1>3. ASSUME NEW i \in 1..Len(r), NEW j \in 1..Len(r), i < j,
             r[i].type = "control", r[j].type = "control"
      PROVE  r[i].epoch < r[j].epoch
  <2>1. i + 1 < j + 1
    BY <1>3
  <2> QED
    BY <1>1, <1>3, <2>1 DEF Matched
<1>4. \A i \in 1..Len(r) : r[i].type = "control" => \E k \in 1..Len(s) : s[k].epoch = r[i].epoch
  BY <1>1 DEF Matched
<1> QED
  BY <1>3, <1>4 DEF Matched, r

\* t is s without its entry c.
Dropped(s, t, c) ==
    /\ t \in Seq(Submissions)
    /\ c \in 1..Len(s)
    /\ Len(t) = Len(s) - 1
    /\ \A k \in 1..Len(t) : t[k] = IF k < c THEN s[k] ELSE s[k + 1]

\* A submission goes that no control in the channel carries.
LEMMA OneDropped ==
    ASSUME NEW s \in Seq(Submissions), NEW q \in Seq(Messages), NEW t, NEW c,
           Dropped(s, t, c), Matched(s, q),
           \A i \in 1..Len(q) : q[i].type = "control" => q[i].epoch # s[c].epoch
    PROVE  Matched(t, q)
<1>1. /\ Len(s) \in Nat /\ c \in 1..Len(s) /\ Len(t) = Len(s) - 1 /\ Len(t) \in Nat
      /\ \A k \in 1..Len(t) : t[k] = IF k < c THEN s[k] ELSE s[k + 1]
  <2>1. t \in Seq(Submissions)
    BY DEF Dropped
  <2>2. Len(t) \in Nat /\ Len(s) \in Nat
    BY <2>1
  <2> QED
    BY <2>2, Zenon DEF Dropped
<1>2. Rising(t)
  <2> SUFFICES ASSUME NEW k \in 1..Len(t), NEW l \in 1..Len(t), k < l
               PROVE  t[k].epoch < t[l].epoch
    BY DEF Rising
  <2> DEFINE kk == IF k < c THEN k ELSE k + 1
             ll == IF l < c THEN l ELSE l + 1
  <2>1. kk \in 1..Len(s) /\ ll \in 1..Len(s) /\ kk < ll
    BY <1>1
  <2>2. t[k] = s[kk] /\ t[l] = s[ll]
    BY <1>1
  <2> HIDE DEF kk, ll
  <2> QED
    BY <2>1, <2>2 DEF Matched, Rising
<1>3. ASSUME NEW i \in 1..Len(q), q[i].type = "control"
      PROVE  \E k \in 1..Len(t) : t[k].epoch = q[i].epoch
  <2>1. PICK k \in 1..Len(s) : s[k].epoch = q[i].epoch
    BY <1>3 DEF Matched
  <2>2. k # c
    BY <1>3, <2>1
  <2>3. CASE k < c
    BY <1>1, <2>1, <2>3
  <2>4. CASE k > c
    <3>1. k - 1 \in 1..Len(t) /\ ~(k - 1 < c) /\ (k - 1) + 1 = k
      BY <1>1, <2>4
    <3> QED
      BY <1>1, <2>1, <3>1
  <2> QED
    BY <1>1, <2>2, <2>3, <2>4
<1> QED
  BY <1>2, <1>3 DEF Matched

\* The entries of the two, and the control that is taken: it was submitted,
\* and no other carries its epoch.
LEMMA OneControlTaken ==
    ASSUME NEW s \in Seq(Submissions), NEW q \in Seq(Messages), q # <<>>,
           Matched(s, q), q[1].type = "control"
    PROVE  /\ \E k \in 1..Len(s) : s[k].epoch = q[1].epoch
           /\ \A i \in 1..Len(Tail(q)) :
                 Tail(q)[i].type = "control" => q[1].epoch < Tail(q)[i].epoch
           /\ q[1].epoch \in Nat
<1>1. /\ 1 \in 1..Len(q)
      /\ \A i \in 1..Len(Tail(q)) : Tail(q)[i] = q[i + 1] /\ i + 1 \in 1..Len(q) /\ 1 < i + 1
  OBVIOUS
<1>2. q[1] \in Messages
  BY <1>1
<1> QED
  BY <1>1, <1>2, Messaging DEF Matched

\* commit takes the oldest submission, reject the one it was told.
LEMMA Committed ==
    ASSUME NEW s \in Seq(Submissions), NEW q \in Seq(Messages), q # <<>>,
           Matched(s, q), q[1].type = "control"
    PROVE  s # <<>> /\ Matched(Tail(s), Tail(q))
<1>1. PICK k \in 1..Len(s) : s[k].epoch = q[1].epoch
  BY OneControlTaken
<1>2. s # <<>> /\ 1 \in 1..Len(s)
  BY <1>1
<1>3. s[1] \in Submissions
  BY <1>2
<1>4. s[1].epoch \in Nat
  BY <1>3 DEF Submissions
<1>5. k = 1 \/ s[1].epoch < s[k].epoch
  BY <1>1, <1>2 DEF Matched, Rising
<1>6. Tail(q) \in Seq(Messages) /\ Matched(s, Tail(q))
  BY OneTaken
<1>7. \A i \in 1..Len(Tail(q)) :
         Tail(q)[i].type = "control" => Tail(q)[i].epoch # s[1].epoch
  <2> TAKE i \in 1..Len(Tail(q))
  <2> HAVE Tail(q)[i].type = "control"
  <2>1. q[1].epoch < Tail(q)[i].epoch /\ q[1].epoch \in Nat
    BY OneControlTaken
  <2>2. Tail(q)[i] \in Messages
    BY <1>6
  <2>3. Tail(q)[i].epoch \in Nat
    BY <2>2, Messaging
  <2> QED
    BY <1>1, <1>4, <1>5, <2>1, <2>3
<1>8. Dropped(s, Tail(s), 1)
  BY <1>2 DEF Dropped
<1> QED
  BY <1>2, <1>6, <1>7, <1>8, OneDropped

\* What RemoveAt leaves.
LEMMA RemovedAt ==
    ASSUME NEW s \in Seq(Submissions), NEW c \in 1..Len(s)
    PROVE  Dropped(s, RemoveAt(s, c), c)
<1> DEFINE a == SubSeq(s, 1, c - 1)
           b == SubSeq(s, c + 1, Len(s))
<1>1. /\ a \in Seq(Submissions) /\ Len(a) = c - 1
      /\ \A k \in 1..(c - 1) : a[k] = s[k]
  BY SubSeqProperties
<1>2. /\ b \in Seq(Submissions) /\ Len(b) = Len(s) - c
      /\ \A k \in 1..(Len(s) - c) : b[k] = s[c + k]
  BY SubSeqProperties
<1>3. RemoveAt(s, c) = a \o b
  BY DEF RemoveAt
<1> HIDE DEF a, b
<1>4. /\ a \o b \in Seq(Submissions) /\ Len(a \o b) = Len(a) + Len(b)
      /\ \A k \in 1..Len(a) + Len(b) : (a \o b)[k] = IF k <= Len(a) THEN a[k] ELSE b[k - Len(a)]
  BY <1>1, <1>2, ConcatProperties
<1>5. Len(s) \in Nat /\ Len(a \o b) = Len(s) - 1
  BY <1>1, <1>2, <1>4
<1>6. ASSUME NEW k \in 1..Len(a \o b)
      PROVE  (a \o b)[k] = IF k < c THEN s[k] ELSE s[k + 1]
  <2>1. CASE k < c
    BY <1>1, <1>2, <1>4, <1>5, <2>1
  <2>2. CASE ~(k < c)
    <3>1. k - (c - 1) \in 1..(Len(s) - c) /\ c + (k - (c - 1)) = k + 1
      BY <1>5, <2>2
    <3>2. (a \o b)[k] = b[k - (c - 1)]
      BY <1>1, <1>2, <1>4, <2>2
    <3> QED
      BY <1>2, <2>2, <3>1, <3>2
  <2> QED
    BY <2>1, <2>2
<1> QED
  BY <1>3, <1>4, <1>5, <1>6 DEF Dropped

LEMMA Rejected ==
    ASSUME NEW s \in Seq(Submissions), s = control.submitted,
           NEW q \in Seq(Messages), q # <<>>, Matched(s, q), q[1].type = "control"
    PROVE  /\ \E c \in 1..Len(s) : Dropped(s, WithoutEpoch(q[1].epoch), c)
           /\ Matched(WithoutEpoch(q[1].epoch), Tail(q))
<1> DEFINE found == {i \in DOMAIN s : s[i].epoch = q[1].epoch}
           c == CHOOSE i \in found : TRUE
<1>1. found # {} /\ found \subseteq 1..Len(s)
  BY OneControlTaken
<1>2. c \in 1..Len(s) /\ s[c].epoch = q[1].epoch
  BY <1>1
<1>3. WithoutEpoch(q[1].epoch) = RemoveAt(s, c)
  BY <1>1 DEF WithoutEpoch
<1> HIDE DEF c, found
<1>4. Dropped(s, RemoveAt(s, c), c)
  BY <1>2, RemovedAt
<1>5. Tail(q) \in Seq(Messages) /\ Matched(s, Tail(q))
  BY OneTaken
<1>6. \A i \in 1..Len(Tail(q)) :
         Tail(q)[i].type = "control" => Tail(q)[i].epoch # s[c].epoch
  <2> TAKE i \in 1..Len(Tail(q))
  <2> HAVE Tail(q)[i].type = "control"
  <2>1. q[1].epoch < Tail(q)[i].epoch /\ q[1].epoch \in Nat
    BY OneControlTaken
  <2> QED
    BY <1>2, <2>1
<1>7. Matched(RemoveAt(s, c), Tail(q))
  BY <1>4, <1>5, <1>6, OneDropped
<1> QED
  BY <1>2, <1>3, <1>4, <1>7

\* Applied leads to a pair of values again.
LEMMA AppliedTyped ==
    ASSUME NEW v \in Values, NEW c \in ControlCommands
    PROVE  Applied(v, c) \in Values
<1>1. CASE \E m \in Modes : c = SetWorkMode(m)
  BY <1>1 DEF Applied, SetWorkMode, Values, Levels
<1>2. CASE \E l \in Levels : c = SetPermissionLevel(l)
  BY <1>2 DEF Applied, SetPermissionLevel, Values, Modes
<1> QED
  BY <1>1, <1>2 DEF ControlCommands

-----------------------------------------------------------------------------
\* The controls through a step.

LEMMA NoControlMoves ==
    ASSUME Typed, ControlsMatch, UNCHANGED control,
           \/ UNCHANGED inbox
           \/ \E m \in Messages : m.type # "control" /\ inbox' = Append(inbox, m)
           \/ inbox # <<>> /\ inbox' = Tail(inbox)
    PROVE  ControlsMatch'
<1>1. inbox \in Seq(Messages) /\ control.submitted \in Seq(Submissions)
  BY DEF Typed, ControlsMatch
<1>2. Matched(control.submitted, inbox')
  <2>1. CASE UNCHANGED inbox
    BY <2>1 DEF ControlsMatch
  <2>2. CASE \E m \in Messages : m.type # "control" /\ inbox' = Append(inbox, m)
    BY <1>1, <2>2, OtherSent DEF ControlsMatch
  <2>3. CASE inbox # <<>> /\ inbox' = Tail(inbox)
    BY <1>1, <2>3, OneTaken DEF ControlsMatch
  <2> QED
    BY <2>1, <2>2, <2>3
<1> QED
  BY <1>2 DEF ControlsMatch

LEMMA SendControlMatches ==
    ASSUME Typed, ControlsMatch, NEW c \in Controls, SendControl(c)
    PROVE  ControlsMatch'
<1> DEFINE s == control.submitted
           e == control.nextEpoch + 1
           x == [epoch |-> e, command |-> c]
           m == [type |-> "control", epoch |-> e, command |-> c]
<1>1. /\ control.nextEpoch \in Nat /\ s \in Seq(Submissions) /\ inbox \in Seq(Messages)
      /\ control.applied \in Values /\ Matched(s, inbox)
      /\ \A k \in 1..Len(s) : s[k].epoch <= control.nextEpoch
  BY DEF Typed, ControlsMatch
<1>2. c \in ControlCommands /\ e \in Nat
  BY <1>1, StandingConstants
<1>3. x \in Submissions /\ m \in Messages /\ m.type = "control" /\ m.epoch = e /\ x.epoch = e
  BY <1>2 DEF Submissions, Messages
<1>4. \A k \in 1..Len(s) : s[k].epoch \in Nat /\ s[k].epoch < e
  <2> TAKE k \in 1..Len(s)
  <2>1. s[k] \in Submissions
    BY <1>1
  <2> QED
    BY <1>1, <2>1 DEF Submissions
<1>5. control' = [applied |-> control.applied, submitted |-> Append(s, x), nextEpoch |-> e]
  BY DEF SendControl, Reserve, ControlsMatch
<1>6. inbox' = Append(inbox, m)
  BY DEF SendControl, CurrentEpoch
<1> HIDE DEF s, e, x, m
<1>7. Matched(Append(s, x), Append(inbox, m))
  BY <1>1, <1>3, <1>4, ControlSent
<1>8. \A k \in 1..Len(Append(s, x)) : Append(s, x)[k].epoch <= e
  <2> TAKE k \in 1..Len(Append(s, x))
  <2>1. k = Len(s) + 1 \/ k \in 1..Len(s)
    BY <1>1, <1>3
  <2>2. CASE k \in 1..Len(s)
    BY <1>1, <1>2, <1>3, <1>4, <2>2
  <2>3. CASE k = Len(s) + 1
    BY <1>1, <1>2, <1>3, <2>3
  <2> QED
    BY <2>1, <2>2, <2>3
<1>9. Append(s, x) \in Seq(Submissions)
  BY <1>1, <1>3
<1> QED
  BY <1>1, <1>5, <1>6, <1>7, <1>8, <1>9 DEF ControlsMatch

LEMMA TakeControlMatches ==
    ASSUME Typed, ControlsMatch, TakeControl
    PROVE  ControlsMatch'
<1> DEFINE s == control.submitted
           n == control.nextEpoch
<1>1. /\ n \in Nat /\ s \in Seq(Submissions) /\ inbox \in Seq(Messages) /\ inbox # <<>>
      /\ control.applied \in Values /\ Matched(s, inbox)
      /\ \A k \in 1..Len(s) : s[k].epoch <= n
      /\ inbox' = Tail(inbox)
  BY DEF Typed, ControlsMatch, TakeControl, Take
<1>2. Head(inbox) = inbox[1] /\ inbox[1].type = "control"
  BY <1>1 DEF TakeControl, Take
<1>3. CASE Commit
  <2>1. s # <<>> /\ Matched(Tail(s), Tail(inbox))
    BY <1>1, <1>2, Committed
  <2>2. Head(s) \in Submissions /\ Tail(s) \in Seq(Submissions)
    BY <1>1, <2>1
  <2>3. Applied(control.applied, Head(s).command) \in Values
    BY <1>1, <2>2, AppliedTyped DEF Submissions
  <2>4. control' = [applied |-> Applied(control.applied, Head(s).command),
                    submitted |-> Tail(s), nextEpoch |-> n]
    BY <1>3 DEF Commit, ControlsMatch
  <2>5. \A k \in 1..Len(Tail(s)) : Tail(s)[k].epoch <= n
    <3> TAKE k \in 1..Len(Tail(s))
    <3>1. Tail(s)[k] = s[k + 1] /\ k + 1 \in 1..Len(s)
      BY <1>1, <2>1
    <3> QED
      BY <1>1, <3>1
  <2> QED
    BY <1>1, <2>1, <2>2, <2>3, <2>4, <2>5 DEF ControlsMatch
<1>4. CASE Reject(inbox[1].epoch)
  <2> DEFINE t == WithoutEpoch(inbox[1].epoch)
  <2>1. /\ \E c \in 1..Len(s) : Dropped(s, t, c)
        /\ Matched(t, Tail(inbox))
    BY <1>1, <1>2, Rejected
  <2>2. control' = [applied |-> control.applied, submitted |-> t, nextEpoch |-> n]
    BY <1>4 DEF Reject, ControlsMatch
  <2> HIDE DEF t
  <2>3. PICK c \in 1..Len(s) : Dropped(s, t, c)
    BY <2>1
  <2>4. t \in Seq(Submissions) /\ Len(t) = Len(s) - 1 /\ Len(s) \in Nat
    BY <1>1, <2>3 DEF Dropped
  <2>5. \A k \in 1..Len(t) : t[k].epoch <= n
    <3> TAKE k \in 1..Len(t)
    <3>1. k \in 1..Len(s) /\ k + 1 \in 1..Len(s)
      BY <2>4
    <3>2. t[k] = s[k] \/ t[k] = s[k + 1]
      BY <2>3 DEF Dropped
    <3> QED
      BY <1>1, <3>1, <3>2
  <2> QED
    BY <1>1, <2>1, <2>2, <2>4, <2>5 DEF ControlsMatch
<1> QED
  BY <1>2, <1>3, <1>4 DEF TakeControl

-----------------------------------------------------------------------------
\* The rows, the clearances and the rounds through a step.

\* No row is spent by the other bounds.
LEMMA NoRowSpent ==
    ASSUME Typed, NEW names, Spend(names), "rules" \notin names
    PROVE  used'.rules = used.rules
BY DEF Typed, Spend

\* No prompt is answered `always` by asking or hearing.
LEMMA NoGrantHeard ==
    ASSUME Typed, NEW a \in Askers,
           \/ UNCHANGED prompts
           \/ Hear(a)
           \/ \E k : Ask(a, k)
    PROVE  \A b \in Askers : prompts'[b].answer = "always" => prompts[b].answer = "always"
<1>1. CASE Hear(a)
  BY <1>1 DEF Typed, Hear, Silent
<1>2. CASE \E k : Ask(a, k)
  <2>1. PICK k : Ask(a, k)
    BY <1>2
  <2>2. PICK p : p = [Silent EXCEPT !.state = "pending", !.call = k, !.epoch = CurrentEpoch]
    OBVIOUS
  <2>3. p.answer = "deny"
    BY <2>2 DEF Silent
  <2>4. prompts' = [prompts EXCEPT ![a] = p]
    BY <2>1, <2>2 DEF Ask
  <2> QED
    BY <2>3, <2>4 DEF Typed
<1> QED
  BY <1>1, <1>2

\* A step that neither grants nor revokes leaves the rows alone.
LEMMA RowsAreLeft ==
    ASSUME Typed, RowsFit, UNCHANGED <<settings, view, lost>>, used'.rules = used.rules,
           \/ UNCHANGED client
           \/ client'.pc # "persist" /\ client'.row \in {client.row, NoRow},
           \A a \in Askers : prompts'[a].answer = "always" => prompts[a].answer = "always"
    PROVE  RowsFit'
<1>1. client.asker \in Askers
  BY DEF Typed, Clients
<1> QED
  BY <1>1 DEF RowsFit

LEMMA RespondFits ==
    ASSUME Typed, RowsFit, NEW a \in Askers, NEW answer \in Answers,
           NEW revised \in Calls \cup {NoCall}, Respond(a, answer, revised)
    PROVE  RowsFit'
<1>1. /\ client' = [Ready EXCEPT !.pc = "persist", !.asker = a]
      /\ prompts' = [prompts EXCEPT ![a].state = "taken",
                                    ![a].answer = Gated(prompts[a], answer),
                                    ![a].revised = revised]
      /\ answer = "always" => used.rules < MaxRules
      /\ UNCHANGED <<settings, view, used, lost>>
  BY DEF Respond
<1>2. client'.asker = a /\ client'.row = NoRow
  BY <1>1 DEF Ready
<1>3. Gated(prompts[a], answer) \in {answer, "deny"}
  BY DEF Gated
<1>4. prompts'[a].answer \in {answer, "deny"}
  BY <1>1, <1>3 DEF Typed, Prompts
<1> QED
  BY <1>1, <1>2, <1>4 DEF RowsFit

\* The row of a grant is the next one, and there is room for it.
LEMMA PersistFits ==
    ASSUME StandingInv, RowsFit, Persist
    PROVE  RowsFit'
<1> DEFINE a == client.asker
           p == prompts[a]
           row == [id |-> used.rules + 1, call |-> p.call]
<1>1. /\ Typed /\ client.pc = "persist" /\ a \in Askers /\ p.call \in Calls
      /\ used.rules \in Nat /\ MaxRules \in Nat
      /\ UNCHANGED view
  BY StandingConstants DEF Persist, StandingInv, Typed, Clients, AnswerIsTaken, PromptsMatch
<1>2. CASE /\ p.answer = "always"
           /\ settings' = [settings EXCEPT !.rows = @ \cup {row}]
           /\ client' = [client EXCEPT !.pc = "grant", !.row = row]
           /\ Spend({"rules"}) /\ UNCHANGED lost
  <2>1. used.rules < MaxRules
    BY <1>1, <1>2 DEF RowsFit
  <2>2. row \in Row
    BY <1>1, <2>1 DEF Row
  <2> HIDE DEF row
  <2>3. used'.rules = used.rules + 1
    BY <1>1, <1>2 DEF Spend, Typed
  <2>4. client'.pc = "grant" /\ client'.row = row /\ settings'.rows = settings.rows \cup {row}
    BY <1>1, <1>2 DEF Typed, Clients
  <2>5. lost' \subseteq Row /\ view' \subseteq Row /\ settings'.rows \subseteq Row
    BY <1>1, <1>2, <2>2, <2>4 DEF RowsFit
  <2> QED
    BY <1>1, <2>1, <2>2, <2>3, <2>4, <2>5 DEF RowsFit
<1>3. CASE /\ client' = [client EXCEPT !.pc = "deliver"]
           /\ UNCHANGED <<settings, lost, used>>
  <2>1. client'.pc = "deliver" /\ client'.row = client.row
    BY <1>1, <1>3 DEF Typed, Clients
  <2> QED
    BY <1>1, <1>3, <2>1 DEF RowsFit
<1>4. CASE /\ p.answer = "always"
           /\ client' = [client EXCEPT !.pc = "deliver"]
           /\ WriteFails(settings.rows \cup {row})
           /\ Spend({"rules", "failures"})
  <2>1. client'.pc = "deliver" /\ client'.row = client.row
    BY <1>1, <1>4 DEF Typed, Clients
  <2>2. used'.rules = used.rules + 1 /\ used.rules < MaxRules
    BY <1>1, <1>4 DEF Spend, Typed, RowsFit
  <2>3. row \in Row /\ settings.rows \cup {row} \in SUBSET Filed
    BY <1>1, <2>2 DEF Row, Filed, Typed
  <2> HIDE DEF row
  <2>4. /\ settings'.rows \subseteq settings.rows \cup {row}
        /\ lost' \subseteq lost \cup settings.rows
    BY <1>1, <1>4, <2>3, WriteFailed
  <2> QED
    BY <1>1, <2>1, <2>2, <2>3, <2>4 DEF RowsFit
<1> QED
  BY <1>2, <1>3, <1>4 DEF Persist

LEMMA AnnounceGrantFits ==
    ASSUME StandingInv, RowsFit, AnnounceGrant
    PROVE  RowsFit'
<1>1. client.row \in Row
  BY DEF AnnounceGrant, StandingInv, GrantIsBacked, RowsFit
<1>2. client'.pc = "deliver" /\ client'.row = client.row
  BY DEF AnnounceGrant, StandingInv, Typed, Clients
<1> QED
  BY <1>1, <1>2 DEF AnnounceGrant, RowsFit

LEMMA DeliverFits ==
    ASSUME Typed, RowsFit, Deliver
    PROVE  RowsFit'
<1>1. \A a \in Askers : prompts'[a].answer = "always" => prompts[a].answer = "always"
  BY SMTT(30) DEF Deliver, Typed, Prompts
<1>2. client'.pc # "persist" /\ client'.row = NoRow
  BY DEF Deliver, Ready
<1> QED
  BY <1>1, <1>2, RowsAreLeft DEF Deliver

LEMMA RevocationFits ==
    ASSUME Typed, RowsFit, (\E row \in settings.rows : Revoke(row)) \/ AnnounceRevocation
    PROVE  RowsFit'
<1>1. ASSUME NEW row \in settings.rows, Revoke(row) PROVE RowsFit'
  <2>1. UNCHANGED view /\ used'.rules = used.rules
    BY <1>1, NoRowSpent DEF Revoke
  <2>2. client'.pc # "persist" /\ client'.row \in Row \cup {NoRow}
    BY <1>1 DEF Revoke, Ready, RowsFit
  <2>3. settings'.rows \subseteq settings.rows /\ lost' \subseteq lost \cup settings.rows
    <3>1. CASE settings' = [settings EXCEPT !.rows = @ \ {row}] /\ UNCHANGED lost
      BY <3>1 DEF Typed
    <3>2. CASE WriteFails(settings.rows \ {row})
      <4>1. settings.rows \ {row} \in SUBSET Filed
        BY DEF Typed
      <4> QED
        BY <3>2, <4>1, WriteFailed
    <3> QED
      BY <1>1, <3>1, <3>2 DEF Revoke
  <2> QED
    BY <1>1, <2>1, <2>2, <2>3 DEF RowsFit
<1>2. CASE AnnounceRevocation
  <2>1. view' \subseteq view
    BY <1>2 DEF AnnounceRevocation, Withdrawn
  <2>2. client'.pc = "tell" /\ client'.row = client.row
    BY <1>2 DEF AnnounceRevocation, Typed, Clients
  <2> QED
    BY <1>2, <2>1, <2>2 DEF AnnounceRevocation, RowsFit
<1> QED
  BY <1>1, <1>2

\* The list of clearances is cut to its limit.
LEMMA PushLimited ==
    ASSUME NEW list \in Seq(Calls), NEW k \in Calls, Len(list) <= MaxClearances
    PROVE  Len(Push(list, k)) <= MaxClearances
<1>1. MaxClearances \in Nat /\ Len(list) \in Nat
  BY StandingConstants
<1>2. Len(Append(list, k)) = Len(list) + 1 /\ Len(Tail(Append(list, k))) = Len(list)
  OBVIOUS
<1> QED
  BY <1>1, <1>2 DEF Push

\* Only before the last round is there another one.
LEMMA AskedAgain ==
    ASSUME NEW rs, NEW planning, NEW k, NEW round, NEW p, NEW r,
           r = Resolution(rs, planning, k, round, p), r.outcome = "ask"
    PROVE  round # MaxRevisions
BY DEF Resolution

-----------------------------------------------------------------------------
\* The limits through every step.

LEMMA ClientLimits ==
    ASSUME StandingInv, LimitsInv, ClientRequest \/ ClientStep
    PROVE  LimitsInv'
<1>1. Typed /\ ControlsMatch /\ RowsFit /\ UNCHANGED <<cleared, worker, agent>>
  BY DEF StandingInv, LimitsInv, ClientRequest, ClientStep, Respond, Revoke, SendCommand,
         SendControl, Persist, AnnounceGrant, Deliver, AnnounceRevocation, TellWorker,
         clientLeaves
<1>2. FewClearances' /\ RoundsEnd'
  BY <1>1 DEF LimitsInv, FewClearances, RoundsEnd
<1>3. ASSUME NEW a \in Askers, NEW answer \in Answers, NEW revised \in Calls \cup {NoCall},
             Respond(a, answer, revised)
      PROVE  ControlsMatch' /\ RowsFit'
  BY <1>1, <1>3, RespondFits, NoControlMoves DEF Respond
<1>4. ASSUME NEW row \in settings.rows, Revoke(row) PROVE ControlsMatch' /\ RowsFit'
  BY <1>1, <1>4, RevocationFits, NoControlMoves DEF Revoke
<1>5. ASSUME NEW type \in Commands, SendCommand(type) PROVE ControlsMatch' /\ RowsFit'
  <2> DEFINE m == [type |-> type, call |-> NoCall]
  <2>1. m \in Messages /\ m.type # "control"
    BY StandingConstants DEF Messages, AllCommands
  <2>2. inbox' = Append(inbox, m) /\ UNCHANGED <<control, settings, view, prompts, client, lost>>
    BY <1>5 DEF SendCommand
  <2>3. used'.rules = used.rules
    BY <1>1, <1>5, NoRowSpent DEF SendCommand
  <2> HIDE DEF m
  <2>4. ControlsMatch'
    BY <1>1, <2>1, <2>2, NoControlMoves
  <2> QED
    BY <1>1, <2>2, <2>3, <2>4, RowsAreLeft
<1>6. ASSUME NEW c \in Controls, SendControl(c) PROVE ControlsMatch' /\ RowsFit'
  <2>1. UNCHANGED <<settings, view, prompts, client, lost>>
    BY <1>6 DEF SendControl
  <2>2. used'.rules = used.rules
    BY <1>1, <1>6, NoRowSpent DEF SendControl
  <2> QED
    BY <1>1, <1>6, <2>1, <2>2, SendControlMatches, RowsAreLeft
<1>7. CASE TellWorker
  <2> DEFINE m == [type |-> "revoke", call |-> client.row.call]
  <2>1. m \in Messages /\ m.type # "control"
    BY <1>1 DEF Messages, Typed, Clients, Rows
  <2>2. inbox' = Append(inbox, m) /\ client' = Ready
        /\ UNCHANGED <<control, settings, view, prompts, used, lost>>
    BY <1>7 DEF TellWorker
  <2> HIDE DEF m
  <2>3. ControlsMatch'
    BY <1>1, <2>1, <2>2, NoControlMoves
  <2>4. client'.pc # "persist" /\ client'.row = NoRow
    BY <2>2 DEF Ready
  <2>5. used'.rules = used.rules
    BY <2>2
  <2>6. RowsFit'
    BY <1>1, <2>2, <2>4, <2>5, RowsAreLeft
  <2> QED
    BY <1>2, <2>3, <2>6 DEF LimitsInv
<1>8. CASE Persist \/ AnnounceGrant \/ Deliver \/ AnnounceRevocation
  <2>1. UNCHANGED <<control, inbox>>
    BY <1>8 DEF Persist, AnnounceGrant, Deliver, AnnounceRevocation
  <2>2. ControlsMatch'
    BY <1>1, <2>1, NoControlMoves
  <2>3. RowsFit'
    BY <1>1, <1>8, PersistFits, AnnounceGrantFits, DeliverFits, RevocationFits
  <2> QED
    BY <1>2, <2>2, <2>3 DEF LimitsInv
<1> QED
  BY <1>2, <1>3, <1>4, <1>5, <1>6, <1>7, <1>8 DEF ClientRequest, ClientStep, LimitsInv

\* A message that is taken: a turn or a task begins without a round.
LEMMA TakeLimits ==
    ASSUME StandingInv, LimitsInv,
           \/ TakeTurn \/ TakeTask \/ TakeResume \/ TakeSession \/ TakeControl
           \/ TakeRevocation
    PROVE  LimitsInv'
<1>1. /\ Typed /\ ControlsMatch /\ RowsFit
      /\ UNCHANGED <<cleared, settings, view, client, prompts, lost>>
      /\ inbox # <<>> /\ inbox' = Tail(inbox)
  BY DEF StandingInv, LimitsInv, TakeTurn, TakeTask, TakeResume, TakeSession, TakeControl,
         TakeRevocation, Take, workerLeaves
<1>2. used'.rules = used.rules
  <2>1. used' = used \/ Spend({"failures"})
    BY DEF TakeTurn, TakeTask, TakeResume, TakeSession, TakeControl, TakeRevocation
  <2> QED
    BY <1>1, <2>1, NoRowSpent
<1>3. RowsFit' /\ FewClearances'
  BY <1>1, <1>2, RowsAreLeft DEF LimitsInv, FewClearances
<1>4. ControlsMatch'
  <2>1. UNCHANGED control \/ TakeControl
    BY DEF TakeTurn, TakeTask, TakeResume, TakeSession, TakeRevocation, workerLeaves
  <2> QED
    BY <1>1, <2>1, NoControlMoves, TakeControlMatches
<1>5. RoundsEnd'
  <2>1. worker' = worker \/ worker'.round = 0
    BY DEF TakeTurn, TakeTask, TakeResume, TakeSession, TakeControl, TakeRevocation, Idle
  <2>2. agent' = agent \/ agent'.round = 0
    BY DEF TakeTurn, TakeTask, TakeResume, TakeSession, TakeControl, TakeRevocation, Off
  <2> QED
    BY <2>1, <2>2, StandingConstants DEF LimitsInv, RoundsEnd
<1> QED
  BY <1>3, <1>4, <1>5 DEF LimitsInv

\* A turn's and an external agent's steps leave the channel and the rows.
LEMMA AskersLeave ==
    ASSUME StandingInv, LimitsInv, NEW a \in Askers,
           \/ UNCHANGED prompts
           \/ Hear(a)
           \/ \E k : Ask(a, k),
           \/ UNCHANGED used
           \/ Spend({"calls"})
           \/ Spend({"failures"}),
           UNCHANGED <<control, inbox, settings, view, client, lost>>
    PROVE  ControlsMatch' /\ RowsFit'
<1>1. Typed /\ ControlsMatch /\ RowsFit
  BY DEF StandingInv, LimitsInv
<1>2. \A b \in Askers : prompts'[b].answer = "always" => prompts[b].answer = "always"
  BY <1>1, NoGrantHeard
<1>3. used'.rules = used.rules
  BY <1>1, NoRowSpent
<1> QED
  BY <1>1, <1>2, <1>3, NoControlMoves, RowsAreLeft

LEMMA TurnLimits ==
    ASSUME StandingInv, LimitsInv, (\E k \in Calls : Call(k)) \/ Apply \/ Run \/ EndTurn
    PROVE  LimitsInv'
<1>1. /\ worker \in Workers /\ cleared \in Seq(Calls) /\ "worker" \in Askers
      /\ Len(cleared) <= MaxClearances
      /\ worker.round \in Nat /\ worker.round <= MaxRevisions
      /\ agent.round <= MaxRevisions /\ MaxRevisions \in Nat \ {0}
  BY StandingConstants
     DEF StandingInv, LimitsInv, Typed, FewClearances, RoundsEnd, Workers, Askers
<1>2. ASSUME NEW k \in Calls, Call(k) PROVE LimitsInv'
  <2>1. ControlsMatch' /\ RowsFit'
    BY <1>1, <1>2, AskersLeave DEF Call, workerLeaves
  <2>2. worker'.round \in {0, 1}
    BY <1>1, <1>2 DEF Call, Workers
  <2>3. UNCHANGED <<cleared, agent>>
    BY <1>2 DEF Call
  <2>4. worker'.round <= MaxRevisions
    BY <1>1, <2>2
  <2> QED
    BY <1>1, <2>1, <2>3, <2>4 DEF LimitsInv, FewClearances, RoundsEnd
<1>3. CASE Apply
  <2> DEFINE p == prompts["worker"]
             r == Resolution(rules, Planning, worker.call, worker.round, p)
  <2>1. r.call \in Calls
    <3>1. worker.call \in Calls /\ (p.answer = "edit" => p.revised \in Calls)
      BY <1>1, <1>3 DEF Apply, StandingInv, PromptsMatch
    <3> QED
      BY <3>1 DEF Resolution
  <2>2. /\ cleared' = IF r.clears THEN Push(cleared, r.call) ELSE cleared
        /\ worker' = [worker EXCEPT
              !.pc = CASE r.outcome = "allowed" -> "run"
                       [] r.outcome = "ask"     -> "asking"
                       [] OTHER                 -> "model",
              !.call = IF r.outcome = "denied" THEN NoCall ELSE r.call,
              !.round = IF r.outcome = "ask" THEN @ + 1 ELSE 0]
        /\ Ask("worker", r.call) \/ Hear("worker")
        /\ UNCHANGED <<control, settings, view, client, inbox, agent, used, lost>>
    BY <1>3 DEF Apply, workerLeaves
  <2>3. r.outcome = "ask" => worker.round # MaxRevisions
    BY AskedAgain
  <2> HIDE DEF r, p
  <2>4. ControlsMatch' /\ RowsFit'
    BY <1>1, <2>2, AskersLeave
  <2>5. FewClearances'
    BY <1>1, <2>1, <2>2, PushLimited DEF FewClearances
  <2>6. worker'.round <= MaxRevisions
    <3>1. worker'.round = IF r.outcome = "ask" THEN worker.round + 1 ELSE 0
      BY <1>1, <2>2 DEF Workers
    <3> QED
      BY <1>1, <2>3, <3>1
  <2> QED
    BY <1>1, <2>2, <2>4, <2>5, <2>6 DEF LimitsInv, RoundsEnd
<1>4. CASE Run
  <2>1. ControlsMatch' /\ RowsFit'
    BY <1>1, <1>4, AskersLeave DEF Run, workerLeaves
  <2>2. cleared' \in {cleared, Takes(cleared, worker.call)} /\ worker'.round = worker.round
    BY <1>1, <1>4 DEF Run, Workers
  <2>3. FewClearances'
    <3>1. Takes(cleared, worker.call) \in Seq(Calls)
          /\ Len(Takes(cleared, worker.call)) <= Len(cleared)
      BY <1>1, TakesTyped
    <3>2. Len(Takes(cleared, worker.call)) \in Nat /\ Len(cleared) \in Nat
      BY <1>1, <3>1
    <3> QED
      BY <1>1, <2>2, <3>1, <3>2, StandingConstants DEF FewClearances
  <2> QED
    BY <1>1, <1>4, <2>1, <2>2, <2>3 DEF Run, LimitsInv, RoundsEnd
<1>5. CASE EndTurn
  <2>1. ControlsMatch' /\ RowsFit'
    BY <1>1, <1>5, AskersLeave DEF EndTurn, workerLeaves
  <2>2. worker'.round = 0 /\ UNCHANGED <<cleared, agent>>
    BY <1>5 DEF EndTurn, Idle
  <2> QED
    BY <1>1, <2>1, <2>2 DEF LimitsInv, FewClearances, RoundsEnd
<1> QED
  BY <1>2, <1>3, <1>4, <1>5

LEMMA AgentLimits ==
    ASSUME StandingInv, LimitsInv, AgentStep
    PROVE  LimitsInv'
<1>1. /\ agent \in Agents /\ "agent" \in Askers
      /\ agent.round \in Nat /\ agent.round <= MaxRevisions
      /\ worker.round <= MaxRevisions /\ MaxRevisions \in Nat \ {0}
  BY StandingConstants DEF StandingInv, LimitsInv, Typed, RoundsEnd, Agents, Askers
<1>2. UNCHANGED <<control, inbox, settings, view, client, cleared, worker, lost>>
  BY DEF AgentStep, AgentCall, AgentApply, AgentEnd, agentLeaves
<1>3. ControlsMatch' /\ RowsFit'
  <2>1. UNCHANGED prompts \/ Hear("agent") \/ \E k : Ask("agent", k)
    BY DEF AgentStep, AgentCall, AgentApply, AgentEnd
  <2>2. UNCHANGED used \/ Spend({"calls"})
    BY DEF AgentStep, AgentCall, AgentApply, AgentEnd
  <2> QED
    BY <1>1, <1>2, <2>1, <2>2, AskersLeave
<1>4. agent'.round <= MaxRevisions
  <2>1. ASSUME NEW k \in Calls, AgentCall(k) PROVE agent'.round <= MaxRevisions
    <3>1. agent' = agent \/ agent' = [agent EXCEPT !.pc = "asking", !.call = k, !.round = 1]
      BY <2>1 DEF AgentCall
    <3>2. agent'.round \in {agent.round, 1}
      BY <1>1, <3>1 DEF Agents
    <3> QED
      BY <1>1, <3>2
  <2>2. CASE AgentApply
    <3> DEFINE r == Resolution(agent.rules, FALSE, agent.call, agent.round, prompts["agent"])
    <3>1. r.outcome = "ask" => agent.round # MaxRevisions
      BY AskedAgain
    <3>2. agent'.round = IF r.outcome = "ask" THEN agent.round + 1 ELSE 0
      BY <2>2 DEF AgentApply
    <3> HIDE DEF r
    <3> QED
      BY <1>1, <3>1, <3>2
  <2>3. CASE AgentEnd
    BY <1>1, <2>3 DEF AgentEnd, Off
  <2> QED
    BY <2>1, <2>2, <2>3 DEF AgentStep
<1> QED
  BY <1>1, <1>2, <1>3, <1>4 DEF LimitsInv, FewClearances, RoundsEnd

LEMMA ExpireLimits ==
    ASSUME StandingInv, LimitsInv, NEW a \in Askers, Expire(a)
    PROVE  LimitsInv'
<1>1. /\ Typed /\ ControlsMatch /\ RowsFit
      /\ UNCHANGED <<control, cleared, settings, view, inbox, worker, agent, client, used, lost>>
  BY DEF StandingInv, LimitsInv, Expire
<1>2. \A b \in Askers : prompts'[b].answer = prompts[b].answer
  BY <1>1, SMTT(30) DEF Expire, Typed, Prompts
<1>3. used'.rules = used.rules
  BY <1>1
<1>4. ControlsMatch' /\ RowsFit'
  BY <1>1, <1>2, <1>3, NoControlMoves, RowsAreLeft
<1> QED
  BY <1>1, <1>4 DEF LimitsInv, FewClearances, RoundsEnd

-----------------------------------------------------------------------------
\* Where the process starts.

LEMMA StartLimits ==
    ASSUME control = [applied |-> InitialValues, submitted |-> <<>>, nextEpoch |-> 0],
           settings.rows \subseteq Row, view \subseteq Row, lost \subseteq Row,
           used.rules <= MaxRules,
           cleared = <<>>, inbox = <<>>, worker = Idle, agent = Off, client = Ready
    PROVE  LimitsInv
<1>1. ControlsMatch
  <2>1. control.submitted = <<>> /\ control.applied = InitialValues /\ control.nextEpoch = 0
    OBVIOUS
  <2>2. Matched(<<>>, <<>>)
    BY DEF Matched, Rising
  <2> QED
    BY <2>1, <2>2, InitialValuesAssumption DEF ControlsMatch
<1>2. RowsFit
  BY DEF RowsFit, Ready
<1>3. FewClearances /\ RoundsEnd
  BY StandingConstants DEF FewClearances, RoundsEnd, Idle, Off
<1> QED
  BY <1>1, <1>2, <1>3 DEF LimitsInv

LEMMA InitLimits == Init => LimitsInv
<1> SUFFICES ASSUME Init PROVE LimitsInv
  OBVIOUS
<1>1. used.rules <= MaxRules /\ settings.rows \subseteq Row /\ view \subseteq Row /\ lost \subseteq Row
  BY StandingConstants DEF Init, Unspent
<1> QED
  BY <1>1, StartLimits DEF Init, ControlInit

LEMMA RestartLimits ==
    ASSUME StandingInv, LimitsInv, Restart
    PROVE  LimitsInv'
<1>1. used'.rules = used.rules /\ used.rules <= MaxRules
  BY NoRowSpent DEF Restart, StandingInv, LimitsInv, RowsFit
<1>2. settings'.rows \subseteq Row /\ view' \subseteq Row /\ lost' \subseteq Row
  BY FileAfterStop DEF Restart, StandingInv, LimitsInv, RowsFit
<1>3. /\ control' = [applied |-> InitialValues, submitted |-> <<>>, nextEpoch |-> 0]
      /\ cleared' = <<>> /\ inbox' = <<>> /\ worker' = Idle /\ agent' = Off
      /\ client' = Ready
  BY DEF Restart
<1>4. LET Begun == /\ control = [applied |-> InitialValues, submitted |-> <<>>, nextEpoch |-> 0]
                   /\ settings.rows \subseteq Row /\ view \subseteq Row /\ lost \subseteq Row
                   /\ used.rules <= MaxRules
                   /\ cleared = <<>> /\ inbox = <<>> /\ worker = Idle /\ agent = Off
                   /\ client = Ready
      IN  Begun' => LimitsInv'
  BY StartLimits, PTL
<1> QED
  BY <1>1, <1>2, <1>3, <1>4

LEMMA LimitsNext == StandingInv /\ LimitsInv /\ [Next]_vars => LimitsInv'
<1> SUFFICES ASSUME StandingInv, LimitsInv, [Next]_vars PROVE LimitsInv'
  OBVIOUS
<1>1. CASE UNCHANGED vars
  BY <1>1 DEF vars, LimitsInv, ControlsMatch, Matched, Rising, RowsFit, FewClearances, RoundsEnd
<1>2. CASE WorkerStep
  BY <1>2, TakeLimits, TurnLimits DEF WorkerStep
<1> QED
  BY <1>1, <1>2, ClientLimits, AgentLimits, ExpireLimits, RestartLimits DEF Next

\* No control reaches the worker without its submission, no grant is written
\* beyond the bound, and no call is asked about more than MaxRevisions times.
THEOREM LimitsHold == Spec => []LimitsInv
BY StandingInvariance, InitLimits, LimitsNext, PTL DEF Spec

\* Every variable is of its type, the lists within their limits.
THEOREM TypesHold == Spec => []TypeOK
<1>1. StandingInv /\ LimitsInv => TypeOK
  <2> SUFFICES ASSUME StandingInv, LimitsInv PROVE TypeOK
    OBVIOUS
  <2>1. settings \in [rows : SUBSET Row, readable : BOOLEAN]
    BY DEF StandingInv, LimitsInv, Typed, RowsFit
  <2>2. worker.round \in 0..MaxRevisions /\ agent.round \in 0..MaxRevisions
    BY StandingConstants DEF StandingInv, LimitsInv, Typed, RoundsEnd, Workers, Agents
  <2> QED
    BY <2>1, <2>2 DEF StandingInv, LimitsInv, Typed, ControlsMatch, RowsFit, FewClearances,
       TypeOK, Prompts, States, Named, Workers, Agents, Clients
<1> QED
  BY StandingInvariance, LimitsHold, <1>1, PTL
=============================================================================
