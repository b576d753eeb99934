------------------------- MODULE AgentSessionsProofs -------------------------
(***************************************************************************)
(* The inputs of an agent session, for any number of turns, prompts and    *)
(* held inputs: they are handed on in the order in which they were given,  *)
(* and none outlives the session it was written for.                       *)
(***************************************************************************)
EXTENDS AgentSessions, SequenceTheorems, TLAPS

Ops       == Commands \cup {"input", "drain", "control"}
Ended     == {"completed", "failed", "cancelled", "paused", "killed"}
TurnPcs   == {"off", "spawn", "work", "ask", "await", "record", "tell", "arm", "done"}
WorkerPcs == {"idle", "check", "start", "mark", "stop", "publish"}

Jobs     == [status : JobStatuses, turn : Nat, pid : BOOLEAN, result : BOOLEAN]
Entries  == [state : {"none", "running", "pending"}, prompt : 0..MaxPrompts]
Threads  == [pc : TurnPcs, prompt : Nat, ending : Ended \cup {"none"}, pid : BOOLEAN,
             result : BOOLEAN]
Messages == [op : Ops, n : Nat]
Workers  == [pc : WorkerPcs, op : Commands \cup {"input"}, input : Nat, status : JobStatuses]
Uses     == [runs : Nat, commands : Nat, prompts : Nat, failures : Nat, turns : Nat]

\* A thread that came to an end says which; after a pause or a kill it tells
\* nothing.
ThreadSound(t) ==
    /\ turns[t].pc # "off" => t <= used.turns
    /\ turns[t].pc = "record" => turns[t].ending \in Ended
    /\ turns[t].pc = "tell" => turns[t].ending \in Ended \ {"paused", "killed"}

ControlShaped ==
    /\ control = [applied |-> control.applied, submitted |-> control.submitted,
                  nextEpoch |-> control.nextEpoch]
    /\ control.nextEpoch \in Nat

Typed ==
    /\ ControlShaped
    /\ view \in Statuses
    /\ job \in Jobs /\ job.turn <= used.turns
    /\ marker \in Interrupts \cup {"none"}
    /\ active \in Entries
    /\ turns \in [Turns -> Threads]
    /\ held \in Seq(Inputs) /\ Len(held) <= MaxHeld
    /\ inbox \in Seq(Messages)
    /\ worker \in Workers
    /\ kept \subseteq 1..used.runs
    /\ used \in Uses /\ used.runs <= MaxRuns

\* What the worker is about: an interruption, or a turn, of an input or not.
Working ==
    /\ worker.pc \in {"mark", "stop", "publish"} => worker.op \in Interrupts
    /\ worker.input # 0 => worker.pc \in {"check", "start"}

\* Inputs reach the worker in the order in which they were sent, after all it
\* holds.
InputsSent ==
    /\ \A i \in 1..Len(inbox) : inbox[i].op = "input" =>
          /\ inbox[i].n \in 1..used.runs
          /\ \A k \in kept : k < inbox[i].n
    /\ \A i, j \in 1..Len(inbox) :
          inbox[i].op = "input" /\ inbox[j].op = "input" /\ i < j => inbox[i].n < inbox[j].n

\* The held inputs are in order, and they are what is kept, but for the one
\* the worker is handing on, which is older.
HeldInOrder ==
    /\ \A k, l \in 1..Len(held) : k < l => held[k] < held[l]
    /\ \A k \in 1..Len(held) : held[k] \in kept
    /\ \A i \in kept : i = worker.input \/ \E k \in 1..Len(held) : held[k] = i
    /\ worker.input \in kept => \A k \in 1..Len(held) : worker.input < held[k]

\* The inductive invariant.
SessionInv ==
    /\ Typed
    /\ \A t \in Turns : ThreadSound(t)
    /\ Working
    /\ InputsSent
    /\ HeldInOrder

-----------------------------------------------------------------------------
\* What the model's operators return.

LEMMA Constants ==
    /\ MaxRuns \in Nat /\ MaxHeld \in Nat /\ MaxHeld > 0 /\ MaxPrompts \in Nat
    /\ MaxCommands \in Nat /\ MaxFailures \in Nat
    /\ Operations \subseteq Commands
    /\ Idle \in Workers /\ Idle.pc = "idle" /\ Idle.input = 0
    /\ Off \in Threads /\ Off.pc = "off" /\ Gone \in Threads /\ Gone.pc = "done"
    /\ NoEntry \in Entries
<1>1. /\ MaxRuns \in Nat /\ MaxHeld \in Nat /\ MaxHeld > 0 /\ MaxPrompts \in Nat
      /\ MaxCommands \in Nat /\ MaxFailures \in Nat
      /\ Operations \subseteq Commands
  BY AgentConstants
<1>2. Idle \in Workers /\ Idle.pc = "idle" /\ Idle.input = 0
  BY DEF Idle, Workers, WorkerPcs, Commands, JobStatuses
<1>3. Off \in Threads /\ Off.pc = "off"
  BY DEF Off, Threads, TurnPcs
<1>4. Gone \in Threads /\ Gone.pc = "done"
  BY <1>3 DEF Gone, Threads, TurnPcs
<1>5. NoEntry \in Entries
  BY <1>1 DEF NoEntry, Entries
<1> QED
  BY <1>1, <1>2, <1>3, <1>4, <1>5

LEMMA Spending ==
    ASSUME used \in Uses, NEW name \in {"runs", "commands", "prompts", "failures"},
           NEW limit \in Nat, Spend(name, limit)
    PROVE  /\ used' \in Uses /\ used'.turns = used.turns
           /\ used'.runs = IF name = "runs" THEN used.runs + 1 ELSE used.runs
           /\ used'.prompts = IF name = "prompts" THEN used.prompts + 1 ELSE used.prompts
           /\ name = "runs" => used.runs < limit
           /\ name = "prompts" => used.prompts < limit
BY DEF Spend, Uses

LEMMA StatusOfs ==
    ASSUME NEW op \in Interrupts
    PROVE  StatusOf[op] \in JobStatuses /\ StatusOf[op] \in Statuses /\ StatusOf[op] \in Ended
BY DEF Interrupts, StatusOf, JobStatuses, Statuses, Terminal, Ended

LEMMA EndingTyped ==
    ASSUME marker \in Interrupts \cup {"none"}, NEW outcome
    PROVE  Ending(outcome) \in Ended
<1>1. InterruptRead \in Interrupts \cup {"none"}
  BY DEF InterruptRead
<1>2. CASE InterruptRead = "none"
  BY <1>2 DEF Ending, Ended
<1>3. CASE InterruptRead # "none"
  <2>1. PICK op \in Interrupts : op = InterruptRead
    BY <1>1, <1>3
  <2>2. Ending(outcome) = StatusOf[op]
    BY <1>3, <2>1 DEF Ending
  <2> QED
    BY <2>2, StatusOfs
<1> QED
  BY <1>2, <1>3

LEMMA JobStatusTyped ==
    ASSUME NEW ending \in Ended
    PROVE  JobStatus(ending) \subseteq JobStatuses
BY DEF JobStatus, JobStatuses, Ended

\* A thread of a turn is rewritten.
LEMMA Threading ==
    ASSUME turns \in [Turns -> Threads], NEW t \in Turns, NEW x \in Threads,
           turns' = [turns EXCEPT ![t] = x]
    PROVE  /\ turns' \in [Turns -> Threads] /\ turns'[t] = x
           /\ \A s \in Turns : s # t => turns'[s] = turns[s]
OBVIOUS

LEMMA Sending ==
    ASSUME inbox \in Seq(Messages), NEW m \in Messages, inbox' = Append(inbox, m)
    PROVE  /\ inbox' \in Seq(Messages) /\ Len(inbox') = Len(inbox) + 1
           /\ Len(inbox) \in Nat /\ inbox'[Len(inbox) + 1] = m
           /\ \A i \in 1..Len(inbox) : inbox'[i] = inbox[i]
           /\ \A i \in 1..Len(inbox') : i \in 1..Len(inbox) \/ i = Len(inbox) + 1
OBVIOUS

LEMMA Taking ==
    ASSUME inbox \in Seq(Messages), NEW op, Take(op)
    PROVE  /\ inbox' \in Seq(Messages) /\ Len(inbox') = Len(inbox) - 1
           /\ Len(inbox) \in Nat /\ 1 \in 1..Len(inbox)
           /\ Head(inbox) = inbox[1] /\ inbox[1] \in Messages /\ inbox[1].op = op
           /\ \A i \in 1..Len(inbox') : inbox'[i] = inbox[i + 1] /\ i + 1 \in 1..Len(inbox)
           /\ worker.pc = "idle"
<1>1. inbox # <<>> /\ inbox' = Tail(inbox) /\ Head(inbox).op = op /\ worker.pc = "idle"
  BY DEF Take
<1> QED
  BY <1>1

-----------------------------------------------------------------------------
\* Steps that leave the inputs alone, or their order.

\* A message that is no input comes, or any message goes.
OtherMail ==
    \/ UNCHANGED inbox
    \/ \E m \in Messages : m.op # "input" /\ inbox' = Append(inbox, m)
    \/ \E op \in Ops : Take(op)

LEMMA MailInOrder ==
    ASSUME SessionInv, OtherMail, kept' \subseteq kept, used'.runs = used.runs
    PROVE  inbox' \in Seq(Messages) /\ InputsSent'
<1>1. inbox \in Seq(Messages) /\ InputsSent
  BY DEF SessionInv, Typed
<1>2. CASE UNCHANGED inbox
  BY <1>1, <1>2 DEF InputsSent
<1>3. ASSUME NEW m \in Messages, m.op # "input", inbox' = Append(inbox, m)
      PROVE  inbox' \in Seq(Messages) /\ InputsSent'
  <2>1. /\ inbox' \in Seq(Messages)
        /\ \A i \in 1..Len(inbox') : inbox'[i].op = "input" =>
              i \in 1..Len(inbox) /\ inbox'[i] = inbox[i]
    BY <1>1, <1>3, Sending
  <2> QED
    BY <1>1, <2>1 DEF InputsSent
<1>4. ASSUME NEW op \in Ops, Take(op)
      PROVE  inbox' \in Seq(Messages) /\ InputsSent'
  <2>1. /\ inbox' \in Seq(Messages) /\ Len(inbox) \in Nat /\ Len(inbox') = Len(inbox) - 1
        /\ \A i \in 1..Len(inbox') : inbox'[i] = inbox[i + 1] /\ i + 1 \in 1..Len(inbox)
    BY <1>1, <1>4, Taking
  <2>2. ASSUME NEW i \in 1..Len(inbox'), inbox'[i].op = "input"
        PROVE  inbox'[i].n \in 1..used.runs /\ \A k \in kept : k < inbox'[i].n
    BY <1>1, <2>1, <2>2 DEF InputsSent
  <2>3. ASSUME NEW i \in 1..Len(inbox'), NEW j \in 1..Len(inbox'),
               inbox'[i].op = "input", inbox'[j].op = "input", i < j
        PROVE  inbox'[i].n < inbox'[j].n
    <3>1. i + 1 \in 1..Len(inbox) /\ j + 1 \in 1..Len(inbox) /\ i + 1 < j + 1
      BY <2>1, <2>3
    <3> QED
      BY <1>1, <2>1, <2>3, <3>1 DEF InputsSent
  <2> QED
    BY <2>1, <2>2, <2>3 DEF InputsSent
<1> QED
  BY <1>2, <1>3, <1>4 DEF OtherMail

\* Nothing happens to what is held.
HeldStays ==
    held' = held /\ kept' = kept /\ worker'.input = worker.input

LEMMA HeldStaysInOrder ==
    ASSUME HeldInOrder, HeldStays
    PROVE  HeldInOrder'
BY DEF HeldInOrder, HeldStays

\* A step of a turn's thread, or of its approval, and the clients' steps.
LEMMA QuietPreserves ==
    ASSUME SessionInv, OtherMail, HeldStays, UNCHANGED <<control, worker>>,
           view' \in Statuses, job' \in Jobs, job'.turn <= used'.turns,
           marker' \in Interrupts \cup {"none"}, active' \in Entries,
           turns' \in [Turns -> Threads], used' \in Uses, used'.runs = used.runs,
           \A t \in Turns : ThreadSound(t)'
    PROVE  SessionInv'
<1>1. inbox' \in Seq(Messages) /\ InputsSent'
  BY MailInOrder DEF HeldStays
<1>2. HeldInOrder'
  BY HeldStaysInOrder DEF SessionInv
<1>3. Typed'
  BY <1>1 DEF SessionInv, Typed, ControlShaped, HeldStays
<1> QED
  BY <1>1, <1>2, <1>3 DEF SessionInv, Working

\* Threads that are not touched stay sound, and so does the one a step moves
\* on.
LEMMA ThreadsStay ==
    ASSUME SessionInv, UNCHANGED turns, used'.turns = used.turns
    PROVE  turns' \in [Turns -> Threads] /\ \A t \in Turns : ThreadSound(t)'
BY DEF SessionInv, Typed, ThreadSound

LEMMA ThreadMoves ==
    ASSUME SessionInv, NEW t \in Turns, NEW x \in Threads, turns' = [turns EXCEPT ![t] = x],
           turns[t].pc # "off", used'.turns = used.turns,
           x.pc = "record" => x.ending \in Ended,
           x.pc = "tell" => x.ending \in Ended \ {"paused", "killed"}
    PROVE  turns' \in [Turns -> Threads] /\ \A s \in Turns : ThreadSound(s)'
<1>1. /\ turns' \in [Turns -> Threads] /\ turns'[t] = x
      /\ \A s \in Turns : s # t => turns'[s] = turns[s]
  BY Threading DEF SessionInv, Typed
<1> QED
  BY <1>1 DEF SessionInv, ThreadSound

-----------------------------------------------------------------------------
\* Approvals and clients.

\* A control is submitted, withdrawn or applied.
LEMMA ControlMoves ==
    ASSUME ControlShaped, NEW c, NEW epoch, Reserve(c) \/ Commit \/ Reject(epoch)
    PROVE  ControlShaped'
<1>1. PICK a, s, n : /\ control = [applied |-> a, submitted |-> s, nextEpoch |-> n]
                     /\ n \in Nat
  BY DEF ControlShaped
<1>2. PICK b, q, m :
         /\ control' = [applied |-> b, submitted |-> q, nextEpoch |-> m]
         /\ m \in Nat
  <2>1. CASE Reserve(c)
    <3> DEFINE more == Append(s, [epoch |-> n + 1, command |-> c])
               next == n + 1
    <3>1. control' = [control EXCEPT !.nextEpoch = next, !.submitted = more]
      BY <1>1, <2>1 DEF Reserve
    <3>2. next \in Nat
      BY <1>1
    <3> HIDE DEF more, next
    <3>3. control' = [applied |-> a, submitted |-> more, nextEpoch |-> next]
      BY <1>1, <3>1
    <3> QED
      BY <3>2, <3>3
  <2>2. CASE Commit
    <3> DEFINE value == Applied(a, Head(s).command)
               rest  == Tail(s)
    <3>1. control' = [control EXCEPT !.applied = value, !.submitted = rest]
      BY <1>1, <2>2 DEF Commit
    <3> HIDE DEF value, rest
    <3>2. control' = [applied |-> value, submitted |-> rest, nextEpoch |-> n]
      BY <1>1, <3>1
    <3> QED
      BY <1>1, <3>2
  <2>3. CASE Reject(epoch)
    <3> DEFINE rest == WithoutEpoch(epoch)
    <3>1. control' = [control EXCEPT !.submitted = rest]
      BY <2>3 DEF Reject
    <3> HIDE DEF rest
    <3>2. control' = [applied |-> a, submitted |-> rest, nextEpoch |-> n]
      BY <1>1, <3>1
    <3> QED
      BY <1>1, <3>2
  <2> QED
    BY <2>1, <2>2, <2>3
<1> QED
  BY <1>1, <1>2 DEF ControlShaped

LEMMA DenialTyped ==
    ASSUME active \in Entries, DenyAwaited
    PROVE  active' \in Entries
BY Constants DEF DenyAwaited, Deny

LEMMA ApprovalPreserves ==
    ASSUME SessionInv, active' \in Entries, used' \in Uses, used'.runs = used.runs,
           used'.turns = used.turns, UNCHANGED approvalLeaves
    PROVE  SessionInv'
<1>1. OtherMail /\ HeldStays
  BY DEF OtherMail, HeldStays, approvalLeaves
<1>2. turns' \in [Turns -> Threads] /\ \A t \in Turns : ThreadSound(t)'
  BY ThreadsStay DEF approvalLeaves
<1> QED
  BY <1>1, <1>2, QuietPreserves DEF approvalLeaves, SessionInv, Typed

LEMMA ExpirePreserves ==
    ASSUME SessionInv, NEW p \in Prompts, Expire(p)
    PROVE  SessionInv'
<1>1. active' \in Entries
  BY Constants DEF Expire, Deny
<1> QED
  BY <1>1, ApprovalPreserves DEF Expire, SessionInv, Typed

LEMMA RespondPreserves ==
    ASSUME SessionInv, NEW p \in Prompts, NEW allow \in BOOLEAN, Respond(p, allow)
    PROVE  SessionInv'
<1>1. [state |-> "running", prompt |-> 0] \in Entries
  BY Constants DEF Entries
<1>2. active' \in Entries
  BY <1>1 DEF Respond, SessionInv, Typed
<1> QED
  BY <1>2, ApprovalPreserves DEF Respond, SessionInv, Typed

LEMMA CancelActiveTurnPreserves ==
    ASSUME SessionInv, CancelActiveTurn
    PROVE  SessionInv'
<1>1. active' \in Entries
  BY DenialTyped DEF CancelActiveTurn, SessionInv, Typed
<1>2. used' \in Uses /\ used'.runs = used.runs /\ used'.turns = used.turns
  BY Spending, Constants DEF CancelActiveTurn, SessionInv, Typed
<1> QED
  BY <1>1, <1>2, ApprovalPreserves DEF CancelActiveTurn

\* A start or a retry spends a run that no input will have: the inputs sent
\* keep their order.
LEMMA SubmitPreserves ==
    ASSUME SessionInv, NEW op \in Operations \ {"stop"}, Submit(op)
    PROVE  SessionInv'
<1>1. PICK m : m = Message(op, 0)
  OBVIOUS
<1>2. m \in Messages /\ m.op # "input" /\ inbox' = Append(inbox, m)
  BY <1>1, Constants DEF Submit, Message, Messages, Ops, Commands
<1>3. /\ used' \in Uses /\ used'.turns = used.turns
      /\ used'.runs \in {used.runs, used.runs + 1} /\ used'.runs <= MaxRuns
  <2>1. CASE op \in {"start", "retry"}
    BY <2>1, Spending, Constants DEF Submit, SessionInv, Typed, Uses
  <2>2. CASE op \notin {"start", "retry"}
    BY <2>2, Spending, Constants DEF Submit, SessionInv, Typed
  <2> QED
    BY <2>1, <2>2
<1>4. used.runs \in Nat /\ used'.runs \in Nat /\ used.runs <= used'.runs
  BY <1>3 DEF SessionInv, Typed, Uses
<1>5. UNCHANGED <<control, view, job, marker, active, turns, held, worker, kept>>
  BY DEF Submit, clientLeaves
<1>6. \A i \in 1..Len(inbox') : inbox'[i].op = "input" =>
         i \in 1..Len(inbox) /\ inbox'[i] = inbox[i]
  BY <1>2, Sending DEF SessionInv, Typed
<1>7. inbox' \in Seq(Messages)
  BY <1>2 DEF SessionInv, Typed
<1>8. InputsSent'
  BY <1>4, <1>5, <1>6, SMTT(30) DEF SessionInv, InputsSent
<1>9. turns' \in [Turns -> Threads] /\ \A t \in Turns : ThreadSound(t)'
  BY <1>3, <1>5, ThreadsStay
<1>10. kept \subseteq 1..used'.runs
  BY <1>4 DEF SessionInv, Typed
<1>11. Typed'
  BY <1>3, <1>5, <1>7, <1>9, <1>10 DEF SessionInv, Typed, ControlShaped
<1> QED
  BY <1>5, <1>8, <1>9, <1>11 DEF SessionInv, Working, HeldInOrder

\* An input's number is above all before it.
LEMMA SendInputPreserves ==
    ASSUME SessionInv, SendInput
    PROVE  SessionInv'
<1>1. PICK n : n = used.runs + 1
  OBVIOUS
<1>2. PICK m : m = Message("input", n)
  OBVIOUS
<1>3. /\ used' \in Uses /\ used'.turns = used.turns
      /\ used'.runs = n /\ n <= MaxRuns /\ n \in Nat /\ used.runs \in Nat
  BY <1>1, Spending, Constants DEF SendInput, SessionInv, Typed, Uses
<1>4. m \in Messages /\ m.op = "input" /\ m.n = n /\ inbox' = Append(inbox, m)
  BY <1>1, <1>2, <1>3 DEF SendInput, Message, Messages, Ops
<1>5. UNCHANGED <<control, view, job, marker, active, turns, held, worker, kept>>
  BY DEF SendInput, clientLeaves
<1>6. /\ inbox' \in Seq(Messages) /\ Len(inbox) \in Nat /\ Len(inbox') = Len(inbox) + 1
      /\ inbox'[Len(inbox) + 1] = m
      /\ \A i \in 1..Len(inbox) : inbox'[i] = inbox[i]
      /\ \A i \in 1..Len(inbox') : i \in 1..Len(inbox) \/ i = Len(inbox) + 1
  BY <1>4, Sending DEF SessionInv, Typed
<1>7. kept \subseteq 1..used.runs
  BY DEF SessionInv, Typed
<1>8. ASSUME NEW i \in 1..Len(inbox'), inbox'[i].op = "input"
      PROVE  inbox'[i].n \in 1..n /\ \A k \in kept : k < inbox'[i].n
  <2>1. CASE i = Len(inbox) + 1
    BY <1>1, <1>3, <1>4, <1>6, <1>7, <2>1
  <2>2. CASE i \in 1..Len(inbox)
    BY <1>1, <1>3, <1>6, <1>8, <2>2 DEF SessionInv, InputsSent
  <2> QED
    BY <1>6, <2>1, <2>2
<1>9. ASSUME NEW i \in 1..Len(inbox'), NEW j \in 1..Len(inbox'),
             inbox'[i].op = "input", inbox'[j].op = "input", i < j
      PROVE  inbox'[i].n < inbox'[j].n
  <2>1. i \in 1..Len(inbox)
    BY <1>6, <1>9
  <2>2. inbox[i].n \in 1..used.runs
    BY <1>6, <1>9, <2>1 DEF SessionInv, InputsSent
  <2>3. CASE j = Len(inbox) + 1
    BY <1>1, <1>3, <1>4, <1>6, <2>1, <2>2, <2>3
  <2>4. CASE j \in 1..Len(inbox)
    BY <1>6, <1>9, <2>1, <2>4 DEF SessionInv, InputsSent
  <2> QED
    BY <1>6, <2>3, <2>4
<1>10. InputsSent'
  BY <1>3, <1>5, <1>8, <1>9 DEF InputsSent
<1>11. turns' \in [Turns -> Threads] /\ \A t \in Turns : ThreadSound(t)'
  BY <1>3, <1>5, ThreadsStay
<1>12. kept \subseteq 1..used'.runs
  BY <1>1, <1>3, <1>7
<1>13. Typed'
  BY <1>3, <1>5, <1>6, <1>11, <1>12 DEF SessionInv, Typed, ControlShaped
<1> QED
  BY <1>5, <1>10, <1>11, <1>13 DEF SessionInv, Working, HeldInOrder

LEMMA SendControlPreserves ==
    ASSUME SessionInv, NEW c \in Controls, SendControl(c)
    PROVE  SessionInv'
<1>1. ControlShaped' /\ CurrentEpoch \in Nat
  BY ControlMoves DEF SendControl, CurrentEpoch, SessionInv, Typed, ControlShaped
<1>2. PICK m : m = Message("control", CurrentEpoch + 1)
  OBVIOUS
<1>3. m \in Messages /\ m.op # "input" /\ inbox' = Append(inbox, m)
  BY <1>1, <1>2 DEF SendControl, Message, Messages, Ops
<1>4. used' \in Uses /\ used'.runs = used.runs /\ used'.turns = used.turns
  BY Spending, Constants DEF SendControl, SessionInv, Typed
<1>5. UNCHANGED <<view, job, marker, active, turns, held, worker, kept>>
  BY DEF SendControl, clientLeaves
<1>6. OtherMail
  BY <1>3 DEF OtherMail
<1>7. inbox' \in Seq(Messages) /\ InputsSent'
  BY <1>4, <1>5, <1>6, MailInOrder
<1>8. turns' \in [Turns -> Threads] /\ \A t \in Turns : ThreadSound(t)'
  BY <1>4, <1>5, ThreadsStay
<1>9. Typed'
  BY <1>1, <1>4, <1>5, <1>7, <1>8 DEF SessionInv, Typed
<1> QED
  BY <1>5, <1>7, <1>8, <1>9 DEF SessionInv, Working, HeldInOrder

LEMMA ClientStepPreserves ==
    ASSUME SessionInv, ClientStep
    PROVE  SessionInv'
BY SubmitPreserves, SendInputPreserves, SendControlPreserves, CancelActiveTurnPreserves,
   RespondPreserves DEF ClientStep

-----------------------------------------------------------------------------
\* The worker.

\* A step that sends no input and holds none.
LEMMA WorkerPreserves ==
    ASSUME SessionInv, OtherMail, ControlShaped', view' \in Statuses, job' \in Jobs,
           job'.turn <= used'.turns, marker' \in Interrupts \cup {"none"}, active' \in Entries,
           held' \in Seq(Inputs), Len(held') <= MaxHeld, kept' \subseteq kept, HeldInOrder',
           worker' \in Workers, Working', used' \in Uses, used'.runs = used.runs,
           turns' \in [Turns -> Threads], \A t \in Turns : ThreadSound(t)'
    PROVE  SessionInv'
<1>1. inbox' \in Seq(Messages) /\ InputsSent'
  BY MailInOrder
<1>2. Typed'
  BY <1>1 DEF SessionInv, Typed
<1> QED
  BY <1>1, <1>2 DEF SessionInv

\* Most of the worker's steps leave the threads and the control alone.
LEMMA HandlingPreserves ==
    ASSUME SessionInv, OtherMail, UNCHANGED <<control, turns>>, view' \in Statuses, job' \in Jobs,
           job'.turn = job.turn, marker' \in Interrupts \cup {"none"}, active' \in Entries,
           held' \in Seq(Inputs), Len(held') <= MaxHeld, kept' \subseteq kept, HeldInOrder',
           worker' \in Workers, Working', used' \in Uses, used'.runs = used.runs,
           used'.turns = used.turns
    PROVE  SessionInv'
<1>1. turns' \in [Turns -> Threads] /\ \A t \in Turns : ThreadSound(t)'
  BY ThreadsStay
<1>2. ControlShaped' /\ job'.turn <= used'.turns
  BY DEF SessionInv, Typed, ControlShaped
<1> QED
  BY <1>1, <1>2, WorkerPreserves

\* The worker is at rest, and owes no input.
LEMMA NothingInHand ==
    ASSUME SessionInv, worker.pc \notin {"check", "start"}
    PROVE  worker.input = 0 /\ worker.input \notin kept
<1>1. worker.input = 0 /\ kept \subseteq 1..used.runs
  BY DEF SessionInv, Working, Typed
<1> QED
  BY <1>1

\* The worker goes on to something else, with no input in hand.
LEMMA NextInHand ==
    ASSUME SessionInv, NEW w \in Workers, worker' = w, w.input = 0,
           worker.pc \notin {"check", "start"},
           w.pc \in {"mark", "stop", "publish"} => w.op \in Interrupts, UNCHANGED <<held, kept>>
    PROVE  Working' /\ HeldInOrder'
<1>1. HeldStays
  BY NothingInHand DEF HeldStays
<1>2. HeldInOrder'
  BY <1>1, HeldStaysInOrder DEF SessionInv
<1> QED
  BY <1>2 DEF Working

LEMMA TakeControlPreserves ==
    ASSUME SessionInv, TakeControl
    PROVE  SessionInv'
<1>1. OtherMail
  BY DEF TakeControl, OtherMail, Ops
<1>2. ControlShaped'
  BY ControlMoves DEF TakeControl, SessionInv, Typed
<1>3. used' \in Uses /\ used'.runs = used.runs /\ used'.turns = used.turns
  BY Spending, Constants DEF TakeControl, SessionInv, Typed
<1>4. turns' \in [Turns -> Threads] /\ \A t \in Turns : ThreadSound(t)'
  BY <1>3, ThreadsStay DEF TakeControl
<1>5. HeldInOrder' /\ Working'
  BY HeldStaysInOrder DEF TakeControl, HeldStays, SessionInv, Working
<1> QED
  BY <1>1, <1>2, <1>3, <1>4, <1>5, WorkerPreserves DEF TakeControl, SessionInv, Typed

LEMMA TakeStartPreserves ==
    ASSUME SessionInv, TakeStart
    PROVE  SessionInv'
<1>1. PICK op \in {"start", "retry"} :
         /\ Take(op)
         /\ worker' = IF op = "start" /\ view # "none" THEN Idle
                      ELSE [Idle EXCEPT !.pc = "check", !.op = op]
  BY DEF TakeStart
<1>2. OtherMail /\ worker.pc = "idle"
  BY <1>1 DEF OtherMail, Ops, Commands, Take
<1>3. PICK w \in Workers : worker' = w /\ w.input = 0 /\ w.pc \in {"idle", "check"}
  <2>1. PICK w : w = worker'
    OBVIOUS
  <2>2. CASE w = Idle
    BY <2>1, <2>2, Constants
  <2>3. CASE w = [Idle EXCEPT !.pc = "check", !.op = op]
    <3>1. w \in Workers /\ w.pc = "check" /\ w.input = 0
      BY <2>3 DEF Idle, Workers, WorkerPcs, Commands, JobStatuses
    <3> QED
      BY <2>1, <3>1
  <2> QED
    BY <1>1, <2>1, <2>2, <2>3
<1>4. Working' /\ HeldInOrder'
  BY <1>2, <1>3, NextInHand DEF TakeStart
<1> QED
  BY <1>2, <1>3, <1>4, HandlingPreserves DEF TakeStart, SessionInv, Typed, workerLeaves

LEMMA TakeInterruptPreserves ==
    ASSUME SessionInv, TakeInterrupt
    PROVE  SessionInv'
<1>1. PICK op \in {"pause", "kill"} :
         /\ Take(op)
         /\ \/ UNCHANGED <<prompts, active, worker>>
            \/ DenyAwaited /\ worker' = [Idle EXCEPT !.pc = "mark", !.op = op]
  BY DEF TakeInterrupt
<1>2. OtherMail /\ worker.pc = "idle"
  BY <1>1 DEF OtherMail, Ops, Commands, Take
<1>3. active' \in Entries
  BY <1>1, DenialTyped DEF SessionInv, Typed
<1>4. PICK w \in Workers : worker' = w /\ w.input = 0 /\ (w.pc = "idle" \/ w.op \in Interrupts)
  <2>1. CASE UNCHANGED worker
    BY <1>2, <2>1, NothingInHand DEF SessionInv, Typed
  <2>2. CASE worker' = [Idle EXCEPT !.pc = "mark", !.op = op]
    <3>1. PICK w : w = [Idle EXCEPT !.pc = "mark", !.op = op]
      OBVIOUS
    <3>2. w \in Workers /\ w.op = op /\ w.input = 0
      BY <3>1 DEF Idle, Workers, WorkerPcs, Commands, JobStatuses
    <3> QED
      BY <2>2, <3>1, <3>2 DEF Interrupts
  <2> QED
    BY <1>1, <2>1, <2>2
<1>5. Working' /\ HeldInOrder'
  BY <1>2, <1>4, NextInHand DEF TakeInterrupt
<1> QED
  BY <1>2, <1>3, <1>4, <1>5, HandlingPreserves DEF TakeInterrupt, SessionInv, Typed, workerLeaves

\* Nothing is held any more.
LEMMA NothingHeld ==
    ASSUME held' = <<>>, kept' = {}
    PROVE  HeldInOrder' /\ held' \in Seq(Inputs) /\ Len(held') = 0
BY DEF HeldInOrder

LEMMA TakeCancelPreserves ==
    ASSUME SessionInv, TakeCancel
    PROVE  SessionInv'
<1>1. OtherMail /\ worker.pc = "idle"
  BY DEF TakeCancel, OtherMail, Ops, Commands, Take
<1>2. active' \in Entries
  BY DenialTyped DEF TakeCancel, SessionInv, Typed
<1>3. worker' \in Workers /\ Working'
  <2>1. CASE UNCHANGED worker
    BY <2>1 DEF SessionInv, Typed, Working
  <2>2. CASE worker' = [Idle EXCEPT !.pc = "mark", !.op = "cancel"]
    <3>1. PICK w : w = [Idle EXCEPT !.pc = "mark", !.op = "cancel"]
      OBVIOUS
    <3>2. w \in Workers /\ w.op = "cancel" /\ w.input = 0
      BY <3>1 DEF Idle, Workers, WorkerPcs, Commands, JobStatuses
    <3> QED
      BY <2>2, <3>1, <3>2 DEF Working, Interrupts
  <2> QED
    BY <2>1, <2>2 DEF TakeCancel
<1>4. HeldInOrder' /\ held' \in Seq(Inputs) /\ Len(held') <= MaxHeld
  BY NothingHeld, Constants DEF TakeCancel
<1> QED
  BY <1>1, <1>2, <1>3, <1>4, HandlingPreserves DEF TakeCancel, SessionInv, Typed, workerLeaves

\* The oldest held input is handed on.
LEMMA Forwarding ==
    ASSUME SessionInv, worker.pc = "idle", held # <<>>, ForwardHeld, UNCHANGED kept
    PROVE  /\ held' \in Seq(Inputs) /\ Len(held') <= MaxHeld
           /\ worker' \in Workers /\ Working' /\ HeldInOrder'
<1>1. held \in Seq(Inputs) /\ Len(held) \in Nat /\ Len(held) <= MaxHeld
  BY DEF SessionInv, Typed
<1>2. held' = Tail(held)
  <2>1. held' = SubSeq(held, 1, 0) \o SubSeq(held, 2, Len(held))
    BY DEF ForwardHeld, NextHeld, RemoveAt
  <2>2. SubSeq(held, 1, 0) = <<>> /\ SubSeq(held, 2, Len(held)) = Tail(held)
    BY <1>1
  <2>3. Tail(held) \in Seq(Inputs)
    BY <1>1
  <2>4. <<>> \o Tail(held) = Tail(held)
    BY <2>3, ConcatEmptySeq
  <2> QED
    BY ONLY <2>1, <2>2, <2>4
<1>3. /\ held' \in Seq(Inputs) /\ Len(held') = Len(held) - 1 /\ 1 \in 1..Len(held)
      /\ \A k \in 1..Len(held') : held'[k] = held[k + 1] /\ k + 1 \in 1..Len(held)
  BY <1>1, <1>2
<1>4. held[1] \in Nat
  BY <1>1, <1>3, Constants DEF Inputs
<1>5. worker' \in Workers /\ worker'.pc = "check" /\ worker'.input = held[1]
  <2>1. PICK i \in Nat : i = held[1]
    BY <1>4
  <2>2. PICK w : w = [Idle EXCEPT !.pc = "check", !.op = "input", !.input = i]
    OBVIOUS
  <2>3. w \in Workers /\ w.pc = "check" /\ w.input = i
    BY <2>2 DEF Idle, Workers, WorkerPcs, Commands, JobStatuses
  <2>4. worker' = w
    BY <2>1, <2>2 DEF ForwardHeld, NextHeld
  <2> QED
    BY <2>1, <2>3, <2>4
<1>6. worker.input \notin kept
  BY NothingInHand
<1>7. \A k, l \in 1..Len(held') : k < l => held'[k] < held'[l]
  <2> SUFFICES ASSUME NEW k \in 1..Len(held'), NEW l \in 1..Len(held'), k < l
               PROVE  held'[k] < held'[l]
    OBVIOUS
  <2>1. k + 1 < l + 1 /\ k + 1 \in 1..Len(held) /\ l + 1 \in 1..Len(held)
    BY <1>3
  <2> QED
    BY <1>3, <2>1 DEF SessionInv, HeldInOrder
<1>8. \A k \in 1..Len(held') : held'[k] \in kept
  BY <1>3 DEF SessionInv, HeldInOrder
<1>9. ASSUME NEW i \in kept
      PROVE  i = held[1] \/ \E k \in 1..Len(held') : held'[k] = i
  <2>1. PICK k \in 1..Len(held) : held[k] = i
    BY <1>6 DEF SessionInv, HeldInOrder
  <2>2. CASE k # 1
    <3>1. k - 1 \in 1..Len(held')
      BY <1>1, <1>3, <2>2
    <3>2. held'[k - 1] = held[k - 1 + 1] /\ k - 1 + 1 = k
      BY <1>3, <3>1
    <3> QED
      BY <2>1, <3>1, <3>2
  <2> QED
    BY <2>1, <2>2
<1>10. \A k \in 1..Len(held') : held[1] < held'[k]
  <2> SUFFICES ASSUME NEW k \in 1..Len(held')
               PROVE  held[1] < held'[k]
    OBVIOUS
  <2>1. k + 1 \in 1..Len(held) /\ 1 < k + 1
    BY <1>3
  <2> QED
    BY <1>3, <2>1 DEF SessionInv, HeldInOrder
<1>11. HeldInOrder'
  BY <1>5, <1>7, <1>8, <1>9, <1>10 DEF HeldInOrder
<1> QED
  BY <1>1, <1>3, <1>5, <1>11, Constants DEF Working

LEMMA TakeResumePreserves ==
    ASSUME SessionInv, TakeResume
    PROVE  SessionInv'
<1>1. OtherMail /\ worker.pc = "idle"
  BY DEF TakeResume, OtherMail, Ops, Commands, Take
<1>2. /\ held' \in Seq(Inputs) /\ Len(held') <= MaxHeld
      /\ worker' \in Workers /\ Working' /\ HeldInOrder'
  <2>1. CASE UNCHANGED <<held, worker>>
    BY <2>1 DEF TakeResume, SessionInv, Typed, Working, HeldInOrder
  <2>2. CASE held # <<>> /\ ForwardHeld
    BY <1>1, <2>2, Forwarding DEF TakeResume
  <2> QED
    BY <2>1, <2>2 DEF TakeResume
<1>3. view' \in Statuses
  BY DEF TakeResume, SessionInv, Typed, Statuses, Terminal
<1> QED
  BY <1>1, <1>2, <1>3, HandlingPreserves DEF TakeResume, SessionInv, Typed, workerLeaves

LEMMA TakeDrainPreserves ==
    ASSUME SessionInv, TakeDrain
    PROVE  SessionInv'
<1>1. OtherMail /\ worker.pc = "idle"
  BY DEF TakeDrain, OtherMail, Ops, Commands, Take
<1>2. /\ held' \in Seq(Inputs) /\ Len(held') <= MaxHeld
      /\ worker' \in Workers /\ Working' /\ HeldInOrder'
  <2>1. CASE UNCHANGED <<held, worker>>
    BY <2>1 DEF TakeDrain, SessionInv, Typed, Working, HeldInOrder
  <2>2. CASE held # <<>> /\ ForwardHeld
    BY <1>1, <2>2, Forwarding DEF TakeDrain
  <2> QED
    BY <2>1, <2>2 DEF TakeDrain
<1> QED
  BY <1>1, <1>2, HandlingPreserves DEF TakeDrain, SessionInv, Typed, workerLeaves

\* An input comes to the worker: it is above all that is held, and below all
\* that is still to come.
LEMMA TakeInputPreserves ==
    ASSUME SessionInv, TakeInput
    PROVE  SessionInv'
<1>1. Take("input") /\ worker.pc = "idle" /\ OtherMail
  BY DEF TakeInput, OtherMail, Ops, Take
<1>2. PICK i : i = inbox[1].n
  OBVIOUS
<1>3. /\ inbox' \in Seq(Messages) /\ Len(inbox) \in Nat /\ 1 \in 1..Len(inbox)
      /\ Head(inbox) = inbox[1] /\ inbox[1].op = "input" /\ i \in Nat
      /\ \A k \in 1..Len(inbox') : inbox'[k] = inbox[k + 1] /\ k + 1 \in 1..Len(inbox)
  BY <1>1, <1>2, Taking DEF SessionInv, Typed, Messages
<1>4. i \in 1..used.runs /\ \A k \in kept : k < i
  BY <1>2, <1>3 DEF SessionInv, InputsSent
<1>5. UNCHANGED <<view, job, marker, active, prompts, used, workerLeaves>>
  BY DEF TakeInput
<1>6. worker.input = 0 /\ worker.input \notin kept
  BY <1>1, NothingInHand
<1>7. kept \subseteq 1..used.runs /\ used.runs \in Nat /\ used.runs <= MaxRuns
  BY DEF SessionInv, Typed, Uses
<1>8. held \in Seq(Inputs) /\ Len(held) \in Nat /\ Len(held) <= MaxHeld
  BY DEF SessionInv, Typed
<1>9. CASE view # "paused"
  <2>1. PICK w : w = [Idle EXCEPT !.pc = "check", !.op = "input", !.input = i]
    OBVIOUS
  <2>2. w \in Workers /\ w.pc = "check" /\ w.input = i
    BY <1>3, <2>1 DEF Idle, Workers, WorkerPcs, Commands, JobStatuses
  <2>3. worker' = w /\ UNCHANGED <<held, kept>>
    BY <1>2, <1>3, <1>9, <2>1 DEF TakeInput
  <2>4. i \notin kept
    BY <1>4, <1>7
  <2>5. HeldInOrder' /\ Working'
    BY <1>6, <2>2, <2>3, <2>4 DEF SessionInv, HeldInOrder, Working
  <2> QED
    BY <1>1, <1>5, <1>8, <2>2, <2>3, <2>5, HandlingPreserves DEF SessionInv, Typed, workerLeaves
<1>10. CASE view = "paused" /\ ~HasRoom(held)
  <2>1. UNCHANGED <<held, kept, worker>>
    BY <1>10 DEF TakeInput
  <2>2. HeldInOrder' /\ Working' /\ worker' \in Workers
    BY <2>1 DEF SessionInv, Typed, HeldInOrder, Working
  <2> QED
    BY <1>1, <1>5, <1>8, <2>1, <2>2, HandlingPreserves DEF SessionInv, Typed, workerLeaves
<1>11. CASE view = "paused" /\ HasRoom(held)
  <2>1. held' = Append(held, i) /\ kept' = kept \cup {i} /\ UNCHANGED worker
    BY <1>2, <1>3, <1>11 DEF TakeInput
  <2>2. i \in Inputs /\ kept' \subseteq 1..used.runs
    BY <1>4, <1>7, <2>1, Constants DEF Inputs
  <2>3. /\ held' \in Seq(Inputs) /\ Len(held') = Len(held) + 1 /\ held'[Len(held) + 1] = i
        /\ \A k \in 1..Len(held) : held'[k] = held[k] /\ k \in 1..Len(held')
        /\ \A k \in 1..Len(held') : k \in 1..Len(held) \/ k = Len(held) + 1
        /\ Len(held) + 1 \in 1..Len(held')
    BY <1>8, <2>1, <2>2
  <2>4. Len(held') <= MaxHeld
    BY <1>8, <1>11, <2>3, Constants DEF HasRoom
  <2>5. ASSUME NEW k \in 1..Len(held'), NEW l \in 1..Len(held'), k < l
        PROVE  held'[k] < held'[l]
    <3>1. k \in 1..Len(held)
      BY <1>8, <2>3, <2>5
    <3>2. CASE l = Len(held) + 1
      BY <1>4, <2>3, <3>1, <3>2 DEF SessionInv, HeldInOrder
    <3>3. CASE l \in 1..Len(held)
      BY <2>3, <2>5, <3>1, <3>3 DEF SessionInv, HeldInOrder
    <3> QED
      BY <2>3, <3>2, <3>3
  <2>6. \A k \in 1..Len(held') : held'[k] \in kept'
    BY <2>1, <2>3 DEF SessionInv, HeldInOrder
  <2>7. \A j \in kept' : \E k \in 1..Len(held') : held'[k] = j
    <3> SUFFICES ASSUME NEW j \in kept'
                 PROVE  \E k \in 1..Len(held') : held'[k] = j
      OBVIOUS
    <3>1. CASE j = i
      BY <2>3, <3>1
    <3>2. CASE j \in kept
      <4>1. PICK k \in 1..Len(held) : held[k] = j
        BY <1>6, <3>2 DEF SessionInv, HeldInOrder
      <4> QED
        BY <2>3, <4>1
    <3> QED
      BY <2>1, <3>1, <3>2
  <2>8. worker'.input \notin kept'
    BY <1>4, <1>6, <2>1
  <2>9. HeldInOrder'
    BY <2>5, <2>6, <2>7, <2>8 DEF HeldInOrder
  <2>10. InputsSent'
    <3>1. ASSUME NEW k \in 1..Len(inbox'), inbox'[k].op = "input"
          PROVE  /\ inbox'[k].n \in 1..used.runs
                 /\ \A j \in kept' : j < inbox'[k].n
      <4>1. inbox'[k] = inbox[k + 1] /\ k + 1 \in 1..Len(inbox) /\ 1 < k + 1
        BY <1>3
      <4>2. i < inbox[k + 1].n
        BY <1>2, <1>3, <3>1, <4>1 DEF SessionInv, InputsSent
      <4> QED
        BY <2>1, <3>1, <4>1, <4>2 DEF SessionInv, InputsSent
    <3>2. ASSUME NEW k \in 1..Len(inbox'), NEW l \in 1..Len(inbox'),
                 inbox'[k].op = "input", inbox'[l].op = "input", k < l
          PROVE  inbox'[k].n < inbox'[l].n
      <4>1. k + 1 \in 1..Len(inbox) /\ l + 1 \in 1..Len(inbox) /\ k + 1 < l + 1
        BY <1>3, <3>2
      <4> QED
        BY <1>3, <3>2, <4>1 DEF SessionInv, InputsSent
    <3> QED
      BY <1>5, <3>1, <3>2 DEF InputsSent
  <2>11. Typed'
    BY <1>3, <1>5, <2>1, <2>2, <2>3, <2>4 DEF SessionInv, Typed, ControlShaped, workerLeaves
  <2>12. \A t \in Turns : ThreadSound(t)'
    BY <1>5, ThreadsStay DEF workerLeaves
  <2>13. Working'
    BY <2>1 DEF SessionInv, Working
  <2> QED
    BY <2>9, <2>10, <2>11, <2>12, <2>13 DEF SessionInv
<1> QED
  BY <1>9, <1>10, <1>11

\* The rest of what the worker does, one message at a time.
LEMMA MarkInterruptPreserves ==
    ASSUME SessionInv, MarkInterrupt
    PROVE  SessionInv'
<1>1. worker.pc = "mark" /\ worker \in Workers /\ worker.op \in Interrupts /\ worker.input = 0
  BY NothingInHand DEF MarkInterrupt, SessionInv, Typed, Working
<1>2. job \in Jobs
  BY DEF SessionInv, Typed
<1>3. PICK w \in Workers : worker' = w /\ w.input = 0 /\ (w.pc = "idle" \/ w.op \in Interrupts)
  <2>1. PICK w : w = worker'
    OBVIOUS
  <2>2. \/ w = Idle
        \/ w = [worker EXCEPT !.pc = "publish"]
        \/ w = [worker EXCEPT !.pc = "stop", !.status = job.status]
    BY <2>1 DEF MarkInterrupt
  <2>3. w \in Workers /\ w.input = 0 /\ (w.pc = "idle" \/ w.op \in Interrupts)
    BY <1>1, <1>2, <2>2, Constants DEF Workers, WorkerPcs, Jobs
  <2> QED
    BY <2>1, <2>3
<1>4. Working' /\ HeldInOrder'
  BY <1>1, <1>3, NextInHand DEF MarkInterrupt
<1>5. OtherMail
  BY DEF MarkInterrupt, interruptLeaves, OtherMail
<1>6. marker' \in Interrupts \cup {"none"}
  BY <1>1 DEF MarkInterrupt, SessionInv, Typed
<1> QED
  BY <1>3, <1>4, <1>5, <1>6, HandlingPreserves DEF MarkInterrupt, interruptLeaves, SessionInv, Typed, workerLeaves

LEMMA StopProcessPreserves ==
    ASSUME SessionInv, StopProcess
    PROVE  SessionInv'
<1>1. worker.pc = "stop" /\ worker \in Workers /\ worker.op \in Interrupts /\ worker.input = 0
  BY NothingInHand DEF StopProcess, SessionInv, Typed, Working
<1>2. job \in Jobs
  BY DEF SessionInv, Typed
<1>3. StatusOf[worker.op] \in JobStatuses /\ worker.status \in JobStatuses
  BY <1>1, StatusOfs DEF Workers
<1>4. PICK s \in JobStatuses : job' = [job EXCEPT !.status = s, !.pid = TRUE]
  BY <1>3 DEF StopProcess
<1>5. job' \in Jobs /\ job'.turn = job.turn
  BY <1>2, <1>4 DEF Jobs
<1>6. PICK w \in Workers : worker' = w /\ w.input = 0 /\ (w.pc = "idle" \/ w.op \in Interrupts)
  <2>1. PICK w : w = worker'
    OBVIOUS
  <2>2. w = Idle \/ w = [worker EXCEPT !.pc = "publish", !.status = "none"]
    BY <2>1 DEF StopProcess
  <2>3. w \in Workers /\ w.input = 0 /\ (w.pc = "idle" \/ w.op \in Interrupts)
    BY <1>1, <2>2, Constants DEF Workers, WorkerPcs, JobStatuses
  <2> QED
    BY <2>1, <2>3
<1>7. Working' /\ HeldInOrder'
  BY <1>1, <1>6, NextInHand DEF StopProcess
<1>8. OtherMail
  BY DEF StopProcess, OtherMail
<1>9. used' \in Uses /\ used'.runs = used.runs /\ used'.turns = used.turns
  BY Spending, Constants DEF StopProcess, SessionInv, Typed
<1> QED
  BY <1>5, <1>6, <1>7, <1>8, <1>9, HandlingPreserves DEF StopProcess, SessionInv, Typed, workerLeaves

LEMMA PublishInterruptPreserves ==
    ASSUME SessionInv, PublishInterrupt
    PROVE  SessionInv'
<1>1. worker.pc = "publish" /\ worker.op \in Interrupts /\ worker' = Idle
  BY DEF PublishInterrupt, SessionInv, Working
<1>2. view' \in Statuses /\ active' \in Entries
  BY <1>1, StatusOfs, Constants DEF PublishInterrupt
<1>3. /\ Working' /\ HeldInOrder' /\ kept' \subseteq kept
      /\ held' \in Seq(Inputs) /\ Len(held') <= MaxHeld
  <2>1. CASE worker.op = "kill"
    BY <1>1, <2>1, NothingHeld, Constants DEF PublishInterrupt, LeftHeld, Working
  <2>2. CASE worker.op # "kill"
    BY <1>1, <2>2, NextInHand, Constants DEF PublishInterrupt, LeftHeld, SessionInv, Typed
  <2> QED
    BY <2>1, <2>2
<1>4. OtherMail
  BY DEF PublishInterrupt, interruptLeaves, OtherMail
<1> QED
  BY <1>1, <1>2, <1>3, <1>4, Constants, HandlingPreserves
  DEF PublishInterrupt, interruptLeaves, SessionInv, Typed, workerLeaves

\* The worker is done with the input in hand, whatever became of it.
LEMMA HeldDone ==
    ASSUME SessionInv, worker' = Idle, kept' = kept \ {worker.input}, held' = held
    PROVE  /\ HeldInOrder' /\ Working' /\ kept' \subseteq kept
           /\ worker' \in Workers
<1>1. worker' \in Workers /\ worker'.pc = "idle" /\ worker'.input = 0
  BY Constants
<1>2. kept \subseteq 1..used.runs /\ held \in Seq(Inputs) /\ Len(held) \in Nat
  BY DEF SessionInv, Typed
<1>3. \A k \in 1..Len(held) : held[k] # worker.input
  <2> SUFFICES ASSUME NEW k \in 1..Len(held), held[k] = worker.input
               PROVE  FALSE
    OBVIOUS
  <2>1. worker.input \in kept /\ held[k] \in Nat
    BY <1>2, Constants DEF SessionInv, HeldInOrder, Inputs
  <2>2. worker.input < held[k]
    BY <2>1 DEF SessionInv, HeldInOrder
  <2> QED
    BY <2>1, <2>2
<1>4. worker'.input \notin kept'
  BY <1>1, <1>2
<1>5. HeldInOrder'
  BY <1>3, <1>4 DEF SessionInv, HeldInOrder
<1> QED
  BY <1>1, <1>5 DEF Working

LEMMA CheckTurnPreserves ==
    ASSUME SessionInv, CheckTurn
    PROVE  SessionInv'
<1>1. worker.pc = "check" /\ OtherMail
  BY DEF CheckTurn, OtherMail
<1>2. active' \in Entries
  <2>1. [state |-> "running", prompt |-> 0] \in Entries
    BY Constants DEF Entries
  <2> QED
    BY <2>1 DEF CheckTurn, SessionInv, Typed
<1>3. worker' \in Workers /\ Working' /\ HeldInOrder' /\ kept' \subseteq kept
  <2>1. CASE worker' = [worker EXCEPT !.pc = "start"] /\ UNCHANGED kept
    <3>1. worker \in Workers
      BY DEF SessionInv, Typed
    <3>2. worker' \in Workers /\ worker'.pc = "start" /\ worker'.input = worker.input
      BY <2>1, <3>1 DEF Workers, WorkerPcs
    <3>3. HeldStays
      BY <2>1, <3>2 DEF CheckTurn, HeldStays
    <3> QED
      BY <2>1, <3>2, <3>3, HeldStaysInOrder DEF SessionInv, Working
  <2>2. CASE worker' = Idle /\ kept' = kept \ {worker.input}
    BY <2>2, HeldDone DEF CheckTurn
  <2> QED
    BY <2>1, <2>2 DEF CheckTurn
<1> QED
  BY <1>1, <1>2, <1>3, HandlingPreserves DEF CheckTurn, SessionInv, Typed

LEMMA FailTurnPreserves ==
    ASSUME SessionInv, FailTurn
    PROVE  SessionInv'
<1>1. OtherMail
  BY DEF FailTurn, OtherMail
<1>2. worker' \in Workers /\ Working' /\ HeldInOrder' /\ kept' \subseteq kept
  BY HeldDone DEF FailTurn
<1>3. used' \in Uses /\ used'.runs = used.runs /\ used'.turns = used.turns
  BY Spending, Constants DEF FailTurn, SessionInv, Typed
<1>4. view' \in Statuses /\ active' \in Entries
  BY Constants DEF FailTurn, Statuses, Terminal
<1> QED
  BY <1>1, <1>2, <1>3, <1>4, HandlingPreserves DEF FailTurn, SessionInv, Typed, workerLeaves

LEMMA StartTurnPreserves ==
    ASSUME SessionInv, StartTurn
    PROVE  SessionInv'
<1>1. PICK t : t = used.turns + 1
  OBVIOUS
<1>2. t \in Nat /\ used.turns \in Nat /\ used.turns < t
  BY <1>1 DEF SessionInv, Typed, Uses
<1>3. used' = [used EXCEPT !.turns = t]
  BY <1>1 DEF StartTurn
<1>4. used' \in Uses /\ used'.runs = used.runs /\ used'.turns = t
  BY <1>2, <1>3 DEF SessionInv, Typed, Uses
<1>5. job' \in Jobs /\ job'.turn = t
  BY <1>1, <1>2 DEF StartTurn, Record, Jobs, JobStatuses
<1>6. PICK x : x = [Off EXCEPT !.pc = "spawn"]
  OBVIOUS
<1>7. x \in Threads /\ x.pc = "spawn"
  BY <1>6 DEF Off, Threads, TurnPcs
<1>8. turns' = [turns EXCEPT ![t] = x]
  BY <1>1, <1>6 DEF StartTurn
<1>9. turns' \in [Turns -> Threads] /\ \A s \in Turns : turns'[s] = IF s = t THEN x ELSE turns[s]
  BY <1>7, <1>8 DEF SessionInv, Typed
<1>10. \A s \in Turns : ThreadSound(s)'
  BY <1>2, <1>4, <1>7, <1>9 DEF SessionInv, ThreadSound, Turns
<1>11. OtherMail
  BY DEF StartTurn, OtherMail
<1>12. worker' \in Workers /\ Working' /\ HeldInOrder' /\ kept' \subseteq kept
  BY HeldDone DEF StartTurn
<1>13. view' \in Statuses /\ marker' \in Interrupts \cup {"none"} /\ ControlShaped'
  BY DEF StartTurn, Statuses, Live, SessionInv, Typed, ControlShaped
<1>14. job'.turn <= used'.turns
  BY <1>2, <1>4, <1>5
<1> QED
  BY <1>4, <1>5, <1>9, <1>10, <1>11, <1>12, <1>13, <1>14, WorkerPreserves
  DEF StartTurn, SessionInv, Typed

LEMMA WorkerStepPreserves ==
    ASSUME SessionInv, WorkerStep
    PROVE  SessionInv'
BY TakeControlPreserves, TakeStartPreserves, TakeInputPreserves, TakeResumePreserves,
   TakeDrainPreserves, TakeCancelPreserves, TakeInterruptPreserves, MarkInterruptPreserves,
   StopProcessPreserves, PublishInterruptPreserves, CheckTurnPreserves, StartTurnPreserves,
   FailTurnPreserves DEF WorkerStep

-----------------------------------------------------------------------------
\* The threads of the turns.

\* A thread moves, and what it writes is well-typed.
LEMMA TurnPreserves ==
    ASSUME SessionInv, NEW t \in Turns, NEW x \in Threads, turns' = [turns EXCEPT ![t] = x],
           turns[t].pc # "off", x.pc = "record" => x.ending \in Ended,
           x.pc = "tell" => x.ending \in Ended \ {"paused", "killed"},
           OtherMail, UNCHANGED turnLeaves, marker' = marker, view' \in Statuses,
           job' \in Jobs, job'.turn <= used'.turns, active' \in Entries,
           used' \in Uses, used'.runs = used.runs, used'.turns = used.turns
    PROVE  SessionInv'
<1>1. turns' \in [Turns -> Threads] /\ \A s \in Turns : ThreadSound(s)'
  BY ThreadMoves
<1>2. HeldStays
  BY DEF HeldStays, turnLeaves
<1> QED
  BY <1>1, <1>2, QuietPreserves DEF turnLeaves, SessionInv, Typed

\* What is there when a thread takes a step.
LEMMA ThreadFacts ==
    ASSUME SessionInv, NEW t \in Turns
    PROVE  /\ turns[t] \in Threads /\ job \in Jobs /\ job.turn <= used.turns
           /\ active \in Entries /\ view \in Statuses /\ used \in Uses
           /\ marker \in Interrupts \cup {"none"}
           /\ turns \in [Turns -> Threads]
           /\ turns[t].pc # "off" => t <= used.turns
           /\ t \in Nat
BY Constants DEF SessionInv, Typed, ThreadSound, Turns

LEMMA ReturnedTyped ==
    ASSUME SessionInv, NEW t \in Turns, NEW outcome, Returned(t, outcome)
    PROVE  /\ job' \in Jobs /\ job'.turn = job.turn
           /\ \E x \in Threads : /\ turns' = [turns EXCEPT ![t] = x]
                                 /\ x.pc = "record" /\ x.ending \in Ended
<1>1. PICK e \in Ended : e = Ending(outcome)
  BY EndingTyped DEF SessionInv, Typed
<1>2. PICK r \in BOOLEAN : r = (outcome # "error")
  OBVIOUS
<1>3. job' = IF job.turn = t THEN [job EXCEPT !.result = r] ELSE job
  BY <1>2 DEF Returned
<1>4. job' \in Jobs /\ job'.turn = job.turn
  BY <1>3, ThreadFacts DEF Jobs
<1>5. turns' = [turns EXCEPT ![t].pc = "record", ![t].ending = e, ![t].result = r]
  BY <1>1, <1>2 DEF Returned
<1>6. PICK x : x = [turns[t] EXCEPT !.pc = "record", !.ending = e, !.result = r]
  OBVIOUS
<1>7. x \in Threads /\ x.pc = "record" /\ x.ending \in Ended
  BY <1>6, ThreadFacts DEF Threads, TurnPcs
<1>8. turns' = [turns EXCEPT ![t] = x]
  BY <1>5, <1>6
<1> QED
  BY <1>4, <1>7, <1>8

LEMMA SpawnedPreserves ==
    ASSUME SessionInv, NEW t \in Turns, Spawned(t)
    PROVE  SessionInv'
<1>1. OtherMail /\ turns[t].pc = "spawn"
  BY DEF Spawned, OtherMail
<1>2. CASE /\ turns' = [turns EXCEPT ![t].pc = "work", ![t].pid = TRUE]
           /\ job' = [Record("running", t) EXCEPT !.pid = TRUE]
           /\ UNCHANGED used
  <2>1. PICK x : x = [turns[t] EXCEPT !.pc = "work", !.pid = TRUE]
    OBVIOUS
  <2>2. x \in Threads /\ x.pc = "work"
    BY <2>1, ThreadFacts, ZenonT(30) DEF Threads, TurnPcs
  <2>3. turns' = [turns EXCEPT ![t] = x]
    BY <1>2, <2>1
  <2>4. job' \in Jobs /\ job'.turn = t
    BY <1>2, ThreadFacts DEF Record, Jobs, JobStatuses
  <2>5. job'.turn <= used'.turns
    BY <1>1, <1>2, <2>4, ThreadFacts
  <2> QED
    BY <1>1, <1>2, <2>2, <2>3, <2>4, <2>5, ThreadFacts, TurnPreserves DEF Spawned
<1>3. CASE Spend("failures", MaxFailures) /\ Returned(t, "error")
  <2>1. used' \in Uses /\ used'.runs = used.runs /\ used'.turns = used.turns
    BY <1>3, Spending, Constants, ThreadFacts
  <2>2. PICK x \in Threads : /\ turns' = [turns EXCEPT ![t] = x]
                             /\ x.pc = "record" /\ x.ending \in Ended
    BY <1>3, ReturnedTyped
  <2>3. job' \in Jobs /\ job'.turn <= used'.turns
    BY <1>3, <2>1, ReturnedTyped, ThreadFacts
  <2> QED
    BY <1>1, <2>1, <2>2, <2>3, ThreadFacts, TurnPreserves DEF Spawned
<1> QED
  BY <1>2, <1>3 DEF Spawned

LEMMA AskPreserves ==
    ASSUME SessionInv, NEW t \in Turns, Ask(t)
    PROVE  SessionInv'
<1>1. OtherMail /\ turns[t].pc = "work"
  BY DEF Ask, OtherMail
<1>2. PICK p : p = used.prompts + 1
  OBVIOUS
<1>3. /\ used' \in Uses /\ used'.runs = used.runs /\ used'.turns = used.turns
      /\ p \in 0..MaxPrompts /\ p \in Nat
  BY <1>2, Spending, Constants, ThreadFacts DEF Ask, Uses
<1>4. PICK x : x = [turns[t] EXCEPT !.pc = "ask", !.prompt = p]
  OBVIOUS
<1>5. x \in Threads /\ x.pc = "ask"
  BY <1>3, <1>4, ThreadFacts, ZenonT(30) DEF Threads, TurnPcs
<1>6. turns' = [turns EXCEPT ![t] = x]
  BY <1>2, <1>4 DEF Ask
<1>7. active' \in Entries
  <2>1. [state |-> "pending", prompt |-> p] \in Entries
    BY <1>3 DEF Entries
  <2> QED
    BY <1>2, <2>1, ThreadFacts DEF Ask
<1>8. job' \in Jobs /\ job'.turn = job.turn
  BY ThreadFacts DEF Ask, Jobs, JobStatuses
<1> QED
  BY <1>1, <1>3, <1>5, <1>6, <1>7, <1>8, ThreadFacts, TurnPreserves DEF Ask

LEMMA AnnounceApprovalPreserves ==
    ASSUME SessionInv, NEW t \in Turns, AnnounceApproval(t)
    PROVE  SessionInv'
<1>1. OtherMail /\ turns[t].pc = "ask"
  BY DEF AnnounceApproval, Step, OtherMail
<1>2. PICK x : x = [turns[t] EXCEPT !.pc = "await"]
  OBVIOUS
<1>3. x \in Threads /\ x.pc = "await"
  BY <1>2, ThreadFacts DEF Threads, TurnPcs
<1>4. turns' = [turns EXCEPT ![t] = x]
  BY <1>2 DEF AnnounceApproval, Step
<1>5. view' \in Statuses
  BY DEF AnnounceApproval, Statuses, Live
<1> QED
  BY <1>1, <1>3, <1>4, <1>5, ThreadFacts, TurnPreserves DEF AnnounceApproval

LEMMA AnsweredPreserves ==
    ASSUME SessionInv, NEW t \in Turns, Answered(t)
    PROVE  SessionInv'
<1>1. OtherMail /\ turns[t].pc = "await"
  BY DEF Answered, OtherMail
<1>2. PICK x : x = [turns[t] EXCEPT !.pc = "work", !.prompt = 0]
  OBVIOUS
<1>3. x \in Threads /\ x.pc = "work"
  BY <1>2, ThreadFacts, ZenonT(30) DEF Threads, TurnPcs
<1>4. turns' = [turns EXCEPT ![t] = x]
  BY <1>2 DEF Answered
<1>5. view' \in Statuses
  BY DEF Answered, Statuses, Live
<1>6. job' \in Jobs /\ job'.turn = job.turn
  BY ThreadFacts DEF Answered, Jobs, JobStatuses
<1> QED
  BY <1>1, <1>3, <1>4, <1>5, <1>6, ThreadFacts, TurnPreserves DEF Answered

LEMMA ReturnPreserves ==
    ASSUME SessionInv, NEW t \in Turns, Return(t)
    PROVE  SessionInv'
<1>1. OtherMail /\ turns[t].pc = "work"
  BY DEF Return, OtherMail
<1>2. PICK outcome \in {"ok", "failed", "error"} : Returned(t, outcome)
  BY DEF Return
<1>3. PICK x \in Threads : /\ turns' = [turns EXCEPT ![t] = x]
                           /\ x.pc = "record" /\ x.ending \in Ended
  BY <1>2, ReturnedTyped
<1>4. job' \in Jobs /\ job'.turn = job.turn
  BY <1>2, ReturnedTyped
<1> QED
  BY <1>1, <1>3, <1>4, ThreadFacts, TurnPreserves DEF Return

\* A pause or a kill ends the thread here, so what is told is another ending.
LEMMA RecordEndPreserves ==
    ASSUME SessionInv, NEW t \in Turns, RecordEnd(t)
    PROVE  SessionInv'
<1>1. OtherMail /\ turns[t].pc = "record" /\ turns[t].ending \in Ended
  BY DEF RecordEnd, OtherMail, SessionInv, ThreadSound
<1>2. PICK x : x = IF Silent(turns[t].ending) THEN Gone ELSE [turns[t] EXCEPT !.pc = "tell"]
  OBVIOUS
<1>3. /\ x \in Threads /\ x.pc # "record"
      /\ x.pc = "tell" => x.ending \in Ended \ {"paused", "killed"}
  <2>1. CASE Silent(turns[t].ending)
    BY <1>2, <2>1, Constants
  <2>2. CASE ~Silent(turns[t].ending)
    BY <1>1, <1>2, <2>2, ThreadFacts DEF Silent, Threads, TurnPcs
  <2> QED
    BY <2>1, <2>2
<1>4. turns' = [turns EXCEPT ![t] = x]
  BY <1>2 DEF RecordEnd
<1>5. PICK s \in JobStatuses :
         job' = [status |-> s, turn |-> t, pid |-> turns[t].pid, result |-> turns[t].result]
  BY <1>1, JobStatusTyped DEF RecordEnd
<1>6. job' \in Jobs /\ job'.turn = t
  BY <1>5, ThreadFacts DEF Jobs, Threads
<1>7. job'.turn <= used'.turns
  BY <1>1, <1>6, ThreadFacts DEF RecordEnd
<1> QED
  BY <1>1, <1>3, <1>4, <1>6, <1>7, ThreadFacts, TurnPreserves DEF RecordEnd

LEMMA TellPreserves ==
    ASSUME SessionInv, NEW t \in Turns, Tell(t)
    PROVE  SessionInv'
<1>1. OtherMail /\ turns[t].pc = "tell" /\ turns[t].ending \in Ended \ {"paused", "killed"}
  BY DEF Tell, OtherMail, SessionInv, ThreadSound
<1>2. PICK x : x = IF Releases(turns[t].ending) THEN [Off EXCEPT !.pc = "arm"] ELSE Gone
  OBVIOUS
<1>3. x \in Threads /\ x.pc \in {"arm", "done"}
  BY <1>2, Constants DEF Off, Threads, TurnPcs
<1>4. turns' = [turns EXCEPT ![t] = x]
  BY <1>2 DEF Tell
<1>5. view' \in Statuses /\ active' \in Entries
  BY <1>1, Constants DEF Tell, Ended, Statuses, Terminal
<1> QED
  BY <1>1, <1>3, <1>4, <1>5, ThreadFacts, TurnPreserves DEF Tell

LEMMA ArmDrainPreserves ==
    ASSUME SessionInv, NEW t \in Turns, ArmDrain(t)
    PROVE  SessionInv'
<1>1. turns[t].pc = "arm"
  BY DEF ArmDrain, Step
<1>2. OtherMail
  <2>1. PICK m : m = Message("drain", 0)
    OBVIOUS
  <2>2. m \in Messages /\ m.op # "input" /\ inbox' = Append(inbox, m)
    BY <2>1 DEF ArmDrain, Message, Messages, Ops
  <2> QED
    BY <2>2 DEF OtherMail
<1>3. PICK x : x = [turns[t] EXCEPT !.pc = "done"]
  OBVIOUS
<1>4. x \in Threads /\ x.pc = "done"
  BY <1>3, ThreadFacts DEF Threads, TurnPcs
<1>5. turns' = [turns EXCEPT ![t] = x]
  BY <1>3 DEF ArmDrain, Step
<1> QED
  BY <1>1, <1>2, <1>4, <1>5, ThreadFacts, TurnPreserves DEF ArmDrain

LEMMA TurnStepPreserves ==
    ASSUME SessionInv, NEW t \in Turns, TurnStep(t)
    PROVE  SessionInv'
BY SpawnedPreserves, AskPreserves, AnnounceApprovalPreserves, AnsweredPreserves,
   ReturnPreserves, RecordEndPreserves, TellPreserves, ArmDrainPreserves DEF TurnStep

-----------------------------------------------------------------------------
\* The specification.

LEMMA InitInv == Init => SessionInv
<1> SUFFICES ASSUME Init
             PROVE  SessionInv
  OBVIOUS
<1>1. ControlShaped
  BY DEF Init, ControlInit, ControlShaped
<1>2. view \in Statuses /\ marker \in Interrupts \cup {"none"} /\ active \in Entries
  BY Constants DEF Init, Statuses
<1>3. job \in Jobs /\ job.turn = 0
  BY DEF Init, Record, Jobs, JobStatuses
<1>4. turns \in [Turns -> Threads] /\ \A t \in Turns : turns[t].pc = "off"
  BY Constants DEF Init
<1>5. used \in Uses /\ used.runs = 0 /\ used.turns = 0
  BY DEF Init, Uses
<1>6. /\ held = <<>> /\ inbox = <<>> /\ worker = Idle /\ kept = {}
      /\ held \in Seq(Inputs) /\ Len(held) = 0 /\ inbox \in Seq(Messages) /\ Len(inbox) = 0
  BY DEF Init
<1>7. Typed
  BY <1>1, <1>2, <1>3, <1>4, <1>5, <1>6, Constants DEF Typed
<1>8. \A t \in Turns : ThreadSound(t)
  BY <1>4 DEF ThreadSound
<1>9. Working /\ InputsSent /\ HeldInOrder
  BY <1>6, Constants DEF Working, InputsSent, HeldInOrder
<1> QED
  BY <1>7, <1>8, <1>9 DEF SessionInv

LEMMA NextInv == SessionInv /\ [Next]_vars => SessionInv'
<1> SUFFICES ASSUME SessionInv, [Next]_vars
             PROVE  SessionInv'
  OBVIOUS
<1>1. CASE Next
  BY <1>1, ClientStepPreserves, WorkerStepPreserves, TurnStepPreserves, ExpirePreserves DEF Next
<1>2. CASE UNCHANGED vars
  <2>1. OtherMail /\ HeldStays
    BY <1>2 DEF vars, OtherMail, HeldStays
  <2>2. turns' \in [Turns -> Threads] /\ \A t \in Turns : ThreadSound(t)'
    BY <1>2, ThreadsStay DEF vars
  <2> QED
    BY <1>2, <2>1, <2>2, QuietPreserves DEF vars, SessionInv, Typed
<1> QED
  BY <1>1, <1>2

\* A session's held inputs are what the worker owes, in the order in which
\* they were sent, behind the one it is handing on.
THEOREM SessionInvariance == Spec => []SessionInv
<1> QED
  BY InitInv, NextInv, PTL DEF Spec

LEMMA TypesFollow == SessionInv => TypeOK
<1> SUFFICES ASSUME SessionInv
             PROVE  TypeOK
  OBVIOUS
<1>1. job \in [status : JobStatuses, turn : 0..used.turns, pid : BOOLEAN, result : BOOLEAN]
  BY DEF SessionInv, Typed, Jobs, Uses
<1>2. worker.op \in Commands \cup {"input"}
  BY DEF SessionInv, Typed, Workers
<1> QED
  BY <1>1, <1>2 DEF SessionInv, Typed, Entries, TypeOK

\* What the worker, the turns' threads and the record on disk say of the
\* session stays well-typed, and the held inputs stay within their cap.
THEOREM TypesHold == Spec => []TypeOK
<1> QED
  BY SessionInvariance, TypesFollow, PTL

LEMMA HeldAreKept == SessionInv => NoInputOutlivesItsSession
<1> SUFFICES ASSUME SessionInv
             PROVE  NoInputOutlivesItsSession
  OBVIOUS
<1>1. held \in Seq(Inputs) /\ DOMAIN held = 1..Len(held)
  BY DEF SessionInv, Typed
<1>2. \A i \in Range(held) : \E k \in 1..Len(held) : held[k] = i
  BY <1>1 DEF Range
<1> QED
  BY <1>2 DEF SessionInv, HeldInOrder, NoInputOutlivesItsSession

\* A prompt a paused session holds does not outlive it: a cancel, a kill and
\* the turn an input goes to each take it out of the queue for good.
THEOREM HeldInputsEndWithTheSession == Spec => []NoInputOutlivesItsSession
<1> QED
  BY SessionInvariance, HeldAreKept, PTL

\* What a step does to the inputs the worker owes: it adds one, forgets them
\* all, or is done with the one in hand.
LEMMA KeptMoves ==
    ASSUME SessionInv, [Next]_vars
    PROVE  kept \subseteq kept' \/ kept' = {} \/ kept' = kept \ {worker.input}
<1>1. CASE ClientStep
  BY <1>1 DEF ClientStep, Submit, SendInput, SendControl, CancelActiveTurn, Respond,
              clientLeaves, approvalLeaves
<1>2. CASE WorkerStep
  BY <1>2 DEF WorkerStep, TakeControl, TakeStart, TakeInput, TakeResume, TakeDrain, TakeCancel,
              TakeInterrupt, MarkInterrupt, StopProcess, PublishInterrupt, CheckTurn, StartTurn,
              FailTurn
<1>3. ASSUME NEW t \in Turns, TurnStep(t)
      PROVE  kept' = kept
  BY <1>3 DEF TurnStep, Spawned, Ask, AnnounceApproval, Answered, Return, RecordEnd, Tell,
              ArmDrain, turnLeaves
<1>4. ASSUME NEW p \in Prompts, Expire(p)
      PROVE  kept' = kept
  BY <1>4 DEF Expire, approvalLeaves
<1>5. CASE UNCHANGED vars
  BY <1>5 DEF vars
<1> QED
  BY <1>1, <1>2, <1>3, <1>4, <1>5 DEF Next

LEMMA KeptInOrder ==
    SessionInv /\ [Next]_vars => \A i \in kept \ kept', j \in kept' : i < j
<1> SUFFICES ASSUME SessionInv, [Next]_vars, NEW i \in kept \ kept', NEW j \in kept'
             PROVE  i < j
  OBVIOUS
<1>1. kept' = kept \ {worker.input} /\ i = worker.input /\ j \in kept /\ j # worker.input
  BY KeptMoves
<1>2. PICK k \in 1..Len(held) : held[k] = j
  BY <1>1 DEF SessionInv, HeldInOrder
<1> QED
  BY <1>1, <1>2 DEF SessionInv, HeldInOrder

\* What a paused session was given is handed on in the order in which it was
\* given, through resumes, drains, and turns that are refused or fail.
THEOREM InputsRunInOrder == Spec => HeldRunInOrder
<1> QED
  BY SessionInvariance, KeptInOrder, PTL DEF Spec, HeldRunInOrder
=============================================================================
