------------------------ MODULE LaneSupervisorProofs ------------------------
(***************************************************************************)
(* Parallel lanes, for any number of lanes, commands, failures and         *)
(* restarts: an agent that can be reached has a worker that will stop it,  *)
(* and none is lost but by a stop that failed or a restart; what a worker  *)
(* believes of its lane is durable, a worktree goes only after its removal *)
(* was written down, and an answer releases only what it was asked for.    *)
(***************************************************************************)
EXTENDS LaneSupervisor, SequenceTheorems, TLAPS

Kinds     == {"none", "archived", "cleaned"}
AskStates == {"pending", "allowed", "denied", "dropped"}

Disks    == [worktree : BOOLEAN, runtime : BOOLEAN, stray : BOOLEAN]
Pendings == [ask : Nat, op : Operations \cup {"none"}, prev : Statuses, epoch : Nat,
             late : BOOLEAN]
Messages == [type : {"command", "resume", "cancel", "shutdown"},
             op : Operations \cup {"none"}, ask : Nat, decision : Decisions]
Mail     == {m \in Messages : /\ m.type = "command" => m.op \in Operations
                              /\ m.type = "resume" => m.ask # 0}
Workers  == [up : BOOLEAN, record : Record, registered : BOOLEAN, inbox : Seq(Mail),
             pending : Pendings, mode : Modes, epoch : Nat, ruled : SUBSET Operations,
             doing : Steps, runtime : BOOLEAN, complete : Kinds, exited : BOOLEAN]
Completions == [lane : Lanes, kind : Kinds, record : Record]
Reapers  == [inbox : Seq(Completions), inHand : Lanes \cup {"none"},
             joining : Lanes \cup {"none"}]
Orders   == [type : {"lane"}, lane : Lanes, op : Operations]
Switches == [type : {"control"}, mode : Modes, epoch : Nat]
Replies  == [type : {"answer"}, ask : Nat \ {0}, decision : Decisions]
Supers   == [inbox : Seq(Orders \cup Switches \cup Replies),
             at : {"idle", "route", "forward", "answer"}, lane : Lanes \cup {"none"},
             op : Operations \cup {"none"}, reaped : SUBSET Lanes]
Policies == [mode : Modes, epoch : Nat, submitted : Nat, broken : BOOLEAN]
Asked    == [lane : Lanes, epoch : Nat, state : AskStates,
             audited : Seq({"allowed", "denied"})]
Uses     == [commands : Nat, controls : Nat, cancels : Nat, failures : Nat, kills : Nat,
             restarts : Nat]

Typed ==
    /\ log \in [Lanes -> Record]
    /\ disk \in [Lanes -> Disks]
    /\ worker \in [Lanes -> Workers]
    /\ hydrated \in [Lanes -> Record]
    /\ terminal \in [Lanes -> Kinds]
    /\ reaper \in Reapers
    /\ super \in Supers
    /\ policy \in Policies
    /\ asks \in Seq(Asked)
    /\ used \in Uses

\* A worker in the middle of an operation is there, and waits for no answer;
\* so is one whose agent runs.
Alive(l) ==
    LET w == worker[l] IN
    /\ w.doing # "none" => w.up /\ ~w.exited /\ w.pending.ask = 0
    /\ disk[l].runtime => w.up /\ ~w.exited /\ w.runtime
    /\ ~w.up => w.pending.ask = 0 /\ w.complete = "none"

\* What a worker holds of its lane, before the lane is in the log and after.
Holds(l) ==
    LET w == worker[l] IN
    /\ w.up => w.record.status # "absent" /\ w.mode = policy.mode /\ w.epoch = policy.epoch
    /\ w.up /\ ~w.registered => ~Known(l) /\ w.record = Draft
    /\ Known(l) => hydrated[l].status # "absent" \/ (w.up /\ w.registered)

\* What the worker is about is what the lane is ready for.
Ready(l) ==
    LET w == worker[l] IN
    /\ w.doing \in {"create", "register"} => ~w.registered
    /\ w.doing = "register" => disk[l].worktree
    /\ w.doing \in {"clearing", "remove"} => log[l].status = "starting"
    /\ w.doing \in {"cleanup", "clearing", "remove", "cleaned"} => "cleanup" \in Operations

\* The approval a worker waits for is pending, and its own.
Waiting(l) ==
    LET p == worker[l].pending IN
    p.ask # 0 => /\ p.ask \in AskIds
                 /\ asks[p.ask].lane = l
                 /\ asks[p.ask].state = "pending"
                 /\ asks[p.ask].epoch = p.epoch
                 /\ p.op \in Operations
                 /\ p.prev # "absent"
                 /\ p.op = "create" => ~worker[l].registered

\* What is not said of a lane may be lost: the two records tell the same.
Same(r, s) == r.status = s.status /\ r.mark = s.mark /\ r.runs = s.runs

\* Where no lane is cleaned up, a record in a worker's hands tells what the log
\* says (Told: but for an apply that was refused after its "done"), and so does
\* one that waits for a worker, unless the lane is over.
Durable(l) ==
    "cleanup" \notin Operations =>
        /\ worker[l].up /\ worker[l].registered => Same(Told(worker[l].record), log[l])
        /\ ~worker[l].up /\ terminal[l] = "none" /\ hydrated[l].status # "absent" =>
              Same(Told(hydrated[l]), log[l])
        /\ Known(l) => disk[l].worktree

LaneSound(l) == Alive(l) /\ Holds(l) /\ Ready(l) /\ Waiting(l) /\ Durable(l)

\* Lanes that change hands have a record.
Handed ==
    /\ \A i \in 1..Len(reaper.inbox) :
          reaper.inbox[i].record.status # "absent" /\ reaper.inbox[i].kind # "none"
    /\ reaper.inHand # "none" => hydrated[reaper.inHand].status # "absent"
    /\ reaper.joining # "none" => reaper.joining = reaper.inHand
    /\ \A k \in super.reaped : hydrated[k].status # "absent"
    /\ "cleanup" \notin Operations =>
          /\ reaper.inHand # "none" => terminal[reaper.inHand] # "none"
          /\ \A k \in super.reaped : terminal[k] # "none"
    /\ super.reaped # {} => super.at = "route"
    /\ super.at # "idle" => super.lane \in Lanes
    /\ super.at \in {"route", "forward"} => super.op \in Operations

\* The inductive invariant.
LanesInv == Typed /\ (\A l \in Lanes : LaneSound(l)) /\ Handed

-----------------------------------------------------------------------------
\* What the model's operators return.

LEMMA Names ==
    /\ DOMAIN StatusOf = {"attach", "detach", "accept", "revise", "discard"}
    /\ Statuses = {"absent", "draft", "starting", "running", "waiting", "blocked", "failed",
                   "archived", "attached", "detached", "done", "needs_input", "cancelled"}
    /\ DOMAIN AfterShutdown = {"stop", "cancel", "archive", "clearing"}
    /\ DOMAIN OwnSteps = {"start", "run", "detached", "cancelled", "fail", "block", "cleanup",
                          "archived", "cleaned"}
    /\ DOMAIN StatusSteps = DOMAIN StatusOf \cup DOMAIN OwnSteps
<1>1. DOMAIN StatusOf = {"attach", "detach", "accept", "revise", "discard"}
  BY DEF StatusOf
<1>2. Statuses = {"absent", "draft", "starting", "running", "waiting", "blocked", "failed",
                  "archived", "attached", "detached", "done", "needs_input", "cancelled"}
  BY <1>1 DEF Statuses, StatusOf
<1>3. DOMAIN AfterShutdown = {"stop", "cancel", "archive", "clearing"}
  BY DEF AfterShutdown
<1>4. DOMAIN OwnSteps = {"start", "run", "detached", "cancelled", "fail", "block", "cleanup",
                         "archived", "cleaned"}
  BY DEF OwnSteps
<1>5. DOMAIN StatusSteps = DOMAIN StatusOf \cup DOMAIN OwnSteps
  BY DEF StatusSteps
<1> QED
  BY <1>1, <1>2, <1>3, <1>4, <1>5

LEMMA StepNames ==
    /\ {"none", "register", "spawn", "count", "unspawn", "remove", "terminal", "check",
        "drained"} \subseteq Steps
    /\ Operations \subseteq Steps
    /\ {"run", "detached", "cancelled", "fail", "block", "cleaned", "archived", "clearing",
        "cancel"} \subseteq Steps
BY Names DEF Steps

LEMMA StatusStep ==
    ASSUME NEW s \in DOMAIN StatusSteps
    PROVE  /\ StatusSteps[s].to \in Statuses /\ StatusSteps[s].to # "absent"
           /\ StatusSteps[s].next \in {"none", "spawn", "count", "clearing", "terminal"}
           /\ StatusSteps[s].otherwise \in {"none", "unspawn"}
           /\ StatusSteps[s].next = "clearing" => s = "cleanup" /\ StatusSteps[s].to = "starting"
<1>1. CASE s \in DOMAIN OwnSteps
  BY <1>1, Names DEF StatusSteps, OwnSteps, Write
<1>2. CASE s \notin DOMAIN OwnSteps
  BY <1>2, Names DEF StatusSteps, StatusOf, Write
<1> QED
  BY <1>1, <1>2

LEMMA ShutdownStep ==
    ASSUME NEW s \in DOMAIN AfterShutdown
    PROVE  /\ AfterShutdown[s] \in {"detached", "cancelled", "archived", "remove"}
           /\ AfterShutdown[s] = "remove" <=> s = "clearing"
BY Names DEF AfterShutdown

LEMMA Constants ==
    /\ "none" \notin Lanes
    /\ StartMode \in Modes /\ Controls \subseteq Modes /\ Answers \subseteq Decisions
    /\ MaxFailures \in Nat
    /\ Absent \in Record /\ Absent.status = "absent"
    /\ Draft \in Record /\ Draft.status = "draft"
    /\ Draft.mark = "none" /\ Draft.runs = 0 /\ ~Absent.refused /\ ~Draft.refused
    /\ NoAsk \in Pendings /\ NoAsk.ask = 0
    /\ Gone \in Workers /\ ~Gone.up /\ Gone.doing = "none" /\ Gone.pending = NoAsk
    /\ Gone.complete = "none" /\ ~Gone.exited
<1>1. /\ "none" \notin Lanes
      /\ StartMode \in Modes /\ Controls \subseteq Modes /\ Answers \subseteq Decisions
      /\ MaxFailures \in Nat
  BY LaneConstants
<1>2. /\ Absent \in Record /\ Absent.status = "absent"
      /\ Draft \in Record /\ Draft.status = "draft"
      /\ Draft.mark = "none" /\ Draft.runs = 0 /\ ~Absent.refused /\ ~Draft.refused
  BY Names DEF Absent, Draft, Record
<1>3. NoAsk \in Pendings /\ NoAsk.ask = 0
  BY Names DEF NoAsk, Pendings
<1>4. /\ Gone \in Workers /\ ~Gone.up /\ Gone.doing = "none" /\ Gone.pending = NoAsk
      /\ Gone.complete = "none" /\ ~Gone.exited
  BY <1>2, <1>3, StepNames DEF Gone, Workers, Modes, Kinds
<1> QED
  BY <1>1, <1>2, <1>3, <1>4

LEMMA Statused ==
    ASSUME NEW r \in Record, NEW s \in Statuses, NEW m \in {"none", "cleaned"}
    PROVE  /\ WithStatus(r, s, m) \in Record
           /\ WithStatus(r, s, m).status = s /\ WithStatus(r, s, m).mark = m
           /\ WithStatus(r, s, m).runs = r.runs /\ ~WithStatus(r, s, m).refused
BY DEF WithStatus, Record

\* What the log tells of a lane, as its worker's record has it.
LEMMA ToldRecord ==
    ASSUME NEW r \in Record
    PROVE  /\ Told(r).status = IF r.refused THEN "done" ELSE r.status
           /\ Told(r).mark = IF r.refused THEN "none" ELSE r.mark
           /\ Told(r).runs = r.runs
<1>1. CASE r.refused
  <2>1. PICK s \in Statuses : s = "done"
    BY Names
  <2>2. PICK m \in {"none", "cleaned"} : m = "none"
    OBVIOUS
  <2>3. Told(r) = WithStatus(r, s, m)
    BY <1>1, <2>1, <2>2 DEF Told
  <2> QED
    BY <1>1, <2>1, <2>2, <2>3, Statused
<1>2. CASE ~r.refused
  BY <1>2 DEF Told
<1> QED
  BY <1>1, <1>2

LEMMA MeasuredRecord ==
    ASSUME NEW r \in Record, NEW edge \in {"start", "end"}
    PROVE  /\ Measured(r, edge) \in Record
           /\ Measured(r, edge).status = r.status /\ Measured(r, edge).mark = r.mark
           /\ Measured(r, edge).runs = IF edge = "start" THEN r.runs + 1 ELSE r.runs
           /\ Measured(r, edge).refused = r.refused
<1>1. CASE edge = "start"
  <2>1. PICK n \in Nat : n = r.runs + 1
    BY DEF Record
  <2>2. Measured(r, edge) = [r EXCEPT !.runs = n, !.open = TRUE]
    BY <1>1, <2>1 DEF Measured
  <2> QED
    BY <1>1, <2>1, <2>2 DEF Record
<1>2. CASE edge = "end" /\ r.open
  <2>1. PICK n \in Nat : n = r.walls + 1
    BY DEF Record
  <2>2. Measured(r, edge) = [r EXCEPT !.walls = n, !.open = FALSE]
    BY <1>2, <2>1 DEF Measured
  <2> QED
    BY <1>2, <2>1, <2>2 DEF Record
<1>3. CASE edge = "end" /\ ~r.open
  BY <1>3 DEF Measured, Record
<1> QED
  BY <1>1, <1>2, <1>3

LEMMA HandedOnRecord ==
    ASSUME NEW r \in Record
    PROVE  /\ HandedOn(r) \in Record
           /\ HandedOn(r).status = r.status /\ HandedOn(r).mark = r.mark
           /\ HandedOn(r).runs = r.runs /\ ~HandedOn(r).refused
           /\ Told(HandedOn(r)) = HandedOn(r)
<1>1. /\ HandedOn(r) \in Record
      /\ HandedOn(r).status = r.status /\ HandedOn(r).mark = r.mark
      /\ HandedOn(r).runs = r.runs /\ ~HandedOn(r).refused
  BY DEF HandedOn, Record
<1> QED
  BY <1>1 DEF Told

\* An append to the log of a lane it does not know never succeeds.
LEMMA AppendOutcome ==
    ASSUME NEW l \in Lanes, NEW ok \in Appends(l)
    PROVE  ok \in BOOLEAN /\ (ok => Known(l))
BY DEF Appends

LEMMA Counted ==
    ASSUME used \in Uses, NEW l \in Lanes, NEW ok \in BOOLEAN, Count(l, ok)
    PROVE  used' \in Uses
BY DEF Count, Failures, Uses

LEMMA MailTyped ==
    /\ \A op \in Operations : CommandMsg(op) \in Mail
    /\ \A a \in Nat \ {0}, d \in Decisions : ResumeMsg(a, d) \in Mail
    /\ CancelMsg \in Mail /\ ShutdownMsg \in Mail
BY DEF CommandMsg, ResumeMsg, CancelMsg, ShutdownMsg, Message, Mail, Messages, Decisions
-----------------------------------------------------------------------------
\* What a step makes of a worker's record.

\* The two agree on the thread, and on what it was given to decide with.
Kin(v, w) ==
    /\ v.up = w.up /\ v.registered = w.registered /\ v.mode = w.mode /\ v.epoch = w.epoch

\* They differ at most in what no invariant is about.
Alike(v, w) ==
    /\ Kin(v, w)
    /\ v.record = w.record /\ v.doing = w.doing /\ v.runtime = w.runtime /\ v.exited = w.exited
    /\ v.pending.ask = w.pending.ask /\ v.pending.op = w.pending.op
    /\ v.pending.prev = w.pending.prev /\ v.pending.epoch = w.pending.epoch
    /\ v.complete \in {w.complete, "none"}

LEMMA Posted ==
    ASSUME NEW w \in Workers, NEW m \in Mail
    PROVE  Post(w, m) \in Workers /\ Alike(Post(w, m), w) /\ Post(w, m).complete = w.complete
<1>1. PICK q : q = Append(w.inbox, m)
  OBVIOUS
<1>2. q \in Seq(Mail)
  BY <1>1, AppendProperties DEF Workers
<1>3. Post(w, m) = [w EXCEPT !.inbox = q]
  BY <1>1 DEF Post
<1> QED
  BY <1>2, <1>3 DEF Workers, Alike, Kin

LEMMA MessageTaken ==
    ASSUME NEW w \in Workers, w.inbox # <<>>
    PROVE  /\ Head(w.inbox) \in Mail
           /\ Next1(w) \in Workers /\ Alike(Next1(w), w) /\ Next1(w).complete = w.complete
           /\ Next1(w).ruled = w.ruled /\ Next1(w).pending = w.pending
<1>1. w.inbox \in Seq(Mail)
  BY DEF Workers
<1>2. Head(w.inbox) \in Mail /\ Tail(w.inbox) \in Seq(Mail)
  BY <1>1, HeadTailProperties
<1> QED
  BY <1>2 DEF Next1, Workers, Alike, Kin

LEMMA Moved ==
    ASSUME NEW w \in Workers, NEW s \in Steps
    PROVE  /\ Goto(w, s) \in Workers /\ Kin(Goto(w, s), w)
           /\ Goto(w, s).doing = s /\ Goto(w, s).record = w.record
           /\ Goto(w, s).runtime = w.runtime /\ Goto(w, s).exited = w.exited
           /\ Goto(w, s).pending = w.pending /\ Goto(w, s).complete = w.complete
           /\ Goto(w, s).ruled = w.ruled
BY DEF Goto, Workers, Kin

LEMMA Unasked ==
    ASSUME NEW w \in Workers, NEW p \in Pendings
    PROVE  LET v == [w EXCEPT !.pending = p] IN
           /\ v \in Workers /\ Kin(v, w)
           /\ v.doing = w.doing /\ v.record = w.record /\ v.runtime = w.runtime
           /\ v.exited = w.exited /\ v.pending = p /\ v.complete = w.complete
BY DEF Workers, Kin

LEMMA RuntimeSet ==
    ASSUME NEW w \in Workers, NEW b \in BOOLEAN
    PROVE  LET v == [w EXCEPT !.runtime = b] IN
           /\ v \in Workers /\ Kin(v, w)
           /\ v.doing = w.doing /\ v.record = w.record /\ v.runtime = b
           /\ v.exited = w.exited /\ v.pending = w.pending /\ v.complete = w.complete
BY DEF Workers, Kin

LEMMA RecordSet ==
    ASSUME NEW w \in Workers, NEW r \in Record
    PROVE  LET v == [w EXCEPT !.record = r] IN
           /\ v \in Workers /\ Kin(v, w)
           /\ v.doing = w.doing /\ v.record = r /\ v.runtime = w.runtime
           /\ v.exited = w.exited /\ v.pending = w.pending /\ v.complete = w.complete
BY DEF Workers, Kin

LEMMA ThreadEnds ==
    ASSUME NEW w \in Workers
    PROVE  /\ Exited(w) \in Workers /\ Kin(Exited(w), w)
           /\ Exited(w).doing = "none" /\ Exited(w).record = w.record
           /\ Exited(w).pending = w.pending /\ Exited(w).complete = w.complete
<1>1. PICK e : e = <<>>
  OBVIOUS
<1>2. e \in Seq(Mail)
  BY <1>1
<1>3. Exited(w) = [w EXCEPT !.exited = TRUE, !.inbox = e, !.doing = "none", !.runtime = FALSE]
  BY <1>1 DEF Exited
<1> QED
  BY <1>2, <1>3, StepNames DEF Workers, Kin

\* What a worker shows after a write is what it showed, or what was written.
LEMMA Believes ==
    ASSUME NEW w \in Workers, NEW r \in Record, NEW ok \in BOOLEAN
    PROVE  /\ Believed(w, ok, r) \in Workers /\ Kin(Believed(w, ok, r), w)
           /\ Believed(w, ok, r).doing = w.doing /\ Believed(w, ok, r).runtime = w.runtime
           /\ Believed(w, ok, r).exited = w.exited /\ Believed(w, ok, r).pending = w.pending
           /\ Believed(w, ok, r).complete = w.complete
           /\ Believed(w, ok, r).record = IF ok THEN r ELSE w.record
<1>1. CASE ok
  BY <1>1, RecordSet DEF Believed
<1>2. CASE ~ok
  BY <1>2 DEF Believed, Kin
<1> QED
  BY <1>1, <1>2

-----------------------------------------------------------------------------
\* What a step leaves of a lane.

\* The approvals of a lane are as they were, audits apart.
AsksKept(k) ==
    \A a \in AskIds : asks[a].lane = k =>
        /\ a \in AskIds' /\ asks'[a].lane = asks[a].lane
        /\ asks'[a].state = asks[a].state /\ asks'[a].epoch = asks[a].epoch

\* Nothing happens to lane k that an invariant is about.
Quiet(k) ==
    /\ Alike(worker'[k], worker[k])
    /\ log'[k] = log[k] /\ disk'[k] = disk[k]
    /\ \/ hydrated'[k] = hydrated[k] /\ terminal'[k] = terminal[k]
       \/ hydrated'[k].status # "absent" /\ (terminal'[k] # "none" \/ worker[k].up)
    /\ policy'.mode = policy.mode /\ policy'.epoch = policy.epoch
    /\ AsksKept(k)

LEMMA QuietPreserves ==
    ASSUME NEW k \in Lanes, LaneSound(k), Quiet(k)
    PROVE  LaneSound(k)'
<1> DEFINE w == worker[k]
           v == worker'[k]
<1>1. /\ v.up = w.up /\ v.registered = w.registered /\ v.mode = w.mode /\ v.epoch = w.epoch
      /\ v.record = w.record /\ v.doing = w.doing /\ v.runtime = w.runtime /\ v.exited = w.exited
      /\ v.pending.ask = w.pending.ask /\ v.pending.op = w.pending.op
      /\ v.pending.prev = w.pending.prev /\ v.pending.epoch = w.pending.epoch
      /\ v.complete \in {w.complete, "none"}
  BY DEF Quiet, Alike, Kin
<1>2. Alive(k)'
  BY <1>1 DEF Quiet, LaneSound, Alive
<1>3. Holds(k)'
  BY <1>1 DEF Quiet, LaneSound, Holds, Known
<1>4. Ready(k)'
  BY <1>1 DEF Quiet, LaneSound, Ready
<1>5. Waiting(k)'
  BY <1>1 DEF Quiet, LaneSound, Waiting, AsksKept
<1>6. Durable(k)'
  BY <1>1 DEF Quiet, LaneSound, Durable, Known, Same
<1> QED
  BY <1>2, <1>3, <1>4, <1>5, <1>6 DEF LaneSound

\* What a step of the worker of lane l leaves alone.
Elsewhere(l) ==
    /\ UNCHANGED <<hydrated, terminal, super, policy>>
    /\ \A k \in Lanes \ {l} : /\ worker'[k] = worker[k]
                              /\ log'[k] = log[k] /\ disk'[k] = disk[k]
                              /\ AsksKept(k)

LEMMA ElsewhereQuiet ==
    ASSUME NEW l \in Lanes, Elsewhere(l), LanesInv, NEW k \in Lanes \ {l}
    PROVE  LaneSound(k)'
<1>1. Alike(worker'[k], worker[k])
  BY DEF Elsewhere, Alike, Kin
<1>2. Quiet(k)
  BY <1>1 DEF Elsewhere, Quiet
<1> QED
  BY <1>2, QuietPreserves DEF LanesInv

\* A step that hands no lane on.
HandedStays ==
    UNCHANGED <<reaper, super, hydrated, terminal>>

LEMMA LaneMoves ==
    ASSUME NEW l \in Lanes, LanesInv, Typed', Elsewhere(l), LaneSound(l)', Handed'
    PROVE  LanesInv'
BY ElsewhereQuiet DEF LanesInv

LEMMA HandedKept ==
    ASSUME Handed, HandedStays
    PROVE  Handed'
BY DEF Handed, HandedStays

\* The lane's worker is rewritten.
LEMMA Written ==
    ASSUME Typed, NEW l \in Lanes, NEW v \in Workers, Put(l, v)
    PROVE  /\ worker' \in [Lanes -> Workers] /\ worker'[l] = v
           /\ \A k \in Lanes \ {l} : worker'[k] = worker[k]
BY DEF Put, Typed

\* An approval of lane l is settled; those of other lanes stay as they are.
LEMMA AskSettled ==
    ASSUME Typed, NEW l \in Lanes, NEW a \in AskIds, asks[a].lane = l,
           NEW state \in AskStates, asks' = [asks EXCEPT ![a].state = state]
    PROVE  asks' \in Seq(Asked) /\ \A k \in Lanes \ {l} : AsksKept(k)
<1>1. asks \in Seq(Asked)
  BY DEF Typed
<1>2. asks' = [asks EXCEPT ![a] = [asks[a] EXCEPT !.state = state]]
  OBVIOUS
<1>3. asks[a] \in Asked
  BY <1>1, ElementOfSeq DEF AskIds
<1>4. PICK y : y = [asks[a] EXCEPT !.state = state]
  OBVIOUS
<1>5. y \in Asked
  BY <1>3, <1>4 DEF Asked
<1>6. asks' \in Seq(Asked) /\ Len(asks') = Len(asks)
  BY <1>1, <1>2, <1>4, <1>5, ExceptSeq DEF AskIds
<1>7. \A b \in AskIds : b # a => asks'[b] = asks[b]
  BY <1>1, <1>2 DEF AskIds
<1> QED
  BY <1>6, <1>7 DEF AsksKept, AskIds

LEMMA AsksSame ==
    ASSUME asks' = asks, NEW k
    PROVE  AsksKept(k)
BY DEF AsksKept, AskIds

-----------------------------------------------------------------------------
\* A step of a lane worker.

\* The worker of lane l goes on as v, and what it then shows is what it showed,
\* or what it wrote.
Journals(l, v) ==
    \/ log' = log /\ v.record = worker[l].record
    \/ /\ Known(l)
       /\ log' \in [Lanes -> Record] /\ \A k \in Lanes \ {l} : log'[k] = log[k]
       /\ v.record.status # "absent" /\ log'[l].status # "absent"
       /\ Same(Told(worker[l].record), log[l]) => Same(Told(v.record), log'[l])

DiskMoves(l) ==
    /\ disk' \in [Lanes -> Disks] /\ \A k \in Lanes \ {l} : disk'[k] = disk[k]
    /\ Known(l) /\ disk[l].worktree /\ "cleanup" \notin Operations => disk'[l].worktree

AsksMove(l) == asks' \in Seq(Asked) /\ \A k \in Lanes \ {l} : AsksKept(k)

LEMMA LaneStep ==
    ASSUME LanesInv, NEW l \in Lanes, worker[l].up, OnlyLane,
           NEW v \in Workers, Put(l, v), Kin(v, worker[l]), Journals(l, v), DiskMoves(l),
           v.doing # "none" => ~v.exited /\ v.pending.ask = 0,
           disk'[l].runtime => v.runtime /\ ~v.exited,
           used' \in Uses, AsksMove(l), Waiting(l)', Ready(l)',
           reaper' \in Reapers, Handed'
    PROVE  LanesInv'
<1> DEFINE w == worker[l]
<1>1. /\ worker' \in [Lanes -> Workers] /\ worker'[l] = v
      /\ \A k \in Lanes \ {l} : worker'[k] = worker[k]
  BY Written DEF LanesInv
<1>2. v.up /\ v.registered = w.registered /\ v.mode = w.mode /\ v.epoch = w.epoch
  BY DEF Kin
<1>3. /\ log' \in [Lanes -> Record] /\ \A k \in Lanes \ {l} : log'[k] = log[k]
      /\ log'[l].status # "absent" <=> log[l].status # "absent"
  BY DEF Journals, LanesInv, Typed, Known
<1>4. UNCHANGED <<hydrated, terminal, super, policy>>
  BY DEF OnlyLane
<1>5. Typed'
  BY <1>1, <1>3, <1>4 DEF LanesInv, Typed, DiskMoves, AsksMove
<1>6. Elsewhere(l)
  BY <1>1, <1>3, <1>4 DEF Elsewhere, DiskMoves, AsksMove
<1>7. Alive(l)'
  BY <1>1, <1>2 DEF Alive
<1>8. Known(l) => w.registered
  BY DEF LanesInv, LaneSound, Holds
<1>9. Holds(l)'
  <2>1. v.record.status # "absent"
    BY DEF Journals, LanesInv, LaneSound, Holds
  <2>2. ~v.registered => v.record = Draft
    BY <1>2, <1>8 DEF Journals, LanesInv, LaneSound, Holds
  <2> QED
    BY <1>1, <1>2, <1>3, <1>4, <2>1, <2>2 DEF LanesInv, LaneSound, Holds, Known
<1>10. Durable(l)'
  <2>1. Same(Told(w.record), log[l]) => Same(Told(v.record), log'[l])
    BY DEF Journals
  <2> QED
    BY <1>1, <1>2, <1>3, <2>1 DEF LanesInv, LaneSound, Durable, Known, DiskMoves
<1> QED
  BY <1>5, <1>6, <1>7, <1>9, <1>10, LaneMoves DEF LaneSound

LEMMA DiskSame ==
    ASSUME Typed, disk' = disk, NEW l
    PROVE  DiskMoves(l)
BY DEF DiskMoves, Typed

LEMMA DiskWritten ==
    ASSUME Typed, NEW l \in Lanes, NEW d \in Disks, disk' = [disk EXCEPT ![l] = d],
           Known(l) /\ disk[l].worktree /\ "cleanup" \notin Operations => d.worktree
    PROVE  DiskMoves(l) /\ disk'[l] = d
BY DEF DiskMoves, Typed

\* An agent whose handle is gone: what the stop came to is left on the machine.
LEMMA Released ==
    ASSUME Typed, NEW l \in Lanes, NEW stopped \in BOOLEAN, Release(l, stopped)
    PROVE  DiskMoves(l) /\ ~disk'[l].runtime
<1>1. disk[l] \in Disks
  BY DEF Typed
<1>2. PICK left \in BOOLEAN : left = (disk[l].stray \/ ~stopped)
  BY <1>1 DEF Disks
<1>3. PICK d : d = [disk[l] EXCEPT !.runtime = FALSE, !.stray = left]
  OBVIOUS
<1>4. d \in Disks /\ d.worktree = disk[l].worktree /\ ~d.runtime
  BY <1>1, <1>3 DEF Disks
<1>5. disk' = [disk EXCEPT ![l] = d]
  BY <1>1, <1>2, <1>3 DEF Release, Typed
<1> QED
  BY <1>4, <1>5, DiskWritten

LEMMA Killed ==
    ASSUME Typed, NEW stopped \in BOOLEAN, Kills(stopped)
    PROVE  used' \in Uses
BY DEF Kills, Typed, Uses

LEMMA StopOutcome ==
    ASSUME NEW l, NEW stopped \in StopOutcomes(l)
    PROVE  stopped \in BOOLEAN
BY DEF StopOutcomes

LEMMA AsksStay ==
    ASSUME Typed, asks' = asks, NEW l
    PROVE  AsksMove(l)
BY AsksSame DEF AsksMove, Typed

LEMMA WaitingStays ==
    ASSUME LanesInv, NEW l \in Lanes, asks' = asks,
           worker'[l].pending = worker[l].pending,
           worker'[l].registered = worker[l].registered
    PROVE  Waiting(l)'
BY DEF LanesInv, LaneSound, Waiting, AskIds

\* change_status of the worker of lane l, otherwise w.
LEMMA StatusChanged ==
    ASSUME LanesInv, NEW l \in Lanes, NEW w \in Workers, w.record = worker[l].record,
           NEW status \in Statuses, status # "absent", NEW mark \in {"none", "cleaned"},
           NEW ok \in Appends(l), ChangeStatus(l, w, status, mark, ok)
    PROVE  LET v == Believed(w, ok, WithStatus(w.record, status, mark)) IN
           /\ v \in Workers /\ Put(l, v) /\ Kin(v, w)
           /\ v.doing = w.doing /\ v.runtime = w.runtime /\ v.exited = w.exited
           /\ v.pending = w.pending /\ v.complete = w.complete
           /\ Journals(l, v) /\ used' \in Uses
           /\ log'[l].status = IF ok THEN status ELSE log[l].status
<1>1. ok \in BOOLEAN /\ (ok => Known(l))
  BY AppendOutcome
<1>2. w.record \in Record /\ log \in [Lanes -> Record] /\ used \in Uses
  BY DEF Workers, LanesInv, Typed
<1>3. PICK r : r = WithStatus(w.record, status, mark)
  OBVIOUS
<1>4. /\ r \in Record /\ r.status = status /\ r.mark = mark /\ r.runs = w.record.runs
      /\ Told(r) = r
  BY <1>2, <1>3, Statused DEF Told
<1>5. PICK q : q = WithStatus(log[l], status, mark)
  OBVIOUS
<1>6. q \in Record /\ q.status = status /\ q.mark = mark /\ q.runs = log[l].runs
  BY <1>2, <1>5, Statused
<1>7. PICK v : v = Believed(w, ok, r)
  OBVIOUS
<1>8. /\ v \in Workers /\ Kin(v, w)
      /\ v.doing = w.doing /\ v.runtime = w.runtime /\ v.exited = w.exited
      /\ v.pending = w.pending /\ v.complete = w.complete
      /\ v.record = IF ok THEN r ELSE w.record
  BY <1>1, <1>4, <1>7, Believes
<1>9. Put(l, v)
  BY <1>3, <1>7 DEF ChangeStatus
<1>10. log' = IF ok THEN [log EXCEPT ![l] = q] ELSE log
  BY <1>5 DEF ChangeStatus
<1>11. Journals(l, v)
  <2>1. Told(w.record).runs = w.record.runs
    BY <1>2, ToldRecord
  <2>2. CASE ok
    BY <1>1, <1>2, <1>4, <1>6, <1>8, <1>10, <2>1, <2>2 DEF Journals, Same
  <2>3. CASE ~ok
    BY <1>8, <1>10, <2>3 DEF Journals
  <2> QED
    BY <1>1, <2>2, <2>3
<1>12. used' \in Uses
  BY <1>1, <1>2, Counted DEF ChangeStatus
<1>13. log'[l].status = IF ok THEN status ELSE log[l].status
  BY <1>1, <1>2, <1>6, <1>10
<1> QED
  BY <1>3, <1>7, <1>8, <1>9, <1>11, <1>12, <1>13

\* observe_run of the worker of lane l, otherwise w.
LEMMA RunObserved ==
    ASSUME LanesInv, NEW l \in Lanes, NEW w \in Workers, w.record = worker[l].record,
           worker[l].up, NEW edge \in {"start", "end"},
           NEW ok \in Appends(l), Observe(l, w, edge, ok)
    PROVE  LET v == Believed(w, ok, Measured(w.record, edge)) IN
           /\ v \in Workers /\ Put(l, v) /\ Kin(v, w)
           /\ v.doing = w.doing /\ v.runtime = w.runtime /\ v.exited = w.exited
           /\ v.pending = w.pending /\ v.complete = w.complete
           /\ Journals(l, v) /\ used' \in Uses
           /\ log'[l].status = log[l].status
<1>1. ok \in BOOLEAN /\ (ok => Known(l))
  BY AppendOutcome
<1>2. /\ w.record \in Record /\ w.record.status # "absent"
      /\ log \in [Lanes -> Record] /\ used \in Uses
  BY DEF Workers, LanesInv, Typed, LaneSound, Holds
<1>3. PICK r : r = Measured(w.record, edge)
  OBVIOUS
<1>4. /\ r \in Record /\ r.status = w.record.status /\ r.mark = w.record.mark
      /\ r.runs = IF edge = "start" THEN w.record.runs + 1 ELSE w.record.runs
      /\ r.refused = w.record.refused
  BY <1>2, <1>3, MeasuredRecord
<1>5. PICK q : q = Measured(log[l], edge)
  OBVIOUS
<1>6. /\ q \in Record /\ q.status = log[l].status /\ q.mark = log[l].mark
      /\ q.runs = IF edge = "start" THEN log[l].runs + 1 ELSE log[l].runs
  BY <1>2, <1>5, MeasuredRecord
<1>7. PICK v : v = Believed(w, ok, r)
  OBVIOUS
<1>8. /\ v \in Workers /\ Kin(v, w)
      /\ v.doing = w.doing /\ v.runtime = w.runtime /\ v.exited = w.exited
      /\ v.pending = w.pending /\ v.complete = w.complete
      /\ v.record = IF ok THEN r ELSE w.record
  BY <1>1, <1>4, <1>7, Believes
<1>9. Put(l, v)
  BY <1>3, <1>7 DEF Observe
<1>10. log' = IF ok THEN [log EXCEPT ![l] = q] ELSE log
  BY <1>5 DEF Observe
<1>11. Journals(l, v)
  <2>1. /\ Told(r).status = Told(w.record).status /\ Told(r).mark = Told(w.record).mark
        /\ Told(r).runs = r.runs /\ Told(w.record).runs = w.record.runs
    BY <1>2, <1>4, ToldRecord
  <2>2. CASE ok
    BY <1>1, <1>2, <1>4, <1>6, <1>8, <1>10, <2>1, <2>2 DEF Journals, Same, Known
  <2>3. CASE ~ok
    BY <1>8, <1>10, <2>3 DEF Journals
  <2> QED
    BY <1>1, <2>2, <2>3
<1>12. used' \in Uses
  BY <1>1, <1>2, Counted DEF Observe
<1>13. log'[l].status = log[l].status
  BY <1>1, <1>2, <1>6, <1>10
<1> QED
  BY <1>3, <1>7, <1>8, <1>9, <1>11, <1>12, <1>13

-----------------------------------------------------------------------------
\* A worker in the middle of an operation.

LEMMA InTheMiddle ==
    ASSUME LanesInv, NEW l \in Lanes, worker[l].doing # "none"
    PROVE  /\ worker[l] \in Workers /\ worker[l].up /\ ~worker[l].exited
           /\ worker[l].pending.ask = 0
           /\ worker[l].record \in Record /\ worker[l].record.status \in Statuses
           /\ worker[l].record.status # "absent"
           /\ disk[l].runtime => worker[l].runtime
BY DEF LanesInv, Typed, LaneSound, Alive, Holds, Workers, Record

LEMMA Onward ==
    ASSUME LanesInv, NEW l \in Lanes, worker[l].doing # "none", OnlyLane,
           NEW v \in Workers, Put(l, v), Kin(v, worker[l]), Journals(l, v), DiskMoves(l),
           v.pending = worker[l].pending, v.doing # "none" => ~v.exited,
           disk'[l].runtime => v.runtime /\ ~v.exited,
           used' \in Uses, asks' = asks, Ready(l)', UNCHANGED reaper
    PROVE  LanesInv'
<1>1. worker[l].up /\ worker[l].pending.ask = 0
  BY InTheMiddle
<1>2. Waiting(l)'
  BY Written, WaitingStays DEF Kin, LanesInv
<1>3. AsksMove(l)
  BY AsksStay DEF LanesInv
<1>4. Handed'
  BY HandedKept DEF HandedStays, OnlyLane, LanesInv
<1>5. reaper' \in Reapers
  BY DEF LanesInv, Typed
<1>6. v.doing # "none" => ~v.exited /\ v.pending.ask = 0
  BY <1>1
<1> QED
  BY <1>1, <1>2, <1>3, <1>4, <1>5, <1>6, LaneStep

\* The steps of which Ready says nothing.
Plain == Steps \ {"create", "register", "cleanup", "clearing", "remove", "cleaned"}

LEMMA PlainReady ==
    ASSUME Typed, NEW l \in Lanes, NEW v \in Workers, Put(l, v),
           v.doing \in Plain
    PROVE  Ready(l)'
BY Written DEF Ready, Plain

LEMMA WriteStatusPreserves ==
    ASSUME LanesInv, NEW l \in Lanes, WriteStatus(l)
    PROVE  LanesInv'
<1> DEFINE w    == worker[l]
           step == StatusSteps[w.doing]
           mark == IF w.doing = "cleaned" THEN "cleaned" ELSE "none"
<1>1. w.doing \in DOMAIN StatusSteps /\ w.doing # "none"
  BY Names DEF WriteStatus
<1>2. PICK ok \in Appends(l) :
         ChangeStatus(l, Goto(w, IF ok THEN step.next ELSE step.otherwise), step.to, mark, ok)
  BY DEF WriteStatus
<1>3. PICK s : s = IF ok THEN step.next ELSE step.otherwise
  OBVIOUS
<1>4. /\ step.to \in Statuses /\ step.to # "absent"
      /\ s \in {"none", "spawn", "count", "clearing", "terminal", "unspawn"}
      /\ s = "clearing" => ok /\ w.doing = "cleanup" /\ step.to = "starting"
  BY <1>1, <1>3, StatusStep
<1>5. s \in Steps /\ mark \in {"none", "cleaned"} /\ w \in Workers
  BY <1>1, <1>4, StepNames, Names, InTheMiddle DEF Steps
<1>6. PICK u : u = Goto(w, s)
  OBVIOUS
<1>7. /\ u \in Workers /\ Kin(u, w) /\ u.doing = s /\ u.record = w.record
      /\ u.runtime = w.runtime /\ u.exited = w.exited /\ u.pending = w.pending
  BY <1>5, <1>6, Moved
<1>8. PICK to : to = step.to
  OBVIOUS
<1>9. ChangeStatus(l, u, to, mark, ok)
  BY <1>2, <1>3, <1>6, <1>8
<1>10. PICK v : v = Believed(u, ok, WithStatus(u.record, to, mark))
  OBVIOUS
<1>11. /\ v \in Workers /\ Put(l, v) /\ Kin(v, u)
       /\ v.doing = s /\ v.runtime = w.runtime /\ v.exited = w.exited
       /\ v.pending = w.pending
       /\ Journals(l, v) /\ used' \in Uses
       /\ log'[l].status = IF ok THEN to ELSE log[l].status
  BY <1>4, <1>5, <1>7, <1>8, <1>9, <1>10, StatusChanged
<1>12. Kin(v, w)
  BY <1>7, <1>11 DEF Kin
<1>13. worker'[l] = v
  BY <1>11, Written DEF LanesInv
<1>14. Ready(l)'
  BY <1>4, <1>8, <1>11, <1>13 DEF Ready, LanesInv, LaneSound
<1>15. ~w.exited /\ (disk[l].runtime => w.runtime)
  BY <1>1, InTheMiddle
<1>16. disk' = disk /\ asks' = asks /\ reaper' = reaper /\ OnlyLane
  BY DEF WriteStatus
<1> HIDE DEF w
<1> QED
  BY <1>1, <1>11, <1>12, <1>14, <1>15, <1>16, DiskSame, Onward DEF w, LanesInv

LEMMA CreatePreserves ==
    ASSUME LanesInv, NEW l \in Lanes, Create(l)
    PROVE  LanesInv'
<1>1. PICK w \in Workers : w = worker[l]
  BY DEF LanesInv, Typed
<1>2. w.doing = "create" /\ ~w.exited /\ (disk[l].runtime => w.runtime) /\ ~w.registered
  BY <1>1, InTheMiddle DEF Create, LanesInv, LaneSound, Ready
<1>3. PICK s \in {"none", "register"} :
         Put(l, Goto(w, s)) /\ IF s = "none" THEN disk' = disk
                               ELSE disk' = [disk EXCEPT ![l].worktree = TRUE]
  BY <1>1 DEF Create
<1>4. PICK v : v = Goto(w, s)
  OBVIOUS
<1>5. /\ v \in Workers /\ Kin(v, w) /\ v.doing = s /\ v.record = w.record
      /\ v.runtime = w.runtime /\ v.exited = w.exited /\ v.pending = w.pending
  <2>1. s \in Steps
    BY StepNames
  <2> QED
    BY <1>4, <2>1, Moved
<1>6. disk \in [Lanes -> Disks]
  BY DEF LanesInv, Typed
<1>7. /\ DiskMoves(l) /\ disk'[l].runtime = disk[l].runtime
      /\ s = "register" => disk'[l].worktree
  <2>1. CASE s = "none"
    BY <1>3, <2>1, DiskSame DEF LanesInv
  <2>2. CASE s = "register"
    <3>1. PICK d : d = [disk[l] EXCEPT !.worktree = TRUE]
      OBVIOUS
    <3>2. d \in Disks /\ d.worktree /\ d.runtime = disk[l].runtime
      BY <1>6, <3>1 DEF Disks
    <3>3. disk' = [disk EXCEPT ![l] = d]
      BY <1>3, <2>2, <3>1
    <3> QED
      BY <2>2, <3>2, <3>3, DiskWritten DEF LanesInv
  <2> QED
    BY <2>1, <2>2
<1>8. log' = log /\ used' = used /\ asks' = asks /\ reaper' = reaper /\ OnlyLane
  BY DEF Create
<1>9. worker'[l] = v /\ Put(l, v)
  BY <1>3, <1>4, <1>5, Written DEF LanesInv
<1>10. Ready(l)'
  BY <1>2, <1>5, <1>7, <1>9 DEF Ready, Kin
<1>11. Journals(l, v) /\ used' \in Uses
  BY <1>1, <1>5, <1>8 DEF Journals, LanesInv, Typed
<1> QED
  BY <1>1, <1>2, <1>5, <1>7, <1>8, <1>9, <1>10, <1>11, Onward
\* Nothing is registered by a lane that another took the place of in the log.
LEMMA RegisterPreserves ==
    ASSUME LanesInv, NEW l \in Lanes, Register(l)
    PROVE  LanesInv'
<1>1. PICK w \in Workers : w = worker[l]
  BY DEF LanesInv, Typed
<1>2. /\ w.doing = "register" /\ w.up /\ ~w.exited /\ w.pending.ask = 0
      /\ (disk[l].runtime => w.runtime) /\ ~w.registered
      /\ disk[l].worktree /\ ~Known(l) /\ w.record = Draft
  BY <1>1, InTheMiddle DEF Register, LanesInv, LaneSound, Ready, Holds
<1>3. PICK u : u = Goto(w, "none")
  OBVIOUS
<1>4. /\ u \in Workers /\ Kin(u, w) /\ u.doing = "none" /\ u.record = w.record
      /\ u.runtime = w.runtime /\ u.exited = w.exited /\ u.pending = w.pending
      /\ u.complete = w.complete
  <2>1. "none" \in Steps
    BY StepNames
  <2> QED
    BY <1>3, <2>1, Moved
<1>5. asks' = asks /\ reaper' = reaper /\ OnlyLane
  BY DEF Register
<1>6. disk \in [Lanes -> Disks] /\ used \in Uses
  BY DEF LanesInv, Typed
<1>7. CASE Put(l, [u EXCEPT !.registered = TRUE]) /\ log' = [log EXCEPT ![l] = Draft]
           /\ UNCHANGED <<disk, used>>
  <2>1. PICK v : v = [u EXCEPT !.registered = TRUE]
    OBVIOUS
  <2>2. /\ v \in Workers /\ v.registered /\ v.up = w.up /\ v.mode = w.mode /\ v.epoch = w.epoch
        /\ v.doing = "none" /\ v.record = Draft /\ v.runtime = w.runtime
        /\ v.exited = w.exited /\ v.pending = w.pending /\ v.complete = w.complete
    BY <1>2, <1>4, <2>1 DEF Workers, Kin
  <2>3. /\ worker' \in [Lanes -> Workers] /\ worker'[l] = v
        /\ \A k \in Lanes \ {l} : worker'[k] = worker[k]
    BY <1>7, <2>1, <2>2, Written DEF LanesInv
  <2>4. /\ log' \in [Lanes -> Record] /\ log'[l] = Draft
        /\ \A k \in Lanes \ {l} : log'[k] = log[k]
    BY <1>7, Constants DEF LanesInv, Typed
  <2>5. Typed'
    BY <1>5, <1>7, <2>3, <2>4 DEF LanesInv, Typed, OnlyLane
  <2>6. Elsewhere(l)
    BY <1>5, <1>7, <2>3, <2>4, AsksSame DEF Elsewhere, OnlyLane
  <2>7. Alive(l)' /\ Ready(l)' /\ Waiting(l)'
    BY <1>2, <1>7, <2>2, <2>3 DEF Alive, Ready, Waiting
  <2>8. Holds(l)'
    BY <1>1, <1>2, <1>5, <2>2, <2>3, <2>4, Constants
       DEF Holds, LanesInv, LaneSound, OnlyLane, Known
  <2>9. Durable(l)'
    BY <1>2, <1>7, <2>2, <2>3, <2>4, Constants DEF Durable, Same, Told
  <2>10. Handed'
    BY <1>5, HandedKept DEF HandedStays, OnlyLane, LanesInv
  <2> QED
    BY <2>5, <2>6, <2>7, <2>8, <2>9, <2>10, LaneMoves DEF LaneSound
<1>8. CASE /\ Put(l, u) /\ UNCHANGED log
           /\ Failures(IF Known(l) THEN 0 ELSE 1)
           /\ \E gone \in BOOLEAN : disk' = [disk EXCEPT ![l].worktree = @ /\ ~gone]
  <2>1. PICK gone \in BOOLEAN : disk' = [disk EXCEPT ![l].worktree = @ /\ ~gone]
    BY <1>8
  <2>2. PICK kept \in BOOLEAN : kept = (disk[l].worktree /\ ~gone)
    OBVIOUS
  <2>3. PICK d : d = [disk[l] EXCEPT !.worktree = kept]
    OBVIOUS
  <2>4. d \in Disks /\ d.runtime = disk[l].runtime
    BY <1>6, <2>3 DEF Disks
  <2>5. disk' = [disk EXCEPT ![l] = d]
    BY <2>1, <2>2, <2>3
  <2>6. DiskMoves(l) /\ disk'[l] = d
    BY <1>2, <2>4, <2>5, DiskWritten DEF LanesInv
  <2>7. used' \in Uses
    BY <1>6, <1>8 DEF Failures, Uses
  <2>8. Journals(l, u)
    BY <1>1, <1>4, <1>8 DEF Journals
  <2>9. Ready(l)'
    BY <1>4, <1>8, Written DEF Ready, LanesInv
  <2> QED
    BY <1>1, <1>2, <1>4, <1>5, <1>8, <2>4, <2>6, <2>7, <2>8, <2>9, Onward
<1> QED
  BY <1>1, <1>3, <1>7, <1>8 DEF Register

\* The worker goes on to a plain step, with the agent it then has.
LEMMA RuntimeMoves ==
    ASSUME LanesInv, NEW l \in Lanes, worker[l].doing # "none", OnlyLane,
           UNCHANGED <<log, reaper, asks>>, used' \in Uses, DiskMoves(l),
           NEW s \in Plain, NEW b \in BOOLEAN, disk'[l].runtime => b,
           Put(l, [Goto(worker[l], s) EXCEPT !.runtime = b])
    PROVE  LanesInv'
<1>1. PICK w \in Workers : w = worker[l]
  BY DEF LanesInv, Typed
<1>2. PICK u : u = Goto(w, s)
  OBVIOUS
<1>3. s \in Steps
  BY DEF Plain
<1>4. /\ u \in Workers /\ Kin(u, w) /\ u.doing = s /\ u.record = w.record
      /\ u.exited = w.exited /\ u.pending = w.pending
  BY <1>2, <1>3, Moved
<1>5. PICK v : v = [u EXCEPT !.runtime = b]
  OBVIOUS
<1>6. /\ v \in Workers /\ Kin(v, u) /\ v.doing = u.doing /\ v.record = u.record
      /\ v.exited = u.exited /\ v.pending = u.pending /\ v.runtime = b
  BY <1>4, <1>5, RuntimeSet
<1>7. Put(l, v)
  BY <1>1, <1>2, <1>5
<1>8. Ready(l)'
  BY <1>4, <1>6, <1>7, PlainReady DEF LanesInv
<1>9. Kin(v, w) /\ Journals(l, v)
  BY <1>1, <1>4, <1>6 DEF Kin, Journals
<1>10. ~w.exited
  BY <1>1, InTheMiddle
<1> QED
  BY <1>1, <1>4, <1>6, <1>7, <1>8, <1>9, <1>10, Onward

\* The worker goes on to a plain step, with the agent it has.
LEMMA PlainGo ==
    ASSUME LanesInv, NEW l \in Lanes, worker[l].doing # "none", OnlyLane,
           UNCHANGED <<log, reaper, asks>>, used' \in Uses, DiskMoves(l),
           disk'[l].runtime => disk[l].runtime,
           NEW s \in Plain, Put(l, Goto(worker[l], s))
    PROVE  LanesInv'
<1>1. PICK w \in Workers : w = worker[l]
  BY DEF LanesInv, Typed
<1>2. PICK v : v = Goto(w, s)
  OBVIOUS
<1>3. s \in Steps
  BY DEF Plain
<1>4. /\ v \in Workers /\ Kin(v, w) /\ v.doing = s /\ v.record = w.record
      /\ v.exited = w.exited /\ v.pending = w.pending /\ v.runtime = w.runtime
  BY <1>2, <1>3, Moved
<1>5. Ready(l)' /\ Put(l, v)
  BY <1>1, <1>2, <1>4, PlainReady DEF LanesInv
<1>6. Journals(l, v)
  BY <1>1, <1>4 DEF Journals
<1>7. ~w.exited /\ (disk'[l].runtime => w.runtime)
  BY <1>1, InTheMiddle
<1> QED
  BY <1>1, <1>4, <1>5, <1>6, <1>7, Onward

\* The worker goes on to a plain step, and its lane stays as it is.
LEMMA PlainMove ==
    ASSUME LanesInv, NEW l \in Lanes, worker[l].doing # "none", OnlyLane,
           UNCHANGED <<log, disk, reaper, asks, used>>,
           NEW s \in Plain, Put(l, Goto(worker[l], s))
    PROVE  LanesInv'
<1>1. used' \in Uses /\ DiskMoves(l)
  BY DiskSame DEF LanesInv, Typed
<1> QED
  BY <1>1, PlainGo

LEMMA PlainSteps ==
    {"none", "run", "fail", "detached", "cancelled", "archived", "block", "drained"} \subseteq Plain
BY StepNames DEF Plain

LEMMA SpawnPreserves ==
    ASSUME LanesInv, NEW l \in Lanes, Spawn(l)
    PROVE  LanesInv'
<1>1. OnlyLane /\ UNCHANGED <<log, reaper, asks>> /\ worker[l].doing # "none"
  BY DEF Spawn
<1>2. "fail" \in Plain /\ "run" \in Plain
  BY PlainSteps
<1>3. CASE Put(l, Goto(worker[l], "fail")) /\ UNCHANGED <<disk, used>>
  BY <1>1, <1>2, <1>3, PlainMove
<1>4. CASE Put(l, Goto(worker[l], "fail")) /\ Release(l, FALSE) /\ Kills(FALSE)
  <2>1. DiskMoves(l) /\ ~disk'[l].runtime /\ used' \in Uses
    BY <1>4, Released, Killed DEF LanesInv
  <2> QED
    BY <1>1, <1>2, <1>4, <2>1, PlainGo
<1>5. CASE /\ disk' = [disk EXCEPT ![l].runtime = TRUE]
           /\ Put(l, [Goto(worker[l], "run") EXCEPT !.runtime = TRUE])
           /\ UNCHANGED used
  <2>1. PICK d : d = [disk[l] EXCEPT !.runtime = TRUE]
    OBVIOUS
  <2>2. d \in Disks /\ d.worktree = disk[l].worktree
    BY <2>1 DEF Disks, LanesInv, Typed
  <2>3. disk' = [disk EXCEPT ![l] = d]
    BY <1>5, <2>1
  <2>4. DiskMoves(l) /\ used' \in Uses
    BY <1>5, <2>2, <2>3, DiskWritten DEF LanesInv, Typed
  <2> QED
    BY <1>1, <1>2, <1>5, <2>4, RuntimeMoves
<1> QED
  BY <1>3, <1>4, <1>5 DEF Spawn

LEMMA UnspawnPreserves ==
    ASSUME LanesInv, NEW l \in Lanes, Unspawn(l)
    PROVE  LanesInv'
<1>1. "detached" \in Plain
  BY PlainSteps
<1>2. PICK stopped \in StopOutcomes(l) : Release(l, stopped) /\ Kills(stopped)
  BY DEF Unspawn
<1>3. DiskMoves(l) /\ ~disk'[l].runtime /\ used' \in Uses
  BY <1>2, StopOutcome, Released, Killed DEF LanesInv
<1>4. /\ OnlyLane /\ UNCHANGED <<log, reaper, asks>> /\ worker[l].doing # "none"
      /\ Put(l, [Goto(worker[l], "detached") EXCEPT !.runtime = FALSE])
  BY DEF Unspawn
<1> QED
  BY <1>1, <1>3, <1>4, RuntimeMoves

LEMMA CountRunPreserves ==
    ASSUME LanesInv, NEW l \in Lanes, CountRun(l)
    PROVE  LanesInv'
<1>1. PICK w \in Workers : w = worker[l]
  BY DEF LanesInv, Typed
<1>2. w.doing # "none" /\ w.up /\ ~w.exited /\ (disk[l].runtime => w.runtime)
  BY <1>1, InTheMiddle DEF CountRun
<1>3. PICK u : u = Goto(w, "none")
  OBVIOUS
<1>4. "none" \in Steps /\ "none" \in Plain
  BY StepNames, PlainSteps
<1>5. /\ u \in Workers /\ Kin(u, w) /\ u.doing = "none" /\ u.record = w.record
      /\ u.runtime = w.runtime /\ u.exited = w.exited /\ u.pending = w.pending
  BY <1>3, <1>4, Moved
<1>6. PICK ok \in Appends(l) : Observe(l, u, "start", ok)
  BY <1>1, <1>3 DEF CountRun
<1>7. PICK edge \in {"start", "end"} : edge = "start"
  OBVIOUS
<1>8. PICK v : v = Believed(u, ok, Measured(u.record, edge))
  OBVIOUS
<1>9. /\ v \in Workers /\ Put(l, v) /\ Kin(v, u)
      /\ v.doing = "none" /\ v.runtime = w.runtime /\ v.exited = w.exited
      /\ v.pending = w.pending /\ Journals(l, v) /\ used' \in Uses
  BY <1>1, <1>2, <1>5, <1>6, <1>7, <1>8, RunObserved
<1>10. Kin(v, w)
  BY <1>5, <1>9 DEF Kin
<1>11. Ready(l)'
  BY <1>4, <1>9, PlainReady DEF LanesInv
<1>12. disk' = disk /\ asks' = asks /\ reaper' = reaper /\ OnlyLane
  BY DEF CountRun
<1> QED
  BY <1>1, <1>2, <1>9, <1>10, <1>11, <1>12, DiskSame, Onward DEF LanesInv

LEMMA StopRuntimePreserves ==
    ASSUME LanesInv, NEW l \in Lanes, StopRuntime(l)
    PROVE  LanesInv'
<1>1. PICK w \in Workers : w = worker[l]
  BY DEF LanesInv, Typed
<1>2. w.doing \in DOMAIN AfterShutdown /\ w.doing # "none"
  BY <1>1, Names DEF StopRuntime
<1>3. w.up /\ ~w.exited /\ (disk[l].runtime => w.runtime)
  BY <1>1, <1>2, InTheMiddle
<1>4. PICK s : s = AfterShutdown[w.doing]
  OBVIOUS
<1>5. /\ s \in {"detached", "cancelled", "archived", "remove"}
      /\ s = "remove" <=> w.doing = "clearing"
  BY <1>2, <1>4, ShutdownStep
<1>6. PICK t : t = [w EXCEPT !.runtime = FALSE]
  OBVIOUS
<1>7. /\ t \in Workers /\ Kin(t, w)
      /\ t.doing = w.doing /\ t.record = w.record /\ ~t.runtime
      /\ t.exited = w.exited /\ t.pending = w.pending
  BY <1>6, RuntimeSet
<1>8. PICK u : u = Goto(t, s)
  OBVIOUS
<1>9. s \in Steps /\ "fail" \in Steps /\ "fail" \in Plain
  BY <1>5, StepNames, PlainSteps
<1>10. /\ u \in Workers /\ Kin(u, w) /\ u.doing = s /\ u.record = w.record
       /\ ~u.runtime /\ u.exited = w.exited /\ u.pending = w.pending
  BY <1>7, <1>8, <1>9, Moved DEF Kin
<1>11. PICK f : f = Goto(w, "fail")
  OBVIOUS
<1>12. /\ f \in Workers /\ Kin(f, w) /\ f.doing = "fail" /\ f.record = w.record
       /\ f.runtime = w.runtime /\ f.exited = w.exited /\ f.pending = w.pending
  BY <1>9, <1>11, Moved
<1>13. PICK stopped \in StopOutcomes(l) :
         /\ Release(l, stopped)
         /\ \/ ~stopped /\ Put(l, f) /\ Kills(FALSE) /\ UNCHANGED log
            \/ stopped /\ ~w.runtime /\ Put(l, u) /\ UNCHANGED <<log, used>>
            \/ /\ stopped /\ w.runtime
               /\ \E ok \in Appends(l) : Observe(l, u, "end", ok)
  BY <1>1, <1>4, <1>6, <1>8, <1>11 DEF StopRuntime
<1>14. DiskMoves(l) /\ ~disk'[l].runtime
  BY <1>13, StopOutcome, Released DEF LanesInv
<1>15. asks' = asks /\ reaper' = reaper /\ OnlyLane
  BY DEF StopRuntime
<1>16. used \in Uses
  BY DEF LanesInv, Typed
<1>17. CASE Put(l, f) /\ Kills(FALSE) /\ UNCHANGED log
  <2>1. Journals(l, f) /\ used' \in Uses
    BY <1>1, <1>12, <1>17, Killed DEF Journals, LanesInv
  <2>2. Ready(l)'
    BY <1>9, <1>12, <1>17, PlainReady DEF LanesInv
  <2> QED
    BY <1>1, <1>2, <1>3, <1>12, <1>14, <1>15, <1>17, <2>1, <2>2, Onward
<1>18. ASSUME NEW v \in Workers, Put(l, v), Kin(v, w), v.doing = s, ~v.runtime,
              v.exited = w.exited, v.pending = w.pending, Journals(l, v), used' \in Uses,
              log'[l].status = log[l].status
       PROVE  LanesInv'
  <2>1. worker'[l] = v
    BY <1>18, Written DEF LanesInv
  <2>2. Ready(l)'
    BY <1>1, <1>5, <1>18, <2>1 DEF Ready, LanesInv, LaneSound
  <2> QED
    BY <1>1, <1>2, <1>3, <1>14, <1>15, <1>18, <2>2, Onward
<1>19. CASE Put(l, u) /\ UNCHANGED <<log, used>>
  <2>1. Journals(l, u) /\ used' \in Uses
    BY <1>1, <1>10, <1>16, <1>19 DEF Journals
  <2> QED
    BY <1>10, <1>18, <1>19, <2>1
<1>20. ASSUME NEW ok \in Appends(l), Observe(l, u, "end", ok)
       PROVE  LanesInv'
  <2>1. PICK edge \in {"start", "end"} : edge = "end"
    OBVIOUS
  <2>2. PICK v : v = Believed(u, ok, Measured(u.record, edge))
    OBVIOUS
  <2>3. /\ v \in Workers /\ Put(l, v) /\ Kin(v, u)
        /\ v.doing = u.doing /\ v.runtime = u.runtime /\ v.exited = u.exited
        /\ v.pending = u.pending /\ Journals(l, v) /\ used' \in Uses
        /\ log'[l].status = log[l].status
    BY <1>1, <1>3, <1>10, <1>20, <2>1, <2>2, RunObserved
  <2>4. Kin(v, w)
    BY <1>10, <2>3 DEF Kin
  <2> QED
    BY <1>10, <1>18, <2>3, <2>4
<1> QED
  BY <1>13, <1>17, <1>19, <1>20

LEMMA RemoveWorktreePreserves ==
    ASSUME LanesInv, NEW l \in Lanes, RemoveWorktree(l)
    PROVE  LanesInv'
<1>1. PICK w \in Workers : w = worker[l]
  BY DEF LanesInv, Typed
<1>2. /\ w.doing = "remove" /\ ~w.exited /\ (disk[l].runtime => w.runtime)
      /\ "cleanup" \in Operations
  BY <1>1, InTheMiddle DEF RemoveWorktree, LanesInv, LaneSound, Ready
<1>3. OnlyLane /\ UNCHANGED <<log, reaper, asks, used>>
  BY DEF RemoveWorktree
<1>4. CASE Put(l, Goto(worker[l], "fail")) /\ UNCHANGED disk
  <2>1. "fail" \in Plain
    BY PlainSteps
  <2> QED
    BY <1>1, <1>2, <1>3, <1>4, <2>1, PlainMove
<1>5. CASE Put(l, Goto(w, "cleaned")) /\ disk' = [disk EXCEPT ![l].worktree = FALSE]
  <2>1. "cleaned" \in Steps
    BY StepNames
  <2>2. PICK v : v = Goto(w, "cleaned")
    OBVIOUS
  <2>3. /\ v \in Workers /\ Kin(v, w) /\ v.doing = "cleaned" /\ v.record = w.record
        /\ v.runtime = w.runtime /\ v.exited = w.exited /\ v.pending = w.pending
    BY <2>1, <2>2, Moved
  <2>4. PICK d : d = [disk[l] EXCEPT !.worktree = FALSE]
    OBVIOUS
  <2>5. d \in Disks /\ d.runtime = disk[l].runtime
    BY <2>4 DEF Disks, LanesInv, Typed
  <2>6. DiskMoves(l) /\ disk'[l] = d
    BY <1>2, <1>5, <2>4, <2>5, DiskWritten DEF LanesInv
  <2>7. Journals(l, v) /\ used' \in Uses
    BY <1>1, <1>3, <2>3 DEF Journals, LanesInv, Typed
  <2>8. worker'[l] = v /\ Put(l, v)
    BY <1>5, <2>2, <2>3, Written DEF LanesInv
  <2>9. Ready(l)'
    BY <1>2, <2>3, <2>8 DEF Ready
  <2> QED
    BY <1>1, <1>2, <1>3, <2>3, <2>5, <2>6, <2>7, <2>8, <2>9, Onward
<1> QED
  BY <1>1, <1>4, <1>5 DEF RemoveWorktree

\* A worker that writes a status and goes on to a plain step.
LEMMA PlainWrite ==
    ASSUME LanesInv, NEW l \in Lanes, worker[l].doing # "none", OnlyLane,
           UNCHANGED <<disk, reaper, asks>>, NEW s \in Plain,
           NEW status \in Statuses, status # "absent", NEW ok \in Appends(l),
           ChangeStatus(l, Goto(worker[l], s), status, "none", ok)
    PROVE  LanesInv'
<1>1. PICK w \in Workers : w = worker[l]
  BY DEF LanesInv, Typed
<1>2. ~w.exited /\ (disk[l].runtime => w.runtime)
  BY <1>1, InTheMiddle
<1>3. PICK u : u = Goto(w, s)
  OBVIOUS
<1>4. s \in Steps
  BY DEF Plain
<1>5. /\ u \in Workers /\ Kin(u, w) /\ u.doing = s /\ u.record = w.record
      /\ u.runtime = w.runtime /\ u.exited = w.exited /\ u.pending = w.pending
  BY <1>3, <1>4, Moved
<1>6. PICK mark \in {"none", "cleaned"} : mark = "none"
  OBVIOUS
<1>7. PICK v : v = Believed(u, ok, WithStatus(u.record, status, mark))
  OBVIOUS
<1>8. /\ v \in Workers /\ Put(l, v) /\ Kin(v, u)
      /\ v.doing = s /\ v.runtime = w.runtime /\ v.exited = w.exited
      /\ v.pending = w.pending /\ Journals(l, v) /\ used' \in Uses
  BY <1>1, <1>3, <1>5, <1>6, <1>7, StatusChanged
<1>9. Kin(v, w)
  BY <1>5, <1>8 DEF Kin
<1>10. Ready(l)'
  BY <1>8, PlainReady DEF LanesInv
<1> QED
  BY <1>1, <1>2, <1>8, <1>9, <1>10, DiskSame, Onward DEF LanesInv

LEMMA SendInputPreserves ==
    ASSUME LanesInv, NEW l \in Lanes, SendInput(l)
    PROVE  LanesInv'
<1>1. worker[l].doing # "none" /\ OnlyLane /\ UNCHANGED <<disk, reaper, asks>>
  BY DEF SendInput
<1>2. "fail" \in Plain /\ "none" \in Plain
  BY PlainSteps
<1>3. CASE Put(l, Goto(worker[l], "fail")) /\ UNCHANGED <<log, used>>
  BY <1>1, <1>2, <1>3, PlainMove
<1>4. ASSUME NEW ok \in Appends(l),
             ChangeStatus(l, Goto(worker[l], "none"), worker[l].record.status, "none", ok)
      PROVE  LanesInv'
  <2>1. PICK status : status = worker[l].record.status
    OBVIOUS
  <2>2. status \in Statuses /\ status # "absent"
    BY <1>1, <2>1, InTheMiddle
  <2> QED
    BY <1>1, <1>2, <1>4, <2>1, <2>2, PlainWrite
<1> QED
  BY <1>3, <1>4 DEF SendInput

LEMMA ApplyPatchPreserves ==
    ASSUME LanesInv, NEW l \in Lanes, ApplyPatch(l)
    PROVE  LanesInv'
<1>1. worker[l].doing # "none" /\ OnlyLane /\ UNCHANGED <<disk, reaper, asks>>
  BY DEF ApplyPatch
<1>2. {"fail", "none", "block"} \subseteq Plain /\ "done" \in Statuses
  BY PlainSteps, Names
<1>3. ASSUME NEW next \in {"block", "fail"}, Put(l, Goto(worker[l], next)),
             UNCHANGED <<log, used>>
      PROVE  LanesInv'
  BY <1>1, <1>2, <1>3, PlainMove
<1>4. ASSUME NEW ok \in Appends(l),
             ChangeStatus(l, Goto(worker[l], IF ok THEN "none" ELSE "fail"), "done", "none", ok)
      PROVE  LanesInv'
  <2>1. PICK s : s = IF ok THEN "none" ELSE "fail"
    OBVIOUS
  <2>2. PICK status : status = "done"
    OBVIOUS
  <2>3. s \in Plain /\ status \in Statuses /\ status # "absent"
    BY <1>2, <2>1, <2>2
  <2> QED
    BY <1>1, <1>4, <2>1, <2>2, <2>3, PlainWrite
<1>5. CASE /\ Known(l) /\ log' = [log EXCEPT ![l] = WithStatus(@, "done", "none")]
           /\ Put(l, [Goto(worker[l], "block") EXCEPT !.record.refused = TRUE])
           /\ UNCHANGED used
  <2>1. PICK w \in Workers : w = worker[l]
    BY DEF LanesInv, Typed
  <2>2. ~w.exited /\ (disk[l].runtime => w.runtime)
    BY <1>1, <2>1, InTheMiddle
  <2>3. w.record \in Record /\ w.record.status # "absent"
    BY <1>1, <2>1, InTheMiddle
  <2>4. PICK u : u = Goto(w, "block")
    OBVIOUS
  <2>5. /\ u \in Workers /\ Kin(u, w) /\ u.doing = "block" /\ u.record = w.record
        /\ u.runtime = w.runtime /\ u.exited = w.exited /\ u.pending = w.pending
    <3>1. "block" \in Steps
      BY StepNames
    <3>2. /\ Goto(w, "block") \in Workers /\ Kin(Goto(w, "block"), w)
          /\ Goto(w, "block").doing = "block" /\ Goto(w, "block").record = w.record
          /\ Goto(w, "block").runtime = w.runtime /\ Goto(w, "block").exited = w.exited
          /\ Goto(w, "block").pending = w.pending
      BY <3>1, Moved
    <3> QED
      BY <2>4, <3>2
  <2>6. PICK r : r = [w.record EXCEPT !.refused = TRUE]
    OBVIOUS
  <2>7. /\ r \in Record /\ r.status = w.record.status /\ r.refused
        /\ r.runs = w.record.runs
    BY <2>3, <2>6 DEF Record
  <2>8. PICK v : v = [u EXCEPT !.record = r]
    OBVIOUS
  <2>9. /\ v \in Workers /\ Kin(v, u) /\ v.doing = "block" /\ v.record = r
        /\ v.runtime = w.runtime /\ v.exited = w.exited /\ v.pending = w.pending
    BY <2>5, <2>7, <2>8, RecordSet
  <2>10. Put(l, v)
    BY <1>5, <2>1, <2>4, <2>5, <2>6, <2>8
  <2>11. PICK done \in Statuses : done = "done"
    BY Names
  <2>12. PICK mark \in {"none", "cleaned"} : mark = "none"
    OBVIOUS
  <2>13. PICK q : q = WithStatus(log[l], done, mark)
    OBVIOUS
  <2>14. /\ q \in Record /\ q.status = "done" /\ q.mark = "none" /\ q.runs = log[l].runs
    BY <2>11, <2>12, <2>13, Statused DEF LanesInv, Typed
  <2>15. log' = [log EXCEPT ![l] = q]
    BY <1>5, <2>11, <2>12, <2>13
  <2>16. /\ Told(r).status = "done" /\ Told(r).mark = "none"
         /\ Told(r).runs = Told(w.record).runs
    BY <2>3, <2>7, ToldRecord
  <2>17. Journals(l, v)
    BY <1>5, <2>1, <2>3, <2>7, <2>9, <2>14, <2>15, <2>16 DEF Journals, Same, LanesInv, Typed
  <2>18. Kin(v, w) /\ used' \in Uses /\ DiskMoves(l)
    BY <1>1, <1>5, <2>5, <2>9, DiskSame DEF Kin, LanesInv, Typed
  <2>19. Ready(l)'
    BY <1>2, <2>9, <2>10, PlainReady DEF LanesInv
  <2> QED
    BY <1>1, <2>1, <2>2, <2>9, <2>10, <2>17, <2>18, <2>19, Onward
<1> QED
  BY <1>3, <1>4, <1>5 DEF ApplyPatch

\* A completion joins the reaper's channel.
LEMMA CompletionSent ==
    ASSUME LanesInv, NEW done \in Completions, done.record.status # "absent",
           done.kind # "none", reaper' = [reaper EXCEPT !.inbox = Append(@, done)],
           UNCHANGED <<super, hydrated, terminal>>
    PROVE  reaper' \in Reapers /\ Handed'
<1>1. reaper \in Reapers /\ reaper.inbox \in Seq(Completions)
  BY DEF LanesInv, Typed, Reapers
<1>2. PICK q : q = Append(reaper.inbox, done)
  OBVIOUS
<1>3. /\ q \in Seq(Completions) /\ Len(q) = Len(reaper.inbox) + 1
      /\ \A i \in 1..Len(reaper.inbox) : q[i] = reaper.inbox[i]
      /\ q[Len(reaper.inbox) + 1] = done /\ Len(reaper.inbox) \in Nat
  BY <1>1, <1>2, AppendProperties, LenProperties
<1>4. reaper' = [reaper EXCEPT !.inbox = q]
  BY <1>2
<1>5. reaper' \in Reapers /\ reaper'.inbox = q
  BY <1>1, <1>3, <1>4 DEF Reapers
<1>6. reaper'.inHand = reaper.inHand /\ reaper'.joining = reaper.joining
  BY <1>1, <1>4 DEF Reapers
<1>7. \A i \in 1..Len(q) : q[i].record.status # "absent" /\ q[i].kind # "none"
  <2>1. TAKE i \in 1..Len(q)
  <2>2. CASE i = Len(reaper.inbox) + 1
    BY <1>3, <2>2
  <2>3. CASE i # Len(reaper.inbox) + 1
    <3>1. i \in 1..Len(reaper.inbox) /\ q[i] = reaper.inbox[i]
      BY <1>3, <2>3
    <3> QED
      BY <3>1 DEF LanesInv, Handed
  <2> QED
    BY <2>2, <2>3
<1> QED
  BY <1>5, <1>6, <1>7 DEF LanesInv, Handed

LEMMA MarkTerminalPreserves ==
    ASSUME LanesInv, NEW l \in Lanes, MarkTerminal(l)
    PROVE  LanesInv'
<1>1. PICK w \in Workers : w = worker[l]
  BY DEF LanesInv, Typed
<1>2. /\ w.doing = "terminal" /\ w.up /\ ~w.exited /\ (disk[l].runtime => w.runtime)
      /\ w.pending.ask = 0 /\ w.record \in Record /\ w.record.status # "absent"
  BY <1>1, InTheMiddle DEF MarkTerminal
<1>3. PICK kind \in {"archived", "cleaned"} :
         kind = IF w.record.mark = "cleaned" THEN "cleaned" ELSE "archived"
  OBVIOUS
<1>4. PICK u : u = Goto(w, "check")
  OBVIOUS
<1>5. "check" \in Steps /\ "check" \in Plain
  BY StepNames DEF Plain
<1>6. /\ u \in Workers /\ Kin(u, w) /\ u.doing = "check" /\ u.record = w.record
      /\ u.runtime = w.runtime /\ u.exited = w.exited /\ u.pending = w.pending
  BY <1>4, <1>5, Moved
<1>7. PICK v : v = [u EXCEPT !.complete = kind]
  OBVIOUS
<1>8. /\ v \in Workers /\ Kin(v, w) /\ v.doing = "check" /\ v.record = w.record
      /\ v.runtime = w.runtime /\ v.exited = w.exited /\ v.pending = w.pending
  BY <1>6, <1>7 DEF Workers, Kin, Kinds
<1>9. Put(l, v)
  BY <1>1, <1>3, <1>4, <1>7 DEF MarkTerminal
<1>10. PICK done : done = [lane |-> l, kind |-> kind, record |-> HandedOn(w.record)]
  OBVIOUS
<1>11. done \in Completions /\ done.record.status # "absent" /\ done.kind # "none"
  BY <1>2, <1>10, HandedOnRecord DEF Completions, Kinds
<1>12. /\ reaper' = [reaper EXCEPT !.inbox = Append(@, done)]
       /\ OnlyLane /\ UNCHANGED <<log, disk, asks, used>>
  BY <1>1, <1>3, <1>10 DEF MarkTerminal
<1>13. reaper' \in Reapers /\ Handed'
  BY <1>11, <1>12, CompletionSent DEF OnlyLane
<1>14. Ready(l)' /\ worker'[l] = v
  BY <1>5, <1>8, <1>9, PlainReady, Written DEF LanesInv
<1>15. Waiting(l)'
  BY <1>1, <1>8, <1>12, <1>14, WaitingStays DEF Kin
<1>16. Journals(l, v) /\ used' \in Uses /\ DiskMoves(l) /\ AsksMove(l)
  BY <1>1, <1>8, <1>12, DiskSame, AsksStay DEF Journals, LanesInv, Typed
<1> QED
  BY <1>1, <1>2, <1>8, <1>9, <1>12, <1>13, <1>14, <1>15, <1>16, LaneStep

LEMMA CheckTerminalPreserves ==
    ASSUME LanesInv, NEW l \in Lanes, CheckTerminal(l)
    PROVE  LanesInv'
<1>1. PICK w \in Workers : w = worker[l]
  BY DEF LanesInv, Typed
<1>2. w.doing # "none" /\ ~w.exited /\ (disk[l].runtime => w.runtime)
  BY <1>1, InTheMiddle DEF CheckTerminal
<1>3. OnlyLane /\ UNCHANGED <<log, disk, reaper, asks, used>>
  BY DEF CheckTerminal
<1>4. "none" \in Plain /\ "drained" \in Plain /\ "drained" \in Steps
  BY PlainSteps, StepNames
<1>5. CASE Put(l, Goto(worker[l], "none"))
  BY <1>1, <1>2, <1>3, <1>4, <1>5, PlainMove
<1>6. CASE Put(l, [Goto(w, "drained") EXCEPT !.inbox = <<>>])
  <2>1. PICK u : u = Goto(w, "drained")
    OBVIOUS
  <2>2. /\ u \in Workers /\ Kin(u, w) /\ u.doing = "drained" /\ u.record = w.record
        /\ u.runtime = w.runtime /\ u.exited = w.exited /\ u.pending = w.pending
    BY <1>4, <2>1, Moved
  <2>3. PICK e : e = <<>>
    OBVIOUS
  <2>4. e \in Seq(Mail)
    BY <2>3
  <2>5. PICK v : v = [u EXCEPT !.inbox = e]
    OBVIOUS
  <2>6. /\ v \in Workers /\ Kin(v, w) /\ v.doing = "drained" /\ v.record = w.record
        /\ v.runtime = w.runtime /\ v.exited = w.exited /\ v.pending = w.pending
    BY <2>2, <2>4, <2>5 DEF Workers, Kin
  <2>7. Put(l, v)
    BY <1>6, <2>1, <2>3, <2>5
  <2>8. Ready(l)'
    BY <1>4, <2>6, <2>7, PlainReady DEF LanesInv
  <2>9. Journals(l, v) /\ used' \in Uses /\ DiskMoves(l)
    BY <1>1, <1>3, <2>6, DiskSame DEF Journals, LanesInv, Typed
  <2> QED
    BY <1>1, <1>2, <1>3, <2>6, <2>7, <2>8, <2>9, Onward
<1> QED
  BY <1>1, <1>5, <1>6 DEF CheckTerminal

\* The thread of a lane worker ends, and lets go of what it runs.
LEMMA EndPreserves ==
    ASSUME LanesInv, NEW l \in Lanes, worker[l].up, ThreadEnd(l),
           disk[l].runtime => worker[l].runtime
    PROVE  LanesInv'
<1>1. PICK w \in Workers : w = worker[l]
  BY DEF LanesInv, Typed
<1>2. PICK v : v = Exited(w)
  OBVIOUS
<1>3. /\ v \in Workers /\ Kin(v, w) /\ v.doing = "none" /\ v.record = w.record
      /\ v.pending = w.pending
  BY <1>2, ThreadEnds
<1>4. OnlyLane /\ UNCHANGED <<log, reaper, asks>>
  BY DEF ThreadEnd
<1>5. DiskMoves(l) /\ ~disk'[l].runtime /\ used' \in Uses
  <2>1. CASE w.runtime
    <3>1. PICK stopped \in StopOutcomes(l) : Release(l, stopped) /\ Kills(stopped)
      BY <1>1, <2>1 DEF ThreadEnd
    <3> QED
      BY <3>1, StopOutcome, Released, Killed DEF LanesInv
  <2>2. CASE ~w.runtime
    BY <1>1, <2>2, DiskSame DEF ThreadEnd, LanesInv, Typed
  <2> QED
    BY <2>1, <2>2
<1>6. Put(l, v) /\ worker'[l] = v
  BY <1>1, <1>2, <1>3, Written DEF ThreadEnd, LanesInv
<1>7. Ready(l)'
  BY <1>3, <1>6 DEF Ready
<1>8. Waiting(l)'
  BY <1>1, <1>3, <1>4, <1>6, WaitingStays DEF Kin
<1>9. Journals(l, v) /\ AsksMove(l) /\ reaper' \in Reapers
  BY <1>1, <1>3, <1>4, AsksStay DEF Journals, LanesInv, Typed
<1>10. Handed'
  BY <1>4, HandedKept DEF HandedStays, OnlyLane, LanesInv
<1> QED
  BY <1>1, <1>3, <1>4, <1>5, <1>6, <1>7, <1>8, <1>9, <1>10, LaneStep

LEMMA ExitPreserves ==
    ASSUME LanesInv, NEW l \in Lanes, Exit(l)
    PROVE  LanesInv'
BY InTheMiddle, EndPreserves DEF Exit

LEMMA HandleShutdownPreserves ==
    ASSUME LanesInv, NEW l \in Lanes, HandleShutdown(l)
    PROVE  LanesInv'
<1>1. worker[l].up /\ (disk[l].runtime => worker[l].runtime)
  BY DEF HandleShutdown, Hears, AtRest, LanesInv, LaneSound, Alive
<1> QED
  BY <1>1, EndPreserves DEF HandleShutdown

-----------------------------------------------------------------------------
\* A lane worker between two messages.

\* A step between two messages.
LEMMA RestStep ==
    ASSUME LanesInv, NEW l \in Lanes, AtRest(worker[l]), OnlyLane,
           NEW v \in Workers, Put(l, v), Kin(v, worker[l]), Journals(l, v),
           v.runtime = worker[l].runtime, v.exited = worker[l].exited,
           v.doing # "none" => v.pending.ask = 0,
           v.doing \in {"create", "register"} => ~v.registered,
           v.doing \notin {"register", "clearing", "remove", "cleaned"},
           v.doing = "cleanup" => "cleanup" \in Operations,
           UNCHANGED <<disk, reaper>>, used' \in Uses, AsksMove(l), Waiting(l)'
    PROVE  LanesInv'
<1>1. worker[l].up /\ ~worker[l].exited /\ (disk[l].runtime => worker[l].runtime)
  BY DEF AtRest, LanesInv, LaneSound, Alive
<1>2. Ready(l)'
  BY Written DEF Ready, LanesInv
<1>3. Handed'
  BY HandedKept DEF HandedStays, OnlyLane, LanesInv
<1>4. reaper' \in Reapers
  BY DEF LanesInv, Typed
<1>5. DiskMoves(l)
  BY DiskSame DEF LanesInv
<1> QED
  BY <1>1, <1>2, <1>3, <1>4, <1>5, LaneStep

LEMMA OperationNames ==
    ASSUME NEW op \in Operations
    PROVE  /\ op \in Steps /\ op # "none"
           /\ op \notin {"register", "clearing", "remove", "cleaned"}
BY LaneConstants, Names, StepNames DEF AllOperations

\* What a worker knows when it has a message of a type.
LEMMA Hearing ==
    ASSUME LanesInv, NEW l \in Lanes, NEW type, Hears(worker[l], type)
    PROVE  /\ worker[l] \in Workers /\ AtRest(worker[l])
           /\ Head(worker[l].inbox) \in Mail /\ Head(worker[l].inbox).type = type
           /\ Next1(worker[l]) \in Workers /\ Alike(Next1(worker[l]), worker[l])
           /\ Next1(worker[l]).pending = worker[l].pending
           /\ Next1(worker[l]).ruled = worker[l].ruled
<1>1. worker[l] \in Workers
  BY DEF LanesInv, Typed
<1> QED
  BY <1>1, MessageTaken DEF Hears

\* A worker asks for an operation it may run.
LEMMA AskForPreserves ==
    ASSUME LanesInv, NEW l \in Lanes, AtRest(worker[l]), OnlyLane, UNCHANGED <<disk, reaper>>,
           NEW w \in Workers, Alike(w, worker[l]), NEW op \in Operations,
           op = "create" => ~w.registered, AskFor(l, w, op), worker[l].pending.ask = 0
    PROVE  LanesInv'
<1>1. /\ w.up /\ w.doing = "none" /\ Kin(w, worker[l])
      /\ w.record = worker[l].record /\ w.runtime = worker[l].runtime
      /\ w.exited = worker[l].exited /\ w.pending.ask = 0
      /\ w.registered = worker[l].registered
  BY DEF Alike, Kin, AtRest
<1>2. /\ w.record \in Record /\ w.record.status \in Statuses /\ w.record.status # "absent"
      /\ w.epoch \in Nat /\ log \in [Lanes -> Record] /\ used \in Uses
      /\ asks \in Seq(Asked) /\ Len(asks) \in Nat
  <2>1. w.record \in Record /\ w.record.status \in Statuses /\ w.epoch \in Nat
    BY DEF Workers, Record
  <2>2. worker[l].up /\ worker[l].record.status # "absent"
    BY <1>1 DEF LanesInv, LaneSound, Holds, AtRest
  <2>3. log \in [Lanes -> Record] /\ used \in Uses /\ asks \in Seq(Asked)
    BY DEF LanesInv, Typed
  <2> QED
    BY <1>1, <2>1, <2>2, <2>3, LenProperties
<1>3. PICK r : r = WithStatus(w.record, "waiting", "none")
  OBVIOUS
<1>4. PICK q : q = WithStatus(log[l], "waiting", "none")
  OBVIOUS
<1>5. /\ r \in Record /\ r.status = "waiting" /\ r.mark = "none" /\ r.runs = w.record.runs
      /\ q \in Record /\ q.status = "waiting" /\ q.mark = "none" /\ q.runs = log[l].runs
      /\ ~r.refused
  <2>1. PICK s \in Statuses : s = "waiting"
    BY Names
  <2>2. PICK m \in {"none", "cleaned"} : m = "none"
    OBVIOUS
  <2> QED
    BY <1>2, <1>3, <1>4, <2>1, <2>2, Statused
<1>6. PICK p : p = [ask |-> Len(asks) + 1, op |-> op, prev |-> w.record.status,
                    epoch |-> w.epoch, late |-> FALSE]
  OBVIOUS
<1>7. /\ p \in Pendings /\ p.ask = Len(asks) + 1 /\ p.op = op /\ p.prev # "absent"
      /\ p.epoch = w.epoch
  BY <1>2, <1>6 DEF Pendings
<1>8. PICK ok \in IF w.registered THEN Appends(l) ELSE {TRUE} :
         /\ Count(l, ok)
         /\ log' = IF ok /\ w.registered THEN [log EXCEPT ![l] = q] ELSE log
         /\ IF ok
            THEN /\ Put(l, [w EXCEPT !.record = IF w.registered THEN r ELSE w.record,
                                     !.pending = p])
                 /\ asks' = Append(asks, [lane |-> l, epoch |-> w.epoch,
                                          state |-> "pending", audited |-> <<>>])
            ELSE Put(l, w) /\ UNCHANGED asks
  BY <1>3, <1>4, <1>6 DEF AskFor
<1>9. ok \in BOOLEAN /\ (ok /\ w.registered => Known(l))
  BY <1>8, AppendOutcome
<1>10. used' \in Uses
  BY <1>2, <1>8, <1>9, Counted
<1>11. CASE ok
  <2>1. PICK x : x = IF w.registered THEN r ELSE w.record
    OBVIOUS
  <2>2. PICK v : v = [w EXCEPT !.record = x, !.pending = p]
    OBVIOUS
  <2>3. /\ v \in Workers /\ Kin(v, w) /\ v.doing = "none" /\ v.record = x
        /\ v.runtime = w.runtime /\ v.exited = w.exited /\ v.pending = p
        /\ v.registered = w.registered
    BY <1>1, <1>2, <1>5, <1>7, <2>1, <2>2 DEF Workers, Kin
  <2>4. Put(l, v)
    BY <1>8, <1>11, <2>1, <2>2
  <2>5. Journals(l, v)
    <3>1. CASE w.registered
      <4>1. Told(r) = r /\ Told(w.record).runs = w.record.runs
        BY <1>2, <1>5, ToldRecord DEF Told
      <4> QED
        BY <1>1, <1>2, <1>5, <1>8, <1>9, <1>11, <2>1, <2>3, <3>1, <4>1 DEF Journals, Same
    <3>2. CASE ~w.registered
      BY <1>1, <1>8, <1>11, <2>1, <2>3, <3>2 DEF Journals
    <3> QED
      BY <3>1, <3>2
  <2>6. PICK a : a = [lane |-> l, epoch |-> w.epoch, state |-> "pending", audited |-> <<>>]
    OBVIOUS
  <2>7. a \in Asked /\ a.lane = l /\ a.epoch = w.epoch /\ a.state = "pending"
    BY <1>2, <2>6 DEF Asked, AskStates
  <2>8. /\ asks' \in Seq(Asked) /\ Len(asks') = Len(asks) + 1
        /\ \A i \in 1..Len(asks) : asks'[i] = asks[i]
        /\ asks'[Len(asks) + 1] = a
    BY <1>2, <1>8, <1>11, <2>6, <2>7, AppendProperties
  <2>9. AsksMove(l)
    BY <1>2, <2>8 DEF AsksMove, AsksKept, AskIds
  <2>10. worker'[l] = v
    BY <2>3, <2>4, Written DEF LanesInv
  <2>11. Waiting(l)'
    BY <1>2, <1>7, <2>3, <2>7, <2>8, <2>10 DEF Waiting, AskIds
  <2>12. Kin(v, worker[l])
    BY <1>1, <2>3 DEF Kin
  <2> QED
    BY <1>1, <1>10, <2>3, <2>4, <2>5, <2>9, <2>11, <2>12, RestStep
<1>12. CASE ~ok
  <2>1. Put(l, w) /\ asks' = asks /\ log' = log
    BY <1>8, <1>12
  <2>2. Journals(l, w) /\ AsksMove(l)
    BY <1>1, <2>1, AsksStay DEF Journals, LanesInv
  <2>3. worker'[l] = w
    BY <2>1, Written DEF LanesInv
  <2>4. Waiting(l)'
    BY <1>1, <2>3 DEF Waiting
  <2> QED
    BY <1>1, <1>10, <2>1, <2>2, <2>4, RestStep
<1> QED
  BY <1>9, <1>11, <1>12

LEMMA HandleCommandPreserves ==
    ASSUME LanesInv, NEW l \in Lanes, HandleCommand(l)
    PROVE  LanesInv'
<1>1. PICK w : w = Next1(worker[l])
  OBVIOUS
<1>2. PICK op : op = Head(worker[l].inbox).op
  OBVIOUS
<1>3. /\ AtRest(worker[l]) /\ w \in Workers /\ Alike(w, worker[l])
      /\ w.pending = worker[l].pending /\ op \in Operations
  BY <1>1, <1>2, Hearing DEF HandleCommand, Mail
<1>4. /\ Kin(w, worker[l]) /\ w.doing = "none" /\ w.registered = worker[l].registered
      /\ w.record = worker[l].record /\ w.runtime = worker[l].runtime
      /\ w.exited = worker[l].exited
  BY <1>3 DEF Alike, Kin, AtRest
<1>5. OnlyLane /\ UNCHANGED <<disk, reaper>>
  BY DEF HandleCommand
<1>6. used \in Uses
  BY DEF LanesInv, Typed
<1>7. CASE Put(l, w) /\ UNCHANGED <<log, asks, used>>
  <2>1. Journals(l, w) /\ AsksMove(l) /\ used' \in Uses
    BY <1>4, <1>6, <1>7, AsksStay DEF Journals, LanesInv
  <2>2. worker'[l] = w
    BY <1>3, <1>7, Written DEF LanesInv
  <2>3. Waiting(l)'
    BY <1>3, <1>4, <1>7, <2>2, WaitingStays
  <2> QED
    BY <1>3, <1>4, <1>5, <1>7, <2>1, <2>3, RestStep
<1>8. CASE ~Refused(worker[l], op) /\ Put(l, Goto(w, op)) /\ UNCHANGED <<log, asks, used>>
  <2>1. worker[l].pending.ask = 0 /\ (op = "create" => ~w.registered)
    BY <1>4, <1>8 DEF Refused
  <2>2. PICK v : v = Goto(w, op)
    OBVIOUS
  <2>3. /\ op \in Steps /\ op # "none"
        /\ op \notin {"register", "clearing", "remove", "cleaned"}
    BY <1>3, OperationNames
  <2>4. /\ v \in Workers /\ Kin(v, w) /\ v.doing = op /\ v.record = w.record
        /\ v.runtime = w.runtime /\ v.exited = w.exited /\ v.pending = w.pending
    BY <1>3, <2>2, <2>3, Moved
  <2>5. Kin(v, worker[l]) /\ v.registered = worker[l].registered
    BY <1>4, <2>4 DEF Kin
  <2>6. Journals(l, v) /\ AsksMove(l) /\ used' \in Uses /\ Put(l, v)
    BY <1>4, <1>6, <1>8, <2>2, <2>4, AsksStay DEF Journals, LanesInv
  <2>7. worker'[l] = v
    BY <2>4, <2>6, Written DEF LanesInv
  <2>8. Waiting(l)'
    BY <1>3, <1>8, <2>4, <2>5, <2>7, WaitingStays
  <2> QED
    BY <1>3, <1>4, <1>5, <2>1, <2>3, <2>4, <2>5, <2>6, <2>8, RestStep
<1>9. CASE ~Refused(worker[l], op) /\ AskFor(l, w, op)
  <2>1. worker[l].pending.ask = 0 /\ (op = "create" => ~w.registered)
    BY <1>4, <1>9 DEF Refused
  <2> QED
    BY <1>3, <1>5, <1>9, <2>1, AskForPreserves
<1> QED
  BY <1>1, <1>2, <1>7, <1>8, <1>9 DEF HandleCommand

\* A pending mutation is put back.
LEMMA PutBackPreserves ==
    ASSUME LanesInv, NEW l \in Lanes, AtRest(worker[l]), OnlyLane, UNCHANGED <<disk, reaper>>,
           NEW w \in Workers, Alike(w, worker[l]), w.pending = worker[l].pending,
           w.pending.ask # 0, PutBack(l, w)
    PROVE  LanesInv'
<1>1. /\ w.up /\ w.doing = "none" /\ Kin(w, worker[l])
      /\ w.record = worker[l].record /\ w.runtime = worker[l].runtime
      /\ w.exited = worker[l].exited /\ w.registered = worker[l].registered
  BY DEF Alike, Kin, AtRest
<1>2. PICK a : a = w.pending.ask
  OBVIOUS
<1>3. a \in AskIds /\ asks[a].lane = l /\ w.pending.prev # "absent"
  BY <1>2 DEF LanesInv, LaneSound, Waiting
<1>4. PICK state \in AskStates : state = "denied"
  BY DEF AskStates
<1>5. asks' = [asks EXCEPT ![a].state = state]
  BY <1>2, <1>4 DEF PutBack
<1>6. AsksMove(l)
  BY <1>3, <1>5, AskSettled DEF AsksMove, LanesInv
<1>7. PICK u : u = [w EXCEPT !.pending = NoAsk]
  OBVIOUS
<1>8. /\ u \in Workers /\ Kin(u, w) /\ u.doing = "none" /\ u.record = w.record
      /\ u.runtime = w.runtime /\ u.exited = w.exited /\ u.pending = NoAsk
  BY <1>1, <1>7, Unasked, Constants
<1>9. used \in Uses
  BY DEF LanesInv, Typed
<1>10. ASSUME NEW v \in Workers, Put(l, v), Kin(v, u), v.doing = "none",
              v.runtime = u.runtime, v.exited = u.exited, v.pending = NoAsk,
              Journals(l, v), used' \in Uses
       PROVE  LanesInv'
  <2>1. worker'[l] = v
    BY <1>10, Written DEF LanesInv
  <2>2. Waiting(l)'
    BY <1>10, <2>1, Constants DEF Waiting
  <2>3. Kin(v, worker[l])
    BY <1>1, <1>8, <1>10 DEF Kin
  <2> QED
    BY <1>1, <1>6, <1>8, <1>10, <2>2, <2>3, RestStep
<1>11. CASE ~w.registered
  <2>1. Put(l, u) /\ UNCHANGED <<log, used>>
    BY <1>7, <1>11 DEF PutBack
  <2>2. Journals(l, u) /\ Kin(u, u)
    BY <1>1, <1>8, <2>1 DEF Journals, Kin
  <2> QED
    BY <1>8, <1>9, <1>10, <2>1, <2>2
<1>12. CASE w.registered
  <2>1. PICK status : status = w.pending.prev
    OBVIOUS
  <2>2. status \in Statuses /\ status # "absent"
    BY <1>3, <2>1 DEF Workers, Pendings
  <2>3. PICK mark \in {"none", "cleaned"} : mark = "none"
    OBVIOUS
  <2>4. PICK ok \in Appends(l) : ChangeStatus(l, u, status, mark, ok)
    BY <1>7, <1>12, <2>1, <2>3 DEF PutBack
  <2>5. PICK v : v = Believed(u, ok, WithStatus(u.record, status, mark))
    OBVIOUS
  <2>6. /\ v \in Workers /\ Put(l, v) /\ Kin(v, u)
        /\ v.doing = u.doing /\ v.runtime = u.runtime /\ v.exited = u.exited
        /\ v.pending = u.pending /\ Journals(l, v) /\ used' \in Uses
    BY <1>1, <1>8, <2>2, <2>3, <2>4, <2>5, StatusChanged
  <2> QED
    BY <1>8, <1>10, <2>6
<1> QED
  BY <1>11, <1>12

LEMMA ExpirePreserves ==
    ASSUME LanesInv, NEW l \in Lanes, Expire(l)
    PROVE  LanesInv'
<1>1. worker[l] \in Workers /\ Alike(worker[l], worker[l])
  BY DEF LanesInv, Typed, Alike, Kin
<1> QED
  BY <1>1, PutBackPreserves DEF Expire

LEMMA HandleAnswerPreserves ==
    ASSUME LanesInv, NEW l \in Lanes, HandleAnswer(l)
    PROVE  LanesInv'
<1>1. PICK w : w = Next1(worker[l])
  OBVIOUS
<1>2. PICK m : m = Head(worker[l].inbox)
  OBVIOUS
<1>3. /\ AtRest(worker[l]) /\ w \in Workers /\ Alike(w, worker[l])
      /\ w.pending = worker[l].pending /\ m \in Mail /\ m.ask # 0 /\ m.ask \in Nat
  BY <1>1, <1>2, Hearing DEF HandleAnswer, Mail, Messages
<1>4. /\ Kin(w, worker[l]) /\ w.doing = "none" /\ w.registered = worker[l].registered
      /\ w.record = worker[l].record /\ w.runtime = worker[l].runtime
      /\ w.exited = worker[l].exited
  BY <1>3 DEF Alike, Kin, AtRest
<1>5. OnlyLane /\ UNCHANGED <<disk, reaper>>
  BY DEF HandleAnswer
<1>6. used \in Uses
  BY DEF LanesInv, Typed
<1>7. CASE Put(l, w) /\ UNCHANGED <<log, asks, used>>
  <2>1. Journals(l, w) /\ AsksMove(l) /\ used' \in Uses
    BY <1>4, <1>6, <1>7, AsksStay DEF Journals, LanesInv
  <2>2. worker'[l] = w
    BY <1>3, <1>7, Written DEF LanesInv
  <2>3. Waiting(l)'
    BY <1>3, <1>4, <1>7, <2>2, WaitingStays
  <2> QED
    BY <1>3, <1>4, <1>5, <1>7, <2>1, <2>3, RestStep
<1>8. CASE w.pending.ask = m.ask /\ PutBack(l, w)
  BY <1>3, <1>5, <1>8, PutBackPreserves
<1>9. CASE /\ w.pending.ask = m.ask
           /\ asks' = [asks EXCEPT ![m.ask].state = "allowed"]
           /\ Put(l, [Goto(w, w.pending.op) EXCEPT
                      !.pending = NoAsk,
                      !.ruled = IF m.decision = "session" THEN @ \cup {w.pending.op} ELSE @])
           /\ UNCHANGED <<log, used>>
  <2>1. PICK op : op = w.pending.op
    OBVIOUS
  <2>2. /\ op \in Operations /\ (op = "create" => ~w.registered)
        /\ m.ask \in AskIds /\ asks[m.ask].lane = l
    BY <1>3, <1>4, <1>9, <2>1 DEF LanesInv, LaneSound, Waiting
  <2>3. /\ op \in Steps /\ op # "none"
        /\ op \notin {"register", "clearing", "remove", "cleaned"}
    BY <2>2, OperationNames
  <2>4. PICK u : u = Goto(w, op)
    OBVIOUS
  <2>5. /\ u \in Workers /\ Kin(u, w) /\ u.doing = op /\ u.record = w.record
        /\ u.runtime = w.runtime /\ u.exited = w.exited
    BY <1>3, <2>3, <2>4, Moved
  <2>6. PICK rules : rules = IF m.decision = "session" THEN u.ruled \cup {op} ELSE u.ruled
    OBVIOUS
  <2>7. rules \in SUBSET Operations
    BY <2>2, <2>5, <2>6 DEF Workers
  <2>8. PICK v : v = [u EXCEPT !.pending = NoAsk, !.ruled = rules]
    OBVIOUS
  <2>9. /\ v \in Workers /\ Kin(v, u) /\ v.doing = op /\ v.record = w.record
        /\ v.runtime = w.runtime /\ v.exited = w.exited /\ v.pending = NoAsk
    BY <2>5, <2>7, <2>8, Constants DEF Workers, Kin
  <2>10. Put(l, v)
    BY <1>9, <2>1, <2>4, <2>6, <2>8
  <2>11. Kin(v, worker[l]) /\ v.registered = w.registered
    BY <1>4, <2>5, <2>9 DEF Kin
  <2>12. PICK state \in AskStates : state = "allowed"
    BY DEF AskStates
  <2>13. asks' = [asks EXCEPT ![m.ask].state = state]
    BY <1>9, <2>12
  <2>14. AsksMove(l)
    BY <2>2, <2>13, AskSettled DEF AsksMove, LanesInv
  <2>15. worker'[l] = v
    BY <2>9, <2>10, Written DEF LanesInv
  <2>16. Waiting(l)'
    BY <2>9, <2>15, Constants DEF Waiting
  <2>17. Journals(l, v) /\ used' \in Uses
    BY <1>4, <1>6, <1>9, <2>9 DEF Journals
  <2>18. v.pending.ask = 0
    BY <2>9, Constants
  <2> QED
    BY <1>3, <1>4, <1>5, <2>2, <2>3, <2>9, <2>10, <2>11, <2>14, <2>16, <2>17, <2>18, RestStep
<1> QED
  BY <1>1, <1>2, <1>7, <1>8, <1>9 DEF HandleAnswer

LEMMA HandleCancelPreserves ==
    ASSUME LanesInv, NEW l \in Lanes, HandleCancel(l)
    PROVE  LanesInv'
<1>1. PICK w : w = Next1(worker[l])
  OBVIOUS
<1>2. /\ AtRest(worker[l]) /\ w \in Workers /\ Alike(w, worker[l])
      /\ w.pending = worker[l].pending
  BY <1>1, Hearing DEF HandleCancel
<1>3. /\ Kin(w, worker[l]) /\ w.registered = worker[l].registered
      /\ w.record = worker[l].record /\ w.runtime = worker[l].runtime
      /\ w.exited = worker[l].exited
  BY <1>2 DEF Alike, Kin
<1>4. OnlyLane /\ UNCHANGED <<log, disk, reaper, used>>
  BY DEF HandleCancel
<1>5. used' \in Uses
  BY <1>4 DEF LanesInv, Typed
<1>6. CASE /\ w.pending.ask # 0
           /\ asks' = [asks EXCEPT ![w.pending.ask].state = "denied"]
           /\ Put(l, [Goto(w, "cancelled") EXCEPT !.pending = NoAsk])
  <2>1. PICK s \in Steps : s = "cancelled"
    BY StepNames
  <2>2. PICK u : u = Goto(w, s)
    OBVIOUS
  <2>3. /\ u \in Workers /\ Kin(u, w) /\ u.doing = s /\ u.record = w.record
        /\ u.runtime = w.runtime /\ u.exited = w.exited
    BY <1>2, <2>2, Moved
  <2>4. PICK v : v = [u EXCEPT !.pending = NoAsk]
    OBVIOUS
  <2>5. /\ v \in Workers /\ Kin(v, u) /\ v.doing = u.doing /\ v.record = u.record
        /\ v.runtime = u.runtime /\ v.exited = u.exited /\ v.pending = NoAsk
    BY <2>3, <2>4, Unasked, Constants
  <2>6. Kin(v, worker[l]) /\ v.pending.ask = 0
    BY <1>3, <2>3, <2>5, Constants DEF Kin
  <2>7. PICK a : a = w.pending.ask
    OBVIOUS
  <2>8. a \in AskIds /\ asks[a].lane = l
    BY <1>2, <1>6, <2>7 DEF LanesInv, LaneSound, Waiting
  <2>9. PICK state \in AskStates : state = "denied"
    BY DEF AskStates
  <2>10. asks' = [asks EXCEPT ![a].state = state]
    BY <1>6, <2>7, <2>9
  <2>11. AsksMove(l)
    BY <2>8, <2>10, AskSettled DEF AsksMove, LanesInv
  <2>12. Put(l, v) /\ worker'[l] = v
    BY <1>6, <2>1, <2>2, <2>4, <2>5, Written DEF LanesInv
  <2>13. Waiting(l)'
    BY <2>6, <2>12 DEF Waiting
  <2>14. Journals(l, v)
    BY <1>3, <1>4, <2>3, <2>5 DEF Journals
  <2> QED
    BY <1>2, <1>3, <1>4, <1>5, <2>1, <2>3, <2>5, <2>6, <2>11, <2>12, <2>13, <2>14, RestStep
<1>7. CASE w.pending.ask = 0 /\ Put(l, Goto(w, "cancel")) /\ UNCHANGED asks
  <2>1. PICK s \in Steps : s = "cancel"
    BY StepNames
  <2>2. PICK v : v = Goto(w, s)
    OBVIOUS
  <2>3. /\ v \in Workers /\ Kin(v, w) /\ v.doing = s /\ v.record = w.record
        /\ v.runtime = w.runtime /\ v.exited = w.exited /\ v.pending = w.pending
    BY <1>2, <2>2, Moved
  <2>4. Kin(v, worker[l]) /\ v.registered = worker[l].registered
    BY <1>3, <2>3 DEF Kin
  <2>5. Put(l, v) /\ worker'[l] = v
    BY <1>7, <2>1, <2>2, <2>3, Written DEF LanesInv
  <2>6. Waiting(l)'
    BY <1>7, <2>3, <2>5 DEF Waiting
  <2>7. Journals(l, v) /\ AsksMove(l)
    BY <1>3, <1>4, <1>7, <2>3, AsksStay DEF Journals, LanesInv
  <2> QED
    BY <1>2, <1>3, <1>4, <1>5, <1>7, <2>1, <2>3, <2>4, <2>5, <2>6, <2>7, RestStep
<1> QED
  BY <1>1, <1>6, <1>7 DEF HandleCancel

LEMMA LaneWorkerPreserves ==
    ASSUME LanesInv, NEW l \in Lanes, LaneWorker(l)
    PROVE  LanesInv'
BY HandleCommandPreserves, HandleAnswerPreserves, HandleCancelPreserves,
   HandleShutdownPreserves, ExpirePreserves, WriteStatusPreserves, CreatePreserves,
   RegisterPreserves, SpawnPreserves, UnspawnPreserves, CountRunPreserves,
   StopRuntimePreserves, RemoveWorktreePreserves, SendInputPreserves, ApplyPatchPreserves,
   MarkTerminalPreserves, CheckTerminalPreserves, ExitPreserves DEF LaneWorker

-----------------------------------------------------------------------------
\* The client's thread, the runtime worker and the reaper.

LEMMA QuietStep ==
    ASSUME LanesInv, Typed', Handed', \A k \in Lanes : Quiet(k)
    PROVE  LanesInv'
BY QuietPreserves DEF LanesInv

LEMMA WorkersStay ==
    ASSUME Typed, worker' = worker
    PROVE  worker' \in [Lanes -> Workers] /\ \A k \in Lanes : Alike(worker'[k], worker[k])
BY DEF Typed, Alike, Kin

LEMMA OnePosted ==
    ASSUME Typed, NEW l \in Lanes, NEW m \in Mail, Put(l, Post(worker[l], m))
    PROVE  worker' \in [Lanes -> Workers] /\ \A k \in Lanes : Alike(worker'[k], worker[k])
<1>1. worker[l] \in Workers
  BY DEF Typed
<1>2. PICK v : v = Post(worker[l], m)
  OBVIOUS
<1>3. v \in Workers /\ Alike(v, worker[l])
  BY <1>1, <1>2, Posted
<1>4. /\ worker' \in [Lanes -> Workers] /\ worker'[l] = v
      /\ \A k \in Lanes \ {l} : worker'[k] = worker[k]
  BY <1>2, <1>3, Written
<1> QED
  BY <1>3, <1>4 DEF Alike, Kin

SuperMail == Orders \cup Switches \cup Replies

LEMMA SuperSent ==
    ASSUME super \in Supers, NEW m \in SuperMail, ToSuper(m)
    PROVE  /\ super' \in Supers /\ super'.at = super.at /\ super'.lane = super.lane
           /\ super'.op = super.op /\ super'.reaped = super.reaped
<1>1. super.inbox \in Seq(SuperMail)
  BY DEF Supers, SuperMail
<1>2. PICK q : q = Append(super.inbox, m)
  OBVIOUS
<1>3. q \in Seq(SuperMail)
  BY <1>1, <1>2, AppendProperties
<1>4. super' = [super EXCEPT !.inbox = q]
  BY <1>2 DEF ToSuper
<1> QED
  BY <1>3, <1>4 DEF Supers, SuperMail

LEMMA SuperTakes ==
    ASSUME super \in Supers, super.inbox # <<>>
    PROVE  Head(super.inbox) \in SuperMail /\ Tail(super.inbox) \in Seq(SuperMail)
<1>1. super.inbox \in Seq(SuperMail)
  BY DEF Supers, SuperMail
<1> QED
  BY <1>1, HeadTailProperties

LEMMA SuperTaken ==
    ASSUME super \in Supers, super.inbox # <<>>,
           super' = [super EXCEPT !.inbox = Tail(@)]
    PROVE  /\ super' \in Supers /\ super'.at = super.at /\ super'.lane = super.lane
           /\ super'.op = super.op /\ super'.reaped = super.reaped
<1>1. PICK q : q = Tail(super.inbox)
  OBVIOUS
<1>2. q \in Seq(SuperMail) /\ super' = [super EXCEPT !.inbox = q]
  BY <1>1, SuperTakes
<1> QED
  BY <1>2 DEF Supers, SuperMail

\* The runtime worker is where it was.
SuperStays ==
    /\ super'.at = super.at /\ super'.lane = super.lane /\ super'.op = super.op
    /\ super'.reaped = super.reaped

LEMMA HandedStill ==
    ASSUME Handed, SuperStays, UNCHANGED <<reaper, hydrated, terminal>>
    PROVE  Handed'
BY DEF Handed, SuperStays

\* A step of lanes' workers' inboxes and the runtime worker's channel.
LEMMA ChannelStep ==
    ASSUME LanesInv, UNCHANGED <<log, disk, hydrated, terminal>>,
           worker' \in [Lanes -> Workers], \A k \in Lanes : Alike(worker'[k], worker[k]),
           reaper' \in Reapers, super' \in Supers, Handed',
           policy' \in Policies, policy'.mode = policy.mode, policy'.epoch = policy.epoch,
           asks' \in Seq(Asked), \A k \in Lanes : AsksKept(k), used' \in Uses
    PROVE  LanesInv'
<1>1. Typed'
  BY DEF LanesInv, Typed
<1>2. \A k \in Lanes : Quiet(k)
  BY DEF Quiet
<1> QED
  BY <1>1, <1>2, QuietStep

LEMMA SendCommandPreserves ==
    ASSUME LanesInv, NEW l \in Lanes, NEW op \in Operations, SendCommand(l, op)
    PROVE  LanesInv'
<1>1. PICK m : m = [type |-> "lane", lane |-> l, op |-> op]
  OBVIOUS
<1>2. m \in SuperMail /\ ToSuper(m)
  BY <1>1 DEF SendCommand, SuperMail, Orders
<1>3. super' \in Supers /\ SuperStays
  BY <1>2, SuperSent DEF LanesInv, Typed, SuperStays
<1>4. used' \in Uses
  BY SMTT(30) DEF SendCommand, Uses, LanesInv, Typed
<1>5. UNCHANGED <<log, disk, worker, hydrated, terminal, reaper, policy, asks>>
  BY DEF SendCommand
<1>6. Handed'
  BY <1>3, <1>5, HandedStill DEF LanesInv
<1>7. worker' \in [Lanes -> Workers] /\ \A k \in Lanes : Alike(worker'[k], worker[k])
  BY <1>5, WorkersStay DEF LanesInv
<1> QED
  BY <1>3, <1>4, <1>5, <1>6, <1>7, AsksSame, ChannelStep DEF LanesInv, Typed

LEMMA SendControlPreserves ==
    ASSUME LanesInv, NEW mode \in Controls, SendControl(mode)
    PROVE  LanesInv'
<1>1. PICK n : n = policy.submitted + 1
  OBVIOUS
<1>2. n \in Nat
  BY <1>1 DEF LanesInv, Typed, Policies
<1>3. PICK m : m = [type |-> "control", mode |-> mode, epoch |-> n]
  OBVIOUS
<1>4. m \in SuperMail /\ ToSuper(m)
  BY <1>1, <1>2, <1>3, Constants DEF SendControl, SuperMail, Switches
<1>5. super' \in Supers /\ SuperStays
  BY <1>4, SuperSent DEF LanesInv, Typed, SuperStays
<1>6. used' \in Uses
  BY SMTT(30) DEF SendControl, Uses, LanesInv, Typed
<1>7. policy' = [policy EXCEPT !.submitted = n]
  BY <1>1 DEF SendControl
<1>8. policy' \in Policies /\ policy'.mode = policy.mode /\ policy'.epoch = policy.epoch
  BY <1>2, <1>7 DEF LanesInv, Typed, Policies
<1>9. UNCHANGED <<log, disk, worker, hydrated, terminal, reaper, asks>>
  BY DEF SendControl
<1>10. Handed'
  BY <1>5, <1>9, HandedStill DEF LanesInv
<1>11. worker' \in [Lanes -> Workers] /\ \A k \in Lanes : Alike(worker'[k], worker[k])
  BY <1>9, WorkersStay DEF LanesInv
<1> QED
  BY <1>5, <1>6, <1>8, <1>9, <1>10, <1>11, AsksSame, ChannelStep DEF LanesInv, Typed

LEMMA RespondPreserves ==
    ASSUME LanesInv, NEW l \in Lanes, NEW decision \in Answers, Respond(l, decision)
    PROVE  LanesInv'
<1>1. PICK a : a = worker[l].pending.ask
  OBVIOUS
<1>2. a \in AskIds /\ a \in Nat \ {0}
  BY <1>1 DEF Respond, LanesInv, LaneSound, Waiting, AskIds
<1>3. PICK m : m = [type |-> "answer", ask |-> a, decision |-> decision]
  OBVIOUS
<1>4. m \in SuperMail /\ ToSuper(m)
  BY <1>1, <1>2, <1>3, Constants DEF Respond, SuperMail, Replies
<1>5. super' \in Supers /\ SuperStays
  BY <1>4, SuperSent DEF LanesInv, Typed, SuperStays
<1>6. PICK audited \in {"allowed", "denied"} : asks' = [asks EXCEPT ![a].audited = Append(@, audited)]
  BY <1>1 DEF Respond
<1>7. asks \in Seq(Asked)
  BY DEF LanesInv, Typed
<1>8. asks[a] \in Asked
  BY <1>2, <1>7, ElementOfSeq DEF AskIds
<1>9. PICK q : q = Append(asks[a].audited, audited)
  OBVIOUS
<1>10. q \in Seq({"allowed", "denied"})
  BY <1>8, <1>9, AppendProperties DEF Asked
<1>11. PICK y : y = [asks[a] EXCEPT !.audited = q]
  OBVIOUS
<1>12. /\ y \in Asked /\ y.lane = asks[a].lane /\ y.state = asks[a].state
       /\ y.epoch = asks[a].epoch
  BY <1>8, <1>10, <1>11 DEF Asked
<1>13. asks' = [asks EXCEPT ![a] = y]
  BY <1>6, <1>9, <1>11
<1>14. asks' \in Seq(Asked) /\ Len(asks') = Len(asks)
  BY <1>2, <1>7, <1>12, <1>13, ExceptSeq DEF AskIds
<1>15. \A b \in AskIds : asks'[b] = IF b = a THEN y ELSE asks[b]
  BY <1>7, <1>13 DEF AskIds
<1>16. \A k \in Lanes : AsksKept(k)
  BY <1>12, <1>14, <1>15 DEF AsksKept, AskIds
<1>17. UNCHANGED <<log, disk, worker, hydrated, terminal, reaper, policy, used>>
  BY DEF Respond
<1>18. Handed'
  BY <1>5, <1>17, HandedStill DEF LanesInv
<1>19. worker' \in [Lanes -> Workers] /\ \A k \in Lanes : Alike(worker'[k], worker[k])
  BY <1>17, WorkersStay DEF LanesInv
<1> QED
  BY <1>5, <1>14, <1>16, <1>17, <1>18, <1>19, ChannelStep DEF LanesInv, Typed

LEMMA CancelPreserves ==
    ASSUME LanesInv, NEW l \in Lanes, Cancel(l)
    PROVE  LanesInv'
<1>1. UNCHANGED <<log, disk, hydrated, terminal, reaper, super, policy, asks>>
  BY DEF Cancel
<1>2. used' \in Uses
  BY DEF Cancel, Uses, LanesInv, Typed
<1>3. PICK m \in Mail : m = CancelMsg
  BY MailTyped
<1>4. worker' = worker \/ Put(l, Post(worker[l], m))
  BY <1>3 DEF Cancel
<1>5. worker' \in [Lanes -> Workers] /\ \A k \in Lanes : Alike(worker'[k], worker[k])
  BY <1>4, WorkersStay, OnePosted DEF LanesInv
<1>6. Handed'
  BY <1>1, HandedStill DEF LanesInv, SuperStays
<1> QED
  BY <1>1, <1>2, <1>5, <1>6, AsksSame, ChannelStep DEF LanesInv, Typed

LEMMA PassTimePreserves ==
    ASSUME LanesInv, NEW l \in Lanes, PassTime(l)
    PROVE  LanesInv'
<1>1. UNCHANGED <<log, disk, reaper, asks, used>> /\ OnlyLane
  BY DEF PassTime
<1>2. worker[l] \in Workers /\ worker[l].pending \in Pendings
  BY DEF LanesInv, Typed, Workers
<1>3. PICK p : p = [worker[l].pending EXCEPT !.late = TRUE]
  OBVIOUS
<1>4. /\ p \in Pendings /\ p.ask = worker[l].pending.ask /\ p.op = worker[l].pending.op
      /\ p.prev = worker[l].pending.prev /\ p.epoch = worker[l].pending.epoch
  BY <1>2, <1>3 DEF Pendings
<1>5. PICK v : v = [worker[l] EXCEPT !.pending = p]
  OBVIOUS
<1>6. v \in Workers /\ Alike(v, worker[l])
  BY <1>2, <1>4, <1>5, Unasked DEF Alike
<1>7. Put(l, v)
  BY <1>3, <1>5 DEF PassTime
<1>8. worker' \in [Lanes -> Workers] /\ \A k \in Lanes : Alike(worker'[k], worker[k])
  BY <1>6, <1>7, Written DEF LanesInv, Alike, Kin
<1>9. Handed'
  BY <1>1, HandedStill DEF LanesInv, SuperStays, OnlyLane
<1> QED
  BY <1>1, <1>8, <1>9, AsksSame, ChannelStep DEF LanesInv, Typed, OnlyLane

LEMMA ForwardPreserves ==
    ASSUME LanesInv, Forward
    PROVE  LanesInv'
<1>1. PICK l \in Lanes : l = super.lane
  BY DEF Forward, LanesInv, Handed
<1>2. PICK m \in Mail : m = CommandMsg(super.op)
  BY MailTyped DEF Forward, LanesInv, Handed
<1>3. UNCHANGED <<log, disk, hydrated, terminal, reaper, policy, asks, used>>
  BY DEF Forward
<1>4. worker' = worker \/ Put(l, Post(worker[l], m))
  BY <1>1, <1>2 DEF Forward
<1>5. worker' \in [Lanes -> Workers] /\ \A k \in Lanes : Alike(worker'[k], worker[k])
  BY <1>4, WorkersStay, OnePosted DEF LanesInv
<1>6. /\ super' \in Supers /\ super'.at = "idle" /\ super'.lane = super.lane
      /\ super'.reaped = super.reaped
  BY DEF Forward, LanesInv, Typed, Supers
<1>7. super.at = "forward"
  BY DEF Forward
<1>8. Handed'
  BY <1>3, <1>6, <1>7 DEF LanesInv, Handed
<1> QED
  BY <1>3, <1>5, <1>6, <1>8, AsksSame, ChannelStep DEF LanesInv, Typed

LEMMA AnswerDonePreserves ==
    ASSUME LanesInv, AnswerDone
    PROVE  LanesInv'
<1>1. UNCHANGED <<log, disk, worker, hydrated, terminal, reaper, policy, asks, used>>
  BY DEF AnswerDone
<1>2. worker' \in [Lanes -> Workers] /\ \A k \in Lanes : Alike(worker'[k], worker[k])
  BY <1>1, WorkersStay DEF LanesInv
<1>3. /\ super' \in Supers /\ super'.at = "idle" /\ super'.lane = super.lane
      /\ super'.reaped = super.reaped
  BY DEF AnswerDone, LanesInv, Typed, Supers
<1>4. super.at = "answer"
  BY DEF AnswerDone
<1>5. Handed'
  BY <1>1, <1>3, <1>4 DEF LanesInv, Handed
<1> QED
  BY <1>1, <1>2, <1>3, <1>5, AsksSame, ChannelStep DEF LanesInv, Typed

LEMMA TakeAnswerPreserves ==
    ASSUME LanesInv, TakeAnswer
    PROVE  LanesInv'
<1>1. UNCHANGED <<log, disk, hydrated, terminal, reaper, policy, asks, used>>
  BY DEF TakeAnswer
<1>2. super \in Supers
  BY DEF LanesInv, Typed
<1>3. PICK m : m = Head(super.inbox)
  OBVIOUS
<1>4. super.inbox # <<>> /\ m.type = "answer" /\ super.at = "idle"
  BY <1>3 DEF TakeAnswer, LockFree
<1>5. m \in SuperMail
  BY <1>2, <1>3, <1>4, SuperTakes
<1>6. m \in Replies
  BY <1>4, <1>5 DEF SuperMail, Orders, Switches
<1>7. CASE super' = [super EXCEPT !.inbox = Tail(@)] /\ UNCHANGED worker
  <2>1. super' \in Supers /\ SuperStays
    BY <1>2, <1>4, <1>7, SuperTaken DEF SuperStays
  <2>2. Handed'
    BY <1>1, <2>1, HandedStill DEF LanesInv
  <2>3. worker' \in [Lanes -> Workers] /\ \A k \in Lanes : Alike(worker'[k], worker[k])
    BY <1>7, WorkersStay DEF LanesInv
  <2> QED
    BY <1>1, <2>1, <2>2, <2>3, AsksSame, ChannelStep DEF LanesInv, Typed
<1>8. ASSUME NEW l \in Lanes,
             super' = [super EXCEPT !.inbox = Tail(@), !.at = "answer", !.lane = l],
             Put(l, Post(worker[l], ResumeMsg(m.ask, m.decision)))
      PROVE  LanesInv'
  <2>1. PICK q : q = Tail(super.inbox)
    OBVIOUS
  <2>2. q \in Seq(SuperMail)
    BY <1>2, <1>4, <2>1, SuperTakes
  <2>3. super' = [super EXCEPT !.inbox = q, !.at = "answer", !.lane = l]
    BY <1>8, <2>1
  <2>4. /\ super' \in Supers /\ super'.at = "answer" /\ super'.lane = l
        /\ super'.reaped = super.reaped
    BY <1>2, <2>2, <2>3 DEF Supers, SuperMail
  <2>5. Handed'
    BY <1>1, <1>4, <2>4 DEF LanesInv, Handed
  <2>6. PICK r \in Mail : r = ResumeMsg(m.ask, m.decision)
    BY <1>6, MailTyped DEF Replies
  <2>7. worker' \in [Lanes -> Workers] /\ \A k \in Lanes : Alike(worker'[k], worker[k])
    BY <1>8, <2>6, OnePosted DEF LanesInv
  <2> QED
    BY <1>1, <2>4, <2>5, <2>7, AsksSame, ChannelStep DEF LanesInv, Typed
<1> QED
  BY <1>3, <1>7, <1>8 DEF TakeAnswer

LEMMA TakeControlPreserves ==
    ASSUME LanesInv, TakeControl
    PROVE  LanesInv'
<1>1. UNCHANGED <<log, disk, hydrated, terminal, reaper, asks, used>>
  BY DEF TakeControl
<1>2. super \in Supers /\ policy \in Policies /\ worker \in [Lanes -> Workers]
  BY DEF LanesInv, Typed
<1>3. PICK m : m = Head(super.inbox)
  OBVIOUS
<1>4. super.inbox # <<>> /\ m.type = "control" /\ super' = [super EXCEPT !.inbox = Tail(@)]
  BY <1>3 DEF TakeControl
<1>5. m \in SuperMail
  BY <1>2, <1>3, <1>4, SuperTakes
<1>6. m.mode \in Modes /\ m.epoch \in Nat
  BY <1>4, <1>5 DEF SuperMail, Orders, Switches, Replies
<1>7. super' \in Supers /\ SuperStays
  BY <1>2, <1>4, SuperTaken DEF SuperStays
<1>8. Handed'
  BY <1>1, <1>7, HandedStill DEF LanesInv
<1>9. CASE UNCHANGED <<policy, worker>>
  <2>1. worker' \in [Lanes -> Workers] /\ \A k \in Lanes : Alike(worker'[k], worker[k])
    BY <1>9, WorkersStay DEF LanesInv
  <2> QED
    BY <1>1, <1>7, <1>8, <1>9, <2>1, AsksSame, ChannelStep DEF LanesInv, Typed
<1>10. CASE /\ policy' = [policy EXCEPT !.mode = m.mode, !.epoch = m.epoch]
            /\ worker' = [l \in Lanes |->
                   IF worker[l].up
                   THEN [worker[l] EXCEPT !.mode = m.mode, !.epoch = m.epoch,
                                          !.ruled = IF m.mode = "plan" THEN {} ELSE @]
                   ELSE worker[l]]
  <2>1. policy' \in Policies /\ policy'.mode = m.mode /\ policy'.epoch = m.epoch
    BY <1>2, <1>6, <1>10 DEF Policies
  <2>2. ASSUME NEW l \in Lanes
        PROVE  /\ worker'[l] \in Workers
               /\ worker'[l].up = worker[l].up
               /\ worker'[l].up => worker'[l].mode = m.mode /\ worker'[l].epoch = m.epoch
               /\ worker'[l].registered = worker[l].registered
               /\ worker'[l].record = worker[l].record /\ worker'[l].doing = worker[l].doing
               /\ worker'[l].runtime = worker[l].runtime
               /\ worker'[l].exited = worker[l].exited
               /\ worker'[l].pending = worker[l].pending
               /\ worker'[l].complete = worker[l].complete
    <3>1. PICK w \in Workers : w = worker[l]
      BY <1>2
    <3>2. CASE w.up
      <4>1. PICK rules : rules = IF m.mode = "plan" THEN {} ELSE w.ruled
        OBVIOUS
      <4>2. rules \in SUBSET Operations
        BY <4>1 DEF Workers
      <4>3. PICK v : v = [w EXCEPT !.mode = m.mode, !.epoch = m.epoch, !.ruled = rules]
        OBVIOUS
      <4>4. worker'[l] = v
        BY <1>10, <3>1, <3>2, <4>1, <4>3
      <4>5. /\ v \in Workers /\ v.up = w.up /\ v.mode = m.mode /\ v.epoch = m.epoch
            /\ v.registered = w.registered /\ v.record = w.record /\ v.doing = w.doing
            /\ v.runtime = w.runtime /\ v.exited = w.exited /\ v.pending = w.pending
            /\ v.complete = w.complete
        BY <1>6, <4>2, <4>3 DEF Workers
      <4> QED
        BY <3>1, <4>4, <4>5
    <3>3. CASE ~w.up
      BY <1>10, <3>1, <3>3
    <3> QED
      BY <3>2, <3>3
  <2>3. worker' \in [Lanes -> Workers]
    <3>1. worker' = [l \in Lanes |-> worker'[l]]
      BY <1>10
    <3> QED
      BY <2>2, <3>1
  <2>4. Typed'
    BY <1>1, <1>7, <2>1, <2>3 DEF LanesInv, Typed
  <2>5. ASSUME NEW l \in Lanes
        PROVE  LaneSound(l)'
    <3>1. Alive(l)' /\ Ready(l)'
      BY <1>1, <2>2 DEF LanesInv, LaneSound, Alive, Ready
    <3>2. Holds(l)'
      BY <1>1, <2>1, <2>2 DEF LanesInv, LaneSound, Holds, Known
    <3>3. Waiting(l)'
      BY <1>1, <2>2 DEF LanesInv, LaneSound, Waiting, AskIds
    <3>4. Durable(l)'
      BY <1>1, <2>2 DEF LanesInv, LaneSound, Durable, Known, Same
    <3> QED
      BY <3>1, <3>2, <3>3, <3>4 DEF LaneSound
  <2> QED
    BY <1>8, <2>4, <2>5 DEF LanesInv
<1> QED
  BY <1>3, <1>9, <1>10 DEF TakeControl

LEMMA TakeCommandPreserves ==
    ASSUME LanesInv, TakeCommand
    PROVE  LanesInv'
<1>1. UNCHANGED <<log, disk, reaper, policy, asks, used>>
  BY DEF TakeCommand
<1>2. /\ super \in Supers /\ worker \in [Lanes -> Workers]
      /\ hydrated \in [Lanes -> Record] /\ terminal \in [Lanes -> Kinds]
  BY DEF LanesInv, Typed
<1>3. PICK m : m = Head(super.inbox)
  OBVIOUS
<1>4. super.inbox # <<>> /\ m.type = "lane" /\ super.at = "idle"
  BY <1>3 DEF TakeCommand, LockFree
<1>5. m \in SuperMail
  BY <1>2, <1>3, <1>4, SuperTakes
<1>6. m.lane \in Lanes /\ m.op \in Operations
  BY <1>4, <1>5 DEF SuperMail, Orders, Switches, Replies
<1>7. CASE super' = [super EXCEPT !.inbox = Tail(@)] /\ UNCHANGED <<worker, hydrated, terminal>>
  <2>1. super' \in Supers /\ SuperStays
    BY <1>2, <1>4, <1>7, SuperTaken DEF SuperStays
  <2>2. Handed'
    BY <1>1, <1>7, <2>1, HandedStill DEF LanesInv
  <2>3. worker' \in [Lanes -> Workers] /\ \A k \in Lanes : Alike(worker'[k], worker[k])
    BY <1>7, WorkersStay DEF LanesInv
  <2> QED
    BY <1>1, <1>7, <2>1, <2>2, <2>3, AsksSame, ChannelStep DEF LanesInv, Typed
<1>8. CASE /\ super' = [super EXCEPT !.inbox = Tail(@), !.at = "route",
                                     !.lane = m.lane, !.op = m.op, !.reaped = Completed]
           /\ hydrated' = [l \in Lanes |->
                  IF l \in Completed THEN HandedOn(worker[l].record) ELSE hydrated[l]]
           /\ terminal' = [l \in Lanes |->
                  IF l \in Completed THEN worker[l].complete ELSE terminal[l]]
           /\ worker' = [l \in Lanes |->
                  IF l \in Completed THEN Reaped(worker[l]) ELSE worker[l]]
  <2>1. PICK q : q = Tail(super.inbox)
    OBVIOUS
  <2>2. PICK done \in SUBSET Lanes : done = Completed
    BY DEF Completed
  <2>3. q \in Seq(SuperMail)
    BY <1>2, <1>4, <2>1, SuperTakes
  <2>4. super' = [super EXCEPT !.inbox = q, !.at = "route", !.lane = m.lane, !.op = m.op,
                               !.reaped = done]
    BY <1>8, <2>1, <2>2
  <2>5. /\ super' \in Supers /\ super'.at = "route" /\ super'.lane = m.lane
        /\ super'.op = m.op /\ super'.reaped = done
    BY <1>2, <1>6, <2>3, <2>4 DEF Supers, SuperMail
  <2>6. ASSUME NEW l \in done
        PROVE  /\ worker[l].up /\ worker[l].complete # "none"
               /\ worker[l].record \in Record /\ worker[l].record.status # "absent"
               /\ hydrated'[l] \in Record /\ hydrated'[l].status # "absent"
               /\ terminal'[l] \in Kinds /\ terminal'[l] # "none"
    <3>1. l \in Lanes /\ worker[l].up /\ worker[l].complete # "none" /\ worker[l] \in Workers
      BY <1>2, <2>2 DEF Completed
    <3>2. /\ worker[l].record \in Record /\ worker[l].record.status # "absent"
          /\ worker[l].complete \in Kinds
      BY <3>1 DEF LanesInv, LaneSound, Holds, Workers
    <3>3. hydrated'[l] = HandedOn(worker[l].record) /\ terminal'[l] = worker[l].complete
      BY <1>8, <2>2, <3>1
    <3> QED
      BY <3>1, <3>2, <3>3, HandedOnRecord
  <2>7. \A l \in Lanes \ done : hydrated'[l] = hydrated[l] /\ terminal'[l] = terminal[l]
    BY <1>8, <2>2
  <2>8. ASSUME NEW l \in Lanes
        PROVE  worker'[l] \in Workers /\ Alike(worker'[l], worker[l])
    <3>1. PICK w \in Workers : w = worker[l]
      BY <1>2
    <3>2. CASE l \in done
      <4>1. PICK u : u = [w EXCEPT !.complete = "none"]
        OBVIOUS
      <4>2. /\ u \in Workers /\ Kin(u, w) /\ u.doing = w.doing /\ u.record = w.record
            /\ u.runtime = w.runtime /\ u.exited = w.exited /\ u.pending = w.pending
            /\ u.complete = "none"
        BY <4>1 DEF Workers, Kin, Kinds
      <4>3. PICK s \in Mail : s = ShutdownMsg
        BY MailTyped
      <4>4. PICK v : v = Post(u, s)
        OBVIOUS
      <4>5. worker'[l] = v
        BY <1>8, <2>2, <3>1, <3>2, <4>1, <4>3, <4>4 DEF Reaped
      <4>6. v \in Workers /\ Alike(v, u) /\ v.complete = "none"
        BY <4>2, <4>3, <4>4, Posted
      <4> QED
        BY <3>1, <4>2, <4>5, <4>6 DEF Alike, Kin
    <3>3. CASE l \notin done
      BY <1>8, <2>2, <3>1, <3>3 DEF Alike, Kin
    <3> QED
      BY <3>2, <3>3
  <2>9. /\ worker' \in [Lanes -> Workers] /\ hydrated' \in [Lanes -> Record]
        /\ terminal' \in [Lanes -> Kinds]
    <3>1. worker' = [l \in Lanes |-> worker'[l]]
      BY <1>8
    <3>2. hydrated' = [l \in Lanes |-> hydrated'[l]]
      BY <1>8
    <3>3. terminal' = [l \in Lanes |-> terminal'[l]]
      BY <1>8
    <3>4. \A l \in Lanes : worker'[l] \in Workers
      BY <2>8
    <3>5. \A l \in Lanes : hydrated'[l] \in Record /\ terminal'[l] \in Kinds
      BY <1>2, <2>6, <2>7
    <3> QED
      BY <3>1, <3>2, <3>3, <3>4, <3>5
  <2>10. Typed'
    BY <1>1, <2>5, <2>9 DEF LanesInv, Typed
  <2>11. ASSUME NEW l \in Lanes
         PROVE  Quiet(l)
    <3>1. Alike(worker'[l], worker[l]) /\ AsksKept(l)
      BY <1>1, <2>8, AsksSame
    <3>2. CASE l \in done
      BY <1>1, <2>6, <3>1, <3>2 DEF Quiet
    <3>3. CASE l \notin done
      BY <1>1, <2>7, <3>1, <3>3 DEF Quiet
    <3> QED
      BY <3>2, <3>3
  <2>12. Handed'
    <3>1. \A l \in Lanes : hydrated[l].status # "absent" => hydrated'[l].status # "absent"
      BY <2>6, <2>7
    <3>2. \A l \in Lanes : terminal[l] # "none" => terminal'[l] # "none"
      BY <2>6, <2>7
    <3>3. reaper.inHand # "none" => reaper.inHand \in Lanes
      BY DEF LanesInv, Typed, Reapers
    <3> QED
      BY <1>1, <1>6, <2>5, <2>6, <3>1, <3>2, <3>3 DEF LanesInv, Handed
  <2> QED
    BY <2>10, <2>11, <2>12, QuietStep
<1> QED
  BY <1>3, <1>7, <1>8 DEF TakeCommand

LEMMA SpawnedWorker ==
    ASSUME policy \in Policies, NEW r \in Record, NEW b \in BOOLEAN
    PROVE  /\ Spawned(r, b) \in Workers /\ Spawned(r, b).up /\ Spawned(r, b).record = r
           /\ Spawned(r, b).registered = b /\ Spawned(r, b).doing = "none"
           /\ Spawned(r, b).pending = NoAsk
           /\ Spawned(r, b).mode = policy.mode /\ Spawned(r, b).epoch = policy.epoch
<1>1. PICK mode \in Modes : mode = policy.mode
  BY DEF Policies
<1>2. PICK epoch \in Nat : epoch = policy.epoch
  BY DEF Policies
<1>3. Spawned(r, b) = [Gone EXCEPT !.up = TRUE, !.record = r, !.registered = b,
                                   !.mode = mode, !.epoch = epoch]
  BY <1>1, <1>2 DEF Spawned
<1> QED
  BY <1>1, <1>2, <1>3, Constants DEF Workers

\* The worker of a lane is taken out once its thread has ended.
LEMMA WorkerGone ==
    ASSUME LanesInv, NEW k \in Lanes, ~worker[k].up \/ worker[k].exited, worker'[k] = Gone,
           UNCHANGED <<log, disk, hydrated, asks>>,
           hydrated[k].status # "absent",
           "cleanup" \notin Operations => terminal'[k] # "none"
    PROVE  LaneSound(k)'
<1>1. /\ ~worker'[k].up /\ worker'[k].doing = "none" /\ worker'[k].pending.ask = 0
      /\ worker'[k].complete = "none"
  BY Constants
<1>2. Alive(k)'
  BY <1>1 DEF LanesInv, LaneSound, Alive
<1>3. Holds(k)' /\ Ready(k)' /\ Waiting(k)'
  BY <1>1 DEF Holds, Ready, Waiting
<1>4. Durable(k)'
  BY <1>1 DEF LanesInv, LaneSound, Durable, Known
<1> QED
  BY <1>2, <1>3, <1>4 DEF LaneSound

\* A new worker for a lane that has none, with the record kept for it or none.
LEMMA WorkerSpawned ==
    ASSUME LanesInv, NEW k \in Lanes, ~worker[k].up \/ worker[k].exited,
           NEW r \in Record, NEW b \in BOOLEAN, worker'[k] = Spawned(r, b),
           UNCHANGED <<log, disk, hydrated, policy, asks>>, r.status # "absent",
           ~b => ~Known(k) /\ r = Draft,
           b /\ "cleanup" \notin Operations => Same(Told(r), log[k])
    PROVE  worker'[k] \in Workers /\ LaneSound(k)'
<1>1. /\ worker'[k] \in Workers /\ worker'[k].up /\ worker'[k].record = r
      /\ worker'[k].registered = b /\ worker'[k].doing = "none"
      /\ worker'[k].pending.ask = 0
      /\ worker'[k].mode = policy.mode /\ worker'[k].epoch = policy.epoch
  BY SpawnedWorker, Constants DEF LanesInv, Typed
<1>2. Alive(k)'
  BY <1>1 DEF LanesInv, LaneSound, Alive
<1>3. Holds(k)' /\ Ready(k)' /\ Waiting(k)'
  BY <1>1 DEF Holds, Ready, Waiting, Known
<1>4. Durable(k)'
  BY <1>1 DEF LanesInv, LaneSound, Durable, Known
<1> QED
  BY <1>1, <1>2, <1>3, <1>4 DEF LaneSound

LEMMA RoutePreserves ==
    ASSUME LanesInv, Route
    PROVE  LanesInv'
<1>1. UNCHANGED <<log, disk, hydrated, reaper, policy, asks, used>>
  BY DEF Route
<1>2. /\ super.at = "route" /\ super \in Supers
      /\ worker \in [Lanes -> Workers] /\ hydrated \in [Lanes -> Record]
      /\ terminal \in [Lanes -> Kinds] /\ policy \in Policies
  BY DEF Route, LanesInv, Typed
<1>3. PICK l \in Lanes : l = super.lane
  BY <1>2 DEF LanesInv, Handed
<1>4. PICK op \in Operations : op = super.op
  BY <1>2 DEF LanesInv, Handed
<1>5. /\ super.reaped \subseteq Lanes
      /\ \A k \in super.reaped : /\ worker[k].exited /\ hydrated[k].status # "absent"
                                 /\ "cleanup" \notin Operations => terminal[k] # "none"
  BY <1>2 DEF Route, Supers, LanesInv, Handed
<1>6. PICK w : w = IF l \in super.reaped THEN Gone ELSE worker[l]
  OBVIOUS
<1>7. PICK r : r = Routed(w, l, op)
  OBVIOUS
<1>8. /\ worker' = [k \in Lanes |->
             IF k = l THEN IF r.up THEN r ELSE w
             ELSE IF k \in super.reaped THEN Gone ELSE worker[k]]
      /\ terminal' = IF op = "cleanup" /\ terminal[l] = "archived"
                     THEN [terminal EXCEPT ![l] = "none"] ELSE terminal
      /\ super' = [super EXCEPT !.at = IF r.up THEN "forward" ELSE "idle", !.reaped = {}]
  BY <1>3, <1>4, <1>6, <1>7 DEF Route
<1>9. /\ terminal' \in [Lanes -> Kinds]
      /\ \A k \in Lanes : terminal'[k] = terminal[k] \/ (k = l /\ op = "cleanup")
      /\ "cleanup" \notin Operations => terminal' = terminal
  BY <1>2, <1>4, <1>8 DEF Kinds
<1>10. PICK at \in {"forward", "idle"} : at = IF r.up THEN "forward" ELSE "idle"
  OBVIOUS
<1>11. /\ super' \in Supers /\ super'.at = at /\ super'.reaped = {}
       /\ super'.lane = super.lane /\ super'.op = super.op
  <2>1. super' = [super EXCEPT !.at = at, !.reaped = {}]
    BY <1>8, <1>10
  <2> QED
    BY <1>2, <2>1 DEF Supers
<1>12. Handed'
  BY <1>1, <1>3, <1>4, <1>9, <1>11 DEF LanesInv, Handed
<1>13. ASSUME NEW k \in Lanes, worker'[k] = worker[k]
       PROVE  worker'[k] \in Workers /\ LaneSound(k)'
  <2>1. Alive(k)' /\ Holds(k)' /\ Ready(k)'
    BY <1>1, <1>13 DEF LanesInv, LaneSound, Alive, Holds, Ready, Known
  <2>2. Waiting(k)'
    BY <1>1, <1>13 DEF LanesInv, LaneSound, Waiting, AskIds
  <2>3. Durable(k)'
    BY <1>1, <1>9, <1>13 DEF LanesInv, LaneSound, Durable, Known
  <2> QED
    BY <1>2, <1>13, <2>1, <2>2, <2>3 DEF LaneSound
<1>14. ASSUME NEW k \in super.reaped, worker'[k] = Gone
       PROVE  worker'[k] \in Workers /\ LaneSound(k)'
  <2>1. k \in Lanes /\ ("cleanup" \notin Operations => terminal'[k] # "none")
    BY <1>5, <1>9
  <2> QED
    BY <1>1, <1>5, <1>14, <2>1, WorkerGone, Constants
<1>15. ASSUME ~w.up, r.up
       PROVE  worker'[l] \in Workers /\ LaneSound(l)'
  <2>1. worker'[l] = r
    BY <1>8, <1>15
  <2>2. ~worker[l].up \/ worker[l].exited
    BY <1>5, <1>6, <1>15
  <2>3. CASE op = "create"
    <3>1. hydrated[l].status = "absent" /\ r = Spawned(Draft, FALSE)
      BY <1>7, <1>15, <2>3, Constants DEF Routed
    <3>2. ~Known(l)
      BY <1>5, <1>6, <1>15, <3>1 DEF LanesInv, LaneSound, Holds
    <3>3. PICK b \in BOOLEAN : b = FALSE
      OBVIOUS
    <3>4. PICK d \in Record : d = Draft /\ d.status # "absent"
      BY Constants
    <3>5. worker'[l] = Spawned(d, b)
      BY <2>1, <3>1, <3>3, <3>4
    <3> QED
      BY <1>1, <2>2, <3>2, <3>3, <3>4, <3>5, WorkerSpawned
  <2>4. CASE op # "create"
    <3>1. /\ terminal[l] # "cleaned" /\ ~(terminal[l] = "archived" /\ op # "cleanup")
          /\ hydrated[l].status # "absent" /\ r = Spawned(hydrated[l], TRUE)
      BY <1>7, <1>15, <2>4, Constants DEF Routed
    <3>2. PICK b \in BOOLEAN : b = TRUE
      OBVIOUS
    <3>3. PICK h \in Record : h = hydrated[l]
      BY <1>2
    <3>4. "cleanup" \notin Operations => Same(Told(h), log[l])
      <4>1. ASSUME "cleanup" \notin Operations
            PROVE  terminal[l] = "none"
        BY <1>2, <1>4, <3>1, <4>1 DEF Kinds
      <4>2. ASSUME "cleanup" \notin Operations
            PROVE  ~worker[l].up
        BY <1>5, <1>6, <1>15, <4>1, <4>2
      <4> QED
        BY <3>1, <3>3, <4>1, <4>2 DEF LanesInv, LaneSound, Durable
    <3>5. worker'[l] = Spawned(h, b)
      BY <2>1, <3>1, <3>2, <3>3
    <3> QED
      BY <1>1, <2>2, <3>1, <3>2, <3>3, <3>4, <3>5, WorkerSpawned
  <2> QED
    BY <2>3, <2>4
<1>16. ASSUME w.up \/ ~r.up
       PROVE  worker'[l] = w
  BY <1>7, <1>8, <1>16, Constants DEF Routed
<1>17. ASSUME NEW k \in Lanes
       PROVE  worker'[k] \in Workers /\ LaneSound(k)'
  <2>1. CASE k # l
    <3>1. worker'[k] = IF k \in super.reaped THEN Gone ELSE worker[k]
      BY <1>8, <2>1
    <3> QED
      BY <1>13, <1>14, <3>1
  <2>2. CASE k = l /\ (w.up \/ ~r.up)
    BY <1>6, <1>13, <1>14, <1>16, <2>2
  <2>3. CASE k = l /\ ~w.up /\ r.up
    BY <1>15, <2>3
  <2> QED
    BY <2>1, <2>2, <2>3
<1>18. worker' \in [Lanes -> Workers]
  <2>1. worker' = [k \in Lanes |-> worker'[k]]
    BY <1>8
  <2> QED
    BY <1>17, <2>1
<1>19. Typed'
  BY <1>1, <1>9, <1>11, <1>18 DEF LanesInv, Typed
<1> QED
  BY <1>12, <1>17, <1>19 DEF LanesInv

LEMMA RecordCompletionPreserves ==
    ASSUME LanesInv, RecordCompletion
    PROVE  LanesInv'
<1>1. /\ UNCHANGED <<log, disk, worker, super, policy, asks, used>>
      /\ reaper.inHand = "none" /\ reaper.inbox # <<>> /\ super.reaped = {}
  BY DEF RecordCompletion
<1>2. /\ reaper \in Reapers /\ reaper.inbox \in Seq(Completions)
      /\ hydrated \in [Lanes -> Record] /\ terminal \in [Lanes -> Kinds]
  BY DEF LanesInv, Typed, Reapers
<1>3. PICK done : done = Head(reaper.inbox)
  OBVIOUS
<1>4. PICK q : q = Tail(reaper.inbox)
  OBVIOUS
<1>5. /\ done \in Completions /\ done = reaper.inbox[1] /\ 1 \in 1..Len(reaper.inbox)
      /\ q \in Seq(Completions) /\ Len(q) = Len(reaper.inbox) - 1
      /\ \A i \in 1..Len(q) : q[i] = reaper.inbox[i + 1] /\ i + 1 \in 1..Len(reaper.inbox)
  BY <1>1, <1>2, <1>3, <1>4, HeadTailProperties, LenProperties, EmptySeq
<1>6. done.lane \in Lanes /\ done.kind \in Kinds /\ done.record \in Record
  BY <1>5 DEF Completions
<1>7. done.record.status # "absent" /\ done.kind # "none"
  BY <1>5 DEF LanesInv, Handed
<1>8. /\ hydrated' = [hydrated EXCEPT ![done.lane] = done.record]
      /\ terminal' = [terminal EXCEPT ![done.lane] = done.kind]
      /\ reaper' = [reaper EXCEPT !.inbox = q, !.inHand = done.lane]
  BY <1>3, <1>4 DEF RecordCompletion
<1>9. hydrated' \in [Lanes -> Record] /\ terminal' \in [Lanes -> Kinds]
  BY <1>2, <1>6, <1>8
<1>10. /\ reaper' \in Reapers /\ reaper'.inbox = q /\ reaper'.inHand = done.lane
       /\ reaper'.joining = reaper.joining
  BY <1>2, <1>5, <1>6, <1>8 DEF Reapers
<1>11. Typed'
  BY <1>1, <1>9, <1>10 DEF LanesInv, Typed
<1>12. hydrated'[done.lane].status # "absent" /\ terminal'[done.lane] # "none"
  BY <1>2, <1>6, <1>7, <1>8
<1>13. reaper.joining = "none"
  BY <1>1, <1>2, Constants DEF LanesInv, Handed, Reapers
<1>14. \A i \in 1..Len(q) : q[i].record.status # "absent" /\ q[i].kind # "none"
  BY <1>5 DEF LanesInv, Handed
<1>15. Handed'
  BY <1>1, <1>10, <1>12, <1>13, <1>14 DEF LanesInv, Handed
<1>16. ASSUME NEW k \in Lanes
       PROVE  Quiet(k)
  <2>1. Alike(worker'[k], worker[k]) /\ AsksKept(k)
    BY <1>1, AsksSame DEF Alike, Kin
  <2>2. CASE k = done.lane
    BY <1>1, <1>12, <2>1, <2>2 DEF Quiet
  <2>3. CASE k # done.lane
    BY <1>1, <1>2, <1>8, <2>1, <2>3 DEF Quiet
  <2> QED
    BY <2>2, <2>3
<1> QED
  BY <1>11, <1>15, <1>16, QuietStep

LEMMA RemoveWorkerPreserves ==
    ASSUME LanesInv, RemoveWorker
    PROVE  LanesInv'
<1>1. UNCHANGED <<log, disk, hydrated, terminal, super, policy, asks, used>>
  BY DEF RemoveWorker
<1>2. reaper \in Reapers /\ reaper.inHand # "none" /\ reaper.joining = "none"
  BY DEF RemoveWorker, LockFree, LanesInv, Typed
<1>3. PICK l \in Lanes : l = reaper.inHand
  BY <1>2 DEF Reapers
<1>4. PICK m \in Mail : m = ShutdownMsg
  BY MailTyped
<1>5. worker' = worker \/ Put(l, Post(worker[l], m))
  BY <1>3, <1>4 DEF RemoveWorker
<1>6. worker' \in [Lanes -> Workers] /\ \A k \in Lanes : Alike(worker'[k], worker[k])
  BY <1>5, WorkersStay, OnePosted DEF LanesInv
<1>7. \/ reaper' = [reaper EXCEPT !.joining = l]
      \/ reaper' = [reaper EXCEPT !.inHand = "none"]
  BY <1>3 DEF RemoveWorker
<1>8. /\ reaper' \in Reapers /\ reaper'.inbox = reaper.inbox
      /\ reaper'.inHand \in {reaper.inHand, "none"}
      /\ reaper'.joining # "none" => reaper'.joining = reaper'.inHand
  BY <1>2, <1>3, <1>7 DEF Reapers
<1>9. Handed'
  BY <1>1, <1>8 DEF LanesInv, Handed
<1> QED
  BY <1>1, <1>6, <1>8, <1>9, AsksSame, ChannelStep DEF LanesInv, Typed

LEMMA JoinWorkerPreserves ==
    ASSUME LanesInv, JoinWorker
    PROVE  LanesInv'
<1>1. UNCHANGED <<log, disk, hydrated, terminal, super, policy, asks, used>>
  BY DEF JoinWorker
<1>2. reaper \in Reapers /\ reaper.joining # "none" /\ reaper.joining = reaper.inHand
  BY DEF JoinWorker, LanesInv, Typed, Handed
<1>3. PICK l \in Lanes : l = reaper.joining
  BY <1>2 DEF Reapers
<1>4. Put(l, Gone) /\ worker[l].exited
  BY <1>3 DEF JoinWorker
<1>5. /\ worker' \in [Lanes -> Workers] /\ worker'[l] = Gone
      /\ \A k \in Lanes \ {l} : worker'[k] = worker[k]
  BY <1>4, Written, Constants DEF LanesInv
<1>6. /\ reaper' \in Reapers /\ reaper'.inHand = "none" /\ reaper'.joining = "none"
      /\ reaper'.inbox = reaper.inbox
  BY <1>2 DEF JoinWorker, Reapers
<1>7. Typed'
  BY <1>1, <1>5, <1>6 DEF LanesInv, Typed
<1>8. Handed'
  BY <1>1, <1>6 DEF LanesInv, Handed
<1>9. LaneSound(l)'
  <2>1. /\ hydrated[l].status # "absent"
        /\ "cleanup" \notin Operations => terminal'[l] # "none"
    BY <1>1, <1>2, <1>3 DEF LanesInv, Handed
  <2> QED
    BY <1>1, <1>4, <1>5, <2>1, WorkerGone
<1>10. ASSUME NEW k \in Lanes \ {l}
       PROVE  LaneSound(k)'
  <2>1. Alike(worker'[k], worker[k]) /\ AsksKept(k)
    BY <1>1, <1>5, AsksSame DEF Alike, Kin
  <2>2. Quiet(k)
    BY <1>1, <2>1 DEF Quiet
  <2> QED
    BY <2>2, QuietPreserves DEF LanesInv
<1> QED
  BY <1>7, <1>8, <1>9, <1>10 DEF LanesInv

-----------------------------------------------------------------------------
\* The specification.

LEMMA RestartPreserves ==
    ASSUME LanesInv, Restart
    PROVE  LanesInv'
<1>1. PICK done \in SUBSET {l \in Lanes : log[l].status \in Busy} :
         LET broken == done # {l \in Lanes : log[l].status \in Busy}
             lost   == {a \in AskIds : asks[a].state = "pending"}
         IN  /\ used' = [used EXCEPT !.restarts = @ + 1,
                                     !.failures = @ + IF broken THEN 1 ELSE 0]
             /\ log' = [l \in Lanes |-> IF l \in done THEN WithStatus(log[l], "blocked", "none")
                                                      ELSE log[l]]
             /\ hydrated' = [l \in Lanes |-> HandedOn(log'[l])]
             /\ terminal' = [l \in Lanes |->
                    IF log[l].status # "archived" THEN "none"
                    ELSE IF log[l].mark = "cleaned" THEN "cleaned" ELSE "archived"]
             /\ policy' = [policy EXCEPT !.epoch = 0, !.submitted = 0, !.broken = broken]
             /\ asks' = [a \in AskIds |-> IF a \in lost THEN [asks[a] EXCEPT !.state = "dropped"]
                                                        ELSE asks[a]]
  BY DEF Restart
<1>2. /\ log \in [Lanes -> Record] /\ disk \in [Lanes -> Disks] /\ policy \in Policies
      /\ asks \in Seq(Asked) /\ Len(asks) \in Nat /\ used \in Uses
  BY LenProperties DEF LanesInv, Typed
<1>3. ASSUME NEW l \in Lanes
      PROVE  /\ log'[l] \in Record /\ hydrated'[l] \in Record
             /\ Same(hydrated'[l], log'[l]) /\ Told(hydrated'[l]) = hydrated'[l]
             /\ log'[l].status # "absent" <=> log[l].status # "absent"
  <2>1. PICK s \in Statuses : s = "blocked"
    BY Names
  <2>2. PICK m \in {"none", "cleaned"} : m = "none"
    OBVIOUS
  <2>3. PICK r : r = WithStatus(log[l], s, m)
    OBVIOUS
  <2>4. r \in Record /\ r.status = "blocked"
    BY <1>2, <2>1, <2>2, <2>3, Statused
  <2>5. log'[l] = IF l \in done THEN r ELSE log[l]
    BY <1>1, <2>1, <2>2, <2>3
  <2>6. l \in done => log[l].status # "absent"
    BY <1>1 DEF Busy
  <2>7. log'[l] \in Record /\ (log'[l].status # "absent" <=> log[l].status # "absent")
    BY <1>2, <2>4, <2>5, <2>6
  <2>8. PICK q : q = log'[l]
    OBVIOUS
  <2>9. hydrated'[l] = HandedOn(q)
    BY <1>1, <2>8
  <2> QED
    BY <2>7, <2>8, <2>9, HandedOnRecord DEF Same
<1>4. log' \in [Lanes -> Record] /\ hydrated' \in [Lanes -> Record]
  <2>1. log' = [l \in Lanes |-> log'[l]] /\ hydrated' = [l \in Lanes |-> hydrated'[l]]
    BY <1>1
  <2> QED
    BY <1>3, <2>1
<1>5. terminal' \in [Lanes -> Kinds]
  BY <1>1 DEF Kinds
<1>6. policy' \in Policies
  <2>1. PICK broken \in BOOLEAN : broken = (done # {l \in Lanes : log[l].status \in Busy})
    OBVIOUS
  <2>2. policy' = [policy EXCEPT !.epoch = 0, !.submitted = 0, !.broken = broken]
    BY <1>1, <2>1
  <2> QED
    BY <1>2, <2>2 DEF Policies
<1>7. used' \in Uses
  <2>1. PICK n \in {0, 1} :
           n = IF done # {l \in Lanes : log[l].status \in Busy} THEN 1 ELSE 0
    OBVIOUS
  <2>2. PICK x \in Nat : x = used.failures + n
    BY <1>2, <2>1 DEF Uses
  <2>3. PICK y \in Nat : y = used.restarts + 1
    BY <1>2 DEF Uses
  <2>4. used' = [used EXCEPT !.restarts = y, !.failures = x]
    BY <1>1, <2>1, <2>2, <2>3
  <2> QED
    BY <1>2, <2>2, <2>3, <2>4 DEF Uses
<1>8. asks' \in Seq(Asked)
  <2>1. ASSUME NEW a \in AskIds
        PROVE  asks'[a] \in Asked
    <3>1. asks[a] \in Asked
      BY <1>2, ElementOfSeq DEF AskIds
    <3>2. [asks[a] EXCEPT !.state = "dropped"] \in Asked
      BY <3>1 DEF Asked, AskStates
    <3> QED
      BY <1>1, <3>1, <3>2
  <2>2. asks' = [a \in AskIds |-> asks'[a]]
    BY <1>1
  <2>3. asks' \in [1..Len(asks) -> Asked]
    BY <2>1, <2>2 DEF AskIds
  <2> QED
    BY <1>2, <2>3, SeqDef
<1>9. disk' = [l \in Lanes |-> [disk[l] EXCEPT !.runtime = FALSE,
                                               !.stray = @ \/ disk[l].runtime]]
  BY DEF Restart
<1>10. /\ disk' \in [Lanes -> Disks]
       /\ \A l \in Lanes : ~disk'[l].runtime /\ disk'[l].worktree = disk[l].worktree
  BY <1>2, <1>9 DEF Disks
<1>11. worker' = [l \in Lanes |-> Gone]
  BY DEF Restart
<1>12. reaper' = [inbox |-> <<>>, inHand |-> "none", joining |-> "none"]
  BY DEF Restart
<1>13. super' = [inbox |-> <<>>, at |-> "idle", lane |-> "none", op |-> "none", reaped |-> {}]
  BY DEF Restart
<1>14. reaper' \in Reapers /\ super' \in Supers
  BY <1>12, <1>13 DEF Reapers, Supers
<1>15. Typed'
  BY <1>4, <1>5, <1>6, <1>7, <1>8, <1>10, <1>11, <1>14, Constants DEF Typed
<1>16. Handed'
  BY <1>12, <1>13 DEF Handed
<1>17. ASSUME NEW l \in Lanes
       PROVE  LaneSound(l)'
  <2>1. /\ ~worker'[l].up /\ worker'[l].doing = "none" /\ worker'[l].pending.ask = 0
        /\ worker'[l].complete = "none"
    BY <1>11, Constants
  <2>2. Alive(l)' /\ Ready(l)' /\ Waiting(l)'
    BY <1>10, <2>1 DEF Alive, Ready, Waiting
  <2>3. Holds(l)'
    BY <1>3, <2>1 DEF Holds, Known, Same
  <2>4. Durable(l)'
    BY <1>3, <1>10, <2>1 DEF LanesInv, LaneSound, Durable, Known
  <2> QED
    BY <2>2, <2>3, <2>4 DEF LaneSound
<1> QED
  BY <1>15, <1>16, <1>17 DEF LanesInv

LEMMA InitInv == Init => LanesInv
<1> SUFFICES ASSUME Init
             PROVE  LanesInv
  OBVIOUS
<1>1. /\ log = [l \in Lanes |-> Absent] /\ hydrated = [l \in Lanes |-> Absent]
      /\ disk = [l \in Lanes |-> [worktree |-> FALSE, runtime |-> FALSE, stray |-> FALSE]]
      /\ worker = [l \in Lanes |-> Gone] /\ terminal = [l \in Lanes |-> "none"]
  BY DEF Init
<1>2. reaper \in Reapers /\ super \in Supers
  BY DEF Init, Reapers, Supers
<1>3. policy \in Policies /\ asks \in Seq(Asked) /\ used \in Uses
  BY Constants DEF Init, Policies, Uses
<1>4. disk \in [Lanes -> Disks] /\ \A l \in Lanes : ~disk[l].runtime
  BY <1>1 DEF Disks
<1>5. Typed
  BY <1>1, <1>2, <1>3, <1>4, Constants DEF Typed, Kinds
<1>6. Handed
  BY DEF Init, Handed
<1>7. ASSUME NEW l \in Lanes
      PROVE  LaneSound(l)
  BY <1>1, <1>4, <1>7, Constants DEF LaneSound, Alive, Holds, Ready, Waiting, Durable, Known
<1> QED
  BY <1>5, <1>6, <1>7 DEF LanesInv

LEMMA NextInv == LanesInv /\ [Next]_vars => LanesInv'
<1> SUFFICES ASSUME LanesInv, [Next]_vars
             PROVE  LanesInv'
  OBVIOUS
<1>1. CASE Client
  BY <1>1, SendCommandPreserves, RespondPreserves, CancelPreserves, SendControlPreserves
     DEF Client
<1>2. CASE RuntimeWorker
  BY <1>2, TakeControlPreserves, TakeCommandPreserves, RoutePreserves, ForwardPreserves,
     TakeAnswerPreserves, AnswerDonePreserves DEF RuntimeWorker
<1>3. CASE Reaper
  BY <1>3, RecordCompletionPreserves, RemoveWorkerPreserves, JoinWorkerPreserves DEF Reaper
<1>4. CASE Restart
  BY <1>4, RestartPreserves
<1>5. ASSUME NEW l \in Lanes, LaneWorker(l) \/ PassTime(l)
      PROVE  LanesInv'
  BY <1>5, LaneWorkerPreserves, PassTimePreserves
<1>6. CASE UNCHANGED vars
  <2>1. worker' \in [Lanes -> Workers] /\ \A k \in Lanes : Alike(worker'[k], worker[k])
    BY <1>6, WorkersStay DEF LanesInv, vars
  <2>2. Handed'
    BY <1>6, HandedStill DEF LanesInv, SuperStays, vars
  <2> QED
    BY <1>6, <2>1, <2>2, AsksSame, ChannelStep DEF LanesInv, Typed, vars
<1> QED
  BY <1>1, <1>2, <1>3, <1>4, <1>5, <1>6 DEF Next

\* What workers hold, are about and wait for agrees with the log, the disk, the
\* permission policy and the approvals, whoever fails or stops in between.
THEOREM LaneInvariance == Spec => []LanesInv
<1> QED
  BY InitInv, NextInv, PTL DEF Spec

LEMMA TypesFollow == LanesInv => TypeOK
<1> SUFFICES ASSUME LanesInv
             PROVE  TypeOK
  OBVIOUS
<1>1. \A l \in Lanes : /\ worker[l].record \in Record /\ worker[l].doing \in Steps
                       /\ worker[l].mode \in Modes /\ worker[l].ruled \subseteq Operations
                       /\ worker[l].complete \in Kinds
  BY DEF LanesInv, Typed, Workers
<1>2. \A l \in Lanes : worker[l].pending.ask \in AskIds \cup {0}
  BY DEF LanesInv, LaneSound, Waiting
<1>3. \A a \in AskIds : asks[a] \in Asked
  BY ElementOfSeq DEF LanesInv, Typed, AskIds
<1>4. \A a \in AskIds : asks[a].state \in AskStates
  BY <1>3 DEF Asked
<1> QED
  BY <1>1, <1>2, <1>4 DEF LanesInv, Typed, TypeOK, Disks, Kinds, Supers, AskStates

\* The records of a lane on disk, in its worker and in the registries stay
\* well-typed, and its approvals are among those asked for.
THEOREM LaneTypesHold == Spec => []TypeOK
<1> QED
  BY LaneInvariance, TypesFollow, PTL

\* An agent that no handle reaches is accounted for by a stop that failed, or by
\* a restart.
StraysCounted == \A l \in Lanes : disk[l].stray => used.kills > 0 \/ used.restarts > 0

\* A step that leaves no agent behind.
Tidy ==
    /\ used'.kills = used.kills /\ used'.restarts = used.restarts
    /\ \A l \in Lanes : disk'[l].stray => disk[l].stray

LEMMA TidyKeeps ==
    ASSUME Typed, StraysCounted, Tidy
    PROVE  StraysCounted'
BY DEF StraysCounted, Tidy

LEMMA ReleaseKeeps ==
    ASSUME Typed, StraysCounted, NEW l \in Lanes, NEW stopped \in BOOLEAN,
           Release(l, stopped), stopped => used'.kills = used.kills,
           ~stopped => Kills(stopped), used'.restarts = used.restarts
    PROVE  StraysCounted'
<1>1. CASE stopped
  <2>1. \A k \in Lanes : disk'[k].stray => disk[k].stray
    BY <1>1 DEF Release, Typed, Disks
  <2> QED
    BY <1>1, <2>1, TidyKeeps DEF Tidy
<1>2. CASE ~stopped
  <2>1. used'.kills = used.kills + 1 /\ used.kills \in Nat
    BY <1>2 DEF Kills, Typed, Uses
  <2> QED
    BY <2>1 DEF StraysCounted
<1> QED
  BY <1>1, <1>2

\* What a step spends on appends is no stop.
LEMMA FailuresTidy ==
    ASSUME Typed, NEW n, Failures(n)
    PROVE  used'.kills = used.kills /\ used'.restarts = used.restarts
BY DEF Failures, Typed, Uses

LEMMA LaneStepKeepsCount ==
    ASSUME Typed, StraysCounted, NEW l \in Lanes, LaneWorker(l)
    PROVE  StraysCounted'
<1>1. CASE \/ HandleCommand(l) \/ HandleAnswer(l) \/ HandleCancel(l) \/ Expire(l)
           \/ WriteStatus(l) \/ CountRun(l) \/ SendInput(l) \/ ApplyPatch(l)
           \/ MarkTerminal(l) \/ CheckTerminal(l)
  <2>1. disk' = disk
    BY <1>1 DEF HandleCommand, HandleAnswer, HandleCancel, Expire, WriteStatus, CountRun,
                SendInput, ApplyPatch, MarkTerminal, CheckTerminal
  <2>2. used' = used \/ \E n : Failures(n)
    BY <1>1 DEF HandleCommand, AskFor, HandleAnswer, PutBack, HandleCancel, Expire,
                WriteStatus, CountRun, SendInput, ApplyPatch, MarkTerminal, CheckTerminal,
                ChangeStatus, Observe, Count
  <2> QED
    BY <2>1, <2>2, FailuresTidy, TidyKeeps DEF Tidy
<1>2. CASE Create(l) \/ Register(l) \/ RemoveWorktree(l)
  <2>1. \A k \in Lanes : disk'[k].stray = disk[k].stray
    BY <1>2 DEF Create, Register, RemoveWorktree, Typed, Disks
  <2>2. used' = used \/ \E n : Failures(n)
    BY <1>2 DEF Create, Register, RemoveWorktree
  <2> QED
    BY <2>1, <2>2, FailuresTidy, TidyKeeps DEF Tidy
<1>3. ASSUME NEW stopped \in BOOLEAN, Release(l, stopped), Kills(stopped)
      PROVE  StraysCounted'
  <2>1. used'.restarts = used.restarts /\ (stopped => used'.kills = used.kills)
    BY <1>3 DEF Kills, Typed, Uses
  <2> QED
    BY <1>3, <2>1, ReleaseKeeps
<1>4. CASE UNCHANGED <<disk, used>>
  BY <1>4, TidyKeeps DEF Tidy
<1>5. CASE Spawn(l)
  <2>1. CASE disk' = [disk EXCEPT ![l].runtime = TRUE] /\ UNCHANGED used
    BY <2>1, TidyKeeps DEF Tidy, Typed, Disks
  <2> QED
    BY <1>3, <1>4, <1>5, <2>1 DEF Spawn
<1>6. CASE Unspawn(l)
  BY <1>3, <1>6, StopOutcome DEF Unspawn
<1>7. CASE HandleShutdown(l) \/ Exit(l)
  BY <1>3, <1>4, <1>7, StopOutcome DEF HandleShutdown, Exit, ThreadEnd
<1>8. CASE StopRuntime(l)
  <2>1. PICK stopped \in StopOutcomes(l) :
           /\ Release(l, stopped)
           /\ ~stopped => Kills(FALSE)
           /\ stopped => used' = used \/ \E n : Failures(n)
    BY <1>8 DEF StopRuntime, Observe, Count
  <2>2. stopped \in BOOLEAN
    BY StopOutcome
  <2>3. CASE stopped
    BY <2>1, <2>3, FailuresTidy, ReleaseKeeps
  <2>4. CASE ~stopped
    BY <1>3, <2>1, <2>2, <2>4
  <2> QED
    BY <2>2, <2>3, <2>4
<1> QED
  BY <1>1, <1>2, <1>5, <1>6, <1>7, <1>8 DEF LaneWorker

LEMMA StraysKeepCount ==
    ASSUME Typed, StraysCounted, [Next]_vars
    PROVE  StraysCounted'
<1>1. CASE Client
  <2>1. /\ disk' = disk
        /\ used'.kills = used.kills /\ used'.restarts = used.restarts
    BY <1>1 DEF Client, SendCommand, Respond, Cancel, SendControl, Typed, Uses
  <2> QED
    BY <2>1, TidyKeeps DEF Tidy
<1>2. CASE RuntimeWorker \/ Reaper \/ UNCHANGED vars \/ \E l \in Lanes : PassTime(l)
  <2>1. UNCHANGED <<disk, used>>
    BY <1>2 DEF RuntimeWorker, TakeControl, TakeCommand, Route, Forward, TakeAnswer,
                AnswerDone, Reaper, RecordCompletion, RemoveWorker, JoinWorker, PassTime, vars
  <2> QED
    BY <2>1, TidyKeeps DEF Tidy
<1>3. CASE Restart
  <2>1. used'.restarts = used.restarts + 1 /\ used.restarts \in Nat
    BY <1>3 DEF Restart, Typed, Uses
  <2> QED
    BY <2>1 DEF StraysCounted
<1>4. CASE \E l \in Lanes : LaneWorker(l)
  BY <1>4, LaneStepKeepsCount
<1> QED
  BY <1>1, <1>2, <1>3, <1>4 DEF Next

LEMMA AgentsHaveWorkers == LanesInv /\ StraysCounted => AgentsAreHeld
BY DEF LanesInv, LaneSound, Alive, StraysCounted, AgentsAreHeld

\* An agent that a handle reaches has a lane worker that will stop it: after a
\* start that could not be written, a stop that failed, the end of the thread.
\* An agent is out of every handle's reach only if a stop failed, or the process.
THEOREM AgentsStayHeld == Spec => []AgentsAreHeld
<1>1. Init => StraysCounted
  BY DEF Init, StraysCounted
<1>2. LanesInv /\ StraysCounted /\ [Next]_vars => StraysCounted'
  BY StraysKeepCount DEF LanesInv
<1> QED
  BY <1>1, <1>2, LaneInvariance, AgentsHaveWorkers, PTL DEF Spec

LEMMA DurablyHeld ==
    LanesInv /\ "cleanup" \notin Operations => RecordIsDurable /\ RegisteredHasWorktree
BY DEF LanesInv, LaneSound, Durable, Same, RecordIsDurable, RegisteredHasWorktree

\* Where no lane is cleaned up, a lane worker shows and decides from what the
\* log reduces to, after every failed append and every restart; where a patch
\* was refused with its "done" written, the log tells that and no more.
THEOREM WorkersBelieveTheLog == "cleanup" \notin Operations => (Spec => []RecordIsDurable)
<1> SUFFICES ASSUME "cleanup" \notin Operations
             PROVE  Spec => []RecordIsDurable
  OBVIOUS
<1>1. LanesInv => RecordIsDurable
  BY DurablyHeld
<1> QED
  BY <1>1, LaneInvariance, PTL

\* Where no lane is cleaned up, a lane that is in the log has its worktree.
THEOREM LanesKeepTheirWorktree ==
    "cleanup" \notin Operations => (Spec => []RegisteredHasWorktree)
<1> SUFFICES ASSUME "cleanup" \notin Operations
             PROVE  Spec => []RegisteredHasWorktree
  OBVIOUS
<1>1. LanesInv => RegisteredHasWorktree
  BY DurablyHeld
<1> QED
  BY <1>1, LaneInvariance, PTL

-----------------------------------------------------------------------------
\* What a step may do to a worktree and to an approval.

\* A worktree goes only in a registration that failed, or in a removal.
LEMMA WorktreeMoves ==
    ASSUME LanesInv, [Next]_vars, NEW l \in Lanes, disk[l].worktree, ~disk'[l].worktree
    PROVE  worker[l].doing \in {"register", "remove"}
<1>1. disk \in [Lanes -> Disks]
  BY DEF LanesInv, Typed
<1>2. ~Client /\ ~RuntimeWorker /\ ~Reaper /\ disk' # disk
  BY DEF Client, SendCommand, Respond, Cancel, SendControl, RuntimeWorker, TakeControl,
         TakeCommand, Route, Forward, TakeAnswer, AnswerDone, Reaper, RecordCompletion,
         RemoveWorker, JoinWorker
<1>3. ~Restart
  <2>1. ASSUME Restart
        PROVE  disk' = [k \in Lanes |-> [disk[k] EXCEPT !.runtime = FALSE,
                                                        !.stray = @ \/ disk[k].runtime]]
    BY <2>1 DEF Restart
  <2>2. ASSUME Restart
        PROVE  disk'[l].worktree = disk[l].worktree
    BY <1>1, <2>1, <2>2 DEF Disks
  <2> QED
    BY <2>2
<1>4. PICK k \in Lanes : LaneWorker(k)
  BY <1>2, <1>3 DEF Next, vars, PassTime
<1>5. CASE Register(k) \/ RemoveWorktree(k)
  <2>1. k = l
    BY <1>1, <1>5 DEF Register, RemoveWorktree
  <2> QED
    BY <1>5, <2>1, InTheMiddle DEF Register, RemoveWorktree
<1>6. CASE Create(k)
  BY <1>1, <1>6 DEF Create, Disks
<1>7. CASE Spawn(k) \/ Unspawn(k) \/ StopRuntime(k) \/ HandleShutdown(k) \/ Exit(k)
  <2>1. \/ disk' = disk \/ disk' = [disk EXCEPT ![k].runtime = TRUE]
        \/ \E stopped : Release(k, stopped)
    BY <1>7 DEF Spawn, Unspawn, StopRuntime, HandleShutdown, Exit, ThreadEnd
  <2>2. ASSUME NEW stopped, Release(k, stopped)
        PROVE  disk'[l].worktree = disk[l].worktree
    BY <1>1, <2>2 DEF Release, Disks
  <2> QED
    BY <1>1, <2>1, <2>2 DEF Disks
<1> QED
  BY <1>2, <1>4, <1>5, <1>6, <1>7
     DEF LaneWorker, HandleCommand, HandleAnswer, HandleCancel, Expire, WriteStatus, CountRun,
         SendInput, ApplyPatch, MarkTerminal, CheckTerminal

LEMMA RemovalsAreWritten ==
    LanesInv /\ [Next]_vars =>
        \A l \in Lanes : (Known(l) /\ disk[l].worktree /\ ~disk'[l].worktree) =>
                            log[l].status = "starting"
<1> SUFFICES ASSUME LanesInv, [Next]_vars, NEW l \in Lanes,
                    Known(l), disk[l].worktree, ~disk'[l].worktree
             PROVE  log[l].status = "starting"
  OBVIOUS
<1>1. worker[l].doing # "register"
  BY InTheMiddle DEF LanesInv, LaneSound, Ready, Holds
<1>2. worker[l].doing = "remove"
  BY <1>1, WorktreeMoves
<1> QED
  BY <1>2 DEF LanesInv, LaneSound, Ready

\* The worktree of a registered lane is removed only under the "starting" that
\* cleanup wrote, whatever else the worker, a failure or a restart does.
THEOREM RemovalsAreIntended == Spec => RemovalIsIntended
<1>1. LanesInv /\ [Next]_vars =>
         [\A l \in Lanes : (Known(l) /\ disk[l].worktree /\ ~disk'[l].worktree) =>
                              log[l].status = "starting"]_vars
  BY RemovalsAreWritten
<1> QED
  BY <1>1, LaneInvariance, PTL DEF Spec, RemovalIsIntended

\* Only a lane worker that handles an answer allows an approval.
LEMMA AllowedByAnswer ==
    ASSUME LanesInv, [Next]_vars, NEW a \in AskIds,
           asks[a].state = "pending", asks'[a].state = "allowed"
    PROVE  \E l \in Lanes :
              LET w == Next1(worker[l])
                  m == Head(worker[l].inbox)
              IN  /\ Hears(worker[l], "resume") /\ w.pending.ask = m.ask /\ m.ask = a
                  /\ Intake(w.pending, m.decision, w.epoch) /\ w.mode # "plan"
<1>1. asks \in Seq(Asked) /\ asks[a] \in Asked
  BY ElementOfSeq DEF LanesInv, Typed, AskIds
<1>2. ASSUME NEW x, NEW q, asks' = [asks EXCEPT ![x].audited = q]
      PROVE  FALSE
  BY <1>1, <1>2 DEF AskIds, Asked
<1>3. ASSUME NEW x, asks' = [asks EXCEPT ![x].state = "denied"]
      PROVE  FALSE
  BY <1>1, <1>3 DEF AskIds, Asked
<1>4. ASSUME NEW x, asks' = Append(asks, x)
      PROVE  FALSE
  BY <1>1, <1>4 DEF AskIds
<1>5. asks' # asks
  OBVIOUS
<1>6. ~Client
  <2>1. ASSUME NEW l \in Lanes, NEW d \in Answers, Respond(l, d)
        PROVE  FALSE
    <3>1. \E x, q : asks' = [asks EXCEPT ![x].audited = q]
      BY <2>1 DEF Respond
    <3> QED
      BY <1>2, <3>1
  <2> QED
    BY <1>5, <2>1 DEF Client, SendCommand, Cancel, SendControl
<1>7. ~RuntimeWorker /\ ~Reaper
  BY <1>5 DEF RuntimeWorker, TakeControl, TakeCommand, Route, Forward, TakeAnswer, AnswerDone,
              Reaper, RecordCompletion, RemoveWorker, JoinWorker
<1>8. ~Restart
  <2>1. ASSUME Restart
        PROVE  \E lost : asks' = [b \in AskIds |-> IF b \in lost
                                                   THEN [asks[b] EXCEPT !.state = "dropped"]
                                                   ELSE asks[b]]
    BY <2>1 DEF Restart
  <2>2. ASSUME Restart
        PROVE  asks'[a].state \in {asks[a].state, "dropped"}
    BY <1>1, <2>1, <2>2 DEF Asked
  <2> QED
    BY <2>2
<1>9. PICK l \in Lanes : LaneWorker(l)
  BY <1>5, <1>6, <1>7, <1>8 DEF Next, vars, PassTime
<1>10. ASSUME NEW w, PutBack(l, w)
       PROVE  FALSE
  <2>1. \E x : asks' = [asks EXCEPT ![x].state = "denied"]
    BY <1>10 DEF PutBack
  <2> QED
    BY <1>3, <2>1
<1>11. ~HandleCommand(l)
  <2>1. ASSUME NEW w, NEW op, AskFor(l, w, op)
        PROVE  FALSE
    <3>1. asks' = asks \/ \E x : asks' = Append(asks, x)
      BY <2>1 DEF AskFor
    <3> QED
      BY <1>4, <1>5, <3>1
  <2> QED
    BY <1>5, <2>1 DEF HandleCommand
<1>12. ~Expire(l)
  BY <1>10 DEF Expire
<1>13. ~HandleCancel(l)
  <2>1. ASSUME HandleCancel(l)
        PROVE  asks' = asks \/ \E x : asks' = [asks EXCEPT ![x].state = "denied"]
    BY <2>1 DEF HandleCancel
  <2> QED
    BY <1>3, <1>5, <2>1
<1>14. HandleAnswer(l)
  BY <1>5, <1>9, <1>11, <1>12, <1>13
     DEF LaneWorker, HandleShutdown, WriteStatus, Create, Register, Spawn, Unspawn, CountRun,
         StopRuntime, RemoveWorktree, SendInput, ApplyPatch, MarkTerminal, CheckTerminal, Exit,
         ThreadEnd
<1>15. PICK w : w = Next1(worker[l])
  OBVIOUS
<1>16. PICK m : m = Head(worker[l].inbox)
  OBVIOUS
<1>17. /\ Hears(worker[l], "resume") /\ w.pending.ask = m.ask
       /\ Intake(w.pending, m.decision, w.epoch) /\ w.mode # "plan"
       /\ asks' = [asks EXCEPT ![m.ask].state = "allowed"]
  BY <1>5, <1>10, <1>14, <1>15, <1>16 DEF HandleAnswer
<1>18. m.ask = a
  BY <1>1, <1>17 DEF AskIds
<1> QED
  BY <1>15, <1>16, <1>17, <1>18

LEMMA LaneAllowsAreCurrent ==
    LanesInv /\ [Next]_vars =>
        \A a \in AskIds :
            (asks[a].state = "pending" /\ asks'[a].state = "allowed") =>
                /\ policy.epoch = asks[a].epoch
                /\ policy.mode # "plan"
                /\ ~worker[asks[a].lane].pending.late
<1> SUFFICES ASSUME LanesInv, [Next]_vars, NEW a \in AskIds,
                    asks[a].state = "pending", asks'[a].state = "allowed"
             PROVE  /\ policy.epoch = asks[a].epoch
                    /\ policy.mode # "plan"
                    /\ ~worker[asks[a].lane].pending.late
  OBVIOUS
<1>1. PICK l \in Lanes :
         LET w == Next1(worker[l])
             m == Head(worker[l].inbox)
         IN  /\ Hears(worker[l], "resume") /\ w.pending.ask = m.ask /\ m.ask = a
             /\ Intake(w.pending, m.decision, w.epoch) /\ w.mode # "plan"
  BY AllowedByAnswer
<1>2. PICK w : w = Next1(worker[l])
  OBVIOUS
<1>3. /\ AtRest(worker[l]) /\ Alike(w, worker[l]) /\ w.pending = worker[l].pending
  BY <1>1, <1>2, Hearing
<1>4. worker[l].pending.ask = a /\ a # 0 /\ w.pending.epoch = w.epoch /\ ~w.pending.late
  BY <1>1, <1>2, <1>3 DEF Intake, AskIds
<1>5. /\ worker[l].up /\ w.mode = worker[l].mode /\ w.epoch = worker[l].epoch
  BY <1>3 DEF AtRest, Alike, Kin
<1>6. policy.mode = w.mode /\ policy.epoch = w.epoch
  BY <1>5 DEF LanesInv, LaneSound, Holds
<1>7. asks[a].lane = l /\ asks[a].epoch = worker[l].pending.epoch
  BY <1>4 DEF LanesInv, LaneSound, Waiting
<1> QED
  BY <1>1, <1>2, <1>3, <1>4, <1>6, <1>7

\* An answer releases a lane mutation only under the permission generation it
\* was asked in, outside plan mode and before its deadline.
THEOREM LaneAllowsStayCurrent == Spec => LaneAllowIsCurrent
<1>1. LanesInv /\ [Next]_vars =>
         [\A a \in AskIds :
             (asks[a].state = "pending" /\ asks'[a].state = "allowed") =>
                /\ policy.epoch = asks[a].epoch
                /\ policy.mode # "plan"
                /\ ~worker[asks[a].lane].pending.late]_vars
  BY LaneAllowsAreCurrent
<1> QED
  BY <1>1, LaneInvariance, PTL DEF Spec, LaneAllowIsCurrent
=============================================================================
