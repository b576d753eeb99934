------------------------- MODULE PermissionControl --------------------------
(***************************************************************************)
(* The permission-control state a supervisor shares between the client     *)
(* thread and its worker (crates/runtime/src/runtime_supervisor.rs).  The  *)
(* client reserves an epoch for a work-mode or permission-level command    *)
(* when it submits it; the worker commits or rejects that epoch when the   *)
(* command reaches it.  Approvals are judged against the projection: the   *)
(* applied values with every submitted command applied in order.           *)
(***************************************************************************)
EXTENDS Integers, SequencesExt

CONSTANTS
    InitialValues \* the engine's work mode and permission level at start

VARIABLES
    control \* PermissionControlState

\* Review stands for Explore too, and auto_edit for the levels between Ask
\* and FullAccess: the control logic treats them alike.
Modes  == {"plan", "build", "review"}
Levels == {"ask", "auto_edit", "readonly"}
Values == [mode : Modes, level : Levels]

\* The two commands that change them.
SetWorkMode(m)        == [set |-> "mode", to |-> m]
SetPermissionLevel(l) == [set |-> "level", to |-> l]
ControlCommands ==
    {SetWorkMode(m) : m \in Modes} \cup {SetPermissionLevel(l) : l \in Levels}

ASSUME InitialValuesAssumption == InitialValues \in Values

BlocksMutation(v) == v.mode # "build" \/ v.level = "readonly"

\* Mutant of Applied: going back to Build leaves the level at ReadOnly.
AppliedKeepLevel(v, c) ==
    IF c.set = "mode"
      THEN [mode |-> c.to, level |-> IF c.to # "build" THEN "readonly" ELSE v.level]
      ELSE [level |-> c.to,
            mode  |-> IF c.to = "readonly" THEN "plan"
                      ELSE IF v.mode = "plan" THEN "build" ELSE v.mode]

\* PermissionControlValues::apply, the supervisor's copy of the rules.
Applied(v, c) ==
    IF c.set = "mode"
      THEN [mode  |-> c.to,
            level |-> IF c.to # "build" THEN "readonly"
                      ELSE IF v.level = "readonly" THEN "ask" ELSE v.level]
      ELSE [level |-> c.to,
            mode  |-> IF c.to = "readonly" THEN "plan"
                      ELSE IF v.mode = "plan" THEN "build" ELSE v.mode]

\* The engine's own rules: it keeps a work mode and a permission mode, and
\* derives the level it publishes from the latter.
PermissionMode ==
    [ask |-> "default", auto_edit |-> "accept_edits", readonly |-> "plan"]
LevelOf ==
    [default |-> "ask", accept_edits |-> "auto_edit", plan |-> "readonly"]

EngineValues == [mode : Modes, permission : DOMAIN LevelOf]
Published(e) == [mode |-> e.mode, level |-> LevelOf[e.permission]]
EngineAt(v)  == [mode |-> v.mode, permission |-> PermissionMode[v.level]]

EngineSetWorkMode(e, m) ==
    [mode |-> m,
     permission |-> IF m # "build" THEN "plan"
                    ELSE IF e.permission = "plan" THEN "default"
                    ELSE e.permission]

EngineSetPermissionMode(e, p) ==
    [mode |-> IF p = "plan" THEN "plan"
              ELSE IF e.mode = "plan" THEN "build" ELSE e.mode,
     permission |-> p]

EngineApplied(e, c) ==
    IF c.set = "mode" THEN EngineSetWorkMode(e, c.to)
                      ELSE EngineSetPermissionMode(e, PermissionMode[c.to])

\* PermissionControlState::projected: the submitted commands, in order, on
\* top of the applied values.
Projected ==
    LET values[n \in 0..Len(control.submitted)] ==
          IF n = 0 THEN control.applied
                   ELSE Applied(values[n - 1], control.submitted[n].command)
    IN  values[Len(control.submitted)]

CurrentEpoch == control.nextEpoch

ControlInit ==
    control = [applied |-> InitialValues, submitted |-> <<>>, nextEpoch |-> 0]

\* reserve: the generation moves on at once and is never given back.
Reserve(c) ==
    control' = [control EXCEPT
        !.nextEpoch = @ + 1,
        !.submitted = Append(@, [epoch |-> control.nextEpoch + 1, command |-> c])]

\* commit succeeds only for the oldest submitted command.
CanCommit(epoch) ==
    control.submitted # <<>> /\ Head(control.submitted).epoch = epoch

Commit ==
    control' = [control EXCEPT
        !.applied = Applied(@, Head(control.submitted).command),
        !.submitted = Tail(@)]

\* The submitted commands without the one of an epoch; no two share one.
WithoutEpoch(epoch) ==
    LET submitted == control.submitted
        found     == {i \in DOMAIN submitted : submitted[i].epoch = epoch}
    IN  IF found = {} THEN submitted
                      ELSE RemoveAt(submitted, CHOOSE i \in found : TRUE)

\* Mutant of Reject: the generation of the failed command is given back.
RejectRollBack(epoch) ==
    control' = [control EXCEPT !.nextEpoch = @ - 1, !.submitted = WithoutEpoch(epoch)]

\* reject withdraws the command wherever it stands.
Reject(epoch) == control' = [control EXCEPT !.submitted = WithoutEpoch(epoch)]
=============================================================================
