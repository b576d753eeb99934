SPECIFICATION Spec
CONSTANTS
    l1 = l1
    l2 = l2
    Lanes <- MCOneLane
    Operations = {"create", "start", "stop", "input", "accept", "apply", "resolve", "archive"}
    Autonomous = {l1}
    StartMode = "allow"
    Controls = {}
    Answers = {}
    MaxCommands = 4
    MaxControls = 0
    MaxCancels = 1
    MaxAnswers = 0
    MaxQueue = 1
    MaxFailures = 1
    MaxKills = 1
    MaxRestarts = 1
INVARIANTS TypeOK RecordIsDurable AgentsAreHeld RegisteredHasWorktree
CHECK_DEADLOCK FALSE
