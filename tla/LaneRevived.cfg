SPECIFICATION Spec
CONSTANTS
    l1 = l1
    l2 = l2
    Lanes <- MCOneLane
    Operations = {"create", "archive", "cleanup"}
    Autonomous = {l1}
    StartMode = "allow"
    Controls = {}
    Answers = {}
    MaxCommands = 4
    MaxControls = 0
    MaxCancels = 1
    MaxAnswers = 0
    MaxQueue = 1
    MaxFailures = 0
    MaxKills = 0
    MaxRestarts = 0
PROPERTY CleanedIsFinal
CHECK_DEADLOCK FALSE
