SPECIFICATION FairSpec
CONSTANTS
    l1 = l1
    l2 = l2
    Lanes <- MCTwoLanes
    Operations = {"create", "archive", "cleanup"}
    Autonomous = {l1}
    StartMode = "allow"
    Controls = {"ask", "plan"}
    Answers = {"session"}
    MaxCommands = 3
    MaxControls = 1
    MaxCancels = 0
    MaxAnswers = 1
    MaxQueue = 1
    MaxFailures = 1
    MaxKills = 0
    MaxRestarts = 0
PROPERTIES LaneAllowIsCurrent RemovalIsIntended SupervisorReturns
CHECK_DEADLOCK FALSE
