---------------------------- MODULE MCSupervisor ----------------------------
\* Instances of the supervisor for TLC.
EXTENDS Supervisor
LOCAL INSTANCE TLC

BuildAsk == [mode |-> "build", level |-> "ask"]

EnterPlan == {SetWorkMode("plan")}

EveryRequest == RequestKinds
NoDrop       == RequestKinds \ {"drop"}
Sharing      == {"mutate", "input", "retrieve", "followup", "cancel", "respond"}

OwnerSymmetry == Permutations(Owners)
=============================================================================
