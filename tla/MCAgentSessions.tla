--------------------------- MODULE MCAgentSessions ---------------------------
(***************************************************************************)
(* An instance of AgentSessions for TLC.                                   *)
(***************************************************************************)
EXTENDS AgentSessions

BuildAsk == [mode |-> "build", level |-> "ask"]

SwitchModes == {SetWorkMode("plan"), SetWorkMode("build")}
=============================================================================
