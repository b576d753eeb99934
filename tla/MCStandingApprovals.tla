------------------------- MODULE MCStandingApprovals -------------------------
(***************************************************************************)
(* Small instances of StandingApprovals for TLC.                           *)
(***************************************************************************)
EXTENDS StandingApprovals, TLC

CONSTANTS shell, narrow, read

MCCalls == {shell, narrow, read}

\* The rule for `narrow` matches `shell`, whose input contains it; read is
\* context_read.
MCCovered == (shell :> {shell}) @@ (narrow :> {narrow, shell}) @@ (read :> {read})
MCUnregistered == {read}
MCRoleCalls    == {shell}

MCInitial  == [mode |-> "build", level |-> "ask"]
MCControls == {SetWorkMode("plan")}
MCAnswers  == AllAnswers \ {"once"}
MCCommands == AllCommands
MCResuming == {"turn", "resume"}
=============================================================================
