--------------------------- MODULE MCLaneSupervisor ---------------------------
(***************************************************************************)
(* Small instances of LaneSupervisor for TLC.                              *)
(***************************************************************************)
EXTENDS LaneSupervisor

CONSTANTS l1, l2

MCOneLane  == {l1}
MCTwoLanes == {l1, l2}
=============================================================================
