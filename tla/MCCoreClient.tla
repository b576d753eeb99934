---------------------------- MODULE MCCoreClient ----------------------------
(***************************************************************************)
(* Instances of CoreClient for TLC.                                        *)
(***************************************************************************)
EXTENDS CoreClient, TLC

CONSTANTS f1, f2

MCFacts == {f1, f2}

\* No definition tells one fact from another.
FactSymmetry == Permutations(MCFacts)

AllFaults == FaultKinds
NoFaults  == {}
Restarts  == {"restart"}
=============================================================================
