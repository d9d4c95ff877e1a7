---------------------------- MODULE MCProfessional ----------------------------
(***************************************************************************)
(* Instances of Professional for TLC.                                      *)
(***************************************************************************)
EXTENDS Professional, TLC

AllOps == StatusOp \cup PauseOp \cup ProfileOp
AllJobs == Job
=============================================================================
