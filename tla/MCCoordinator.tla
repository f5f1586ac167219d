---------------------------- MODULE MCCoordinator ----------------------------
(* Instances of Coordinator for TLC. *)
EXTENDS Coordinator

CONSTANTS f1, f2

TwoFunctions == <<f1, f2>>

MCTasks == BuildTasks \cup EvaluateTasks
MCResults == RunResults
=============================================================================
