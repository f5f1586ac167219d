---------------------------- MODULE MCPoolClient ----------------------------
(* Instances of PoolClient for TLC. *)
EXTENDS PoolClient

CONSTANTS t1, t2, t3, t4

FourTasks == {t1, t2, t3, t4}

LastTasks == Tasks \ {t1, t2}
=============================================================================
