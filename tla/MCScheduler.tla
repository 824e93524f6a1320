---------------------------- MODULE MCScheduler ----------------------------
(* Roles 1 and 2 work in the same directory, role 3 in one of its own.       *)
EXTENDS Scheduler

MCWorkspaceOf == [r \in 1 .. Last |-> IF r <= 2 THEN "w1" ELSE "w2"]
=============================================================================
