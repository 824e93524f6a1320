----------------------------- MODULE MCExecution -----------------------------
(***************************************************************************)
(* Instances of Execution for TLC: executions 1 and 2 are attempts of role  *)
(* one, 3 is a run of one, 4 is an attempt and 5 a run of role two.         *)
(***************************************************************************)
EXTENDS ExecutionProperties, TLC

CONSTANTS one, two  \* the roles

Roles   == [k \in Key |-> IF k <= 3 THEN one ELSE two]
Modes   == [k \in Key |-> IF k \in {3, 5} THEN "run" ELSE "bootstrap"]
OneOf   == (one :> "w") @@ (two :> "w")
EachOwn == (one :> "w1") @@ (two :> "w2")
=============================================================================
