--------------------------- MODULE ExecutionPromise ---------------------------
(***************************************************************************)
(* What the execution layer promises the kernel about one workspace: an     *)
(* execution that begins is closed or given up, once; it is closed only     *)
(* when nothing of its process is left, and nothing of it comes back; one   *)
(* that is given up keeps its workspace.  So a workspace has one tenant.    *)
(***************************************************************************)
CONSTANTS
  Key,      \* executions
  Conflict  \* the pairs of executions that need the same workspace

VARIABLES
  phase,    \* "idle", "open", "closed", "unproven"
  alive     \* something of the execution's process may exist

vars == <<phase, alive>>

Init ==
  /\ phase = [k \in Key |-> "idle"]
  /\ alive = [k \in Key |-> FALSE]

Tenant(k) == phase[k] \in {"open", "unproven"}

Free(k) == \A j \in Key : Tenant(j) => <<j, k>> \notin Conflict

Begin(k) ==
  /\ phase[k] = "idle" /\ Free(k)
  /\ phase' = [phase EXCEPT ![k] = "open"]
  /\ alive' = [alive EXCEPT ![k] = TRUE]

\* Nothing could be started: the outcome is unknown from the beginning.
Refuse(k) ==
  /\ phase[k] = "idle" /\ Free(k)
  /\ phase' = [phase EXCEPT ![k] = "unproven"]
  /\ UNCHANGED alive

Close(k) ==
  /\ phase[k] = "open"
  /\ phase' = [phase EXCEPT ![k] = "closed"]
  /\ alive' = [alive EXCEPT ![k] = FALSE]

\* Processes of given-up executions may stop in the same step.
GiveUp(S) ==
  /\ S # {}
  /\ \A k \in S : phase[k] = "open"
  /\ phase' = [k \in Key |-> IF k \in S THEN "unproven" ELSE phase[k]]
  /\ \E T \in SUBSET S :
       alive' = [k \in Key |-> alive[k] /\ k \notin T]

\* The process is gone although the execution has not been, or cannot be,
\* closed.
Reap(k) ==
  /\ Tenant(k) /\ alive[k]
  /\ alive' = [alive EXCEPT ![k] = FALSE]
  /\ UNCHANGED phase

Next ==
  \/ \E k \in Key : Begin(k) \/ Refuse(k) \/ Close(k) \/ Reap(k)
  \/ \E S \in SUBSET Key : GiveUp(S)

Spec == Init /\ [][Next]_vars
=============================================================================
