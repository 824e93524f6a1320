------------------------- MODULE ExecutionProperties -------------------------
(***************************************************************************)
(* What must hold of native executions, and the promise they keep.          *)
(***************************************************************************)
EXTENDS Execution

\* At no time may two processes exist in one workspace, however late a host
\* start resolves, whatever a stop answers and whenever the Core crashes: the
\* leases of initialize, of dispatch and of the exits keep them apart
\* (execution-coordinator.ts:155-181, core.ts:646-664).
OneProcessPerWorkspace == \A j, k \in Key :
  /\ j # k /\ proc[j] \in Existing /\ proc[k] \in Existing
  => WorkspaceOf[RoleOf[j]] # WorkspaceOf[RoleOf[k]]

\* A lease is given back only when nothing of the process is left; otherwise
\* it stays held or quarantined (execution-coordinator.ts:265-278, 428-510,
\* native-process-backend.ts:139-165, application.ts:170-186).
LeaseOutlivesProcess == \A k \in Key :
  proc[k] \in Existing \/ row[k] \in LiveRow \cup {"UNKNOWN"} => Leased(k)

\* A role whose charter counts as delivered has had exactly one attempt that
\* acknowledged it under the role's present binding, and the native session
\* its runs will resume is the one that attempt stored: neither a failed first
\* attempt nor an attempt of a replaced binding can pass for it.
DeliveredIsResumable == \A r \in Role : delivery[r] = "DELIVERED" =>
  \E k \in Tried(r) : row[k] = "DELIVERED" /\ session[r] = k /\ proc[k] = "gone"

\* A delivery is tried at most twice, and a second time only when the first
\* attempt is over with its process proven gone: a delivery that may still be
\* acknowledged by somebody is not repeated (execution-coordinator.ts:17-32,
\* 162-169, 231-262).
RetriesAreProven == \A r \in Role :
  delivery[r] = "PENDING" =>
    /\ Cardinality(Tried(r)) <= 1
    /\ \A k \in Tried(r) : row[k] = "FAILED" /\ proc[k] = "gone"

\* A cancel that the backend has accepted before the prompt was sent is not
\* overtaken by the start: no prompt is sent, no session is stored, and the
\* run does not settle (native-process-backend.ts:314-371, 380-392).
CancelledIsNotPrompted == [][\A k \in Key :
  /\ intent[k] = "SENT" /\ stage[k] \in {"hosting", "opening"}
  => stage'[k] # "prompted" /\ session'[RoleOf[k]] # k /\ row'[k] # "SETTLED"]_vars

\* Every execution that was started ends, though the host never answers, the
\* harness is silent, a stop hangs, the exit cannot be stored or the Core
\* crashes (native-process-backend.ts:222-227, 394-408, execution-coordinator.ts:557-562).
EveryExecutionEnds == \A k \in Key :
  (row[k] \in LiveRow) ~> (row[k] \in EndedRow)

PhaseOf(k) ==
  CASE row[k] = "none" -> "idle"
    [] lease[k] = "HELD" -> "open"
    [] lease[k] = "QUARANTINED" -> "unproven"
    [] lease[k] = "FREE" -> "closed"

Promise == INSTANCE ExecutionPromise WITH
  Conflict <- {p \in Key \X Key :
                 WorkspaceOf[RoleOf[p[1]]] = WorkspaceOf[RoleOf[p[2]]]},
  phase <- [k \in Key |-> IF row[k] = "none" THEN "idle" ELSE PhaseOf(k)],
  alive <- [k \in Key |-> proc[k] \in Existing]

\* Every step of the coordinator and the backend is a step of the promise.
KeepsPromise == Promise!Spec

\* docs/adr/0001: an auth unit is used serially.  Two processes that use one
\* auth unit never exist together.
AuthUnitIsSerial == \A j, k \in Key :
  /\ j # k /\ proc[j] \in Existing /\ proc[k] \in Existing
  => AuthOf[RoleOf[j]] # AuthOf[RoleOf[k]]
=============================================================================
