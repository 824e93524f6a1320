------------------------------ MODULE Execution ------------------------------
(***************************************************************************)
(* One native execution from its launch to its end: the coordinator         *)
(* (packages/core-service/execution-coordinator.ts) over the process        *)
(* backend (native-process-backend.ts), the session store                   *)
(* (native-session-store.ts) and the process host.                          *)
(*                                                                          *)
(* An execution is a run of a task or an attempt to initialise a role with  *)
(* its charter; both have a row and leases in the database, a wrapper in    *)
(* the coordinator's memory and an entry in the backend's memory, and only  *)
(* the operating system knows whether the process still exists.  JavaScript *)
(* runs a callback to its next await, so an action is one callback: the     *)
(* host's start, the opening of the native session, every native event and  *)
(* the answer of a stop are separate steps, in any order.                   *)
(*                                                                          *)
(* The kernel's own gates (budgets, queues, waits) are in RouteCore; here a *)
(* dispatch is enabled whenever its identity and resource gates let it.     *)
(*                                                                          *)
(* Definitions whose name ends in _bug or _bug2 are not part of the model:  *)
(* each is the definition that follows it with a plausible mistake in it.   *)
(***************************************************************************)
EXTENDS Naturals, FiniteSets

CONSTANTS
  Role,         \* the roles whose executions are followed
  Key,          \* executions: run ids and attempt ids, in the order of use
  RoleOf,       \* the role an execution belongs to
  ModeOf,       \* "run" or "bootstrap"
  WorkspaceOf,  \* the workspace of each role's binding
  AuthOf,       \* the auth unit of each role's binding
  NoKey,        \* no session reference is stored
  MaxEpoch,     \* bound: binding epochs of a role
  MaxTrouble    \* bound: crashes of the Core and failures of its storage

ASSUME ExecutionAssumption ==
  /\ Key \subseteq Nat
  /\ RoleOf \in [Key -> Role]
  /\ ModeOf \in [Key -> {"run", "bootstrap"}]
  /\ DOMAIN WorkspaceOf = Role
  /\ DOMAIN AuthOf = Role
  /\ NoKey \notin Key
  /\ MaxEpoch \in Nat \ {0}
  /\ MaxTrouble \in Nat

VARIABLES
  row,        \* state of the runs row or of the initialization_attempts row
  lease,      \* its rows in resource_leases or initialization_leases
  keyEpoch,   \* the binding epoch it was started under
  intent,     \* cancel_intents.state
  epoch,      \* epoch of the role's current binding
  delivery,   \* bootstrap_deliveries.state of the role's latest charter
  session,    \* who stored the native session reference of that epoch
  broken,     \* the wrapper, or the execution itself, is broken
  terminal,   \* the terminal frame has been recorded
  acked,      \* the acknowledgement of the charter has been recorded
  diagnostic, \* "none", "ack_missing", or "other" once anything else failed
  stage,      \* of the backend's entry, see Stages
  cancelled,  \* the backend has accepted a cancel
  proc,       \* the process: "live" until its tree is proven empty
  core,       \* "up", "draining", "closing" or "down"
  troubles    \* crashes and storage failures so far

tableVars   == <<row, lease, keyEpoch, intent>>
roleVars    == <<epoch, delivery, session>>
wrapperVars == <<broken, terminal, acked, diagnostic>>
backendVars == <<stage, cancelled>>
vars == <<row, lease, keyEpoch, intent, epoch, delivery, session,
          broken, terminal, acked, diagnostic, stage, cancelled,
          proc, core, troubles>>

LiveRow    == {"STARTING", "RUNNING"}
EndedRow   == {"SETTLED", "DELIVERED", "FAILED", "UNKNOWN"}
Existing   == {"starting", "live"}

\* hosting: host.start is pending; opening: the lifecycle opens the native
\* session; prompted: the prompt was sent; stopping: r.finish awaits the stop;
\* abandoned: r.finish ended while host.start was pending, and its entry stays
\* in the map as a tombstone; late: the process that came after that is being
\* stopped; idle: no entry.
Stages == {"idle", "hosting", "opening", "prompted", "stopping",
           "abandoned", "late"}

TypeOK ==
  /\ row \in [Key -> {"none"} \cup LiveRow \cup EndedRow]
  /\ lease \in [Key -> {"FREE", "HELD", "QUARANTINED"}]
  /\ keyEpoch \in [Key -> 0 .. MaxEpoch]
  /\ intent \in [Key -> {"none", "PENDING", "SENT"}]
  /\ epoch \in [Role -> 1 .. MaxEpoch]
  /\ delivery \in [Role -> {"PENDING", "DELIVERING", "DELIVERED", "FAILED"}]
  /\ session \in [Role -> Key \cup {NoKey}]
  /\ broken \in [Key -> BOOLEAN]
  /\ terminal \in [Key -> BOOLEAN]
  /\ acked \in [Key -> BOOLEAN]
  /\ diagnostic \in [Key -> {"none", "ack_missing", "other"}]
  /\ stage \in [Key -> Stages]
  /\ cancelled \in [Key -> BOOLEAN]
  /\ proc \in [Key -> {"none", "starting", "live", "gone"}]
  /\ core \in {"up", "draining", "closing", "down"}
  /\ troubles \in 0 .. MaxTrouble

Init ==
  /\ row = [k \in Key |-> "none"]
  /\ lease = [k \in Key |-> "FREE"]
  /\ keyEpoch = [k \in Key |-> 0]
  /\ intent = [k \in Key |-> "none"]
  /\ epoch = [r \in Role |-> 1]
  /\ delivery = [r \in Role |-> "PENDING"]
  /\ session = [r \in Role |-> NoKey]
  /\ broken = [k \in Key |-> FALSE]
  /\ terminal = [k \in Key |-> FALSE]
  /\ acked = [k \in Key |-> FALSE]
  /\ diagnostic = [k \in Key |-> "none"]
  /\ stage = [k \in Key |-> "idle"]
  /\ cancelled = [k \in Key |-> FALSE]
  /\ proc = [k \in Key |-> "none"]
  /\ core = "up"
  /\ troubles = 0

-----------------------------------------------------------------------------
(* Gates.                                                                   *)

\* Identities are fresh: the next one of the role and mode.
Fresh(k) ==
  /\ row[k] = "none"
  /\ \A j \in Key : j < k /\ RoleOf[j] = RoleOf[k] /\ ModeOf[j] = ModeOf[k]
       => row[j] # "none"

Runs(r)     == {k \in Key : RoleOf[k] = r /\ ModeOf[k] = "run"}
Attempts(r) == {k \in Key : RoleOf[k] = r /\ ModeOf[k] = "bootstrap"}

\* Attempts made for the delivery of the role's latest charter.
Tried(r) == {k \in Attempts(r) : row[k] # "none" /\ keyEpoch[k] = epoch[r]}

\* role_slots.active_run_id: an unknown run keeps the slot.
SlotBusy(r) == \E k \in Runs(r) : row[k] \in LiveRow \cup {"UNKNOWN"}

Current(k) == keyEpoch[k] = epoch[RoleOf[k]]

SharesWorkspace(k, r) == WorkspaceOf[RoleOf[k]] = WorkspaceOf[r]
SharesAuth(k, r)      == AuthOf[RoleOf[k]] = AuthOf[r]
Leased(k)             == lease[k] # "FREE"

\* resource_leases has a row for a resource of role r.
RunLeaseOn(r) == \E k \in Key :
  /\ ModeOf[k] = "run" /\ Leased(k)
  /\ SharesWorkspace(k, r) \/ SharesAuth(k, r)

\* initialization_leases has a row for a resource of role r.
InitLeaseOn(r) == \E k \in Key :
  /\ ModeOf[k] = "bootstrap" /\ Leased(k)
  /\ SharesWorkspace(k, r) \/ SharesAuth(k, r)

\* The part of it that a dispatch looks at: the workspace key only.
InitLeaseOnWorkspace(r) == \E k \in Key :
  ModeOf[k] = "bootstrap" /\ Leased(k) /\ SharesWorkspace(k, r)

\* dispatchBlocker, and the identity and resource gates of dispatch.
MayDispatch_bug(r) ==
  /\ delivery[r] = "DELIVERED"
  /\ ~ SlotBusy(r)
  /\ \A k \in Attempts(r) : row[k] \notin LiveRow \cup {"UNKNOWN"}
  /\ ~ RunLeaseOn(r)

MayDispatch(r) ==
  /\ delivery[r] = "DELIVERED"
  /\ ~ SlotBusy(r)
  /\ \A k \in Attempts(r) : row[k] \notin LiveRow \cup {"UNKNOWN"}
  /\ ~ InitLeaseOnWorkspace(r)
  /\ ~ RunLeaseOn(r)

\* initialize goes on to start an attempt.  A delivery that is pending after
\* two attempts would be failed here; RetriesAreProven shows there is none.
MayInitialize(r) ==
  /\ delivery[r] = "PENDING"
  /\ Cardinality(Tried(r)) < 2
  /\ ~ SlotBusy(r)
  /\ ~ RunLeaseOn(r)
  /\ ~ InitLeaseOn(r)

-----------------------------------------------------------------------------
(* The end of an execution.                                                 *)

\* retryMissingBootstrapAck, for an attempt that did not succeed.
RetryAck_bug(k, proven, bad) ==
  /\ ~ bad /\ terminal[k] /\ ~ acked[k] /\ Current(k)
  /\ diagnostic[k] = "ack_missing"

RetryAck(k, proven, bad) ==
  /\ proven /\ ~ bad /\ terminal[k] /\ ~ acked[k] /\ Current(k)
  /\ diagnostic[k] = "ack_missing"
  /\ Cardinality(Tried(RoleOf[k])) = 1

\* onExit of run: settle, or leave the run unknown.  settles is whether the
\* kernel's settle accepts the outcome; it refuses while an approval is open.
RunExit(k, proven, bad, settles) ==
  LET settled == proven /\ terminal[k] /\ ~ bad /\ settles /\ Current(k) IN
  /\ row' = [row EXCEPT ![k] = IF settled THEN "SETTLED" ELSE "UNKNOWN"]
  /\ lease' = [lease EXCEPT ![k] = IF settled THEN "FREE" ELSE "QUARANTINED"]
  /\ UNCHANGED delivery

\* onExit of initialize; an attempt of an older epoch has an older delivery.
AttemptExit_bug(k, proven, bad) ==
  LET r == RoleOf[k]
      success == proven /\ ~ bad /\ terminal[k] /\ acked[k]
  IN
  /\ row' = [row EXCEPT ![k] =
       IF success THEN "DELIVERED" ELSE IF proven THEN "FAILED" ELSE "UNKNOWN"]
  /\ lease' = [lease EXCEPT ![k] = IF proven THEN "FREE" ELSE "QUARANTINED"]
  /\ delivery' = [delivery EXCEPT ![r] =
       IF success THEN "DELIVERED"
       ELSE IF RetryAck(k, proven, bad) THEN "PENDING" ELSE "FAILED"]

AttemptExit(k, proven, bad) ==
  LET r == RoleOf[k]
      success == proven /\ ~ bad /\ terminal[k] /\ acked[k] /\ Current(k)
  IN
  /\ row' = [row EXCEPT ![k] =
       IF success THEN "DELIVERED" ELSE IF proven THEN "FAILED" ELSE "UNKNOWN"]
  /\ lease' = [lease EXCEPT ![k] = IF proven THEN "FREE" ELSE "QUARANTINED"]
  /\ delivery' = IF ~ Current(k) THEN delivery ELSE
       [delivery EXCEPT ![r] =
         IF success THEN "DELIVERED"
         ELSE IF RetryAck(k, proven, bad) THEN "PENDING" ELSE "FAILED"]

\* The wrapper's exit, once; a storage failure stops the coordinator.
Exit(k, proven, bad) ==
  \/ /\ ModeOf[k] = "run"
     /\ \E settles \in BOOLEAN : RunExit(k, proven, bad, settles)
     /\ UNCHANGED <<core, troubles>>
  \/ /\ ModeOf[k] = "bootstrap"
     /\ AttemptExit(k, proven, bad)
     /\ UNCHANGED <<core, troubles>>
  \/ /\ troubles < MaxTrouble
     /\ troubles' = troubles + 1
     /\ core' = IF core = "up" THEN "draining" ELSE core
     /\ UNCHANGED <<row, lease, delivery>>

\* The execution's own variables are garbage once its wrapper has ended.
Discard(k) ==
  /\ broken' = [broken EXCEPT ![k] = FALSE]
  /\ terminal' = [terminal EXCEPT ![k] = FALSE]
  /\ acked' = [acked EXCEPT ![k] = FALSE]
  /\ diagnostic' = [diagnostic EXCEPT ![k] = "none"]
  /\ cancelled' = [cancelled EXCEPT ![k] = FALSE]

\* The backend's `ready' chain or its process can still act.
Waiting(k) == core # "down" /\ stage[k] \in {"hosting", "opening", "prompted"}

\* The wrapper in the coordinator has not ended.
Open(k) == stage[k] \in {"hosting", "opening", "prompted", "stopping"}

\* r.finish(true): with a process the stop is awaited, without one the
\* execution ends at once.
FinishBroken(k) ==
  \/ /\ proc[k] = "live"
     /\ stage' = [stage EXCEPT ![k] = "stopping"]
     /\ broken' = [broken EXCEPT ![k] = TRUE]
     /\ diagnostic' = [diagnostic EXCEPT ![k] = "other"]
     /\ UNCHANGED <<row, lease, delivery, terminal, acked, cancelled,
                    core, troubles>>
  \/ /\ proc[k] # "live"
     /\ stage' = [stage EXCEPT ![k] = "abandoned"]
     /\ Exit(k, FALSE, TRUE)
     /\ Discard(k)

-----------------------------------------------------------------------------
(* The coordinator's tick.                                                  *)

\* Start a run or an attempt; the backend calls the host.
Launch(k) ==
  LET r == RoleOf[k] IN
  /\ core = "up"
  /\ Fresh(k)
  /\ IF ModeOf[k] = "run" THEN MayDispatch(r) ELSE MayInitialize(r)
  /\ row' = [row EXCEPT ![k] = "STARTING"]
  /\ lease' = [lease EXCEPT ![k] = "HELD"]
  /\ keyEpoch' = [keyEpoch EXCEPT ![k] = epoch[r]]
  /\ delivery' = IF ModeOf[k] = "run" THEN delivery
                 ELSE [delivery EXCEPT ![r] = "DELIVERING"]
  /\ stage' = [stage EXCEPT ![k] = "hosting"]
  /\ proc' = [proc EXCEPT ![k] = "starting"]
  /\ UNCHANGED <<intent, epoch, session, wrapperVars, cancelled, core, troubles>>

\* The backend's launch throws: the wrapper ends broken in a microtask.
LaunchThrows(k) ==
  LET r == RoleOf[k] IN
  /\ core = "up"
  /\ Fresh(k)
  /\ IF ModeOf[k] = "run" THEN MayDispatch(r) ELSE MayInitialize(r)
  /\ row' = [row EXCEPT ![k] = "UNKNOWN"]
  /\ lease' = [lease EXCEPT ![k] = "QUARANTINED"]
  /\ keyEpoch' = [keyEpoch EXCEPT ![k] = epoch[r]]
  /\ delivery' = IF ModeOf[k] = "run" THEN delivery
                 ELSE [delivery EXCEPT ![r] = "FAILED"]
  /\ UNCHANGED <<intent, epoch, session, wrapperVars, backendVars,
                 proc, core, troubles>>

\* run.cancel: the user's intent is stored, the tick acts on it.
RequestCancel(k) ==
  /\ core = "up"
  /\ ModeOf[k] = "run"
  /\ row[k] \in LiveRow
  /\ intent[k] = "none"
  /\ intent' = [intent EXCEPT ![k] = "PENDING"]
  /\ UNCHANGED <<row, lease, keyEpoch, roleVars, wrapperVars, backendVars,
                 proc, core, troubles>>

\* The tick hands the intent to the backend, which refuses it once the
\* execution is finishing.
SendCancel(k) ==
  /\ core = "up"
  /\ intent[k] = "PENDING"
  /\ row[k] \in LiveRow
  /\ Waiting(k)
  /\ cancelled' = [cancelled EXCEPT ![k] = TRUE]
  /\ intent' = [intent EXCEPT ![k] = "SENT"]
  /\ UNCHANGED <<row, lease, keyEpoch, roleVars, wrapperVars, stage,
                 proc, core, troubles>>

-----------------------------------------------------------------------------
(* The backend: start of the process and of the session.                    *)

\* host.start resolves in time: the lifecycle of the harness is created.
HostStarts(k) ==
  /\ core # "down" /\ stage[k] = "hosting"
  /\ proc' = [proc EXCEPT ![k] = "live"]
  /\ stage' = [stage EXCEPT ![k] = "opening"]
  /\ UNCHANGED <<tableVars, roleVars, wrapperVars, cancelled, core, troubles>>

\* host.start resolves after the execution was given up: the process is
\* stopped at once, and the tombstone goes when the stop has answered.
HostStartsLate(k) ==
  /\ core # "down" /\ stage[k] = "abandoned"
  /\ proc' = [proc EXCEPT ![k] = "live"]
  /\ stage' = [stage EXCEPT ![k] = "late"]
  /\ UNCHANGED <<tableVars, roleVars, wrapperVars, cancelled, core, troubles>>

LateStopAnswers(k, proven) ==
  /\ core # "down" /\ stage[k] = "late"
  /\ stage' = [stage EXCEPT ![k] = "idle"]
  /\ proc' = IF proven THEN [proc EXCEPT ![k] = "gone"] ELSE proc
  /\ UNCHANGED <<tableVars, roleVars, wrapperVars, cancelled, core, troubles>>

\* host.start rejects while the execution waits for it.
HostRejects(k) ==
  /\ core # "down" /\ stage[k] = "hosting"
  /\ proc' = [proc EXCEPT ![k] = "none"]
  /\ stage' = [stage EXCEPT ![k] = "idle"]
  /\ Exit(k, FALSE, TRUE)
  /\ Discard(k)
  /\ UNCHANGED <<keyEpoch, intent, epoch, session>>

\* host.start rejects when nobody waits any more; the tombstone stays.
HostRejectsLate(k) ==
  /\ core # "down" /\ stage[k] = "abandoned"
  /\ proc' = [proc EXCEPT ![k] = "none"]
  /\ stage' = [stage EXCEPT ![k] = "idle"]
  /\ UNCHANGED <<tableVars, roleVars, wrapperVars, cancelled, core, troubles>>

\* The conditions of NativeSessionStore.save.
MaySave(k) == Current(k) /\ row[k] \in LiveRow

\* The session is open: its reference is stored and the prompt is sent.  A
\* run resumes the stored session, an attempt opens a new one.
SessionOpens_bug(k) ==
  /\ core # "down" /\ stage[k] = "opening"
  /\ MaySave(k)
  /\ session' =
       IF ModeOf[k] = "run" /\ session[RoleOf[k]] # NoKey THEN session
       ELSE [session EXCEPT ![RoleOf[k]] = k]
  /\ stage' = [stage EXCEPT ![k] = "prompted"]
  /\ UNCHANGED <<tableVars, epoch, delivery, wrapperVars, cancelled,
                 proc, core, troubles>>

SessionOpens(k) ==
  /\ core # "down" /\ stage[k] = "opening"
  /\ ~ cancelled[k] /\ core # "closing"
  /\ MaySave(k)
  /\ session' =
       IF ModeOf[k] = "run" /\ session[RoleOf[k]] # NoKey THEN session
       ELSE [session EXCEPT ![RoleOf[k]] = k]
  /\ stage' = [stage EXCEPT ![k] = "prompted"]
  /\ UNCHANGED <<tableVars, epoch, delivery, wrapperVars, cancelled,
                 proc, core, troubles>>

-----------------------------------------------------------------------------
(* The backend: events of the running process.  A frame reaches the tables  *)
(* in the callback that carries the event.                                  *)

\* The frame passes the wrapper and, for a run, the check of the binding.
Heard(k) == Open(k) /\ ~ broken[k] /\ (ModeOf[k] = "run" => Current(k))

\* The first event of the prompt, or the first tool call: a run is accepted.
Accepted(k) ==
  /\ core # "down" /\ stage[k] = "prompted" /\ Heard(k)
  /\ ModeOf[k] = "run" /\ row[k] = "STARTING"
  /\ row' = [row EXCEPT ![k] = "RUNNING"]
  /\ UNCHANGED <<lease, keyEpoch, intent, roleVars, wrapperVars, backendVars,
                 proc, core, troubles>>

\* The native run settles and the stop of its process begins.  acks: a
\* bootstrap succeeded and its text holds the acknowledgement; missing: it
\* succeeded without.
Settled(k, acks, missing) ==
  /\ core # "down" /\ stage[k] = "prompted"
  /\ ModeOf[k] = "run" => ~ acks /\ ~ missing
  /\ ~ (acks /\ missing)
  /\ terminal' = [terminal EXCEPT ![k] = Heard(k)]
  /\ acked' = [acked EXCEPT ![k] = acks /\ Heard(k)]
  /\ diagnostic' =
       IF ModeOf[k] = "run" \/ acks \/ ~ Heard(k) THEN diagnostic
       ELSE [diagnostic EXCEPT ![k] =
              IF missing /\ @ = "none" THEN "ack_missing" ELSE "other"]
  /\ stage' = [stage EXCEPT ![k] = "stopping"]
  /\ UNCHANGED <<tableVars, roleVars, broken, cancelled, proc, core, troubles>>

\* A frame that cannot be stored breaks the execution; its process goes on.
FrameFails(k) ==
  /\ core # "down" /\ stage[k] = "prompted" /\ Heard(k)
  /\ troubles < MaxTrouble
  /\ troubles' = troubles + 1
  /\ broken' = [broken EXCEPT ![k] = TRUE]
  /\ UNCHANGED <<tableVars, roleVars, terminal, acked, diagnostic,
                 backendVars, proc, core>>

\* While the session opens: no session, a revoked save, a cancel.  After the
\* prompt: the connection is lost, the outcome is none, the process closes, a
\* cancel comes back as unknown.
Breaks(k) ==
  /\ core # "down" /\ stage[k] \in {"opening", "prompted"}
  /\ FinishBroken(k)
  /\ UNCHANGED <<keyEpoch, intent, epoch, session, proc>>

\* The wall clock of the execution runs out, wherever it is.
WallTimeout_bug(k) ==
  /\ Waiting(k) /\ stage[k] # "hosting"
  /\ FinishBroken(k)
  /\ UNCHANGED <<keyEpoch, intent, epoch, session, proc>>

WallTimeout(k) ==
  /\ Waiting(k)
  /\ FinishBroken(k)
  /\ UNCHANGED <<keyEpoch, intent, epoch, session, proc>>

\* The stop of the process tree is proven, or unknown (also on its timeout).
StopAnswers_bug(k, proven) ==
  /\ core # "down" /\ stage[k] = "stopping"
  /\ stage' = [stage EXCEPT ![k] = "idle"]
  /\ proc' = IF proven THEN [proc EXCEPT ![k] = "gone"] ELSE proc
  /\ Exit(k, TRUE, broken[k])
  /\ Discard(k)
  /\ UNCHANGED <<keyEpoch, intent, epoch, session>>

StopAnswers(k, proven) ==
  /\ core # "down" /\ stage[k] = "stopping"
  /\ stage' = [stage EXCEPT ![k] = "idle"]
  /\ proc' = IF proven THEN [proc EXCEPT ![k] = "gone"] ELSE proc
  /\ Exit(k, proven, broken[k])
  /\ Discard(k)
  /\ UNCHANGED <<keyEpoch, intent, epoch, session>>

-----------------------------------------------------------------------------
(* The environment of an execution.                                         *)

\* The role's binding is replaced, with a new charter delivery, in the commit
\* of a context transfer: no run of the role is live, an attempt may be.
Rebind(r) ==
  /\ core = "up"
  /\ epoch[r] < MaxEpoch
  /\ \A k \in Runs(r) : row[k] \notin LiveRow \cup {"UNKNOWN"}
  /\ epoch' = [epoch EXCEPT ![r] = @ + 1]
  /\ delivery' = [delivery EXCEPT ![r] = "PENDING"]
  /\ session' = [session EXCEPT ![r] = NoKey]
  /\ UNCHANGED <<tableVars, wrapperVars, backendVars, proc, core, troubles>>

\* stop: every unfinished execution is cancelled and finished; the ones
\* without a process end at once.
ShutDown ==
  LET unfinished == {k \in Key : Waiting(k)}
      bare == {k \in unfinished : proc[k] = "starting"}
  IN
  /\ core \in {"up", "draining"}
  /\ core' = "closing"
  /\ cancelled' = [k \in Key |-> k \notin bare /\ (cancelled[k] \/ k \in unfinished)]
  /\ broken' = [k \in Key |-> k \notin bare /\ (broken[k] \/ k \in unfinished)]
  /\ stage' = [k \in Key |->
       IF k \in bare THEN "abandoned"
       ELSE IF k \in unfinished THEN "stopping" ELSE stage[k]]
  /\ row' = [k \in Key |-> IF k \in bare THEN "UNKNOWN" ELSE row[k]]
  /\ lease' = [k \in Key |-> IF k \in bare THEN "QUARANTINED" ELSE lease[k]]
  /\ delivery' = [r \in Role |->
       IF \E k \in bare : k \in Tried(r) THEN "FAILED" ELSE delivery[r]]
  /\ UNCHANGED <<keyEpoch, intent, epoch, session, terminal, acked, diagnostic,
                 proc, troubles>>

\* What a Core that ends forgets; the processes it started may survive it.
Forgets ==
  /\ core' = "down"
  /\ broken' = [k \in Key |-> FALSE]
  /\ terminal' = [k \in Key |-> FALSE]
  /\ acked' = [k \in Key |-> FALSE]
  /\ diagnostic' = [k \in Key |-> "none"]
  /\ stage' = [k \in Key |-> "idle"]
  /\ cancelled' = [k \in Key |-> FALSE]
  /\ proc' = [k \in Key |-> IF proc[k] \in Existing THEN "live" ELSE proc[k]]
  /\ UNCHANGED <<tableVars, roleVars>>

\* The stop has ended every wrapper and the Core exits.
GoDown ==
  /\ core = "closing"
  /\ \A k \in Key : ~ Open(k)
  /\ Forgets
  /\ UNCHANGED troubles

Crash ==
  /\ core # "down"
  /\ troubles < MaxTrouble
  /\ troubles' = troubles + 1
  /\ Forgets

\* The constructor: recover for the runs, the three updates for attempts.
Restart_bug ==
  /\ core = "down"
  /\ core' = "up"
  /\ row' = [k \in Key |-> IF row[k] \in LiveRow THEN "UNKNOWN" ELSE row[k]]
  /\ lease' = [k \in Key |->
       IF row[k] = "RUNNING" THEN "QUARANTINED"
       ELSE IF row[k] = "STARTING" THEN "FREE" ELSE lease[k]]
  /\ delivery' = [r \in Role |->
       IF \E k \in Tried(r) : row[k] \in LiveRow THEN "FAILED" ELSE delivery[r]]
  /\ UNCHANGED <<keyEpoch, intent, epoch, session, wrapperVars, backendVars,
                 proc, troubles>>

Restart_bug2 ==
  /\ core = "down"
  /\ core' = "up"
  /\ row' = [k \in Key |-> IF row[k] \in LiveRow THEN "UNKNOWN" ELSE row[k]]
  /\ lease' = [k \in Key |->
       IF row[k] \in LiveRow THEN "QUARANTINED" ELSE lease[k]]
  /\ delivery' = [r \in Role |->
       IF \E k \in Tried(r) : row[k] \in LiveRow THEN "UNKNOWN" ELSE delivery[r]]
  /\ UNCHANGED <<keyEpoch, intent, epoch, session, wrapperVars, backendVars,
                 proc, troubles>>

Restart ==
  /\ core = "down"
  /\ core' = "up"
  /\ row' = [k \in Key |-> IF row[k] \in LiveRow THEN "UNKNOWN" ELSE row[k]]
  /\ lease' = [k \in Key |->
       IF row[k] \in LiveRow THEN "QUARANTINED" ELSE lease[k]]
  /\ delivery' = [r \in Role |->
       IF \E k \in Tried(r) : row[k] \in LiveRow THEN "FAILED" ELSE delivery[r]]
  /\ UNCHANGED <<keyEpoch, intent, epoch, session, wrapperVars, backendVars,
                 proc, troubles>>

-----------------------------------------------------------------------------
KeyStep(k) ==
  \/ Launch(k) \/ LaunchThrows(k)
  \/ RequestCancel(k) \/ SendCancel(k)
  \/ HostStarts(k) \/ HostStartsLate(k) \/ HostRejects(k) \/ HostRejectsLate(k)
  \/ SessionOpens(k)
  \/ Accepted(k) \/ FrameFails(k) \/ Breaks(k) \/ WallTimeout(k)
  \/ \E acks, missing \in BOOLEAN : Settled(k, acks, missing)
  \/ \E proven \in BOOLEAN : LateStopAnswers(k, proven) \/ StopAnswers(k, proven)

Next ==
  \/ \E k \in Key : KeyStep(k)
  \/ \E r \in Role : Rebind(r)
  \/ ShutDown \/ GoDown \/ Crash \/ Restart

\* Timers fire, a stop answers or times out, a Core that closes exits and is
\* started again; the harness and the host owe nothing.
Fairness ==
  /\ \A k \in Key :
       /\ WF_vars(WallTimeout(k))
       /\ WF_vars(\E proven \in BOOLEAN : StopAnswers(k, proven))
       /\ WF_vars(\E proven \in BOOLEAN : LateStopAnswers(k, proven))
  /\ WF_vars(core = "draining" /\ ShutDown)
  /\ WF_vars(GoDown)
  /\ WF_vars(Restart)

Spec == Init /\ [][Next]_vars /\ Fairness
=============================================================================
