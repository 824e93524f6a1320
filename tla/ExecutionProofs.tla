---------------------------- MODULE ExecutionProofs ----------------------------
(***************************************************************************)
(* Theorems about native executions, for every set of roles, executions and *)
(* workspaces, and for any number of crashes and binding epochs.            *)
(***************************************************************************)
EXTENDS ExecutionProperties, FiniteSetTheorems, TLAPS

USE ExecutionAssumption DEF ExecutionAssumption

\* The tuples of variables that handlers leave alone.
USE DEF tableVars, roleVars, wrapperVars, backendVars

\* The rows of executions that are over, with their process gone.
OverRow == {"SETTLED", "DELIVERED", "FAILED"}

\* Rows and leases go together, and an execution that was never started, or
\* that is over, has nothing left in the backend.
RowFits(k) ==
  /\ row[k] = "none" => lease[k] = "FREE" /\ stage[k] = "idle" /\ proc[k] = "none"
  /\ row[k] \in LiveRow => lease[k] = "HELD"
  /\ row[k] = "UNKNOWN" => lease[k] = "QUARANTINED"
  /\ row[k] \in OverRow => lease[k] = "FREE" /\ stage[k] = "idle" /\ proc[k] = "gone"

\* The backend's entry knows the process it has, and an open entry belongs to
\* an execution that is running; a Core that is down has no entries.
EntryFits(k) ==
  /\ stage[k] \in {"hosting", "abandoned"} => proc[k] = "starting"
  /\ stage[k] \in {"opening", "prompted", "stopping", "late"} => proc[k] = "live"
  /\ Open(k) => row[k] \in LiveRow
  /\ core = "down" => stage[k] = "idle"

\* Executions that hold a lease work in different workspaces.
LeasesAreApart ==
  \A j, k \in Key : Leased(j) /\ Leased(k) /\ j # k
                      => WorkspaceOf[RoleOf[j]] # WorkspaceOf[RoleOf[k]]

TenantInv ==
  /\ TypeOK
  /\ \A k \in Key : RowFits(k) /\ EntryFits(k)
  /\ LeasesAreApart

-----------------------------------------------------------------------------
(***************************************************************************)
(* Every callback keeps the types.                                          *)
(***************************************************************************)
USE DEF LiveRow, EndedRow, Existing, Stages, OverRow

\* The exit of a wrapper writes the outcome, or fails to.
LEMMA ExitType ==
  ASSUME TypeOK, NEW k \in Key, NEW proven \in BOOLEAN, NEW bad \in BOOLEAN,
         Exit(k, proven, bad)
  PROVE  /\ row' \in [Key -> {"none"} \cup LiveRow \cup EndedRow]
         /\ lease' \in [Key -> {"FREE", "HELD", "QUARANTINED"}]
         /\ delivery' \in [Role -> {"PENDING", "DELIVERING", "DELIVERED", "FAILED"}]
         /\ core' \in {"up", "draining", "closing", "down"}
         /\ troubles' \in 0 .. MaxTrouble
<1>1. CASE \E settles \in BOOLEAN : RunExit(k, proven, bad, settles)
            /\ UNCHANGED <<core, troubles>>
  BY <1>1 DEF TypeOK, RunExit
<1>2. CASE AttemptExit(k, proven, bad) /\ UNCHANGED <<core, troubles>>
  BY <1>2 DEF TypeOK, AttemptExit
<1>3. CASE /\ troubles < MaxTrouble
           /\ troubles' = troubles + 1
           /\ core' = IF core = "up" THEN "draining" ELSE core
           /\ UNCHANGED <<row, lease, delivery>>
  BY <1>3 DEF TypeOK
<1> QED
  BY <1>1, <1>2, <1>3 DEF Exit

\* The wrapper's variables go with it.
LEMMA DiscardType ==
  ASSUME TypeOK, NEW k \in Key, Discard(k)
  PROVE  /\ broken' \in [Key -> BOOLEAN]
         /\ terminal' \in [Key -> BOOLEAN]
         /\ acked' \in [Key -> BOOLEAN]
         /\ diagnostic' \in [Key -> {"none", "ack_missing", "other"}]
         /\ cancelled' \in [Key -> BOOLEAN]
  BY DEF TypeOK, Discard

\* A broken execution ends, or waits for its stop.
LEMMA FinishBrokenType ==
  ASSUME TypeOK, NEW k \in Key, FinishBroken(k),
         UNCHANGED <<keyEpoch, intent, epoch, session, proc>>
  PROVE  TypeOK'
<1>1. CASE stage' = [stage EXCEPT ![k] = "stopping"]
           /\ broken' = [broken EXCEPT ![k] = TRUE]
           /\ diagnostic' = [diagnostic EXCEPT ![k] = "other"]
           /\ UNCHANGED <<row, lease, delivery, terminal, acked, cancelled,
                          core, troubles>>
  BY <1>1 DEF TypeOK
<1>2. CASE stage' = [stage EXCEPT ![k] = "abandoned"]
           /\ Exit(k, FALSE, TRUE) /\ Discard(k)
  BY <1>2, ExitType, DiscardType DEF TypeOK
<1> QED
  BY <1>1, <1>2 DEF FinishBroken

\* The callbacks that end an execution keep the types.
LEMMA EndType ==
  ASSUME TypeOK, NEW k \in Key, NEW proven \in BOOLEAN,
         HostRejects(k) \/ StopAnswers(k, proven)
  PROVE  TypeOK'
<1>1. CASE HostRejects(k)
  BY <1>1, ExitType, DiscardType DEF HostRejects, TypeOK
<1>2. CASE StopAnswers(k, proven)
  <2>1. broken[k] \in BOOLEAN
    BY DEF TypeOK
  <2>2. Exit(k, proven, broken[k]) /\ Discard(k)
    BY <1>2 DEF StopAnswers
  <2> QED
    BY <1>2, <2>1, <2>2, ExitType, DiscardType DEF StopAnswers, TypeOK
<1> QED
  BY <1>1, <1>2

\* So do the callbacks of the tick, the host and the process.
LEMMA KeyType ==
  ASSUME TypeOK, NEW k \in Key, KeyStep(k)
  PROVE  TypeOK'
<1>1. CASE Launch(k) \/ LaunchThrows(k)
  <2>1. epoch[RoleOf[k]] \in 0 .. MaxEpoch
    BY DEF TypeOK
  <2> QED
    BY <1>1, <2>1 DEF Launch, LaunchThrows, TypeOK
<1>2. CASE RequestCancel(k) \/ SendCancel(k)
  <2>1. /\ intent' \in [Key -> {"none", "PENDING", "SENT"}]
        /\ cancelled' \in [Key -> BOOLEAN]
    BY <1>2 DEF RequestCancel, SendCancel, TypeOK
  <2> QED
    BY <1>2, <2>1 DEF RequestCancel, SendCancel, TypeOK
<1>3. CASE HostStarts(k) \/ HostStartsLate(k) \/ HostRejectsLate(k)
  BY <1>3 DEF HostStarts, HostStartsLate, HostRejectsLate, TypeOK
<1>4. CASE HostRejects(k) \/ \E proven \in BOOLEAN : StopAnswers(k, proven)
  BY <1>4, EndType
<1>5. CASE SessionOpens(k)
  BY <1>5 DEF SessionOpens, TypeOK
<1>6. CASE Accepted(k)
  BY <1>6 DEF Accepted, TypeOK
<1>10. CASE FrameFails(k)
  <2>1. troubles' \in 0 .. MaxTrouble /\ broken' \in [Key -> BOOLEAN]
    BY <1>10 DEF FrameFails, TypeOK
  <2> QED
    BY <1>10, <2>1 DEF FrameFails, TypeOK
<1>7. CASE Breaks(k) \/ WallTimeout(k)
  BY <1>7, FinishBrokenType DEF Breaks, WallTimeout
<1>8. CASE \E acks, missing \in BOOLEAN : Settled(k, acks, missing)
  <2>1. PICK acks, missing \in BOOLEAN : Settled(k, acks, missing)
    BY <1>8
  <2>2. Heard(k) \in BOOLEAN /\ (acks /\ Heard(k)) \in BOOLEAN
    BY DEF Heard, Open
  <2>3. /\ terminal' \in [Key -> BOOLEAN] /\ acked' \in [Key -> BOOLEAN]
        /\ diagnostic' \in [Key -> {"none", "ack_missing", "other"}]
        /\ stage' \in [Key -> Stages]
    BY <2>1, <2>2 DEF Settled, TypeOK
  <2> QED
    BY <2>1, <2>3 DEF Settled, TypeOK
<1>9. CASE \E proven \in BOOLEAN : LateStopAnswers(k, proven)
  BY <1>9 DEF LateStopAnswers, TypeOK
<1> QED
  BY <1>1, <1>2, <1>3, <1>4, <1>5, <1>6, <1>7, <1>8, <1>9, <1>10 DEF KeyStep

\* And the steps of the whole Core and of the roles.
LEMMA NextType == TypeOK /\ [Next]_vars => TypeOK'
<1> SUFFICES ASSUME TypeOK, [Next]_vars
             PROVE  TypeOK'
  OBVIOUS
<1>1. ASSUME NEW r \in Role, Rebind(r)
      PROVE  TypeOK'
  <2>1. epoch' \in [Role -> 1 .. MaxEpoch]
    BY <1>1 DEF Rebind, TypeOK
  <2> QED
    BY <1>1, <2>1 DEF Rebind, TypeOK
<1>2. CASE ShutDown
  BY <1>2 DEF ShutDown, Waiting, TypeOK
<1>3. CASE GoDown
  BY <1>3 DEF GoDown, Forgets, TypeOK
<1>4. CASE Crash
  <2>1. troubles' \in 0 .. MaxTrouble
    BY <1>4 DEF Crash, TypeOK
  <2> QED
    BY <1>4, <2>1 DEF Crash, Forgets, TypeOK
<1>5. CASE Restart
  BY <1>5 DEF Restart, TypeOK
<1>6. CASE UNCHANGED vars
  BY <1>6 DEF vars, TypeOK
<1> QED
  BY <1>1, <1>2, <1>3, <1>4, <1>5, <1>6, KeyType DEF Next

\* The initial state is well typed.
LEMMA InitType == Init => TypeOK
  BY DEF Init, TypeOK

\* The variables of the coordinator, the backend and the database always hold
\* what the code can put there.
THEOREM ExecutionTypes == Spec => []TypeOK
  BY InitType, NextType, PTL DEF Spec

-----------------------------------------------------------------------------
(***************************************************************************)
(* A lease is taken only where none is, and outlives the process.           *)
(***************************************************************************)
HIDE DEF Stages, EndedRow

\* The initial state satisfies the invariant.
LEMMA InitTenant == Init => TenantInv
  BY InitType DEF Init, TenantInv, RowFits, EntryFits, Open, LeasesAreApart, Leased

\* The rows and leases of an execution, by type.
LEMMA TenantTypes ==
  ASSUME TypeOK
  PROVE  /\ DOMAIN row = Key /\ DOMAIN lease = Key /\ DOMAIN stage = Key
         /\ DOMAIN proc = Key
         /\ row \in [Key -> {"none", "STARTING", "RUNNING", "SETTLED", "DELIVERED",
                             "FAILED", "UNKNOWN"}]
         /\ lease \in [Key -> {"FREE", "HELD", "QUARANTINED"}]
         /\ proc \in [Key -> {"none", "starting", "live", "gone"}]
         /\ stage \in [Key -> {"idle", "hosting", "opening", "prompted", "stopping",
                               "abandoned", "late"}]
  BY DEF TypeOK, Stages, EndedRow

\* A step of one execution keeps the invariant if that execution fits and it
\* takes a lease only where no other lease is.
LEMMA OneKeyTenant ==
  ASSUME TenantInv, TypeOK', NEW k \in Key,
         \A j \in Key : j # k => /\ row'[j] = row[j] /\ lease'[j] = lease[j]
                                 /\ stage'[j] = stage[j] /\ proc'[j] = proc[j],
         core' = "down" => core = "down",
         RowFits(k)', EntryFits(k)',
         \/ Leased(k)' => Leased(k)
         \/ \A j \in Key : Leased(j) => WorkspaceOf[RoleOf[j]] # WorkspaceOf[RoleOf[k]]
  PROVE  TenantInv'
<1>1. \A j \in Key : j # k => RowFits(j)' /\ EntryFits(j)'
  BY DEF TenantInv, RowFits, EntryFits, Open
<1>2. \A j \in Key : j # k => (Leased(j)' <=> Leased(j))
  BY DEF Leased
<1>3. LeasesAreApart'
  BY <1>2 DEF TenantInv, LeasesAreApart
<1> QED
  BY <1>1, <1>3 DEF TenantInv

\* What the exit of an execution that runs does to its row and its lease: it
\* is unknown and quarantined, or over and free with the stop proven, or the
\* exit was not stored.
LEMMA ExitEffect ==
  ASSUME TypeOK, NEW k \in Key, NEW proven \in BOOLEAN, NEW bad \in BOOLEAN,
         Exit(k, proven, bad)
  PROVE  /\ \A j \in Key : j # k => row'[j] = row[j] /\ lease'[j] = lease[j]
         /\ \/ row'[k] = "UNKNOWN" /\ lease'[k] = "QUARANTINED"
            \/ proven /\ row'[k] \in OverRow /\ lease'[k] = "FREE"
            \/ row' = row /\ lease' = lease
         /\ core' = "down" => core = "down"
<1>1. CASE \E settles \in BOOLEAN : RunExit(k, proven, bad, settles)
            /\ UNCHANGED <<core, troubles>>
  BY <1>1, TenantTypes DEF RunExit
<1>2. CASE AttemptExit(k, proven, bad) /\ UNCHANGED <<core, troubles>>
  BY <1>2, TenantTypes DEF AttemptExit
<1>3. CASE /\ core' = IF core = "up" THEN "draining" ELSE core
           /\ UNCHANGED <<row, lease, delivery>>
  BY <1>3
<1> QED
  BY <1>1, <1>2, <1>3 DEF Exit

\* An execution is started only in a workspace where none has a lease.
LEMMA LaunchIsApart ==
  ASSUME NEW k \in Key, Launch(k) \/ LaunchThrows(k)
  PROVE  \A j \in Key : Leased(j) => WorkspaceOf[RoleOf[j]] # WorkspaceOf[RoleOf[k]]
<1>1. RoleOf[k] \in Role /\ \A j \in Key : ModeOf[j] \in {"run", "bootstrap"}
  OBVIOUS
<1>2. ~ RunLeaseOn(RoleOf[k])
  BY DEF Launch, LaunchThrows, MayDispatch, MayInitialize
<1>3. \A j \in Key : ModeOf[j] = "bootstrap" /\ Leased(j)
                       => ~ SharesWorkspace(j, RoleOf[k])
  BY DEF Launch, LaunchThrows, MayDispatch, MayInitialize,
         InitLeaseOnWorkspace, InitLeaseOn
<1> QED
  BY <1>1, <1>2, <1>3 DEF RunLeaseOn, SharesWorkspace

\* A start takes its lease where no other execution has one.
LEMMA LaunchTenant ==
  ASSUME TenantInv, TypeOK', NEW k \in Key, Launch(k) \/ LaunchThrows(k)
  PROVE  TenantInv'
<1>1. \A j \in Key : Leased(j) => WorkspaceOf[RoleOf[j]] # WorkspaceOf[RoleOf[k]]
  BY LaunchIsApart
<1>2. row[k] = "none" /\ core = "up" /\ core' = "up"
  BY DEF Launch, LaunchThrows, Fresh
<1>3. lease[k] = "FREE" /\ stage[k] = "idle" /\ proc[k] = "none"
  BY <1>2 DEF TenantInv, RowFits
<1>4. \A j \in Key : j # k => /\ row'[j] = row[j] /\ lease'[j] = lease[j]
                              /\ stage'[j] = stage[j] /\ proc'[j] = proc[j]
  BY TenantTypes DEF TenantInv, Launch, LaunchThrows
<1>5. \/ /\ row'[k] = "STARTING" /\ lease'[k] = "HELD"
         /\ stage'[k] = "hosting" /\ proc'[k] = "starting"
      \/ /\ row'[k] = "UNKNOWN" /\ lease'[k] = "QUARANTINED"
         /\ stage'[k] = "idle" /\ proc'[k] = "none"
  BY <1>3, TenantTypes DEF TenantInv, Launch, LaunchThrows
<1>6. RowFits(k)' /\ EntryFits(k)'
  BY <1>2, <1>5 DEF RowFits, EntryFits, Open
<1> QED
  BY <1>1, <1>2, <1>4, <1>6, OneKeyTenant

\* The callbacks of the host, the process and the user keep the leases.
LEMMA QuietTenant ==
  ASSUME TenantInv, TypeOK', NEW k \in Key,
         \/ RequestCancel(k) \/ SendCancel(k)
         \/ HostStarts(k) \/ HostStartsLate(k) \/ HostRejectsLate(k)
         \/ SessionOpens(k) \/ Accepted(k) \/ FrameFails(k)
         \/ \E acks, missing \in BOOLEAN : Settled(k, acks, missing)
         \/ \E proven \in BOOLEAN : LateStopAnswers(k, proven)
  PROVE  TenantInv'
<1>1. lease' = lease /\ core' = core
  BY DEF RequestCancel, SendCancel, HostStarts, HostStartsLate, HostRejectsLate,
         SessionOpens, Accepted, FrameFails, Settled, LateStopAnswers
<1>2. \/ UNCHANGED <<row, stage, proc>>
      \/ /\ core # "down" /\ row' = row
         /\ \/ /\ stage[k] = "hosting" /\ stage' = [stage EXCEPT ![k] = "opening"]
               /\ proc' = [proc EXCEPT ![k] = "live"]
            \/ /\ stage[k] = "abandoned" /\ stage' = [stage EXCEPT ![k] = "late"]
               /\ proc' = [proc EXCEPT ![k] = "live"]
            \/ /\ stage[k] = "abandoned" /\ stage' = [stage EXCEPT ![k] = "idle"]
               /\ proc' = [proc EXCEPT ![k] = "none"]
            \/ /\ stage[k] = "opening" /\ stage' = [stage EXCEPT ![k] = "prompted"]
               /\ proc' = proc
            \/ /\ stage[k] = "prompted" /\ stage' = [stage EXCEPT ![k] = "stopping"]
               /\ proc' = proc
            \/ /\ stage[k] = "late" /\ stage' = [stage EXCEPT ![k] = "idle"]
               /\ proc' = proc \/ proc' = [proc EXCEPT ![k] = "gone"]
      \/ /\ row[k] = "STARTING" /\ row' = [row EXCEPT ![k] = "RUNNING"]
         /\ UNCHANGED <<stage, proc>>
  BY DEF RequestCancel, SendCancel, HostStarts, HostStartsLate, HostRejectsLate,
         SessionOpens, Accepted, FrameFails, Settled, LateStopAnswers
<1>3. RowFits(k) /\ EntryFits(k)
  BY DEF TenantInv
<1>4. RowFits(k)' /\ EntryFits(k)'
  BY <1>1, <1>2, <1>3, TenantTypes DEF TenantInv, RowFits, EntryFits, Open
<1>5. \A j \in Key : j # k => /\ row'[j] = row[j] /\ lease'[j] = lease[j]
                              /\ stage'[j] = stage[j] /\ proc'[j] = proc[j]
  BY <1>1, <1>2, TenantTypes DEF TenantInv
<1> QED
  BY <1>1, <1>4, <1>5, OneKeyTenant DEF Leased

\* An execution that ends gives its lease back only with its process gone.
LEMMA EndTenant ==
  ASSUME TenantInv, TypeOK', NEW k \in Key, NEW proven \in BOOLEAN,
         HostRejects(k) \/ Breaks(k) \/ WallTimeout(k) \/ StopAnswers(k, proven)
  PROVE  TenantInv'
<1>1. core # "down" /\ row[k] \in LiveRow
  BY DEF TenantInv, EntryFits, Open, HostRejects, Breaks, WallTimeout, Waiting,
         StopAnswers
<1>2. RowFits(k) /\ EntryFits(k)
  BY DEF TenantInv
<1>3. CASE /\ proc[k] = "live" /\ stage' = [stage EXCEPT ![k] = "stopping"]
           /\ UNCHANGED <<row, lease, proc, core>>
  <2>1. RowFits(k)' /\ EntryFits(k)'
    BY <1>1, <1>2, <1>3, TenantTypes DEF TenantInv, RowFits, EntryFits, Open
  <2>2. \A j \in Key : j # k => /\ row'[j] = row[j] /\ lease'[j] = lease[j]
                                /\ stage'[j] = stage[j] /\ proc'[j] = proc[j]
    BY <1>3, TenantTypes DEF TenantInv
  <2> QED
    BY <1>3, <2>1, <2>2, OneKeyTenant DEF Leased
<1>4. CASE \E gone, bad \in BOOLEAN :
             /\ Exit(k, gone, bad)
             /\ \/ /\ ~ gone /\ proc[k] # "live" /\ proc' = proc
                   /\ stage[k] \in {"hosting", "opening", "prompted"}
                   /\ stage' = [stage EXCEPT ![k] = "abandoned"]
                \/ /\ ~ gone /\ proc' = [proc EXCEPT ![k] = "none"]
                   /\ stage' = [stage EXCEPT ![k] = "idle"]
                \/ /\ proc' = IF gone THEN [proc EXCEPT ![k] = "gone"] ELSE proc
                   /\ stage' = [stage EXCEPT ![k] = "idle"]
  <2>1. PICK gone, bad \in BOOLEAN :
             /\ Exit(k, gone, bad)
             /\ \/ /\ ~ gone /\ proc[k] # "live" /\ proc' = proc
                   /\ stage[k] \in {"hosting", "opening", "prompted"}
                   /\ stage' = [stage EXCEPT ![k] = "abandoned"]
                \/ /\ ~ gone /\ proc' = [proc EXCEPT ![k] = "none"]
                   /\ stage' = [stage EXCEPT ![k] = "idle"]
                \/ /\ proc' = IF gone THEN [proc EXCEPT ![k] = "gone"] ELSE proc
                   /\ stage' = [stage EXCEPT ![k] = "idle"]
    BY <1>4
  <2>2. /\ \A j \in Key : j # k => row'[j] = row[j] /\ lease'[j] = lease[j]
        /\ \/ row'[k] = "UNKNOWN" /\ lease'[k] = "QUARANTINED"
           \/ gone /\ row'[k] \in OverRow /\ lease'[k] = "FREE"
           \/ row'[k] = row[k] /\ lease'[k] = lease[k]
        /\ core' # "down"
    BY <1>1, <2>1, ExitEffect DEF TenantInv
  <2>3. \/ /\ ~ gone /\ stage'[k] = "abandoned" /\ proc'[k] = "starting"
        \/ stage'[k] = "idle" /\ (gone => proc'[k] = "gone")
    BY <1>2, <2>1, TenantTypes DEF TenantInv, EntryFits
  <2>4. RowFits(k)' /\ EntryFits(k)'
    BY <1>1, <1>2, <2>2, <2>3 DEF RowFits, EntryFits, Open
  <2>5. \A j \in Key : j # k => /\ row'[j] = row[j] /\ lease'[j] = lease[j]
                                /\ stage'[j] = stage[j] /\ proc'[j] = proc[j]
    BY <2>1, <2>2, TenantTypes DEF TenantInv
  <2>6. Leased(k)
    BY <1>1, <1>2 DEF RowFits, Leased
  <2> QED
    BY <2>2, <2>4, <2>5, <2>6, OneKeyTenant
<1>5. CASE HostRejects(k)
  BY <1>4, <1>5 DEF HostRejects
<1>6. CASE StopAnswers(k, proven)
  <2>1. broken[k] \in BOOLEAN
    BY DEF TenantInv, TypeOK
  <2> QED
    BY <1>4, <1>6, <2>1 DEF StopAnswers
<1>7. CASE Breaks(k) \/ WallTimeout(k)
  <2>1. FinishBroken(k) /\ proc' = proc /\ stage[k] \in {"hosting", "opening", "prompted"}
    BY <1>7 DEF Breaks, WallTimeout, Waiting
  <2> QED
    BY <1>3, <1>4, <2>1 DEF FinishBroken
<1> QED
  BY <1>5, <1>6, <1>7

\* The steps of the whole Core keep the invariant.
LEMMA CoreTenant ==
  ASSUME TenantInv, TypeOK', ShutDown \/ GoDown \/ Crash \/ Restart
  PROVE  TenantInv'
<1>1. \A k \in Key : RowFits(k) /\ EntryFits(k)
  BY DEF TenantInv
<1>2. \A k \in Key : RowFits(k)' /\ EntryFits(k)' /\ (Leased(k)' => Leased(k))
  <2> SUFFICES ASSUME NEW k \in Key
               PROVE  RowFits(k)' /\ EntryFits(k)' /\ (Leased(k)' => Leased(k))
    OBVIOUS
  <2>1. CASE ShutDown
    <3>1. /\ core # "down" /\ core' = "closing" /\ proc' = proc
          /\ \/ /\ Waiting(k) /\ proc[k] = "starting" /\ row'[k] = "UNKNOWN"
                /\ lease'[k] = "QUARANTINED" /\ stage'[k] = "abandoned"
             \/ /\ Waiting(k) /\ proc[k] # "starting" /\ stage'[k] = "stopping"
                /\ row'[k] = row[k] /\ lease'[k] = lease[k]
             \/ /\ row'[k] = row[k] /\ lease'[k] = lease[k] /\ stage'[k] = stage[k]
      BY <2>1 DEF ShutDown
    <3> QED
      BY <1>1, <3>1, TenantTypes DEF RowFits, EntryFits, Open, Waiting, Leased
  <2>2. CASE GoDown \/ Crash
    <3>1. /\ core' = "down" /\ stage'[k] = "idle"
          /\ row'[k] = row[k] /\ lease'[k] = lease[k]
          /\ proc'[k] = IF proc[k] \in Existing THEN "live" ELSE proc[k]
      BY <2>2 DEF GoDown, Crash, Forgets
    <3> QED
      BY <1>1, <3>1 DEF RowFits, EntryFits, Open, Leased
  <2>3. CASE Restart
    <3>1. /\ core = "down" /\ core' = "up" /\ stage'[k] = stage[k]
          /\ proc'[k] = proc[k]
          /\ row'[k] = IF row[k] \in LiveRow THEN "UNKNOWN" ELSE row[k]
          /\ lease'[k] = IF row[k] \in LiveRow THEN "QUARANTINED" ELSE lease[k]
      BY <2>3 DEF Restart
    <3> QED
      BY <1>1, <3>1 DEF RowFits, EntryFits, Open, Leased
  <2> QED
    BY <2>1, <2>2, <2>3
<1>3. LeasesAreApart'
  BY <1>2 DEF TenantInv, LeasesAreApart
<1> QED
  BY <1>2, <1>3 DEF TenantInv

\* Every step keeps the invariant.
LEMMA NextTenant == TenantInv /\ [Next]_vars => TenantInv'
<1> SUFFICES ASSUME TenantInv, [Next]_vars
             PROVE  TenantInv'
  OBVIOUS
<1>1. TypeOK'
  BY NextType DEF TenantInv
<1>2. ASSUME NEW k \in Key, KeyStep(k)
      PROVE  TenantInv'
  <2>1. CASE Launch(k) \/ LaunchThrows(k)
    BY <1>1, <2>1, LaunchTenant
  <2>2. CASE HostRejects(k) \/ Breaks(k) \/ WallTimeout(k)
             \/ \E proven \in BOOLEAN : StopAnswers(k, proven)
    BY <1>1, <2>2, EndTenant
  <2> QED
    BY <1>1, <1>2, <2>1, <2>2, QuietTenant DEF KeyStep
<1>3. CASE (\E r \in Role : Rebind(r)) \/ UNCHANGED vars
  <2>1. UNCHANGED <<row, lease, stage, proc, core>>
    BY <1>3 DEF Rebind, vars
  <2> QED
    BY <1>1, <2>1 DEF TenantInv, RowFits, EntryFits, Open, LeasesAreApart, Leased
<1> QED
  BY <1>1, <1>2, <1>3, CoreTenant DEF Next

\* The invariant of the leases.
LEMMA TenantInvariance == Spec => []TenantInv
  BY InitTenant, NextTenant, PTL DEF Spec

\* A lease is given back only when nothing of the process is left, whatever
\* the host, the stop and the crashes do.
THEOREM LeasesOutliveProcesses == Spec => []LeaseOutlivesProcess
<1>1. TenantInv => LeaseOutlivesProcess
  BY TenantTypes DEF TenantInv, RowFits, LeaseOutlivesProcess, Leased
<1> QED
  BY <1>1, TenantInvariance, PTL

\* Two processes never exist in one workspace.
THEOREM WorkspacesHaveOneProcess == Spec => []OneProcessPerWorkspace
<1>1. TenantInv => OneProcessPerWorkspace
  BY TenantTypes DEF TenantInv, RowFits, LeasesAreApart, OneProcessPerWorkspace, Leased
<1> QED
  BY <1>1, TenantInvariance, PTL

-----------------------------------------------------------------------------
(***************************************************************************)
(* Charters: a delivery is repeated only when the first attempt is proven   *)
(* over, and a delivered charter is the one of the stored session.          *)
(***************************************************************************)
HIDE DEF TenantInv, RowFits, EntryFits, LeasesAreApart

\* What the deliveries, sessions and cancels say of an execution: it belongs to
\* an epoch its role has had; an attempt that runs for the latest charter has
\* the delivery; one that was prompted has stored its session and nobody has
\* replaced it; the backend remembers the cancel it accepted.
KeyFits(k) ==
  /\ row[k] # "none" => keyEpoch[k] <= epoch[RoleOf[k]]
  /\ row[k] = "none" => intent[k] = "none" /\ session[RoleOf[k]] # k
  /\ ModeOf[k] = "bootstrap" /\ row[k] \in LiveRow /\ Current(k)
       => delivery[RoleOf[k]] = "DELIVERING"
  /\ terminal[k] => stage[k] = "stopping"
  /\ ModeOf[k] = "bootstrap" /\ Current(k) /\ (stage[k] = "prompted" \/ terminal[k])
       => session[RoleOf[k]] = k
  /\ stage[k] \in {"hosting", "opening"}
       => session[RoleOf[k]] # k /\ (intent[k] = "SENT" => cancelled[k])

\* What the attempts of a role say of its delivery.
RoleFits(r) ==
  /\ IsFiniteSet(Tried(r))
  /\ delivery[r] = "DELIVERED" =>
       \E k \in Tried(r) : row[k] = "DELIVERED" /\ session[r] = k /\ proc[k] = "gone"
  /\ delivery[r] = "PENDING" =>
       /\ Cardinality(Tried(r)) <= 1
       /\ \A k \in Tried(r) : row[k] = "FAILED" /\ proc[k] = "gone"

CharterInv == (\A k \in Key : KeyFits(k)) /\ (\A r \in Role : RoleFits(r))

\* The initial state satisfies the invariant.
LEMMA InitCharter == Init => CharterInv
<1> SUFFICES ASSUME Init
             PROVE  CharterInv
  OBVIOUS
<1>1. \A k \in Key : KeyFits(k)
  BY DEF Init, KeyFits
<1>2. \A r \in Role : Tried(r) = {}
  BY DEF Init, Tried, Attempts
<1>3. \A r \in Role : RoleFits(r)
  BY <1>2, FS_EmptySet DEF Init, RoleFits
<1> QED
  BY <1>1, <1>3 DEF CharterInv

\* The types this part uses.
LEMMA CharterTypes ==
  ASSUME TenantInv
  PROVE  /\ DOMAIN row = Key /\ DOMAIN stage = Key /\ DOMAIN proc = Key
         /\ DOMAIN intent = Key /\ DOMAIN cancelled = Key /\ DOMAIN keyEpoch = Key
         /\ DOMAIN terminal = Key /\ terminal \in [Key -> BOOLEAN]
         /\ DOMAIN delivery = Role /\ DOMAIN session = Role /\ DOMAIN epoch = Role
         /\ keyEpoch \in [Key -> 0 .. MaxEpoch] /\ epoch \in [Role -> 1 .. MaxEpoch]
         /\ row \in [Key -> {"none", "STARTING", "RUNNING", "SETTLED", "DELIVERED",
                             "FAILED", "UNKNOWN"}]
         /\ stage \in [Key -> {"idle", "hosting", "opening", "prompted", "stopping",
                               "abandoned", "late"}]
  BY TenantTypes DEF TenantInv, TypeOK

\* Two executions of one role are never both running.
LEMMA OneRunningPerRole ==
  ASSUME TenantInv, NEW j \in Key, NEW k \in Key, RoleOf[j] = RoleOf[k],
         row[j] \in LiveRow, row[k] \in LiveRow
  PROVE  j = k
  BY DEF TenantInv, RowFits, LeasesAreApart, Leased

\* A role whose delivery, session and finished attempts stay as they are fits.
LEMMA RoleFrame ==
  ASSUME TenantInv, CharterInv, NEW r \in Role, Tried(r)' = Tried(r),
         delivery'[r] = delivery[r],
         session'[r] = session[r] \/ delivery[r] # "DELIVERED",
         \A k \in Tried(r) : row[k] \in OverRow
                               => row'[k] = row[k] /\ proc'[k] = proc[k]
  PROVE  RoleFits(r)'
<1>1. RoleFits(r)
  BY DEF CharterInv
<1>2. IsFiniteSet(Tried(r))'
  BY <1>1 DEF RoleFits
<1>3. (Cardinality(Tried(r)) <= 1)' <=> (Cardinality(Tried(r)) <= 1)
  OBVIOUS
<1> QED
  BY <1>1, <1>2, <1>3 DEF RoleFits

\* The attempts of a role stay the same while no row is added and the epochs
\* stay.
LEMMA TriedFrame ==
  ASSUME NEW r \in Role, UNCHANGED <<keyEpoch, epoch>>,
         \A k \in Key : (row'[k] = "none") <=> (row[k] = "none")
  PROVE  Tried(r)' = Tried(r)
  BY DEF Tried, Attempts

\* The callbacks that leave the deliveries and the ends of executions alone.
LEMMA QuietCharter ==
  ASSUME TenantInv, CharterInv, NEW k \in Key,
         \/ RequestCancel(k) \/ SendCancel(k)
         \/ HostStarts(k) \/ HostStartsLate(k) \/ HostRejectsLate(k)
         \/ SessionOpens(k) \/ Accepted(k) \/ FrameFails(k)
         \/ \E acks, missing \in BOOLEAN : Settled(k, acks, missing)
         \/ \E proven \in BOOLEAN : LateStopAnswers(k, proven)
         \/ /\ stage' = [stage EXCEPT ![k] = "stopping"]
            /\ UNCHANGED <<row, delivery, terminal, cancelled, keyEpoch, intent,
                           epoch, session, proc>>
  PROVE  CharterInv'
<1>1. /\ UNCHANGED <<delivery, keyEpoch, epoch>>
      /\ row' = row \/ (row[k] = "STARTING" /\ row' = [row EXCEPT ![k] = "RUNNING"])
  BY DEF RequestCancel, SendCancel, HostStarts, HostStartsLate, HostRejectsLate,
         SessionOpens, Accepted, FrameFails, Settled, LateStopAnswers
<1>2. \A j \in Key : /\ (row'[j] = "none") <=> (row[j] = "none")
                     /\ (row'[j] \in LiveRow) <=> (row[j] \in LiveRow)
                     /\ row[j] \in OverRow => row'[j] = row[j]
  BY <1>1, CharterTypes
<1>3. \/ session' = session
      \/ /\ session' = [session EXCEPT ![RoleOf[k]] = k]
         /\ row[k] \in LiveRow /\ Current(k)
         /\ stage[k] = "opening" /\ stage' = [stage EXCEPT ![k] = "prompted"]
         /\ ModeOf[k] = "run" => session[RoleOf[k]] = NoKey
         /\ UNCHANGED <<intent, cancelled, terminal>>
  BY DEF RequestCancel, SendCancel, HostStarts, HostStartsLate, HostRejectsLate,
         SessionOpens, Accepted, FrameFails, Settled, LateStopAnswers, MaySave
<1>4. \A j \in Key : j # k => /\ stage'[j] = stage[j] /\ intent'[j] = intent[j]
                              /\ cancelled'[j] = cancelled[j]
                              /\ terminal'[j] = terminal[j]
                              /\ proc'[j] = proc[j]
  BY CharterTypes DEF RequestCancel, SendCancel, HostStarts, HostStartsLate,
     HostRejectsLate, SessionOpens, Accepted, FrameFails, Settled, LateStopAnswers
<1>5. \A j \in Key : KeyFits(j) /\ (Current(j)' <=> Current(j))
  BY <1>1 DEF CharterInv, Current
<1>6. \A j \in Key : j # k => KeyFits(j)'
  <2> SUFFICES ASSUME NEW j \in Key, j # k
               PROVE  KeyFits(j)'
    OBVIOUS
  <2>1. CASE session'[RoleOf[j]] = session[RoleOf[j]]
    <3>1. /\ delivery' = delivery /\ keyEpoch' = keyEpoch /\ epoch' = epoch
          /\ (row'[j] = "none") <=> (row[j] = "none")
          /\ (row'[j] \in LiveRow) <=> (row[j] \in LiveRow)
          /\ stage'[j] = stage[j] /\ intent'[j] = intent[j]
          /\ cancelled'[j] = cancelled[j] /\ terminal'[j] = terminal[j]
      BY <1>1, <1>2, <1>4
    <3>2. KeyFits(j) /\ (Current(j)' <=> Current(j))
      BY <1>5
    <3> QED
      BY <2>1, <3>1, <3>2 DEF KeyFits
  <2>2. CASE session'[RoleOf[j]] # session[RoleOf[j]]
    <3>1. /\ RoleOf[j] = RoleOf[k] /\ session'[RoleOf[j]] = k
          /\ row[k] \in LiveRow
      BY <1>3, <2>2, CharterTypes
    <3>2. row[j] \notin LiveRow
      BY <3>1, OneRunningPerRole
    <3>3. stage[j] # "prompted" /\ stage[j] # "stopping"
      BY <3>2 DEF TenantInv, EntryFits, Open
    <3>4. ~ terminal[j]
      BY <1>5, <3>3 DEF KeyFits
    <3> QED
      BY <1>1, <1>2, <1>4, <1>5, <3>1, <3>3, <3>4, CharterTypes DEF KeyFits
  <2> QED
    BY <2>1, <2>2
<1>7. KeyFits(k)'
  <2>1. KeyFits(k) /\ EntryFits(k) /\ RowFits(k)
    BY <1>5 DEF TenantInv
  <2>2. CASE RequestCancel(k)
    BY <1>1, <1>2, <1>5, <2>1, <2>2, CharterTypes DEF RequestCancel, KeyFits
  <2>3. CASE SendCancel(k)
    <3>1. /\ UNCHANGED <<row, delivery, keyEpoch, epoch, session, stage, terminal>>
          /\ cancelled'[k] /\ intent[k] = "PENDING" /\ row[k] # "none"
      BY <2>3, CharterTypes DEF SendCancel
    <3>2. Current(k)' <=> Current(k)
      BY <1>5
    <3> QED
      BY <2>1, <3>1, <3>2 DEF KeyFits
  <2>4. CASE HostStarts(k) \/ HostStartsLate(k) \/ HostRejectsLate(k)
             \/ (\E proven \in BOOLEAN : LateStopAnswers(k, proven))
    BY <1>1, <1>2, <1>5, <2>1, <2>4, CharterTypes
       DEF HostStarts, HostStartsLate, HostRejectsLate, LateStopAnswers, KeyFits
  <2>5. CASE SessionOpens(k)
    <3>1. stage'[k] = "prompted" /\ row[k] \in LiveRow
      BY <2>5, CharterTypes DEF SessionOpens, MaySave
    <3>2. ModeOf[k] = "bootstrap" => session'[RoleOf[k]] = k
      BY <2>5, CharterTypes DEF SessionOpens
    <3>3. ~ terminal[k] /\ terminal' = terminal
      BY <2>1, <2>5, CharterTypes DEF SessionOpens, KeyFits
    <3> QED
      BY <1>1, <1>2, <1>5, <2>1, <3>1, <3>2, <3>3 DEF KeyFits
  <2>6. CASE Accepted(k) \/ FrameFails(k)
    BY <1>1, <1>2, <1>5, <2>1, <2>6 DEF Accepted, FrameFails, KeyFits
  <2>7. CASE \E acks, missing \in BOOLEAN : Settled(k, acks, missing)
    <3>1. stage[k] = "prompted" /\ stage'[k] = "stopping" /\ row' = row
          /\ session' = session /\ intent' = intent
      BY <2>7, CharterTypes DEF Settled
    <3> QED
      BY <1>1, <1>2, <1>5, <2>1, <3>1 DEF KeyFits
  <2>8. CASE /\ stage' = [stage EXCEPT ![k] = "stopping"]
             /\ UNCHANGED <<row, delivery, terminal, cancelled, keyEpoch, intent,
                            epoch, session, proc>>
    BY <1>1, <1>2, <1>5, <2>1, <2>8, CharterTypes DEF KeyFits
  <2> QED
    BY <2>2, <2>3, <2>4, <2>5, <2>6, <2>7, <2>8
<1>8. ASSUME NEW r \in Role
      PROVE  RoleFits(r)'
  <2>1. Tried(r)' = Tried(r)
    BY <1>1, <1>2, TriedFrame
  <2>2. session'[r] = session[r] \/ delivery[r] # "DELIVERED"
    <3> SUFFICES ASSUME session'[r] # session[r], delivery[r] = "DELIVERED"
                 PROVE  FALSE
      OBVIOUS
    <3>1. /\ r = RoleOf[k] /\ row[k] \in LiveRow /\ Current(k)
          /\ ModeOf[k] = "run" => session[r] = NoKey
      BY <1>3, CharterTypes
    <3>2. session[r] \in Key
      <4>1. RoleFits(r)
        BY DEF CharterInv
      <4>2. PICK j \in Tried(r) : session[r] = j
        BY <4>1 DEF RoleFits
      <4> QED
        BY <4>2 DEF Tried, Attempts
    <3>3. ModeOf[k] = "bootstrap"
      BY <3>1, <3>2
    <3> QED
      BY <1>5, <3>1, <3>3 DEF KeyFits
  <2>3. \A j \in Key : row[j] \in OverRow => proc'[j] = proc[j]
    <3> SUFFICES ASSUME row[k] \in OverRow
                 PROVE  proc'[k] = proc[k]
      BY <1>4
    <3>1. stage[k] = "idle"
      BY DEF TenantInv, RowFits
    <3> QED
      BY <3>1 DEF RequestCancel, SendCancel, HostStarts, HostStartsLate,
         HostRejectsLate, SessionOpens, Accepted, FrameFails, Settled, LateStopAnswers
  <2> QED
    BY <1>1, <1>2, <2>1, <2>2, <2>3, RoleFrame DEF Tried, Attempts
<1> QED
  BY <1>6, <1>7, <1>8 DEF CharterInv

\* What an exit does to the delivery: only the exit of an attempt for the
\* latest charter touches it.
LEMMA ExitDelivery ==
  ASSUME TypeOK, NEW k \in Key, NEW proven \in BOOLEAN, NEW bad \in BOOLEAN,
         Exit(k, proven, bad)
  PROVE  \/ delivery' = delivery
         \/ /\ ModeOf[k] = "bootstrap" /\ Current(k)
            /\ \/ /\ proven /\ terminal[k] /\ row'[k] = "DELIVERED"
                  /\ delivery' = [delivery EXCEPT ![RoleOf[k]] = "DELIVERED"]
               \/ /\ proven /\ row'[k] = "FAILED"
                  /\ Cardinality(Tried(RoleOf[k])) = 1
                  /\ delivery' = [delivery EXCEPT ![RoleOf[k]] = "PENDING"]
               \/ delivery' = [delivery EXCEPT ![RoleOf[k]] = "FAILED"]
<1>1. CASE \E settles \in BOOLEAN : RunExit(k, proven, bad, settles)
  BY <1>1 DEF RunExit
<1>2. CASE ModeOf[k] = "bootstrap" /\ AttemptExit(k, proven, bad)
  <2>1. CASE ~ Current(k)
    BY <1>2, <2>1 DEF AttemptExit
  <2>2. CASE Current(k) /\ proven /\ ~ bad /\ terminal[k] /\ acked[k]
    BY <1>2, <2>2, TenantTypes DEF AttemptExit
  <2>3. CASE Current(k) /\ ~ (proven /\ ~ bad /\ terminal[k] /\ acked[k])
    <3>1. CASE RetryAck(k, proven, bad)
      BY <1>2, <2>3, <3>1, TenantTypes DEF AttemptExit, RetryAck
    <3>2. CASE ~ RetryAck(k, proven, bad)
      BY <1>2, <2>3, <3>2 DEF AttemptExit
    <3> QED
      BY <3>1, <3>2
  <2> QED
    BY <2>1, <2>2, <2>3
<1>3. CASE UNCHANGED <<row, lease, delivery>>
  BY <1>3
<1> QED
  BY <1>1, <1>2, <1>3 DEF Exit

\* The end of an execution keeps the invariant.
LEMMA ExitCharter ==
  ASSUME TenantInv, CharterInv, NEW k \in Key, NEW proven \in BOOLEAN,
         NEW bad \in BOOLEAN, Exit(k, proven, bad), Discard(k),
         row[k] \in LiveRow,
         NEW s \in {"idle", "abandoned"}, stage' = [stage EXCEPT ![k] = s],
         \A j \in Key : j # k => proc'[j] = proc[j],
         proven => proc'[k] = "gone",
         UNCHANGED <<keyEpoch, intent, epoch, session>>
  PROVE  CharterInv'
<1> DEFINE r == RoleOf[k]
<1>1. /\ \A j \in Key : j # k => row'[j] = row[j]
      /\ row'[k] # "none"
      /\ row'[k] \in LiveRow => row' = row
  BY ExitEffect DEF TenantInv
<1>2. \/ delivery' = delivery
      \/ /\ ModeOf[k] = "bootstrap" /\ Current(k)
         /\ \/ /\ proven /\ terminal[k] /\ row'[k] = "DELIVERED"
               /\ delivery' = [delivery EXCEPT ![RoleOf[k]] = "DELIVERED"]
            \/ /\ proven /\ row'[k] = "FAILED"
               /\ Cardinality(Tried(RoleOf[k])) = 1
               /\ delivery' = [delivery EXCEPT ![RoleOf[k]] = "PENDING"]
            \/ delivery' = [delivery EXCEPT ![RoleOf[k]] = "FAILED"]
  BY ExitDelivery DEF TenantInv
<1>3. \A j \in Key : KeyFits(j) /\ (Current(j)' <=> Current(j))
  BY DEF CharterInv, Current
<1>4. \A j \in Key : (row'[j] = "none") <=> (row[j] = "none")
  BY <1>1
<1>5. stage'[k] = s /\ ~ terminal'[k]
  BY CharterTypes DEF Discard
<1>6. KeyFits(k)'
  <2>1. KeyFits(k) /\ (Current(k)' <=> Current(k))
    BY <1>3
  <2>2. CASE delivery' = delivery
    BY <1>1, <1>5, <2>1, <2>2 DEF KeyFits
  <2>3. CASE row'[k] \notin LiveRow
    BY <1>1, <1>5, <2>1, <2>3 DEF KeyFits
  <2>4. CASE row' = row
    <3>1. delivery' = delivery \/ ModeOf[k] = "bootstrap"
      BY <1>2
    <3>2. row'[k] \notin {"DELIVERED", "FAILED", "UNKNOWN"}
      BY <2>4
    <3>3. delivery' = delivery
      BY <3>2 DEF Exit, RunExit, AttemptExit, TenantInv, TypeOK
    <3> QED
      BY <2>2, <3>3
  <2> QED
    BY <1>1, <2>2, <2>3, <2>4
<1>7. \A j \in Key : j # k => KeyFits(j)'
  <2> SUFFICES ASSUME NEW j \in Key, j # k
               PROVE  KeyFits(j)'
    OBVIOUS
  <2>1. /\ row'[j] = row[j] /\ stage'[j] = stage[j] /\ terminal'[j] = terminal[j]
        /\ cancelled'[j] = cancelled[j]
    BY <1>1, CharterTypes DEF Discard
  <2>2. KeyFits(j) /\ (Current(j)' <=> Current(j))
    BY <1>3
  <2>3. row[j] \in LiveRow => delivery'[RoleOf[j]] = delivery[RoleOf[j]]
    BY <1>2, OneRunningPerRole, CharterTypes
  <2> QED
    BY <2>1, <2>2, <2>3 DEF KeyFits
<1>8. ASSUME NEW q \in Role
      PROVE  RoleFits(q)'
  <2>1. Tried(q)' = Tried(q)
    BY <1>4, TriedFrame
  <2>2. RoleFits(q)
    BY DEF CharterInv
  <2>3. CASE delivery'[q] = delivery[q]
    BY <1>1, <2>1, <2>3, RoleFrame DEF Tried, Attempts
  <2>4. CASE delivery'[q] # delivery[q]
    <3>1. q = RoleOf[k] /\ ModeOf[k] = "bootstrap" /\ Current(k)
      BY <1>2, <2>4, CharterTypes
    <3>2. k \in Tried(q)
      BY <3>1 DEF Tried, Attempts, Current
    <3>3. CASE proven /\ terminal[k] /\ row'[k] = "DELIVERED"
               /\ delivery'[q] = "DELIVERED"
      <4>1. session[q] = k
        BY <1>3, <3>1, <3>3 DEF KeyFits
      <4> QED
        BY <2>1, <2>2, <3>2, <3>3, <4>1 DEF RoleFits
    <3>4. CASE /\ proven /\ row'[k] = "FAILED" /\ Cardinality(Tried(q)) = 1
               /\ delivery'[q] = "PENDING"
      <4>1. PICK x : Tried(q) = {x}
        BY <2>2, <3>4, FS_Singleton DEF RoleFits
      <4>2. Tried(q) = {k}
        BY <3>2, <4>1
      <4>3. (Cardinality(Tried(q)) <= 1)'
        BY <2>1, <3>4
      <4> QED
        BY <2>1, <2>2, <3>4, <4>2, <4>3 DEF RoleFits
    <3>5. CASE delivery'[q] = "FAILED"
      BY <2>1, <2>2, <3>5 DEF RoleFits
    <3> QED
      BY <1>2, <2>4, <3>1, <3>3, <3>4, <3>5, CharterTypes
  <2> QED
    BY <2>3, <2>4
<1> QED
  BY <1>6, <1>7, <1>8 DEF CharterInv

\* The callbacks that end an execution.
LEMMA EndCharter ==
  ASSUME TenantInv, CharterInv, NEW k \in Key, NEW proven \in BOOLEAN,
         HostRejects(k) \/ Breaks(k) \/ WallTimeout(k) \/ StopAnswers(k, proven)
  PROVE  CharterInv'
<1>1. row[k] \in LiveRow
  BY DEF TenantInv, EntryFits, Open, HostRejects, Breaks, WallTimeout, Waiting,
         StopAnswers
<1>2. CASE HostRejects(k)
  <2>1. /\ Exit(k, FALSE, TRUE) /\ Discard(k)
        /\ stage' = [stage EXCEPT ![k] = "idle"]
        /\ UNCHANGED <<keyEpoch, intent, epoch, session>>
        /\ \A j \in Key : j # k => proc'[j] = proc[j]
    BY <1>2, CharterTypes DEF HostRejects
  <2> QED
    BY <1>1, <2>1, ExitCharter
<1>3. CASE StopAnswers(k, proven)
  <2>1. /\ Exit(k, proven, broken[k]) /\ Discard(k) /\ broken[k] \in BOOLEAN
        /\ stage' = [stage EXCEPT ![k] = "idle"]
        /\ UNCHANGED <<keyEpoch, intent, epoch, session>>
        /\ proven => proc'[k] = "gone"
        /\ \A j \in Key : j # k => proc'[j] = proc[j]
    BY <1>3, CharterTypes DEF StopAnswers, TenantInv, TypeOK
  <2> QED
    BY <1>1, <2>1, ExitCharter
<1>4. CASE Breaks(k) \/ WallTimeout(k)
  <2>1. FinishBroken(k) /\ UNCHANGED <<keyEpoch, intent, epoch, session, proc>>
    BY <1>4 DEF Breaks, WallTimeout
  <2>2. CASE /\ stage' = [stage EXCEPT ![k] = "stopping"]
             /\ UNCHANGED <<row, delivery, terminal, cancelled>>
    BY <2>1, <2>2, QuietCharter
  <2>3. CASE /\ stage' = [stage EXCEPT ![k] = "abandoned"]
             /\ Exit(k, FALSE, TRUE) /\ Discard(k)
    BY <1>1, <2>1, <2>3, ExitCharter
  <2> QED
    BY <2>1, <2>2, <2>3 DEF FinishBroken
<1> QED
  BY <1>2, <1>3, <1>4

\* A start is the first thing that is known of an execution, and nothing else
\* of its role is running.
LEMMA LaunchCharter ==
  ASSUME TenantInv, CharterInv, NEW k \in Key, Launch(k) \/ LaunchThrows(k)
  PROVE  CharterInv'
<1>1. /\ row[k] = "none" /\ row'[k] \in {"STARTING", "UNKNOWN"}
      /\ \A j \in Key : j # k => row'[j] = row[j] /\ keyEpoch'[j] = keyEpoch[j]
                                 /\ stage'[j] = stage[j] /\ proc'[j] = proc[j]
      /\ keyEpoch'[k] = epoch[RoleOf[k]]
      /\ UNCHANGED <<intent, epoch, session, terminal, cancelled>>
  BY CharterTypes DEF Launch, LaunchThrows, Fresh
<1>2. \/ ModeOf[k] = "run" /\ delivery' = delivery
      \/ /\ ModeOf[k] = "bootstrap"
         /\ \/ /\ row'[k] = "STARTING"
               /\ delivery' = [delivery EXCEPT ![RoleOf[k]] = "DELIVERING"]
            \/ /\ row'[k] = "UNKNOWN"
               /\ delivery' = [delivery EXCEPT ![RoleOf[k]] = "FAILED"]
  BY CharterTypes DEF Launch, LaunchThrows
<1>3. \A j \in Key : KeyFits(j) /\ RowFits(j)
  BY DEF CharterInv, TenantInv
<1>4. \A j \in Key : j # k => (Current(j)' <=> Current(j))
  BY <1>1 DEF Current
<1>5. KeyFits(k)'
  <2>1. /\ keyEpoch'[k] = epoch[RoleOf[k]] /\ epoch[RoleOf[k]] \in 1 .. MaxEpoch
        /\ intent[k] = "none" /\ session[RoleOf[k]] # k
    BY <1>1, <1>3, CharterTypes DEF KeyFits
  <2>2. ~ terminal[k]
    BY <1>1, <1>3 DEF KeyFits, RowFits
  <2>3. stage'[k] \in {"idle", "hosting"}
    BY <1>1, <1>3, CharterTypes DEF RowFits, Launch, LaunchThrows
  <2>4. row'[k] \in LiveRow /\ ModeOf[k] = "bootstrap"
          => delivery'[RoleOf[k]] = "DELIVERING"
    BY <1>1, <1>2, CharterTypes, ZenonT(30)
  <2>5. (keyEpoch[k] <= epoch[RoleOf[k]])'
    BY <1>1, <2>1
  <2> QED
    BY <1>1, <2>1, <2>2, <2>3, <2>4, <2>5 DEF KeyFits
<1>6. \A j \in Key : j # k => KeyFits(j)'
  <2> SUFFICES ASSUME NEW j \in Key, j # k
               PROVE  KeyFits(j)'
    OBVIOUS
  <2>1. ModeOf[j] = "bootstrap" /\ row[j] \in LiveRow
          => delivery'[RoleOf[j]] = delivery[RoleOf[j]]
    <3> SUFFICES ASSUME ModeOf[j] = "bootstrap", row[j] \in LiveRow,
                        RoleOf[j] = RoleOf[k], ModeOf[k] = "bootstrap"
                 PROVE  FALSE
      BY <1>2, CharterTypes
    <3>1. ~ InitLeaseOn(RoleOf[k])
      BY DEF Launch, LaunchThrows, MayInitialize
    <3>2. Leased(j) /\ SharesWorkspace(j, RoleOf[k])
      BY <1>3 DEF RowFits, Leased, SharesWorkspace
    <3> QED
      BY <3>1, <3>2 DEF InitLeaseOn
  <2>2. KeyFits(j) /\ (Current(j)' <=> Current(j))
    BY <1>3, <1>4
  <2> QED
    BY <1>1, <2>1, <2>2 DEF KeyFits
<1>7. ASSUME NEW r \in Role
      PROVE  RoleFits(r)'
  <2>1. RoleFits(r)
    BY DEF CharterInv
  <2>2. CASE r = RoleOf[k] /\ ModeOf[k] = "bootstrap"
    <3>1. Tried(r)' = Tried(r) \cup {k}
      BY <1>1, <2>2 DEF Tried, Attempts
    <3>2. IsFiniteSet(Tried(r))'
      BY <2>1, <3>1, FS_AddElement DEF RoleFits
    <3>3. delivery'[r] \in {"DELIVERING", "FAILED"}
      BY <1>2, <2>2, CharterTypes
    <3> QED
      BY <3>2, <3>3 DEF RoleFits
  <2>3. CASE ~ (r = RoleOf[k] /\ ModeOf[k] = "bootstrap")
    <3>1. Tried(r)' = Tried(r)
      BY <1>1, <2>3 DEF Tried, Attempts
    <3>2. delivery'[r] = delivery[r]
      BY <1>2, <2>3, CharterTypes
    <3> QED
      BY <1>1, <3>1, <3>2, RoleFrame DEF Tried, Attempts
  <2> QED
    BY <2>2, <2>3
<1> QED
  BY <1>5, <1>6, <1>7 DEF CharterInv

\* A replaced binding starts with no attempts.
LEMMA RebindCharter ==
  ASSUME TenantInv, CharterInv, NEW r \in Role, Rebind(r)
  PROVE  CharterInv'
<1>1. /\ epoch'[r] = epoch[r] + 1 /\ session'[r] = NoKey /\ delivery'[r] = "PENDING"
      /\ \A q \in Role : q # r => /\ epoch'[q] = epoch[q] /\ session'[q] = session[q]
                                  /\ delivery'[q] = delivery[q]
      /\ UNCHANGED <<row, keyEpoch, intent, stage, terminal, cancelled, proc>>
  BY CharterTypes DEF Rebind
<1>2. \A k \in Key : /\ KeyFits(k) /\ RowFits(k)
                     /\ keyEpoch[k] \in Nat /\ epoch[RoleOf[k]] \in Nat
                     /\ RoleOf[k] \in Role
  BY CharterTypes DEF CharterInv, TenantInv
<1>3. \A k \in Key : RoleOf[k] = r /\ row[k] # "none" => keyEpoch[k] # epoch'[r]
  BY <1>1, <1>2 DEF KeyFits
<1>4. ASSUME NEW k \in Key
      PROVE  KeyFits(k)'
  <2>1. CASE RoleOf[k] = r
    <3>1. row[k] # "none" => ~ Current(k)' /\ keyEpoch'[k] <= epoch'[r]
      BY <1>1, <1>2, <1>3, <2>1 DEF Current, KeyFits
    <3>2. row[k] = "none" => stage[k] = "idle" /\ ~ terminal[k] /\ intent[k] = "none"
      BY <1>2 DEF KeyFits, RowFits
    <3>3. session'[RoleOf[k]] # k /\ (row[k] \in LiveRow => row[k] # "none")
      BY <1>1, <2>1
    <3>4. /\ terminal[k] => stage[k] = "stopping"
          /\ stage[k] \in {"hosting", "opening"} /\ intent[k] = "SENT" => cancelled[k]
      BY <1>2 DEF KeyFits
    <3> QED
      BY <1>1, <2>1, <3>1, <3>2, <3>3, <3>4 DEF KeyFits
  <2>2. CASE RoleOf[k] # r
    <3>1. /\ epoch'[RoleOf[k]] = epoch[RoleOf[k]] /\ session'[RoleOf[k]] = session[RoleOf[k]]
          /\ delivery'[RoleOf[k]] = delivery[RoleOf[k]]
      BY <1>1, <1>2, <2>2
    <3>2. KeyFits(k) /\ (Current(k)' <=> Current(k))
      BY <1>1, <1>2, <3>1 DEF Current
    <3> QED
      BY <1>1, <3>1, <3>2 DEF KeyFits
  <2> QED
    BY <2>1, <2>2
<1>5. RoleFits(r)'
  <2>1. Tried(r)' = {}
    BY <1>1, <1>3 DEF Tried, Attempts
  <2> QED
    BY <1>1, <2>1, FS_EmptySet DEF RoleFits
<1>6. ASSUME NEW q \in Role, q # r
      PROVE  RoleFits(q)'
  <2>1. Tried(q)' = Tried(q)
    BY <1>1, <1>6 DEF Tried, Attempts
  <2> QED
    BY <1>1, <1>6, <2>1, RoleFrame
<1> QED
  BY <1>4, <1>5, <1>6 DEF CharterInv

\* Stopping, losing and restarting the Core give deliveries up, they never
\* repeat or complete one.
LEMMA CoreCharter ==
  ASSUME TenantInv, CharterInv, ShutDown \/ GoDown \/ Crash \/ Restart
  PROVE  CharterInv'
<1>1. UNCHANGED <<keyEpoch, intent, epoch, session>>
  BY DEF ShutDown, GoDown, Crash, Forgets, Restart
<1>2. \A k \in Key : /\ KeyFits(k) /\ RowFits(k) /\ EntryFits(k)
                     /\ Current(k)' <=> Current(k)
  BY <1>1 DEF CharterInv, TenantInv, Current
<1>3. \A k \in Key : /\ row[k] \notin LiveRow => row'[k] = row[k]
                     /\ row'[k] = row[k] \/ row'[k] = "UNKNOWN"
                     /\ row[k] \in OverRow => proc'[k] = proc[k]
                     /\ terminal'[k] => terminal[k] /\ stage'[k] = stage[k]
                     /\ \/ stage'[k] = stage[k] /\ (cancelled[k] => cancelled'[k])
                        \/ stage'[k] \in {"idle", "stopping", "abandoned"}
  <2> SUFFICES ASSUME NEW k \in Key
               PROVE  /\ row[k] \notin LiveRow => row'[k] = row[k]
                      /\ row'[k] = row[k] \/ row'[k] = "UNKNOWN"
                      /\ row[k] \in OverRow => proc'[k] = proc[k]
                      /\ terminal'[k] => terminal[k] /\ stage'[k] = stage[k]
                      /\ \/ stage'[k] = stage[k] /\ (cancelled[k] => cancelled'[k])
                         \/ stage'[k] \in {"idle", "stopping", "abandoned"}
    OBVIOUS
  <2>1. CASE ShutDown
    <3>1. /\ proc' = proc /\ terminal' = terminal
          /\ \/ Waiting(k) /\ row'[k] = "UNKNOWN" /\ stage'[k] = "abandoned"
             \/ Waiting(k) /\ row'[k] = row[k] /\ stage'[k] = "stopping"
             \/ /\ ~ Waiting(k) /\ row'[k] = row[k] /\ stage'[k] = stage[k]
                /\ cancelled[k] => cancelled'[k]
      BY <2>1 DEF ShutDown
    <3>2. Waiting(k) => row[k] \in LiveRow /\ ~ terminal[k]
      BY <1>2 DEF Waiting, EntryFits, Open, KeyFits
    <3> QED
      BY <3>1, <3>2
  <2>2. CASE GoDown \/ Crash
    <3>1. /\ row' = row /\ stage'[k] = "idle" /\ ~ terminal'[k]
          /\ proc'[k] = IF proc[k] \in Existing THEN "live" ELSE proc[k]
      BY <2>2 DEF GoDown, Crash, Forgets
    <3> QED
      BY <1>2, <3>1 DEF RowFits
  <2>3. CASE Restart
    BY <2>3 DEF Restart
  <2> QED
    BY <2>1, <2>2, <2>3
<1>4. \A r \in Role : \/ delivery'[r] = delivery[r]
                      \/ /\ delivery'[r] = "FAILED"
                         /\ \E j \in Tried(r) : row[j] \in LiveRow /\ row'[j] = "UNKNOWN"
  <2> SUFFICES ASSUME NEW r \in Role
               PROVE  \/ delivery'[r] = delivery[r]
                      \/ /\ delivery'[r] = "FAILED"
                         /\ \E j \in Tried(r) : row[j] \in LiveRow /\ row'[j] = "UNKNOWN"
    OBVIOUS
  <2>1. CASE ShutDown
    <3>1. \/ delivery'[r] = delivery[r]
          \/ /\ delivery'[r] = "FAILED"
             /\ \E j \in Key : j \in Tried(r) /\ Waiting(j) /\ row'[j] = "UNKNOWN"
      BY <2>1 DEF ShutDown
    <3>2. \A j \in Key : Waiting(j) => row[j] \in LiveRow
      BY <1>2 DEF Waiting, EntryFits, Open
    <3> QED
      BY <3>1, <3>2
  <2>2. CASE GoDown \/ Crash
    BY <2>2 DEF GoDown, Crash, Forgets
  <2>3. CASE Restart
    BY <2>3 DEF Restart, Tried, Attempts
  <2> QED
    BY <2>1, <2>2, <2>3
<1>5. ASSUME NEW k \in Key
      PROVE  KeyFits(k)'
  <2>1. ModeOf[k] = "bootstrap" /\ row'[k] \in LiveRow /\ Current(k)
          => delivery'[RoleOf[k]] = "DELIVERING"
    <3> SUFFICES ASSUME ModeOf[k] = "bootstrap", row'[k] \in LiveRow, Current(k)
                 PROVE  delivery'[RoleOf[k]] = "DELIVERING"
      OBVIOUS
    <3>1. row[k] \in LiveRow /\ row'[k] # "UNKNOWN"
      BY <1>3
    <3>2. delivery[RoleOf[k]] = "DELIVERING"
      BY <1>2, <3>1 DEF KeyFits
    <3>3. ~ \E j \in Tried(RoleOf[k]) : row[j] \in LiveRow /\ row'[j] = "UNKNOWN"
      BY <3>1, OneRunningPerRole DEF Tried, Attempts
    <3> QED
      BY <1>4, <3>2, <3>3
  <2>2. /\ row'[k] # "none" <=> row[k] # "none"
        /\ stage'[k] \in {"prompted", "hosting", "opening"} => stage'[k] = stage[k]
        /\ stage'[k] \in {"hosting", "opening"} /\ cancelled[k] => cancelled'[k]
        /\ terminal'[k] => terminal[k] /\ stage'[k] = stage[k]
    BY <1>3
  <2>3. KeyFits(k) /\ (Current(k)' <=> Current(k))
    BY <1>2
  <2> QED
    BY <1>1, <2>1, <2>2, <2>3 DEF KeyFits
<1>6. ASSUME NEW r \in Role
      PROVE  RoleFits(r)'
  <2>1. Tried(r)' = Tried(r)
    BY <1>1, <1>3, TriedFrame
  <2>2. RoleFits(r)
    BY DEF CharterInv
  <2>3. CASE delivery'[r] = delivery[r]
    BY <1>1, <1>3, <2>1, <2>3, RoleFrame DEF Tried, Attempts
  <2>4. CASE delivery'[r] = "FAILED"
    BY <2>1, <2>2, <2>4 DEF RoleFits
  <2> QED
    BY <1>4, <2>3, <2>4
<1> QED
  BY <1>5, <1>6 DEF CharterInv

\* Every step keeps the invariant.
LEMMA NextCharter == TenantInv /\ CharterInv /\ [Next]_vars => CharterInv'
<1> SUFFICES ASSUME TenantInv, CharterInv, [Next]_vars
             PROVE  CharterInv'
  OBVIOUS
<1>1. ASSUME NEW k \in Key, KeyStep(k)
      PROVE  CharterInv'
  <2>1. CASE Launch(k) \/ LaunchThrows(k)
    BY <2>1, LaunchCharter
  <2>2. CASE HostRejects(k) \/ Breaks(k) \/ WallTimeout(k)
             \/ \E proven \in BOOLEAN : StopAnswers(k, proven)
    BY <2>2, EndCharter
  <2> QED
    BY <1>1, <2>1, <2>2, QuietCharter DEF KeyStep
<1>2. CASE UNCHANGED vars
  <2>1. \A k \in Key : KeyFits(k)'
    BY <1>2 DEF vars, CharterInv, KeyFits, Current
  <2>2. \A r \in Role : RoleFits(r)'
    BY <1>2, TriedFrame, RoleFrame DEF vars
  <2> QED
    BY <2>1, <2>2 DEF CharterInv
<1> QED
  BY <1>1, <1>2, RebindCharter, CoreCharter DEF Next

\* The invariant of the charters.
LEMMA CharterInvariance == Spec => [](TenantInv /\ CharterInv)
  BY InitCharter, NextCharter, TenantInvariance, PTL DEF Spec

\* A delivered charter was acknowledged by an attempt under the present
\* binding, whose session is the one the role's runs resume.
THEOREM DeliveredCharterIsResumable == Spec => []DeliveredIsResumable
<1>1. CharterInv => DeliveredIsResumable
  BY DEF CharterInv, RoleFits, DeliveredIsResumable
<1> QED
  BY <1>1, CharterInvariance, PTL

\* A second attempt is made only when the first is over and proven gone, and
\* never a third.
THEOREM CharterRetriesAreProven == Spec => []RetriesAreProven
<1>1. CharterInv => RetriesAreProven
  BY DEF CharterInv, RoleFits, RetriesAreProven
<1> QED
  BY <1>1, CharterInvariance, PTL

\* No step prompts, resumes or settles an execution whose cancel came first.
LEMMA CancelledStep ==
  ASSUME TenantInv, CharterInv, [Next]_vars, NEW k \in Key,
         intent[k] = "SENT", stage[k] \in {"hosting", "opening"}
  PROVE  stage'[k] # "prompted" /\ session'[RoleOf[k]] # k /\ row'[k] # "SETTLED"
<1>1. KeyFits(k) /\ EntryFits(k) /\ row[k] \in LiveRow
  BY DEF CharterInv, TenantInv, EntryFits, Open
<1>2. cancelled[k] /\ session[RoleOf[k]] # k
  BY <1>1 DEF KeyFits
<1>3. ASSUME NEW j \in Key, KeyStep(j)
      PROVE  stage'[k] # "prompted" /\ session'[RoleOf[k]] # k /\ row'[k] # "SETTLED"
  <2>1. CASE \E gone, bad \in BOOLEAN :
               /\ Exit(j, gone, bad) /\ session' = session
               /\ \E s \in {"idle", "abandoned"} : stage' = [stage EXCEPT ![j] = s]
               /\ stage[j] = "stopping" \/ ~ gone
    <3>1. PICK gone, bad \in BOOLEAN :
               /\ Exit(j, gone, bad) /\ session' = session
               /\ \E s \in {"idle", "abandoned"} : stage' = [stage EXCEPT ![j] = s]
               /\ stage[j] = "stopping" \/ ~ gone
      BY <2>1
    <3>2. /\ j # k => row'[k] = row[k]
          /\ \/ row'[j] = "UNKNOWN"
             \/ gone
             \/ row' = row
      BY <3>1, ExitEffect DEF TenantInv
    <3> QED
      BY <1>1, <1>2, <3>1, <3>2, CharterTypes
  <2>2. CASE /\ UNCHANGED <<row, session>>
             /\ \E s \in Stages \ {"prompted"} : stage' = [stage EXCEPT ![j] = s]
    BY <1>1, <1>2, <2>2, CharterTypes
  <2>3. CASE SessionOpens(j)
    <3>1. ~ cancelled[j] /\ row' = row
          /\ stage' = [stage EXCEPT ![j] = "prompted"]
          /\ session' \in {session, [session EXCEPT ![RoleOf[j]] = j]}
      BY <2>3 DEF SessionOpens
    <3> QED
      BY <1>1, <1>2, <3>1, CharterTypes
  <2>4. CASE /\ UNCHANGED <<stage, session>>
             /\ row' = row \/ \E s \in {"STARTING", "RUNNING", "UNKNOWN"} :
                                row' = [row EXCEPT ![j] = s]
    BY <1>1, <1>2, <2>4, CharterTypes
  <2>5. CASE Launch(j)
    <3>1. row[j] = "none" /\ row' = [row EXCEPT ![j] = "STARTING"]
          /\ stage' = [stage EXCEPT ![j] = "hosting"] /\ session' = session
      BY <2>5 DEF Launch, Fresh
    <3> QED
      BY <1>1, <1>2, <3>1, CharterTypes
  <2>6. CASE LaunchThrows(j) \/ RequestCancel(j) \/ SendCancel(j)
             \/ Accepted(j) \/ FrameFails(j)
    BY <2>4, <2>6 DEF LaunchThrows, RequestCancel, SendCancel, Accepted, FrameFails
  <2>7. CASE HostStarts(j) \/ HostStartsLate(j) \/ HostRejectsLate(j)
             \/ (\E acks, missing \in BOOLEAN : Settled(j, acks, missing))
             \/ \E proven \in BOOLEAN : LateStopAnswers(j, proven)
    BY <2>2, <2>7 DEF HostStarts, HostStartsLate, HostRejectsLate, Settled,
       LateStopAnswers, Stages
  <2>8. CASE Breaks(j) \/ WallTimeout(j)
    <3>1. FinishBroken(j) /\ session' = session
      BY <2>8 DEF Breaks, WallTimeout
    <3> QED
      BY <2>1, <2>2, <3>1 DEF FinishBroken, Stages
  <2>9. CASE HostRejects(j)
    BY <2>1, <2>9 DEF HostRejects
  <2>10. CASE \E proven \in BOOLEAN : StopAnswers(j, proven)
    <3>1. broken[j] \in BOOLEAN
      BY DEF TenantInv, TypeOK
    <3> QED
      BY <2>1, <2>10, <3>1 DEF StopAnswers
  <2> QED
    BY <1>3, <2>3, <2>5, <2>6, <2>7, <2>8, <2>9, <2>10 DEF KeyStep
<1>4. CASE \E r \in Role : Rebind(r)
  <2>1. PICK r \in Role : Rebind(r)
    BY <1>4
  <2>2. UNCHANGED <<row, stage>> /\ session' = [session EXCEPT ![r] = NoKey]
    BY <2>1 DEF Rebind
  <2> QED
    BY <1>1, <1>2, <2>2, CharterTypes
<1>5. CASE ShutDown
  <2>1. /\ session' = session /\ row'[k] \in {row[k], "UNKNOWN"}
        /\ stage'[k] \in {"abandoned", "stopping", stage[k]}
    BY <1>5 DEF ShutDown
  <2> QED
    BY <1>1, <1>2, <2>1
<1>6. CASE GoDown \/ Crash
  BY <1>1, <1>2, <1>6 DEF GoDown, Crash, Forgets
<1>7. CASE Restart
  BY <1>1, <1>2, <1>7 DEF Restart
<1>8. CASE UNCHANGED vars
  BY <1>1, <1>2, <1>8 DEF vars
<1> QED
  BY <1>3, <1>4, <1>5, <1>6, <1>7, <1>8 DEF Next

\* A cancel the backend has accepted before the prompt is not overtaken by the
\* start: nothing is prompted, no session is stored, the run does not settle.
THEOREM CancelsAreNeverOvertaken == Spec => CancelledIsNotPrompted
<1>1. TenantInv /\ CharterInv /\ [Next]_vars =>
        [\A k \in Key :
           /\ intent[k] = "SENT" /\ stage[k] \in {"hosting", "opening"}
           => stage'[k] # "prompted" /\ session'[RoleOf[k]] # k /\ row'[k] # "SETTLED"]_vars
  BY CancelledStep
<1> QED
  BY <1>1, CharterInvariance, PTL DEF Spec, CancelledIsNotPrompted

-----------------------------------------------------------------------------
(***************************************************************************)
(* The coordinator and the backend keep ExecutionPromise.                   *)
(***************************************************************************)

\* The phase and the process of an execution, as the promise sees them.
PhaseNow(k) == IF row[k] = "none" THEN "idle" ELSE PhaseOf(k)
Alive(k)    == proc[k] \in Existing

\* The phase of an execution, by its row.
LEMMA Phases ==
  ASSUME TenantInv, NEW k \in Key
  PROVE  /\ row[k] = "none" => PhaseNow(k) = "idle"
         /\ row[k] \in LiveRow => PhaseNow(k) = "open"
         /\ row[k] = "UNKNOWN" => PhaseNow(k) = "unproven"
         /\ row[k] \in OverRow => PhaseNow(k) = "closed"
         /\ Leased(k) <=> PhaseNow(k) \in {"open", "unproven"}
  BY CharterTypes DEF TenantInv, RowFits, PhaseNow, PhaseOf, Leased

\* The same of the next state.
LEMMA NextPhases ==
  ASSUME TenantInv', NEW k \in Key
  PROVE  /\ row'[k] = "none" => PhaseNow(k)' = "idle"
         /\ row'[k] \in LiveRow => PhaseNow(k)' = "open"
         /\ row'[k] = "UNKNOWN" => PhaseNow(k)' = "unproven"
         /\ row'[k] \in OverRow => PhaseNow(k)' = "closed"
<1>1. /\ row' \in [Key -> {"none", "STARTING", "RUNNING", "SETTLED", "DELIVERED",
                            "FAILED", "UNKNOWN"}]
      /\ RowFits(k)'
  BY DEF TenantInv, TypeOK, EndedRow
<1> QED
  BY <1>1 DEF RowFits, PhaseNow, PhaseOf

\* The variables of the promise, element by element.
LEMMA PromiseValues ==
  ASSUME NEW k \in Key
  PROVE  /\ [j \in Key |-> IF row[j] = "none" THEN "idle" ELSE PhaseOf(j)][k] = PhaseNow(k)
         /\ [j \in Key |-> proc[j] \in Existing][k] = Alive(k)
  BY DEF PhaseNow, Alive

\* A step that changes no phase and no process is invisible.
LEMMA StutterPromise ==
  ASSUME TenantInv, TenantInv',
         \A k \in Key : PhaseNow(k)' = PhaseNow(k) /\ (Alive(k)' <=> Alive(k))
  PROVE  UNCHANGED Promise!vars
<1>1. \A k \in Key : (IF row[k] = "none" THEN "idle" ELSE PhaseOf(k))'
                      = IF row[k] = "none" THEN "idle" ELSE PhaseOf(k)
  BY DEF PhaseNow
<1>2. \A k \in Key : (proc'[k] \in Existing) = (proc[k] \in Existing)
  <2> SUFFICES ASSUME NEW k \in Key
               PROVE  (proc'[k] \in Existing) <=> (proc[k] \in Existing)
    OBVIOUS
  <2>1. Alive(k)' <=> Alive(k)
    OBVIOUS
  <2> QED
    BY <2>1 DEF Alive
<1> QED
  BY <1>1, <1>2 DEF Promise!vars

\* No execution with a lease shares the workspace of one that is started.
LEMMA LaunchIsFree ==
  ASSUME TenantInv, NEW k \in Key, Launch(k) \/ LaunchThrows(k)
  PROVE  Promise!Free(k)
<1>1. \A j \in Key : Promise!Tenant(j) => Leased(j)
  BY Phases, PromiseValues DEF Promise!Tenant
<1>2. \A j \in Key : Leased(j) => WorkspaceOf[RoleOf[j]] # WorkspaceOf[RoleOf[k]]
  BY LaunchIsApart
<1> QED
  BY <1>1, <1>2 DEF Promise!Free

\* A step of one execution changes its phase and its process only.
LEMMA OneKeyPromise ==
  ASSUME TenantInv, TenantInv', NEW k \in Key,
         \A j \in Key : j # k => row'[j] = row[j] /\ proc'[j] = proc[j]
  PROVE  /\ [j \in Key |-> IF row[j] = "none" THEN "idle" ELSE PhaseOf(j)]'
              = [[j \in Key |-> IF row[j] = "none" THEN "idle" ELSE PhaseOf(j)]
                   EXCEPT ![k] = PhaseNow(k)']
         /\ Alive(k)' => [j \in Key |-> proc[j] \in Existing]'
                            = [[j \in Key |-> proc[j] \in Existing] EXCEPT ![k] = TRUE]
         /\ ~ Alive(k)' => [j \in Key |-> proc[j] \in Existing]'
                            = [[j \in Key |-> proc[j] \in Existing] EXCEPT ![k] = FALSE]
<1>1. \A j \in Key : j # k => PhaseNow(j)' = PhaseNow(j)
  <2> SUFFICES ASSUME NEW j \in Key, j # k
               PROVE  PhaseNow(j)' = PhaseNow(j)
    OBVIOUS
  <2>1. row'[j] = row[j] /\ row[j] \in {"none", "UNKNOWN"} \cup LiveRow \cup OverRow
    BY CharterTypes
  <2> QED
    BY <2>1, Phases, NextPhases
<1>2. \A j \in Key : j # k => (proc'[j] \in Existing) = (proc[j] \in Existing)
  OBVIOUS
<1>3. /\ Alive(k)' => (proc'[k] \in Existing) = TRUE
      /\ ~ Alive(k)' => (proc'[k] \in Existing) = FALSE
  BY DEF Alive
<1>4. [j \in Key |-> IF row[j] = "none" THEN "idle" ELSE PhaseOf(j)]'
        = [[j \in Key |-> IF row[j] = "none" THEN "idle" ELSE PhaseOf(j)]
             EXCEPT ![k] = PhaseNow(k)']
  BY <1>1 DEF PhaseNow
<1> QED
  BY <1>2, <1>3, <1>4

\* A start begins the execution or refuses it.
LEMMA LaunchPromise ==
  ASSUME TenantInv, TenantInv', NEW k \in Key, Launch(k) \/ LaunchThrows(k)
  PROVE  Promise!Begin(k) \/ Promise!Refuse(k)
<1>1. Promise!Free(k)
  BY LaunchIsFree
<1>2. row[k] = "none" /\ proc[k] = "none"
  BY DEF Launch, LaunchThrows, Fresh, TenantInv, RowFits
<1>3. [j \in Key |-> IF row[j] = "none" THEN "idle" ELSE PhaseOf(j)][k] = "idle"
  BY <1>2, Phases, PromiseValues
<1>4. CASE Launch(k)
  <2>1. /\ row' = [row EXCEPT ![k] = "STARTING"]
        /\ proc' = [proc EXCEPT ![k] = "starting"]
    BY <1>4 DEF Launch
  <2>2. PhaseNow(k)' = "open" /\ Alive(k)'
    BY <2>1, NextPhases, CharterTypes DEF Alive
  <2>3. \A j \in Key : j # k => row'[j] = row[j] /\ proc'[j] = proc[j]
    BY <2>1, CharterTypes
  <2> QED
    BY <1>1, <1>3, <2>2, <2>3, OneKeyPromise DEF Promise!Begin
<1>5. CASE LaunchThrows(k)
  <2>1. row' = [row EXCEPT ![k] = "UNKNOWN"] /\ proc' = proc
    BY <1>5 DEF LaunchThrows
  <2>2. PhaseNow(k)' = "unproven"
    BY <2>1, NextPhases, CharterTypes
  <2>3. \A j \in Key : j # k => row'[j] = row[j] /\ proc'[j] = proc[j]
    BY <2>1, CharterTypes
  <2>4. [j \in Key |-> proc[j] \in Existing]'
          = [j \in Key |-> proc[j] \in Existing]
    BY <2>1
  <2> QED
    BY <1>1, <1>3, <2>2, <2>3, <2>4, OneKeyPromise DEF Promise!Refuse
<1> QED
  BY <1>4, <1>5

\* Executions given up together, some with their process gone.
LEMMA GiveUpPromise ==
  ASSUME TenantInv, TenantInv', NEW S \in SUBSET Key, S # {}, NEW T \in SUBSET S,
         \A k \in S : row[k] \in LiveRow /\ row'[k] = "UNKNOWN",
         \A k \in Key \ S : row'[k] = row[k],
         \A k \in Key : Alive(k)' <=> Alive(k) /\ k \notin T
  PROVE  Promise!GiveUp(S)
<1>1. \A k \in S : [j \in Key |-> IF row[j] = "none" THEN "idle" ELSE PhaseOf(j)][k] = "open"
  BY Phases, PromiseValues
<1>2. \A k \in S : PhaseNow(k)' = "unproven"
  BY NextPhases
<1>3. \A k \in Key \ S : PhaseNow(k)' = PhaseNow(k)
  <2> SUFFICES ASSUME NEW k \in Key \ S
               PROVE  PhaseNow(k)' = PhaseNow(k)
    OBVIOUS
  <2>1. row'[k] = row[k] /\ row[k] \in {"none", "UNKNOWN"} \cup LiveRow \cup OverRow
    BY CharterTypes
  <2> QED
    BY <2>1, Phases, NextPhases
<1>4. \A k \in Key : (IF row[k] = "none" THEN "idle" ELSE PhaseOf(k))'
                       = IF k \in S THEN "unproven"
                         ELSE IF row[k] = "none" THEN "idle" ELSE PhaseOf(k)
  BY <1>2, <1>3 DEF PhaseNow
<1>5. \A k \in Key : (proc'[k] \in Existing) = (proc[k] \in Existing /\ k \notin T)
  <2> SUFFICES ASSUME NEW k \in Key
               PROVE  (proc'[k] \in Existing) <=> (proc[k] \in Existing /\ k \notin T)
    OBVIOUS
  <2>1. Alive(k)' <=> Alive(k) /\ k \notin T
    OBVIOUS
  <2> QED
    BY <2>1 DEF Alive
<1>6. [j \in Key |-> IF row[j] = "none" THEN "idle" ELSE PhaseOf(j)]'
        = [j \in Key |-> IF j \in S THEN "unproven"
                        ELSE [i \in Key |-> IF row[i] = "none" THEN "idle" ELSE PhaseOf(i)][j]]
  BY <1>4
<1>7. [j \in Key |-> proc[j] \in Existing]'
        = [j \in Key |-> [i \in Key |-> proc[i] \in Existing][j] /\ j \notin T]
  BY <1>5
<1> QED
  BY <1>1, <1>6, <1>7 DEF Promise!GiveUp

\* What may happen to an execution that has its lease: it ends, it is given
\* up, its process goes, or nothing the promise can see.
LEMMA TenantPromise ==
  ASSUME TenantInv, TenantInv', NEW k \in Key,
         row[k] \in LiveRow \cup {"UNKNOWN"},
         \A j \in Key : j # k => row'[j] = row[j] /\ proc'[j] = proc[j],
         \/ row'[k] = row[k]
         \/ row[k] \in LiveRow /\ row'[k] \in LiveRow \cup {"UNKNOWN"} \cup OverRow,
         Alive(k)' => Alive(k)
  PROVE  \/ Promise!Close(k) \/ Promise!Reap(k) \/ Promise!GiveUp({k})
         \/ UNCHANGED Promise!vars
<1>1. CASE row[k] \in LiveRow /\ row'[k] = "UNKNOWN"
  <2>1. CASE Alive(k)'
    <3>1. {} \in SUBSET {k} /\ \A j \in Key : Alive(j)' <=> Alive(j) /\ j \notin {}
      BY <2>1 DEF Alive
    <3> QED
      BY <1>1, <3>1, GiveUpPromise
  <2>2. CASE ~ Alive(k)'
    <3>1. {k} \in SUBSET {k} /\ \A j \in Key : Alive(j)' <=> Alive(j) /\ j \notin {k}
      BY <2>2 DEF Alive
    <3> QED
      BY <1>1, <3>1, GiveUpPromise
  <2> QED
    BY <2>1, <2>2
<1>2. CASE row[k] \in LiveRow /\ row'[k] \in OverRow
  <2>1. ~ Alive(k)' /\ PhaseNow(k)' = "closed"
    BY <1>2, NextPhases DEF TenantInv, RowFits, Alive
  <2>2. [j \in Key |-> IF row[j] = "none" THEN "idle" ELSE PhaseOf(j)][k] = "open"
    BY <1>2, Phases, PromiseValues
  <2> QED
    BY <2>1, <2>2, OneKeyPromise DEF Promise!Close
<1>3. CASE row'[k] = row[k] \/ (row[k] \in LiveRow /\ row'[k] \in LiveRow)
  <2>1. PhaseNow(k)' = PhaseNow(k) /\ PhaseNow(k) \in {"open", "unproven"}
    BY <1>3, Phases, NextPhases
  <2>2. CASE Alive(k)' <=> Alive(k)
    <3>1. \A j \in Key : j # k => PhaseNow(j)' = PhaseNow(j) /\ (Alive(j)' <=> Alive(j))
      <4> SUFFICES ASSUME NEW j \in Key, j # k
                   PROVE  PhaseNow(j)' = PhaseNow(j) /\ (Alive(j)' <=> Alive(j))
        OBVIOUS
      <4>1. row'[j] = row[j] /\ row[j] \in {"none", "UNKNOWN"} \cup LiveRow \cup OverRow
        BY CharterTypes
      <4>2. Alive(j)' <=> Alive(j)
        BY DEF Alive
      <4> QED
        BY <4>1, <4>2, Phases, NextPhases
    <3> QED
      BY <2>1, <2>2, <3>1, StutterPromise
  <2>3. CASE ~ Alive(k)' /\ Alive(k)
    <3>1. [j \in Key |-> IF row[j] = "none" THEN "idle" ELSE PhaseOf(j)][k] = PhaseNow(k)
      BY PromiseValues
    <3>2. [j \in Key |-> proc[j] \in Existing][k]
      BY <2>3, PromiseValues
    <3>3. [j \in Key |-> IF row[j] = "none" THEN "idle" ELSE PhaseOf(j)]'
            = [j \in Key |-> IF row[j] = "none" THEN "idle" ELSE PhaseOf(j)]
      <4>1. [j \in Key |-> IF row[j] = "none" THEN "idle" ELSE PhaseOf(j)]'
              = [[j \in Key |-> IF row[j] = "none" THEN "idle" ELSE PhaseOf(j)]
                   EXCEPT ![k] = PhaseNow(k)]
        BY <2>1, OneKeyPromise
      <4> QED
        BY <3>1, <4>1
    <3> QED
      BY <2>1, <2>3, <3>1, <3>2, <3>3, OneKeyPromise
         DEF Promise!Reap, Promise!Tenant
  <2> QED
    BY <2>2, <2>3
<1> QED
  BY <1>1, <1>2, <1>3

\* Every step is a step of the promise, or invisible to it.
LEMMA NextPromise ==
  ASSUME TenantInv, TenantInv', [Next]_vars
  PROVE  \/ Promise!Next
         \/ UNCHANGED Promise!vars
<1>1. ASSUME NEW k \in Key, KeyStep(k)
      PROVE  \/ Promise!Next
             \/ UNCHANGED Promise!vars
  <2>1. CASE Launch(k) \/ LaunchThrows(k)
    BY <2>1, LaunchPromise DEF Promise!Next
  <2>2. RowFits(k) /\ EntryFits(k) /\ row[k] \in {"none", "UNKNOWN"} \cup LiveRow \cup OverRow
    BY CharterTypes DEF TenantInv
  <2>3. CASE UNCHANGED <<row, lease, proc>>
    <3>1. \A j \in Key : PhaseNow(j)' = PhaseNow(j) /\ (Alive(j)' <=> Alive(j))
      BY <2>3 DEF PhaseNow, PhaseOf, Alive
    <3> QED
      BY <3>1, StutterPromise
  <2>4. CASE Accepted(k)
    <3>1. /\ row[k] = "STARTING" /\ row' = [row EXCEPT ![k] = "RUNNING"]
          /\ proc' = proc
      BY <2>4 DEF Accepted
    <3>2. /\ \A j \in Key : j # k => row'[j] = row[j] /\ proc'[j] = proc[j]
          /\ row'[k] = "RUNNING" /\ (Alive(k)' => Alive(k))
      BY <3>1, CharterTypes DEF Alive
    <3> QED
      BY <3>1, <3>2, TenantPromise DEF Promise!Next
  <2>5. CASE \/ HostStarts(k) \/ HostStartsLate(k) \/ HostRejectsLate(k)
             \/ \E proven \in BOOLEAN : LateStopAnswers(k, proven)
    <3>1. /\ stage[k] \in {"hosting", "abandoned", "late"} /\ row' = row
          /\ \/ proc' = proc
             \/ \E s \in {"live", "none", "gone"} : proc' = [proc EXCEPT ![k] = s]
      BY <2>5 DEF HostStarts, HostStartsLate, HostRejectsLate, LateStopAnswers
    <3>2. row[k] \in LiveRow \cup {"UNKNOWN"} /\ Alive(k)
      BY <2>2, <3>1 DEF RowFits, EntryFits, Alive
    <3>3. \A j \in Key : j # k => row'[j] = row[j] /\ proc'[j] = proc[j]
      BY <3>1, CharterTypes
    <3> QED
      BY <3>1, <3>2, <3>3, TenantPromise DEF Promise!Next
  <2>6. CASE \/ HostRejects(k) \/ Breaks(k) \/ WallTimeout(k)
             \/ \E proven \in BOOLEAN : StopAnswers(k, proven)
    <3>1. row[k] \in LiveRow /\ Alive(k)
      BY <2>2, <2>6 DEF EntryFits, Open, Alive, HostRejects, Breaks, WallTimeout,
         Waiting, StopAnswers
    <3>2. \/ UNCHANGED row
          \/ \E gone, bad \in BOOLEAN : Exit(k, gone, bad)
      <4>1. broken[k] \in BOOLEAN
        BY DEF TenantInv, TypeOK
      <4> QED
        BY <2>6, <4>1 DEF HostRejects, Breaks, WallTimeout, FinishBroken, StopAnswers
    <3>3. /\ \A j \in Key : j # k => row'[j] = row[j]
          /\ row'[k] = row[k] \/ row'[k] \in {"UNKNOWN"} \cup OverRow
      BY <3>2, ExitEffect DEF TenantInv
    <3>4. \/ proc' = proc
          \/ \E s \in {"none", "gone"} : proc' = [proc EXCEPT ![k] = s]
      BY <2>6 DEF HostRejects, Breaks, WallTimeout, StopAnswers
    <3>5. \A j \in Key : j # k => row'[j] = row[j] /\ proc'[j] = proc[j]
      BY <3>3, <3>4, CharterTypes
    <3> QED
      BY <3>1, <3>3, <3>5, TenantPromise DEF Promise!Next
  <2>7. CASE \/ RequestCancel(k) \/ SendCancel(k) \/ SessionOpens(k) \/ FrameFails(k)
             \/ \E acks, missing \in BOOLEAN : Settled(k, acks, missing)
    BY <2>3, <2>7 DEF RequestCancel, SendCancel, SessionOpens, FrameFails, Settled
  <2> QED
    BY <1>1, <2>1, <2>4, <2>5, <2>6, <2>7 DEF KeyStep
<1>2. CASE (\E r \in Role : Rebind(r)) \/ GoDown \/ Crash \/ UNCHANGED vars
  <2>1. UNCHANGED <<row, lease>> /\ \A k \in Key : Alive(k)' <=> Alive(k)
    BY <1>2, CharterTypes DEF Rebind, GoDown, Crash, Forgets, vars, Alive
  <2>2. \A k \in Key : PhaseNow(k)' = PhaseNow(k)
    BY <2>1 DEF PhaseNow, PhaseOf
  <2> QED
    BY <2>1, <2>2, StutterPromise
<1>3. CASE ShutDown \/ Restart
  <2>1. PICK S \in SUBSET Key :
          /\ \A k \in S : row[k] \in LiveRow /\ row'[k] = "UNKNOWN"
          /\ \A k \in Key \ S : row'[k] = row[k]
    <3>1. CASE ShutDown
      <4>1. \A k \in Key : Waiting(k) => row[k] \in LiveRow
        BY DEF TenantInv, EntryFits, Waiting, Open
      <4>2. {k \in Key : Waiting(k) /\ proc[k] = "starting"} \in SUBSET Key
        OBVIOUS
      <4> QED
        BY <3>1, <4>1, <4>2 DEF ShutDown
    <3>2. CASE Restart
      <4>1. {k \in Key : row[k] \in LiveRow} \in SUBSET Key
        OBVIOUS
      <4> QED
        BY <3>2, <4>1 DEF Restart
    <3> QED
      BY <1>3, <3>1, <3>2
  <2>2. \A k \in Key : Alive(k)' <=> Alive(k)
    BY <1>3 DEF ShutDown, Restart, Alive
  <2>3. CASE S = {}
    <3>1. \A k \in Key : PhaseNow(k)' = PhaseNow(k)
      <4> SUFFICES ASSUME NEW k \in Key
                   PROVE  PhaseNow(k)' = PhaseNow(k)
        OBVIOUS
      <4>1. row'[k] = row[k] /\ row[k] \in {"none", "UNKNOWN"} \cup LiveRow \cup OverRow
        BY <2>1, <2>3, CharterTypes
      <4> QED
        BY <4>1, Phases, NextPhases
    <3> QED
      BY <2>2, <3>1, StutterPromise
  <2>4. CASE S # {}
    <3>1. {} \in SUBSET S /\ \A k \in Key : Alive(k)' <=> Alive(k) /\ k \notin {}
      BY <2>2
    <3>2. Promise!GiveUp(S)
      BY <2>1, <2>4, <3>1, GiveUpPromise
    <3> QED
      BY <3>2 DEF Promise!Next
  <2> QED
    BY <2>3, <2>4
<1> QED
  BY <1>1, <1>2, <1>3 DEF Next

\* At first nothing is started.
LEMMA InitPromise == Init => Promise!Init
<1> SUFFICES ASSUME Init
             PROVE  Promise!Init
  OBVIOUS
<1>1. \A k \in Key : (proc[k] \in Existing) = FALSE /\ row[k] = "none"
  BY DEF Init
<1> QED
  BY <1>1 DEF Promise!Init

\* The execution layer keeps its promise: an execution is closed only with
\* nothing of its process left, what was given up keeps its workspace, and a
\* workspace has one tenant.
THEOREM ExecutionKeepsItsPromise == Spec => KeepsPromise
<1>1. TenantInv /\ TenantInv' /\ [Next]_vars => [Promise!Next]_(Promise!vars)
  BY NextPromise
<1> QED
  BY <1>1, InitPromise, TenantInvariance, PTL DEF Spec, KeepsPromise, Promise!Spec
=============================================================================
