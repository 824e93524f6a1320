------------------------------ MODULE Scheduler ------------------------------
(***************************************************************************)
(* When the coordinator looks for work: kick and tick of                    *)
(* packages/core-service/execution-coordinator.ts, with the gates of        *)
(* dispatch (packages/runtime/core.ts) that open by themselves or through   *)
(* another role: the clock, the start limits, the number of live runs and   *)
(* the shared workspaces.                                                   *)
(*                                                                          *)
(* Nothing scans the queues all the time.  A change of the database kicks:  *)
(* one setImmediate is scheduled, and its callback visits the roles in the  *)
(* order of their profiles.  A gate that opens because time passes changes  *)
(* no row, so a refused role arms a retry timer.  The pass is one callback  *)
(* and one action; every dispatch in it is a transaction of its own, so     *)
(* that an exception ends the pass, and the process, between two visits.    *)
(*                                                                          *)
(* Starts are kept with ages and not with dates, so that behaviours repeat. *)
(* The queue of a role is a number here, its order is in RouteCore.         *)
(*                                                                          *)
(* Definitions whose name ends in _bug are not part of the model: each is   *)
(* the definition that follows it with a plausible mistake in it.           *)
(***************************************************************************)
EXTENDS Integers, Sequences, FiniteSets

CONSTANTS
  Last,         \* roles are 1 .. Last, in the order of their profiles
  WorkspaceOf,  \* the workspace of each role
  MaxQueue,     \* queued tasks a role may have
  MaxLive,      \* live runs of the Core (3 in the code)
  RoleLimit,    \* starts of a role in RoleWindow (5 in 60 s)
  RoleWindow,
  SpaceLimit,   \* starts of the space in SpaceWindow (30 in 300 s)
  SpaceWindow,
  MaxAsk,       \* bound: requests
  MaxBack,      \* bound: how far the clock is set back in all
  MaxTrouble    \* bound: crashes, lost runs, pauses and transfers

ASSUME SchedulerAssumption ==
  /\ Last \in Nat \ {0}
  /\ DOMAIN WorkspaceOf = 1 .. Last
  /\ {MaxQueue, MaxLive, RoleLimit, RoleWindow, SpaceLimit, SpaceWindow}
       \subseteq Nat \ {0}
  /\ RoleWindow <= SpaceWindow
  /\ {MaxAsk, MaxBack, MaxTrouble} \subseteq Nat

Role == 1 .. Last

VARIABLES
  queue,      \* queued tasks of each role
  slot,       \* "free", "live", or "lost": a run that is UNKNOWN keeps it
  blocked,    \* role_slots.blocked_reason
  starts,     \* the auto_starts rows, oldest first
  transfer,   \* a context transfer of the role is under way
  paused,     \* app_meta.dispatch_paused
  core,       \* "up" or "down"
  scheduled,  \* a setImmediate is pending
  timer,      \* the retry timer is armed
  asks,       \* requests so far
  back,       \* how far the clock has been set back so far
  troubles    \* crashes, lost runs, pauses and transfers so far

tableVars  == <<queue, slot, blocked, starts, transfer, paused>>
memoryVars == <<scheduled, timer>>
boundVars  == <<asks, back, troubles>>
vars == <<queue, slot, blocked, starts, transfer, paused, core,
          scheduled, timer, asks, back, troubles>>

Init ==
  /\ queue = [r \in Role |-> 0]
  /\ slot = [r \in Role |-> "free"]
  /\ blocked = [r \in Role |-> "none"]
  /\ starts = <<>>
  /\ transfer = [r \in Role |-> FALSE]
  /\ paused = FALSE
  /\ core = "up"
  /\ scheduled = TRUE
  /\ timer = FALSE
  /\ asks = 0
  /\ back = 0
  /\ troubles = 0

-----------------------------------------------------------------------------
(* The gates of dispatch, over the rows s a visit finds.                     *)

Rows == [queue |-> queue, slot |-> slot, blocked |-> blocked, starts |-> starts,
         timer |-> timer]

\* Starts that still count, by their dates on the clock as it is now.
RoleStarts(s, r) == {i \in DOMAIN s.starts : s.starts[i].role = r
                                           /\ s.starts[i].wall < RoleWindow}
SpaceStarts(s)   == {i \in DOMAIN s.starts : s.starts[i].wall < SpaceWindow}

ClockBehind(s)   == \E i \in DOMAIN s.starts : s.starts[i].wall < 0

RateLimited(s, r) == \/ Cardinality(RoleStarts(s, r)) >= RoleLimit
                     \/ Cardinality(SpaceStarts(s)) >= SpaceLimit

Crowded(s)       == Cardinality({r \in Role : s.slot[r] # "free"}) >= MaxLive

Locked(s, r)     == \E o \in Role : /\ s.slot[o] # "free"
                                    /\ WorkspaceOf[o] = WorkspaceOf[r]

\* The gates in the order of the code; "none" when the role may start.
Refusal(s, r) ==
  CASE paused               -> "global_paused"
    [] s.slot[r] # "free"   -> "native_run_active"
    [] s.queue[r] = 0       -> "no_task"
    [] ClockBehind(s)       -> "clock_rollback"
    [] Crowded(s)           -> "global_concurrency"
    [] RateLimited(s, r)    -> "rate_limited"
    [] Locked(s, r)         -> "resource_locked"
    [] OTHER                -> "none"

\* A role that would start if it were visited now.
Ready(r) == core = "up" /\ ~transfer[r] /\ Refusal(Rows, r) = "none"

-----------------------------------------------------------------------------
(* Kick and tick.                                                           *)

Timed_bug(reason) == reason = "clock_rollback"

\* Gates that open without a change of the database.
Timed(reason) == reason \in {"rate_limited", "clock_rollback"}

\* dispatch returns null: the reason is stored, except that a role without a
\* task keeps the old one, and the timer is armed on what the row then says.
Refused(s, r) ==
  LET why == IF Refusal(s, r) = "no_task" THEN s.blocked[r] ELSE Refusal(s, r)
  IN  [s EXCEPT !.blocked[r] = why, !.timer = @ \/ Timed(why)]

Started(s, r) ==
  [s EXCEPT !.queue[r] = @ - 1,
            !.slot[r] = "live",
            !.blocked[r] = "none",
            !.starts = Append(@, [role |-> r, age |-> 0, wall |-> 0])]

\* A role whose context is being transferred is passed over.
Visited(s, r) ==
  IF transfer[r] THEN s
  ELSE IF Refusal(s, r) = "none" THEN Started(s, r)
  ELSE Refused(s, r)

\* What the rows are after the visits of the roles 1 .. k, as a set of one (TLC
\* evaluates a bound variable once).
Pass == LET After[k \in 0 .. Last] ==
              IF k = 0 THEN {Rows} ELSE {Visited(s, k) : s \in After[k - 1]}
        IN  After

Becomes(s) ==
  /\ queue' = s.queue
  /\ slot' = s.slot
  /\ blocked' = s.blocked
  /\ starts' = s.starts

Tick ==
  /\ core = "up" /\ scheduled
  /\ scheduled' = FALSE
  /\ \E s \in Pass[Last] : Becomes(s) /\ timer' = s.timer
  /\ UNCHANGED <<transfer, paused, core, boundVars>>

\* An exception of one role's dispatch leaves the callback, and the daemon has
\* no handler for it: the roles after it are not visited and the process ends.
TickThrows(k) ==
  /\ core = "up" /\ scheduled /\ troubles < MaxTrouble
  /\ \E s \in Pass[k] : Becomes(s)
  /\ core' = "down"
  /\ scheduled' = FALSE
  /\ timer' = FALSE
  /\ troubles' = troubles + 1
  /\ UNCHANGED <<transfer, paused, asks, back>>

TimerFires ==
  /\ core = "up" /\ timer
  /\ timer' = FALSE
  /\ scheduled' = TRUE
  /\ UNCHANGED <<tableVars, core, boundVars>>

-----------------------------------------------------------------------------
(* What kicks: every change that is notified, and the end of a transfer.    *)

\* A client command that queues a task.
Ask(r) ==
  /\ core = "up" /\ queue[r] < MaxQueue
  /\ asks < MaxAsk /\ asks' = asks + 1
  /\ queue' = [queue EXCEPT ![r] = @ + 1]
  /\ scheduled' = TRUE
  /\ UNCHANGED <<slot, blocked, starts, transfer, paused, core, timer,
                 back, troubles>>

RunEnds_bug(r) ==
  /\ core = "up" /\ slot[r] = "live"
  /\ slot' = [slot EXCEPT ![r] = "free"]
  /\ UNCHANGED <<queue, blocked, starts, transfer, paused, core, scheduled, timer,
                 boundVars>>

\* The exit of a run settles it and frees its slot and leases.
RunEnds(r) ==
  /\ core = "up" /\ slot[r] = "live"
  /\ slot' = [slot EXCEPT ![r] = "free"]
  /\ scheduled' = TRUE
  /\ UNCHANGED <<queue, blocked, starts, transfer, paused, core, timer, boundVars>>

\* A run ends without proof: it is UNKNOWN and keeps its slot and its leases.
RunIsLost(r) ==
  /\ core = "up" /\ slot[r] = "live" /\ troubles < MaxTrouble
  /\ slot' = [slot EXCEPT ![r] = "lost"]
  /\ troubles' = troubles + 1
  /\ scheduled' = TRUE
  /\ UNCHANGED <<queue, blocked, starts, transfer, paused, core, timer, asks, back>>

Pause ==
  /\ core = "up" /\ ~paused /\ troubles < MaxTrouble
  /\ paused' = TRUE
  /\ troubles' = troubles + 1
  /\ scheduled' = TRUE
  /\ UNCHANGED <<queue, slot, blocked, starts, transfer, core, timer, asks, back>>

Resume ==
  /\ core = "up" /\ paused
  /\ paused' = FALSE
  /\ scheduled' = TRUE
  /\ UNCHANGED <<queue, slot, blocked, starts, transfer, core, timer, boundVars>>

\* A transfer starts only in a role without a run or an open task; tasks may
\* be queued while it is under way.
TransferStarts(r) ==
  /\ core = "up" /\ ~transfer[r] /\ slot[r] = "free" /\ queue[r] = 0
  /\ troubles < MaxTrouble
  /\ transfer' = [transfer EXCEPT ![r] = TRUE]
  /\ troubles' = troubles + 1
  /\ scheduled' = TRUE
  /\ UNCHANGED <<queue, slot, blocked, starts, paused, core, timer, asks, back>>

TransferSettles(r) ==
  /\ core = "up" /\ transfer[r]
  /\ transfer' = [transfer EXCEPT ![r] = FALSE]
  /\ scheduled' = TRUE
  /\ UNCHANGED <<queue, slot, blocked, starts, paused, core, timer, boundVars>>

-----------------------------------------------------------------------------
(* The clock and the process.                                               *)

\* An age beyond every window is as good as any other, and so is a date that the
\* clock can no longer be set back to.
Older(s) ==
  [s EXCEPT !.age = IF @ < SpaceWindow THEN @ + 1 ELSE @,
            !.wall = IF @ < SpaceWindow + MaxBack - back THEN @ + 1 ELSE @]

\* Time passes, also while the Core is down.
TimePasses ==
  /\ starts' = [i \in DOMAIN starts |-> Older(starts[i])]
  /\ UNCHANGED <<queue, slot, blocked, transfer, paused, core, memoryVars, boundVars>>

\* The system clock is set back.
ClockSetBack ==
  /\ back < MaxBack
  /\ back' = back + 1
  /\ starts' = [i \in DOMAIN starts |-> [starts[i] EXCEPT !.wall = @ - 1]]
  /\ UNCHANGED <<queue, slot, blocked, transfer, paused, core, memoryVars,
                 asks, troubles>>

Crash ==
  /\ core = "up" /\ troubles < MaxTrouble
  /\ core' = "down"
  /\ scheduled' = FALSE
  /\ timer' = FALSE
  /\ troubles' = troubles + 1
  /\ UNCHANGED <<tableVars, asks, back>>

Restart_bug ==
  /\ core = "down"
  /\ core' = "up"
  /\ slot' = [r \in Role |-> IF slot[r] = "live" THEN "lost" ELSE slot[r]]
  /\ starts' = [i \in DOMAIN starts |-> [starts[i] EXCEPT !.wall = SpaceWindow]]
  /\ scheduled' = TRUE
  /\ UNCHANGED <<queue, blocked, transfer, paused, timer, boundVars>>

\* recover makes the live runs UNKNOWN, and the start-up ends with a kick.
Restart ==
  /\ core = "down"
  /\ core' = "up"
  /\ slot' = [r \in Role |-> IF slot[r] = "live" THEN "lost" ELSE slot[r]]
  /\ scheduled' = TRUE
  /\ UNCHANGED <<queue, blocked, starts, transfer, paused, timer, boundVars>>

-----------------------------------------------------------------------------
Next ==
  \/ Tick
  \/ \E k \in 0 .. Last - 1 : TickThrows(k)
  \/ TimerFires
  \/ \E r \in Role : \/ Ask(r)
                     \/ RunEnds(r)
                     \/ RunIsLost(r)
                     \/ TransferStarts(r)
                     \/ TransferSettles(r)
  \/ Pause
  \/ Resume
  \/ TimePasses
  \/ ClockSetBack
  \/ Crash
  \/ Restart

\* Pending callbacks of a running process are called, runs and transfers end,
\* and the clock goes on.  Users, crashes and restarts are under no obligation.
Fairness ==
  /\ WF_vars(Tick)
  /\ WF_vars(TimerFires)
  /\ WF_vars(TimePasses)
  /\ \A r \in Role : WF_vars(RunEnds(r)) /\ WF_vars(TransferSettles(r))

Spec == Init /\ [][Next]_vars /\ Fairness

-----------------------------------------------------------------------------
(* Properties.                                                              *)

\* No wake-up is lost: while the Core runs and some role would be started if it
\* were visited, a pass is scheduled or the retry timer is armed
\* (kick, retryAfterTemporaryBlock).
NoLostWakeup ==
  (\E r \in Role : Ready(r)) => scheduled \/ timer

\* Over any stretch of real time of the length of a window, a role and the space
\* are started no more often than their limits, whatever crashes and restarts
\* come in between and even if the clock is set back (auto_starts).
StartRateHolds ==
  /\ \A r \in Role :
       Cardinality({i \in DOMAIN starts : starts[i].role = r
                                        /\ starts[i].age < RoleWindow}) <= RoleLimit
  /\ Cardinality({i \in DOMAIN starts : starts[i].age < SpaceWindow}) <= SpaceLimit

\* Runs that were lost for good stand in the way: they keep the workspace, or
\* all the places there are.
Stuck(r) ==
  \/ \E o \in Role : slot[o] = "lost" /\ WorkspaceOf[o] = WorkspaceOf[r]
  \/ Cardinality({o \in Role : slot[o] = "lost"}) >= MaxLive

\* Queues of finitely many requests are all worked off, unless dispatch is
\* paused, the Core is down or a lost run stands in the way.
QueuesAreWorkedOff ==
  (\E r \in Role : queue[r] > 0)
    ~> \/ \A r \in Role : queue[r] = 0 \/ Stuck(r)
       \/ paused
       \/ core = "down"
=============================================================================
