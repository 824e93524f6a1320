------------------------------ MODULE RouteCore ------------------------------
(***************************************************************************)
(* The routing kernel: packages/runtime/core.ts, with the two handlers of   *)
(* packages/core-service/execution-coordinator.ts that write the same       *)
(* tables (`unknown', `deliverPublished') and the task operations of        *)
(* packages/core-service/application.ts.                                    *)
(*                                                                          *)
(* The Core is one JavaScript thread over one SQLite file and every handler *)
(* below runs inside one immediate transaction, so a handler is one action; *)
(* the interleavings are those of the handlers of different roles, of the   *)
(* native processes, of the user and of crashes.  Every variable is a table *)
(* column: a crash loses no variable, it runs `recover' on what is stored.  *)
(*                                                                          *)
(* A task owns at most one task.request message, one result and one         *)
(* task.result message, so the outbox rows are indexed by task.             *)
(*                                                                          *)
(* Definitions whose name ends in _bug are not part of the model: each is   *)
(* the definition that follows it with a plausible mistake in it, and shows *)
(* that a property notices that mistake.                                    *)
(***************************************************************************)
EXTENDS Naturals, FiniteSets

CONSTANTS
  Role,        \* the roles of one space
  NoRole,      \* SQL null in a column that refers to a role
  User,        \* the human, as the addressee of a result
  Task,        \* task identities, in the order of tasks.seq
  NoTask,      \* SQL null in a column that refers to a task
  Run,         \* run identities, in the order of their creation
  NoRun,       \* SQL null in a column that refers to a run
  Resource,    \* resource_leases keys: workspace paths and auth units
  Needs,       \* the keys the role's current binding needs
  UserRequests,  \* the task requests the user submits: addressee, completion
  AgentRequests, \* the task requests agents send and hand off
  WaitKinds,   \* what agents wait for: waiting_for of route_wait
  Outcome,     \* the business outcomes passed to route_finish
  DefaultTo,   \* default_completion_target of each role's charter
  MaxLive,     \* global concurrency limit (3 in the code)
  ChainBudget  \* chains.max_auto_starts (100 in the code)

ASSUME ConstantAssumption ==
  /\ Task \subseteq Nat
  /\ Run \subseteq Nat
  /\ NoTask \notin Task
  /\ NoRun \notin Run
  /\ NoRole \notin Role
  /\ User \notin Role
  /\ Needs \in [Role -> SUBSET Resource]
  /\ UserRequests \cup AgentRequests \subseteq
       [to : Role, mode : {"result", "handoff"},
        dest : Role \cup {User}, problem : Role \cup {User}]
  /\ WaitKinds \subseteq {"child_results", "user_input", "external_condition"}
  /\ Outcome \subseteq {"succeeded", "partial", "failed", "cancelled"}
  /\ DefaultTo \in [Role -> Role \cup {User}]
  /\ MaxLive \in Nat
  /\ ChainBudget \in Nat

VARIABLES
  taskState, contract, parent, chain, \* tasks; contract is the request
  request, heldBy, claimedBy,         \* outbox row of the task.request
  result, outcome, resultRun,         \* results
  delivery,                           \* outbox row of the task.result
  handling,                           \* result_handlings: result -> task
  continuation,                       \* continuations, by child result
  wait,                               \* wait_records
  inputs,                             \* task_inputs
  runState, runTask, runKind,         \* runs
  leaseRun, leaseState,               \* resource_leases
  activeTask, activeRun,              \* role_slots
  reconciling,                        \* role_slots.blocked_reason = 'reconciling'
  issues                              \* runs with an OPEN issue

taskVars   == <<taskState, contract, parent, chain>>
bornVars   == <<contract, parent, chain>>
outboxVars == <<request, heldBy, claimedBy>>
resultVars == <<result, outcome, resultRun, delivery, handling>>
waitVars   == <<continuation, wait, inputs>>
runVars    == <<runState, runTask, runKind>>
leaseVars  == <<leaseRun, leaseState>>
slotVars   == <<activeTask, activeRun, reconciling>>
vars == <<taskVars, outboxVars, resultVars, waitVars, runVars, leaseVars,
          slotVars, issues>>

TaskStates == {"NONE", "QUEUED", "ACTIVE", "WAITING_INPUT", "RESULT_STAGED",
               "NEEDS_ATTENTION", "SUSPENDED", "DELIVERED", "HANDED_OFF",
               "PARTIAL", "FAILED", "CANCELLED"}
Open       == {"ACTIVE", "WAITING_INPUT", "RESULT_STAGED"}
Final      == {"DELIVERED", "HANDED_OFF", "PARTIAL", "FAILED", "CANCELLED"}
LiveStates == {"STARTING", "RUNNING", "SETTLING"}
Settled    == {"SUCCEEDED", "FAILED", "CANCELLED"}
NoWait     == [kind |-> "none", deps |-> {}, ready |-> FALSE, gen |-> 0]

Live(r)   == runState[r] \in LiveStates
Assignee(t) == contract[t].to
RoleOf(r) == Assignee(runTask[r])
Unsent    == [to |-> NoRole, mode |-> "result", dest |-> User, problem |-> User]

\* The request that asks a role to handle a result sent to it.
Handling(o) == [to |-> o, mode |-> "result", dest |-> DefaultTo[o],
                problem |-> User]
Handlings == {Handling(o) : o \in Role}

TaskTypes ==
  /\ taskState \in [Task -> TaskStates]
  /\ contract \in [Task -> UserRequests \cup AgentRequests \cup Handlings
                           \cup {Unsent}]
  /\ parent \in [Task -> Task \cup {NoTask}]
  /\ chain \in [Task -> Task]

OutboxTypes ==
  /\ request \in [Task -> {"NONE", "HELD", "QUEUED", "DISPATCHING",
                           "DELIVERED", "UNKNOWN"}]
  /\ heldBy \in [Task -> Run \cup {NoRun}]
  /\ claimedBy \in [Task -> Run \cup {NoRun}]

ResultTypes ==
  /\ result \in [Task -> {"NONE", "STAGED", "PUBLISHED", "QUARANTINED"}]
  /\ outcome \in [Task -> {"none", "succeeded", "partial", "failed",
                           "cancelled"}]
  /\ resultRun \in [Task -> Run \cup {NoRun}]
  /\ delivery \in [Task -> {"NONE", "HELD", "DELIVERED"}]
  /\ handling \in [Task -> Task \cup {NoTask}]

WaitRecord == [kind : WaitKinds \cup {"none"}, deps : SUBSET Task,
               ready : BOOLEAN, gen : Nat]
Input == [gen : Nat, by : Run \cup {NoRun}]

WaitTypes ==
  /\ continuation \in [Task -> {"NONE", "PENDING", "CONSUMED"}]
  /\ wait \in [Task -> WaitRecord]
  /\ inputs \in [Task -> SUBSET Input]

RunTypes ==
  /\ runState \in [Run -> LiveStates \cup Settled \cup {"NONE", "UNKNOWN"}]
  /\ runTask \in [Run -> Task \cup {NoTask}]
  /\ runKind \in [Run -> {"NONE", "TASK", "RESULT_HANDLING", "CONTINUATION"}]

SlotTypes ==
  /\ leaseRun \in [Resource -> Run \cup {NoRun}]
  /\ leaseState \in [Resource -> {"FREE", "HELD", "QUARANTINED"}]
  /\ activeTask \in [Role -> Task \cup {NoTask}]
  /\ activeRun \in [Role -> Run \cup {NoRun}]
  /\ reconciling \in [Role -> BOOLEAN]
  /\ issues \subseteq Run

\* The columns hold what the schema's CHECKs and references allow.
TypeOK == /\ TaskTypes /\ OutboxTypes /\ ResultTypes
          /\ WaitTypes /\ RunTypes /\ SlotTypes

Init ==
  /\ taskState = [t \in Task |-> "NONE"]
  /\ contract = [t \in Task |-> Unsent]
  /\ parent = [t \in Task |-> NoTask]
  /\ chain = [t \in Task |-> t]
  /\ request = [t \in Task |-> "NONE"]
  /\ heldBy = [t \in Task |-> NoRun]
  /\ claimedBy = [t \in Task |-> NoRun]
  /\ result = [t \in Task |-> "NONE"]
  /\ outcome = [t \in Task |-> "none"]
  /\ resultRun = [t \in Task |-> NoRun]
  /\ delivery = [t \in Task |-> "NONE"]
  /\ handling = [t \in Task |-> NoTask]
  /\ continuation = [t \in Task |-> "NONE"]
  /\ wait = [t \in Task |-> NoWait]
  /\ inputs = [t \in Task |-> {}]
  /\ runState = [r \in Run |-> "NONE"]
  /\ runTask = [r \in Run |-> NoTask]
  /\ runKind = [r \in Run |-> "NONE"]
  /\ leaseRun = [k \in Resource |-> NoRun]
  /\ leaseState = [k \in Resource |-> "FREE"]
  /\ activeTask = [o \in Role |-> NoTask]
  /\ activeRun = [o \in Role |-> NoRun]
  /\ reconciling = [o \in Role |-> FALSE]
  /\ issues = {}

-----------------------------------------------------------------------------
(***************************************************************************)
(* Creating tasks.  `seq' is autoincrement: the next task is the smallest   *)
(* identity not used yet, and a task is not created when Task is used up    *)
(* (the bound on tasks).                                                    *)
(***************************************************************************)
Fresh(t) ==
  /\ taskState[t] = "NONE"
  /\ \A u \in Task : u < t => taskState[u] # "NONE"

\* The row of a new task: the request it was sent with and its lineage.
Born(t, q, from) ==
  /\ contract' = [contract EXCEPT ![t] = q]
  /\ parent' = [parent EXCEPT ![t] = from]
  /\ chain' = [chain EXCEPT ![t] = IF from = NoTask THEN t ELSE chain[from]]

\* A root task of the user: its own chain, dispatchable at once.
SubmitFromUser(t, q) ==
  /\ Fresh(t)
  /\ taskState' = [taskState EXCEPT ![t] = "QUEUED"]
  /\ Born(t, q, NoTask)
  /\ request' = [request EXCEPT ![t] = "QUEUED"]
  /\ UNCHANGED <<heldBy, claimedBy, resultVars, waitVars, runVars, leaseVars,
                 slotVars, issues>>

\* route_send of a task.request by a running agent: a child of its task.
Send(r, t, q) ==
  /\ runState[r] = "RUNNING"
  /\ Fresh(t)
  /\ taskState' = [taskState EXCEPT ![t] = "QUEUED"]
  /\ Born(t, q, runTask[r])
  /\ request' = [request EXCEPT ![t] = "QUEUED"]
  /\ UNCHANGED <<heldBy, claimedBy, resultVars, waitVars, runVars, leaseVars,
                 slotVars, issues>>

-----------------------------------------------------------------------------
(***************************************************************************)
(* Dispatch: core.ts `dispatch', called for each verified role by every     *)
(* coordinator tick.                                                        *)
(***************************************************************************)

FreshRun(r) ==
  /\ runState[r] = "NONE"
  /\ \A q \in Run : q < r => runState[q] # "NONE"

\* The outbox row is not looked at.
Deliverable_bug(t) == taskState[t] = "QUEUED"

\* A queued task whose request message may be delivered.
Deliverable(t) == taskState[t] = "QUEUED" /\ request[t] = "QUEUED"

\* A suspended task keeps its place at the head of the queue.
Oldest_bug(o, t) ==
  /\ activeTask[o] = NoTask
  /\ Deliverable(t) /\ Assignee(t) = o
  /\ \A u \in Task : u < t => ~(taskState[u] = "SUSPENDED" /\ Assignee(u) = o)

Oldest(o, t) ==
  /\ activeTask[o] = NoTask
  /\ Deliverable(t) /\ Assignee(t) = o
  /\ \A u \in Task : u < t => ~(Deliverable(u) /\ Assignee(u) = o)

Resumable(o, t) ==
  /\ activeTask[o] = t
  /\ taskState[t] = "WAITING_INPUT"
  /\ wait[t].ready

Candidate(o, t) == Oldest(o, t) \/ Resumable(o, t)

UnreadInputs(t) == {i \in inputs[t] : i.by = NoRun}

\* The input a user_input continuation is started with: the oldest unread one.
NextInput(t) == {i \in UnreadInputs(t) :
                   \A j \in UnreadInputs(t) : i.gen <= j.gen}

Starts(c) == {q \in Run : runState[q] # "NONE" /\ chain[runTask[q]] = c}

BudgetLeft(t) == Cardinality(Starts(chain[t])) < ChainBudget

\* A quarantined lease is taken for a free one.
Unlocked_bug(o) == \A k \in Needs[o] : leaseState[k] # "HELD"

Unlocked(o) == \A k \in Needs[o] : leaseState[k] = "FREE"

WithinLimits(o, t) ==
  /\ Cardinality({p \in Role : activeRun[p] # NoRun}) < MaxLive
  /\ BudgetLeft(t)
  /\ Unlocked(o)
  /\ Resumable(o, t) /\ wait[t].kind = "user_input" => UnreadInputs(t) # {}

DispatchOpen(o) == activeRun[o] = NoRun /\ ~reconciling[o]

KindOf(o, t) ==
  IF activeTask[o] = t THEN "CONTINUATION"
  ELSE IF \E u \in Task : handling[u] = t THEN "RESULT_HANDLING"
  ELSE "TASK"

\* The first delivery claims the request; a continuation consumes what woke
\* it: the children's results, the ready flag and the user's input.
Deliver(o, t, r) ==
  IF activeTask[o] = t
  THEN /\ continuation' = [u \in Task |->
            IF parent[u] = t /\ continuation[u] = "PENDING"
            THEN "CONSUMED" ELSE continuation[u]]
       /\ wait' = [wait EXCEPT ![t].ready = FALSE]
       /\ inputs' = IF wait[t].kind # "user_input" THEN inputs
                    ELSE [inputs EXCEPT ![t] =
                      (@ \ NextInput(t)) \cup
                      {[gen |-> i.gen, by |-> r] : i \in NextInput(t)}]
       /\ UNCHANGED outboxVars
  ELSE /\ request' = [request EXCEPT ![t] = "DISPATCHING"]
       /\ claimedBy' = [claimedBy EXCEPT ![t] = r]
       /\ UNCHANGED <<heldBy, waitVars>>

Dispatch(o, t, r) ==
  /\ DispatchOpen(o)
  /\ Candidate(o, t)
  /\ WithinLimits(o, t)
  /\ FreshRun(r)
  /\ runState' = [runState EXCEPT ![r] = "STARTING"]
  /\ runTask' = [runTask EXCEPT ![r] = t]
  /\ runKind' = [runKind EXCEPT ![r] = KindOf(o, t)]
  /\ leaseRun' = [k \in Resource |-> IF k \in Needs[o] THEN r ELSE leaseRun[k]]
  /\ leaseState' = [k \in Resource |->
                     IF k \in Needs[o] THEN "HELD" ELSE leaseState[k]]
  /\ taskState' = [taskState EXCEPT ![t] = "ACTIVE"]
  /\ activeTask' = [activeTask EXCEPT ![o] = t]
  /\ activeRun' = [activeRun EXCEPT ![o] = r]
  /\ Deliver(o, t, r)
  /\ UNCHANGED <<bornVars, resultVars, reconciling, issues>>

\* A refused dispatch writes its reason over blocked_reason.  The gates that
\* other modules own (dispatch paused, bootstrap, role, space and project
\* status) and `native_run_active' are looked at before `reconciling', so they
\* erase that mark.
DispatchRefused(o) ==
  /\ reconciling' = [reconciling EXCEPT ![o] = FALSE]
  /\ UNCHANGED <<taskVars, outboxVars, resultVars, waitVars, runVars,
                 leaseVars, activeTask, activeRun, issues>>

-----------------------------------------------------------------------------
(***************************************************************************)
(* What a native run reports and asks for.                                  *)
(***************************************************************************)

\* The `accepted' frame: the native harness has taken the request.
Accepted(r) ==
  /\ runState[r] = "STARTING"
  /\ runState' = [runState EXCEPT ![r] = "RUNNING"]
  /\ request' = [t \in Task |->
       IF claimedBy[t] = r /\ request[t] = "DISPATCHING"
       THEN "DELIVERED" ELSE request[t]]
  /\ UNCHANGED <<taskVars, heldBy, claimedBy, resultVars, waitVars, runTask,
                 runKind, leaseVars, slotVars, issues>>

\* route_finish of a result: stored, staged, and held behind the run.
FinishResult(r, oc) ==
  LET t == runTask[r] IN
  /\ runState[r] = "RUNNING"
  /\ taskState[t] \in {"ACTIVE", "WAITING_INPUT"}
  /\ result[t] = "NONE"
  /\ oc = "succeeded" => contract[t].mode = "result"
  /\ result' = [result EXCEPT ![t] = "STAGED"]
  /\ outcome' = [outcome EXCEPT ![t] = oc]
  /\ resultRun' = [resultRun EXCEPT ![t] = r]
  /\ delivery' = [delivery EXCEPT ![t] = "HELD"]
  /\ taskState' = [taskState EXCEPT ![t] = "RESULT_STAGED"]
  /\ runState' = [runState EXCEPT ![r] = "SETTLING"]
  /\ UNCHANGED <<bornVars, outboxVars, handling, waitVars, runTask, runKind,
                 leaseVars, slotVars, issues>>

\* route_finish of a handoff: the next request is stored as task n, whose
\* outbox row is held behind the run; there is no task.result message.
FinishHandoff(r, n, q) ==
  LET t == runTask[r] IN
  /\ runState[r] = "RUNNING"
  /\ taskState[t] \in {"ACTIVE", "WAITING_INPUT"}
  /\ result[t] = "NONE"
  /\ contract[t].mode = "handoff" /\ q.to = contract[t].dest
  /\ Fresh(n)
  /\ result' = [result EXCEPT ![t] = "STAGED"]
  /\ outcome' = [outcome EXCEPT ![t] = "succeeded"]
  /\ resultRun' = [resultRun EXCEPT ![t] = r]
  /\ taskState' = [taskState EXCEPT ![t] = "RESULT_STAGED", ![n] = "QUEUED"]
  /\ Born(n, q, t)
  /\ request' = [request EXCEPT ![n] = "HELD"]
  /\ heldBy' = [heldBy EXCEPT ![n] = r]
  /\ runState' = [runState EXCEPT ![r] = "SETTLING"]
  /\ UNCHANGED <<claimedBy, delivery, handling, waitVars, runTask, runKind,
                 leaseVars, slotVars, issues>>

\* The children whose result comes back to the role that runs their parent.
Awaitable(t) == {u \in Task : /\ taskState[u] # "NONE" /\ parent[u] = t
                              /\ contract[u].mode = "result"
                              /\ contract[u].dest = Assignee(t)}

\* refreshWait's condition, on the results published so far.
Answered(deps, res) ==
  /\ deps # {}
  /\ \A d \in deps : res[d] = "PUBLISHED" /\ outcome[d] = "succeeded"

\* route_wait does not look at the results that have already arrived.
WaitReady_bug(kind, deps) == FALSE

WaitReady(kind, deps) == kind = "child_results" /\ Answered(deps, result)

\* route_wait: the wait record and the look at the results that have already
\* arrived are one transaction.
Wait(r, kind, deps) ==
  LET t == runTask[r] IN
  /\ runState[r] = "RUNNING"
  /\ taskState[t] = "ACTIVE"
  /\ IF kind = "child_results" THEN deps # {} /\ deps \subseteq Awaitable(t)
                               ELSE deps = {}
  /\ wait' = [wait EXCEPT ![t] =
       [kind |-> kind, deps |-> deps, gen |-> @.gen + 1,
        ready |-> WaitReady(kind, deps)]]
  /\ taskState' = [taskState EXCEPT ![t] = "WAITING_INPUT"]
  /\ UNCHANGED <<bornVars, outboxVars, resultVars, continuation, inputs,
                 runVars, leaseVars, slotVars, issues>>

\* conversation.sendUserInput: one input for each generation of the wait.
Unanswered(t) == \A i \in inputs[t] : i.gen # wait[t].gen

SendUserInput(t) ==
  /\ taskState[t] = "WAITING_INPUT"
  /\ wait[t].kind = "user_input"
  /\ Unanswered(t)
  /\ inputs' = [inputs EXCEPT ![t] =
                  @ \cup {[gen |-> wait[t].gen, by |-> NoRun]}]
  /\ wait' = [wait EXCEPT ![t].ready = TRUE]
  /\ UNCHANGED <<taskVars, outboxVars, resultVars, continuation, runVars,
                 leaseVars, slotVars, issues>>

-----------------------------------------------------------------------------
(***************************************************************************)
(* The settle barrier.  The coordinator calls `settle' when the process has *)
(* exited with code 0, a terminal frame was seen and the stop evidence is   *)
(* complete; `out' is the native outcome.  Every other exit is `unknown'.   *)
(***************************************************************************)
\* The native outcome is stored as it is.
SettledAs_bug(out) == out

SettledAs(out) == CASE out = "succeeded" -> "SUCCEEDED"
                    [] out = "failed"    -> "FAILED"
                    [] out = "cancelled" -> "CANCELLED"

StagedBy(r) == resultRun[runTask[r]] = r

\* Only a run that succeeded gives its slot back.
EndRun_bug(r, out) ==
  /\ runState' = [runState EXCEPT ![r] = SettledAs(out)]
  /\ leaseRun' = [k \in Resource |->
                   IF leaseRun[k] = r THEN NoRun ELSE leaseRun[k]]
  /\ leaseState' = [k \in Resource |->
                     IF leaseRun[k] = r THEN "FREE" ELSE leaseState[k]]
  /\ activeRun' = [activeRun EXCEPT ![RoleOf(r)] =
                     IF out = "succeeded" THEN NoRun ELSE @]
  /\ UNCHANGED <<runTask, runKind, reconciling>>

\* What every settle does: the run ends, its request counts as delivered, its
\* leases and the role's run slot are released.
EndRun(r, out) ==
  /\ runState' = [runState EXCEPT ![r] = SettledAs(out)]
  /\ leaseRun' = [k \in Resource |->
                   IF leaseRun[k] = r THEN NoRun ELSE leaseRun[k]]
  /\ leaseState' = [k \in Resource |->
                     IF leaseRun[k] = r THEN "FREE" ELSE leaseState[k]]
  /\ activeRun' = [activeRun EXCEPT ![RoleOf(r)] = NoRun]
  /\ UNCHANGED <<runTask, runKind, reconciling>>

Released(r) ==
  [t \in Task |->
    IF claimedBy[t] = r /\ request[t] = "DISPATCHING" THEN "DELIVERED"
    ELSE IF heldBy[t] = r /\ request[t] = "HELD" THEN "QUEUED"
    ELSE request[t]]

Addressee(t) == IF outcome[t] = "succeeded" THEN contract[t].dest
                ELSE contract[t].problem

\* The state of a task whose staged result is published.
Concluded(t) ==
  CASE outcome[t] = "succeeded" /\ contract[t].mode = "handoff" -> "HANDED_OFF"
    [] outcome[t] = "succeeded" /\ contract[t].mode = "result"  -> "DELIVERED"
    [] outcome[t] = "partial"   -> "PARTIAL"
    [] outcome[t] = "failed"    -> "FAILED"
    [] outcome[t] = "cancelled" -> "CANCELLED"

\* The assignee of the child is taken for the one of the parent.
AnswersParent_bug(t) ==
  /\ outcome[t] = "succeeded" /\ parent[t] # NoTask
  /\ contract[t].mode = "result" /\ contract[t].dest = Assignee(t)

\* The result answers the parent's wait.
AnswersParent(t) ==
  /\ outcome[t] = "succeeded" /\ parent[t] # NoTask
  /\ contract[t].mode = "result"
  /\ contract[t].dest = Assignee(parent[t])

\* Only the results of root tasks are handled.
NeedsHandling_bug(t) ==
  /\ delivery[t] = "HELD" /\ Addressee(t) \in Role
  /\ parent[t] = NoTask /\ handling[t] = NoTask

\* deliverPublished makes a task of a result sent to a role that does not run
\* the parent.
NeedsHandling(t) ==
  /\ delivery[t] = "HELD"
  /\ Addressee(t) \in Role
  /\ IF parent[t] = NoTask THEN TRUE ELSE Assignee(parent[t]) # Addressee(t)
  /\ handling[t] = NoTask

\* A successful run with a staged result: the result and everything held
\* behind the run are published in one transaction with the delivery of the
\* result, by the parent's continuation or by handling task h.
SettlePublish(r, h) ==
  LET t == runTask[r]
      published == [result EXCEPT ![t] = "PUBLISHED"]
      p == parent[t]
  IN
  /\ Live(r) /\ StagedBy(r)
  /\ EndRun(r, "succeeded")
  /\ result' = published
  /\ delivery' = [delivery EXCEPT ![t] = IF @ = "HELD" THEN "DELIVERED" ELSE @]
  /\ activeTask' = [activeTask EXCEPT ![RoleOf(r)] = NoTask]
  /\ IF AnswersParent(t)
     THEN /\ continuation' = [continuation EXCEPT ![t] =
                                IF @ = "NONE" THEN "PENDING" ELSE @]
          /\ wait' = IF wait[p].kind # "child_results" THEN wait
                     ELSE [wait EXCEPT ![p].ready =
                                         Answered(wait[p].deps, published)]
     ELSE UNCHANGED <<continuation, wait>>
  /\ IF NeedsHandling(t)
     THEN /\ Fresh(h)
          /\ taskState' = [taskState EXCEPT ![t] = Concluded(t), ![h] = "QUEUED"]
          /\ Born(h, Handling(Addressee(t)), NoTask)
          /\ request' = [Released(r) EXCEPT ![h] = "QUEUED"]
          /\ handling' = [handling EXCEPT ![t] = h]
     ELSE /\ taskState' = [taskState EXCEPT ![t] = Concluded(t)]
          /\ request' = Released(r)
          /\ UNCHANGED <<bornVars, handling>>
  /\ UNCHANGED <<heldBy, claimedBy, outcome, resultRun, inputs, issues>>

\* A run that ended without finishing or waiting is let go like one that waits.
LeftWaiting_bug(r) == ~StagedBy(r) /\ taskState[runTask[r]] \in Open

\* A run that succeeded while its task waits: only the resources go back.
LeftWaiting(r) == ~StagedBy(r) /\ taskState[runTask[r]] = "WAITING_INPUT"

SettleWaiting(r) ==
  /\ Live(r) /\ LeftWaiting(r)
  /\ EndRun(r, "succeeded")
  /\ request' = [t \in Task |->
       IF claimedBy[t] = r /\ request[t] = "DISPATCHING"
       THEN "DELIVERED" ELSE request[t]]
  /\ UNCHANGED <<taskVars, heldBy, claimedBy, resultVars, waitVars,
                 activeTask, issues>>

\* Any other settle leaves the task to the user: its result is quarantined,
\* what was held stays held and the task keeps the role's task slot.
SettleAttention(r, out) ==
  LET t == runTask[r] IN
  /\ Live(r)
  /\ ~(StagedBy(r) /\ out = "succeeded")
  /\ ~(LeftWaiting(r) /\ out = "succeeded")
  /\ taskState[t] \in Open
  /\ EndRun(r, out)
  /\ taskState' = [taskState EXCEPT ![t] = "NEEDS_ATTENTION"]
  /\ result' = IF StagedBy(r) THEN [result EXCEPT ![t] = "QUARANTINED"] ELSE result
  /\ request' = [u \in Task |->
       IF claimedBy[u] = r /\ request[u] = "DISPATCHING"
       THEN "DELIVERED" ELSE request[u]]
  /\ issues' = issues \cup {r}
  /\ UNCHANGED <<bornVars, heldBy, claimedBy, outcome, resultRun, delivery,
                 handling, waitVars, activeTask>>

-----------------------------------------------------------------------------
(***************************************************************************)
(* Runs that end without proof that they stopped.                           *)
(***************************************************************************)
\* The leases of a run of unknown outcome stay as they are.
LeasedTo_bug(runs) == {}

LeasedTo(runs) == {k \in Resource : leaseRun[k] \in runs}

Quarantined(runs) ==
  /\ runState' = [r \in Run |-> IF r \in runs THEN "UNKNOWN" ELSE runState[r]]
  /\ leaseState' = [k \in Resource |->
                     IF k \in LeasedTo(runs) THEN "QUARANTINED"
                     ELSE leaseState[k]]
  /\ taskState' = [t \in Task |-> IF \E r \in runs : runTask[r] = t
                                  THEN "NEEDS_ATTENTION" ELSE taskState[t]]
  /\ reconciling' = [o \in Role |-> \/ \E r \in runs : RoleOf(r) = o
                                     \/ reconciling[o]]
  /\ issues' = issues \cup runs
  /\ UNCHANGED <<bornVars, heldBy, claimedBy, resultVars, waitVars, runTask,
                 runKind, leaseRun, activeTask, activeRun>>

\* coordinator.unknown: broken protocol, missing evidence, failed launch.
MarkUnknown(r) ==
  /\ Live(r)
  /\ Quarantined({r})
  /\ UNCHANGED request

\* The Core process dies and restarts: `recover' in the constructor.
CrashRecover ==
  LET lost == {r \in Run : Live(r)} IN
  /\ lost # {}
  /\ Quarantined(lost)
  /\ request' = [t \in Task |->
       IF claimedBy[t] \in lost /\ request[t] = "DISPATCHING"
       THEN "UNKNOWN" ELSE request[t]]

-----------------------------------------------------------------------------
(***************************************************************************)
(* The user's task operations, which write tasks.state directly.            *)
(***************************************************************************)
\* A task that needs attention can be put back in the queue.
MovableFromAttention_bug(t) ==
  taskState[t] \in {"QUEUED", "SUSPENDED", "NEEDS_ATTENTION"}

\* A task that is being executed can be suspended, as the table of the domain
\* allows.
MovableWhileActive_bug(t) == taskState[t] \in {"QUEUED", "SUSPENDED", "ACTIVE"}

Movable(t) == taskState[t] \in {"QUEUED", "SUSPENDED"}

Suspend(t) ==
  /\ Movable(t)
  /\ taskState' = [taskState EXCEPT ![t] = "SUSPENDED"]
  /\ UNCHANGED <<bornVars, outboxVars, resultVars, waitVars, runVars,
                 leaseVars, slotVars, issues>>

Resume(t) ==
  /\ Movable(t)
  /\ taskState' = [taskState EXCEPT ![t] = "QUEUED"]
  /\ UNCHANGED <<bornVars, outboxVars, resultVars, waitVars, runVars,
                 leaseVars, slotVars, issues>>

Cancel(t) ==
  /\ Movable(t)
  /\ taskState' = [taskState EXCEPT ![t] = "CANCELLED"]
  /\ UNCHANGED <<bornVars, outboxVars, resultVars, waitVars, runVars,
                 leaseVars, slotVars, issues>>

-----------------------------------------------------------------------------
UserStep ==
  \/ \E t \in Task, q \in UserRequests : SubmitFromUser(t, q)
  \/ \E t \in Task : SendUserInput(t)
  \/ \E t \in Task : Suspend(t) \/ Resume(t) \/ Cancel(t)

SchedulerStep ==
  \/ \E o \in Role, t \in Task, r \in Run : Dispatch(o, t, r)
  \/ \E o \in Role : DispatchRefused(o)

AgentStep(r) ==
  \/ Accepted(r)
  \/ \E t \in Task, q \in AgentRequests : Send(r, t, q)
  \/ \E oc \in Outcome : FinishResult(r, oc)
  \/ \E n \in Task, q \in AgentRequests : FinishHandoff(r, n, q)
  \/ \E kind \in WaitKinds, deps \in SUBSET Task : Wait(r, kind, deps)

ExitStep(r) ==
  \/ \E h \in Task : SettlePublish(r, h)
  \/ SettleWaiting(r)
  \/ \E out \in {"succeeded", "failed", "cancelled"} : SettleAttention(r, out)
  \/ MarkUnknown(r)

Next ==
  \/ UserStep
  \/ SchedulerStep
  \/ \E r \in Run : AgentStep(r) \/ ExitStep(r)
  \/ CrashRecover

Spec == Init /\ [][Next]_vars

\* Every handler that may have made a role dispatchable ends in `kick', which
\* schedules a tick over all roles; native processes are assumed to end.
\* Nothing is assumed of the agents, the user, crashes or refusals.
Fairness ==
  /\ \A o \in Role :
       WF_vars(\E t \in Task, r \in Run : Dispatch(o, t, r))
  /\ \A r \in Run : WF_vars(ExitStep(r))

FairSpec == Spec /\ Fairness

-----------------------------------------------------------------------------
(***************************************************************************)
(* Safety.                                                                  *)
(***************************************************************************)

\* A run that may still have a native process behind it.
Occupying(r) == Live(r) \/ runState[r] = "UNKNOWN"

\* Each role slot names exactly the run that may still be executing for the
\* role and the task the role has not disposed of: no settle, crash, failed
\* launch or user operation leaves a slot dangling or a run outside its slot.
RunSlotsAgree ==
  \A o \in Role, r \in Run :
    activeRun[o] = r <=> Occupying(r) /\ RoleOf(r) = o
TaskSlotsAgree ==
  \A o \in Role, t \in Task :
    activeTask[o] = t <=> /\ taskState[t] \in Open \cup {"NEEDS_ATTENTION"}
                          /\ Assignee(t) = o
SlotsAgree == RunSlotsAgree /\ TaskSlotsAgree

\* The leases are those of the runs that may still execute, no more and no
\* fewer, and they are quarantined when nobody knows whether it does: no exit,
\* crash or failed launch leaks a lease or frees one too early.
FreeLeases ==
  \A k \in Resource : leaseState[k] = "FREE" <=> leaseRun[k] = NoRun
UsedLeases ==
  \A k \in Resource, r \in Run :
    leaseRun[k] = r <=> Occupying(r) /\ k \in Needs[RoleOf(r)]
LostLeases ==
  \A k \in Resource, r \in Run :
    leaseRun[k] = r
      => (leaseState[k] = "QUARANTINED" <=> runState[r] = "UNKNOWN")
LeasesAgree == FreeLeases /\ UsedLeases /\ LostLeases

\* A workspace or auth unit is handed on only after the run that used it has
\* settled: two runs that may still execute never share a resource.
ResourcesExclusive ==
  \A r, q \in Run : Occupying(r) /\ Occupying(q) /\ r # q
     => Needs[RoleOf(r)] \cap Needs[RoleOf(q)] = {}

\* The settle barrier: what a run produced is invisible to everybody until
\* that run has settled as SUCCEEDED, whatever happens to the run instead.
BarrierHolds ==
  /\ \A t \in Task : result[t] = "PUBLISHED"
       => runState[resultRun[t]] = "SUCCEEDED"
  /\ \A t \in Task : delivery[t] = "DELIVERED" => result[t] = "PUBLISHED"
  /\ \A t \in Task : heldBy[t] # NoRun /\ runState[heldBy[t]] # "SUCCEEDED"
       => request[t] = "HELD" /\ \A r \in Run : runTask[r] # t

\* An execution of unknown outcome is never repeated: its task stays with the
\* user, its role stays occupied and no later run works on the same task.
UnknownIsNotRerun ==
  \A r \in Run : runState[r] = "UNKNOWN" =>
    /\ taskState[runTask[r]] = "NEEDS_ATTENTION"
    /\ activeRun[RoleOf(r)] = r
    /\ \A q \in Run : runTask[q] = runTask[r] /\ q # r
         => runState[q] = "SUCCEEDED" /\ result[runTask[r]] # "PUBLISHED"

\* What a waiting task waits for is there.
Due(t) ==
  CASE wait[t].kind = "child_results" -> Answered(wait[t].deps, result)
    [] wait[t].kind = "user_input"    -> UnreadInputs(t) # {}
    [] OTHER                          -> FALSE

\* No lost wake-up and no false one: the stored ready flag of a waiting task
\* says exactly whether what it waits for is there, whichever of the wait, the
\* results and the exits of the runs came first.
ReadyIsExact ==
  \A t \in Task : taskState[t] = "WAITING_INPUT" => wait[t].ready = Due(t)

\* A result delivered to a role reaches it, as a handling task or as what
\* continues the parent.  Only the problem report of a child to the role that
\* runs the parent is neither: it makes nothing happen.
ResultReachesRole ==
  \A t \in Task : delivery[t] = "DELIVERED" /\ Addressee(t) \in Role =>
    \/ handling[t] # NoTask /\ Assignee(handling[t]) = Addressee(t)
    \/ continuation[t] # "NONE" /\ Assignee(parent[t]) = Addressee(t)
    \/ /\ outcome[t] # "succeeded" /\ parent[t] # NoTask
       /\ Assignee(parent[t]) = Addressee(t)

\* Questions and answers stay paired: a wait gets at most one answer, a run
\* reads at most one, and no answer is left over to be read for a later wait.
AnswersArePaired ==
  \A t \in Task :
    /\ \A i, j \in inputs[t] :
         i.gen = j.gen \/ (i.by = j.by /\ i.by # NoRun) => i = j
    /\ \A i \in UnreadInputs(t) :
         wait[t].kind = "user_input" /\ i.gen = wait[t].gen

\* The restart cannot fail on what it finds: `recover' moves the task of every
\* live run to NEEDS_ATTENTION through the transition table of the domain,
\* which lets only these states through.
RecoverySucceeds ==
  \A r \in Run : Live(r) => taskState[runTask[r]] \in Open

\* Nothing is abandoned in between: an open task is being executed by a run
\* that is still to settle, or it waits with every run of it settled, and a
\* task the Core gave up on is reported to the user by an issue.
NothingIsAbandoned ==
  \A t \in Task :
    /\ taskState[t] \in Open =>
         \/ \E r \in Run : runTask[r] = t /\ Live(r)
         \/ /\ taskState[t] = "WAITING_INPUT"
            /\ \A r \in Run : runTask[r] = t => runState[r] = "SUCCEEDED"
    /\ taskState[t] = "NEEDS_ATTENTION" => \E r \in issues : runTask[r] = t

-----------------------------------------------------------------------------
(***************************************************************************)
(* Liveness, under FairSpec.                                                *)
(***************************************************************************)

\* What legitimately keeps a role from starting a task for ever: executions of
\* unknown outcome that hold the role, its resources or the global limit, a
\* spent chain budget, and (bounds of the instance) no run or task identity
\* left.
Stuck(o, t) ==
  \/ activeRun[o] # NoRun /\ runState[activeRun[o]] = "UNKNOWN"
  \/ \E k \in Needs[o] : leaseState[k] = "QUARANTINED"
  \/ Cardinality({r \in Run : runState[r] = "UNKNOWN"}) >= MaxLive
  \/ ~BudgetLeft(t)
  \/ \A r \in Run : runState[r] # "NONE"

\* A task whose children have answered, or whose user has, is continued: the
\* wake-up is not lost between the wait, the result, the exit of the run that
\* waited and the dispatches of other roles that compete for its resources.
DueTaskIsContinued ==
  \A t \in Task :
    taskState[t] = "WAITING_INPUT" /\ Due(t)
      ~> taskState[t] # "WAITING_INPUT" \/ Stuck(Assignee(t), t)

\* A delivered request is started unless the role keeps another task that is
\* not disposed of: the queue moves on after each task that ends.
QueuedTaskIsStarted ==
  \A t \in Task :
    Deliverable(t)
      ~> \/ ~Deliverable(t)
         \/ activeTask[Assignee(t)] # NoTask
         \/ Stuck(Assignee(t), t)
=============================================================================
