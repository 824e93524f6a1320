--------------------------- MODULE RouteCoreProofs ---------------------------
(***************************************************************************)
(* Theorems about the routing kernel, for every set of roles, tasks, runs   *)
(* and resources: its types, its slots and leases, and then the settle      *)
(* barrier and the life of runs (what may be published, released or         *)
(* started, and by which run).                                              *)
(***************************************************************************)
EXTENDS RouteCore, TLAPS

USE ConstantAssumption DEF ConstantAssumption

\* The tuples of variables that handlers leave alone.
USE DEF taskVars, bornVars, outboxVars, resultVars, waitVars, runVars,
        leaseVars, slotVars

\* A result that a run has stored has an outcome.
StagedHasOutcome == \A t \in Task : resultRun[t] # NoRun => outcome[t] # "none"

TypeInv == TypeOK /\ StagedHasOutcome

-----------------------------------------------------------------------------
(***************************************************************************)
(* Every handler keeps the types.                                           *)
(***************************************************************************)
USE DEF TypeInv, TypeOK, StagedHasOutcome, TaskStates, LiveStates, Settled

\* The empty database is well typed.
LEMMA InitType == Init => TypeInv
  BY DEF Init, Unsent, NoWait, TaskTypes, OutboxTypes, ResultTypes, WaitTypes,
         WaitRecord, Input, RunTypes, SlotTypes

\* Setting the ready flag of a wait record leaves a wait record.
LEMMA ReadyType ==
  ASSUME NEW w \in WaitRecord, NEW flag \in BOOLEAN
  PROVE  [w EXCEPT !.ready = flag] \in WaitRecord
  BY DEF WaitRecord

\* The row newRequest inserts keeps the task columns typed.
LEMMA BornType ==
  ASSUME TypeInv, NEW t \in Task, NEW from \in Task \cup {NoTask},
         NEW q \in UserRequests \cup AgentRequests \cup Handlings,
         Born(t, q, from)
  PROVE  /\ contract' \in [Task -> UserRequests \cup AgentRequests
                                     \cup Handlings \cup {Unsent}]
         /\ parent' \in [Task -> Task \cup {NoTask}]
         /\ chain' \in [Task -> Task]
  BY DEF Born, TaskTypes

\* task.submitFromUser keeps the columns typed.
LEMMA SubmitType ==
  ASSUME TypeInv, NEW t \in Task, NEW q \in UserRequests, SubmitFromUser(t, q)
  PROVE  TypeInv'
<1>1. TaskTypes'
  BY BornType DEF SubmitFromUser, TaskTypes
<1> QED
  BY <1>1 DEF SubmitFromUser, OutboxTypes, ResultTypes, WaitTypes, RunTypes,
              SlotTypes

\* route_send of a request keeps the columns typed.
LEMMA SendType ==
  ASSUME TypeInv, NEW r \in Run, NEW t \in Task, NEW q \in AgentRequests,
         Send(r, t, q)
  PROVE  TypeInv'
<1>1. runTask[r] \in Task \cup {NoTask}
  BY DEF RunTypes
<1>2. TaskTypes'
  BY <1>1, BornType DEF Send, TaskTypes
<1> QED
  BY <1>2 DEF Send, OutboxTypes, ResultTypes, WaitTypes, RunTypes, SlotTypes

\* A dispatch keeps the columns typed, for a first delivery and for a
\* continuation.
LEMMA DispatchType ==
  ASSUME TypeInv, NEW o \in Role, NEW t \in Task, NEW r \in Run,
         Dispatch(o, t, r)
  PROVE  TypeInv'
<1>1. TaskTypes' /\ RunTypes' /\ SlotTypes' /\ OutboxTypes'
  BY SMTT(30) DEF Dispatch, Deliver, KindOf, TaskTypes, RunTypes, SlotTypes, OutboxTypes
<1>2. inputs' \in [Task -> SUBSET Input]
  <2>1. NextInput(t) \subseteq Input
    BY DEF NextInput, UnreadInputs, WaitTypes
  <2>2. {[gen |-> i.gen, by |-> r] : i \in NextInput(t)} \subseteq Input
    BY <2>1 DEF Input
  <2>3. (inputs[t] \ NextInput(t)) \cup
          {[gen |-> i.gen, by |-> r] : i \in NextInput(t)} \in SUBSET Input
    BY <2>2 DEF WaitTypes
  <2> HIDE DEF NextInput
  <2> QED
    BY <2>3 DEF Dispatch, Deliver, WaitTypes
<1>3. wait' \in [Task -> WaitRecord]
  <2>1. [wait[t] EXCEPT !.ready = FALSE] \in WaitRecord
    BY ReadyType DEF WaitTypes
  <2> QED
    BY <2>1 DEF Dispatch, Deliver, WaitTypes
<1>4. continuation' \in [Task -> {"NONE", "PENDING", "CONSUMED"}]
  BY DEF Dispatch, Deliver, WaitTypes
<1>5. WaitTypes'
  BY <1>2, <1>3, <1>4 DEF WaitTypes
<1> QED
  BY <1>1, <1>5 DEF Dispatch, ResultTypes

\* A refused dispatch keeps the columns typed.
LEMMA RefusedType ==
  ASSUME TypeInv, NEW o \in Role, DispatchRefused(o)
  PROVE  TypeInv'
  BY DEF DispatchRefused, TaskTypes, OutboxTypes, ResultTypes, WaitTypes,
         RunTypes, SlotTypes

\* The accepted frame keeps the columns typed.
LEMMA AcceptedType ==
  ASSUME TypeInv, NEW r \in Run, Accepted(r)
  PROVE  TypeInv'
  BY DEF Accepted, TaskTypes, OutboxTypes, ResultTypes, WaitTypes, RunTypes,
         SlotTypes

\* route_finish of a result keeps the columns typed.
LEMMA FinishResultType ==
  ASSUME TypeInv, NEW r \in Run, NEW oc \in Outcome, FinishResult(r, oc)
  PROVE  TypeInv'
<1>1. ResultTypes' /\ StagedHasOutcome'
  BY DEF FinishResult, ResultTypes
<1>2. TaskTypes' /\ RunTypes'
  BY DEF FinishResult, TaskTypes, RunTypes
<1> QED
  BY <1>1, <1>2 DEF FinishResult, OutboxTypes, WaitTypes, SlotTypes

\* route_finish of a handoff keeps the columns typed.
LEMMA FinishHandoffType ==
  ASSUME TypeInv, NEW r \in Run, NEW n \in Task, NEW q \in AgentRequests,
         FinishHandoff(r, n, q)
  PROVE  TypeInv'
<1>1. runTask[r] \in Task \cup {NoTask}
  BY DEF RunTypes
<1>2. TaskTypes'
  BY <1>1, BornType DEF FinishHandoff, TaskTypes
<1>3. ResultTypes' /\ StagedHasOutcome'
  BY DEF FinishHandoff, ResultTypes
<1>4. OutboxTypes' /\ RunTypes'
  BY DEF FinishHandoff, OutboxTypes, RunTypes
<1> QED
  BY <1>2, <1>3, <1>4 DEF FinishHandoff, WaitTypes, SlotTypes

\* route_wait keeps the columns typed: the dependencies are tasks.
LEMMA WaitType ==
  ASSUME TypeInv, NEW r \in Run, NEW kind \in WaitKinds,
         NEW deps \in SUBSET Task, Wait(r, kind, deps)
  PROVE  TypeInv'
<1> DEFINE t == runTask[r]
           flag == WaitReady(kind, deps)
           w == [kind |-> kind, deps |-> deps, gen |-> wait[t].gen + 1,
                 ready |-> flag]
<1>1. t \in Task => w \in WaitRecord
  <2>1. flag \in BOOLEAN
    BY DEF WaitReady
  <2>2. t \in Task => wait[t].gen \in Nat
    BY DEF WaitTypes, WaitRecord
  <2> HIDE DEF flag
  <2> QED
    BY <2>1, <2>2 DEF WaitRecord
<1>2. wait' = [wait EXCEPT ![t] = w]
  BY DEF Wait
<1>3. wait' \in [Task -> WaitRecord]
  <2> HIDE DEF w
  <2> QED
    BY <1>1, <1>2 DEF WaitTypes
<1> QED
  BY <1>3 DEF Wait, TaskTypes, OutboxTypes, ResultTypes, WaitTypes, RunTypes,
              SlotTypes

\* conversation.sendUserInput keeps the columns typed.
LEMMA InputType ==
  ASSUME TypeInv, NEW t \in Task, SendUserInput(t)
  PROVE  TypeInv'
<1>1. wait[t].gen \in Nat
  BY DEF WaitTypes, WaitRecord
<1>2. [gen |-> wait[t].gen, by |-> NoRun] \in Input
  BY <1>1 DEF Input
<1>3. [wait[t] EXCEPT !.ready = TRUE] \in WaitRecord
  BY ReadyType DEF WaitTypes
<1>4. WaitTypes'
  BY <1>2, <1>3 DEF SendUserInput, WaitTypes
<1> QED
  BY <1>4 DEF SendUserInput, TaskTypes, OutboxTypes, ResultTypes, RunTypes,
              SlotTypes

\* task.suspend, task.resume and task.cancel keep the columns typed.
LEMMA MoveType ==
  ASSUME TypeInv, NEW t \in Task, Suspend(t) \/ Resume(t) \/ Cancel(t)
  PROVE  TypeInv'
<1>1. /\ TaskTypes'
      /\ UNCHANGED <<outboxVars, resultVars, waitVars, runVars, leaseVars,
                     slotVars, issues>>
  BY DEF Suspend, Resume, Cancel, TaskTypes
<1> QED
  BY <1>1 DEF OutboxTypes, ResultTypes, WaitTypes, RunTypes, SlotTypes

\* What every settle does to the run, its leases and its slot is well typed.
LEMMA EndRunType ==
  ASSUME TypeInv, NEW r \in Run, NEW out \in {"succeeded", "failed", "cancelled"},
         EndRun(r, out)
  PROVE  /\ RunTypes'
         /\ leaseRun' \in [Resource -> Run \cup {NoRun}]
         /\ leaseState' \in [Resource -> {"FREE", "HELD", "QUARANTINED"}]
         /\ activeRun' \in [Role -> Run \cup {NoRun}]
         /\ reconciling' \in [Role -> BOOLEAN]
  BY DEF EndRun, SettledAs, RunTypes, SlotTypes

\* Releasing what was held behind a run leaves outbox states.
LEMMA ReleasedType ==
  ASSUME TypeInv, NEW r \in Run
  PROVE  Released(r) \in [Task -> {"NONE", "HELD", "QUEUED", "DISPATCHING",
                                   "DELIVERED", "UNKNOWN"}]
  BY DEF Released, OutboxTypes

\* The contract of a task tells result from handoff.
LEMMA ModeType ==
  ASSUME TypeInv, NEW t \in Task
  PROVE  contract[t].mode \in {"result", "handoff"}
<1>1. CASE contract[t] \in UserRequests \cup AgentRequests
  BY <1>1
<1>2. CASE contract[t] \in Handlings
  BY <1>2 DEF Handlings, Handling
<1>3. CASE contract[t] = Unsent
  BY <1>3 DEF Unsent
<1> QED
  BY <1>1, <1>2, <1>3 DEF TaskTypes

\* A staged task is published into a final state: the outcome of its result
\* is one of the four business outcomes.
LEMMA ConcludedType ==
  ASSUME TypeInv, NEW r \in Run, NEW t \in Task, resultRun[t] = r
  PROVE  Concluded(t) \in Final
<1>1. outcome[t] \in {"succeeded", "partial", "failed", "cancelled"}
  BY DEF ResultTypes
<1> QED
  BY <1>1, ModeType DEF Concluded, Final

\* A settle that publishes keeps the columns typed, with or without a wake-up
\* of the parent and a handling task.
LEMMA SettlePublishType ==
  ASSUME TypeInv, NEW r \in Run, NEW h \in Task, SettlePublish(r, h)
  PROVE  TypeInv'
<1> DEFINE t == runTask[r]
<1>1. t \in Task \cup {NoTask}
  BY DEF RunTypes
<1>2. t \in Task => Concluded(t) \in TaskStates
  BY ConcludedType DEF SettlePublish, StagedBy, Final
<1>3. taskState' \in [Task -> TaskStates]
  <2> HIDE DEF TaskStates
  <2>1. "QUEUED" \in TaskStates
    BY DEF TaskStates
  <2> QED
    BY <1>1, <1>2, <2>1 DEF SettlePublish, TaskTypes
<1>4. TaskTypes'
  <2>1. CASE NeedsHandling(t)
    <3>1. Handling(Addressee(t)) \in Handlings
      BY <2>1 DEF NeedsHandling, Handlings
    <3>2. Born(h, Handling(Addressee(t)), NoTask)
      BY <2>1 DEF SettlePublish
    <3> QED
      BY <1>3, <3>1, <3>2, BornType DEF TaskTypes
  <2>2. CASE ~NeedsHandling(t)
    BY <1>3, <2>2 DEF SettlePublish, TaskTypes
  <2> QED
    BY <2>1, <2>2
<1>5. OutboxTypes'
  BY ReleasedType DEF SettlePublish, OutboxTypes
<1>6. ResultTypes' /\ StagedHasOutcome'
  <2>1. handling' \in [Task -> Task \cup {NoTask}]
    BY DEF SettlePublish, ResultTypes
  <2>2. /\ result' \in [Task -> {"NONE", "STAGED", "PUBLISHED", "QUARANTINED"}]
        /\ delivery' \in [Task -> {"NONE", "HELD", "DELIVERED"}]
        /\ UNCHANGED <<outcome, resultRun>>
    BY DEF SettlePublish, ResultTypes
  <2> QED
    BY <2>1, <2>2 DEF ResultTypes
<1>7. WaitTypes'
  <2> DEFINE p == parent[t]
             flag == Answered(wait[p].deps, [result EXCEPT ![t] = "PUBLISHED"])
  <2>1. flag \in BOOLEAN
    BY DEF Answered
  <2>2. p \in Task => [wait[p] EXCEPT !.ready = flag] \in WaitRecord
    BY <2>1, ReadyType DEF WaitTypes
  <2>3. wait' = wait \/ wait' = [wait EXCEPT ![p].ready = flag]
    BY DEF SettlePublish
  <2>4. wait' \in [Task -> WaitRecord]
    <3> HIDE DEF flag, p
    <3> QED
      BY <2>2, <2>3 DEF WaitTypes
  <2> QED
    BY <2>4 DEF SettlePublish, WaitTypes
<1>8. RunTypes' /\ SlotTypes'
  BY EndRunType DEF SettlePublish, SlotTypes
<1> QED
  BY <1>4, <1>5, <1>6, <1>7, <1>8

\* A settle of a waiting task keeps the columns typed.
LEMMA SettleWaitingType ==
  ASSUME TypeInv, NEW r \in Run, SettleWaiting(r)
  PROVE  TypeInv'
<1>1. RunTypes' /\ SlotTypes'
  BY EndRunType DEF SettleWaiting, SlotTypes
<1> QED
  BY <1>1 DEF SettleWaiting, TaskTypes, OutboxTypes, ResultTypes, WaitTypes

\* A settle that leaves the task to the user keeps the columns typed.
LEMMA SettleAttentionType ==
  ASSUME TypeInv, NEW r \in Run, NEW out \in {"succeeded", "failed", "cancelled"},
         SettleAttention(r, out)
  PROVE  TypeInv'
<1>1. RunTypes' /\ SlotTypes'
  BY EndRunType DEF SettleAttention, SlotTypes
<1> QED
  BY <1>1 DEF SettleAttention, TaskTypes, OutboxTypes, ResultTypes, WaitTypes

\* Giving up on a set of runs keeps the columns typed.
LEMMA QuarantinedType ==
  ASSUME TypeInv, NEW runs \in SUBSET Run, Quarantined(runs), OutboxTypes'
  PROVE  TypeInv'
  BY DEF Quarantined, TaskTypes, ResultTypes, WaitTypes, RunTypes, SlotTypes

\* Losing one run, or all live runs in a crash, keeps the columns typed.
LEMMA LostType ==
  ASSUME TypeInv, CrashRecover \/ \E r \in Run : MarkUnknown(r)
  PROVE  TypeInv'
<1>1. CASE CrashRecover
  <2> DEFINE lost == {r \in Run : Live(r)}
  <2>1. Quarantined(lost)
    BY <1>1 DEF CrashRecover
  <2>2. OutboxTypes'
    BY <1>1, <2>1 DEF CrashRecover, Quarantined, OutboxTypes
  <2> QED
    BY <2>1, <2>2, QuarantinedType
<1>2. ASSUME NEW r \in Run, MarkUnknown(r)
      PROVE  TypeInv'
  BY <1>2, QuarantinedType DEF MarkUnknown, Quarantined, OutboxTypes
<1> QED
  BY <1>1, <1>2

\* Every step keeps the columns typed.
LEMMA NextType == TypeInv /\ [Next]_vars => TypeInv'
<1> SUFFICES ASSUME TypeInv, [Next]_vars
             PROVE  TypeInv'
  OBVIOUS
<1> HIDE DEF TypeInv
<1>1. CASE UserStep
  BY <1>1, SubmitType, InputType, MoveType DEF UserStep
<1>2. CASE SchedulerStep
  BY <1>2, DispatchType, RefusedType DEF SchedulerStep
<1>3. ASSUME NEW r \in Run, AgentStep(r)
      PROVE  TypeInv'
  BY <1>3, AcceptedType, SendType, FinishResultType, FinishHandoffType, WaitType
     DEF AgentStep
<1>4. ASSUME NEW r \in Run, ExitStep(r)
      PROVE  TypeInv'
  BY <1>4, SettlePublishType, SettleWaitingType, SettleAttentionType, LostType
     DEF ExitStep
<1>5. CASE CrashRecover
  BY <1>5, LostType
<1>6. CASE UNCHANGED vars
  BY <1>6 DEF vars, TypeInv, TaskTypes, OutboxTypes, ResultTypes, WaitTypes,
              RunTypes, SlotTypes
<1> QED
  BY <1>1, <1>2, <1>3, <1>4, <1>5, <1>6 DEF Next

\* The columns of the kernel's tables always hold what the schema allows,
\* whatever the roles, the requests and the number of tasks and runs.
THEOREM TypeCorrect == Spec => []TypeOK
<1>1. TypeInv => TypeOK
  OBVIOUS
<1> QED
  BY InitType, NextType, <1>1, PTL DEF Spec

-----------------------------------------------------------------------------
(***************************************************************************)
(* Slots and leases.  The invariant that carries them says of every run     *)
(* what it stands on: a task that exists, of a role that exists, in a state *)
(* that goes with the state of the run.                                     *)
(***************************************************************************)
RunsHaveTasks ==
  \A r \in Run : runState[r] = "NONE" <=> runTask[r] = NoTask
RunTasksExist ==
  \A r \in Run : runTask[r] # NoTask => taskState[runTask[r]] # "NONE"
TasksAreContracted ==
  \A t \in Task : taskState[t] # "NONE" => Assignee(t) \in Role
UnknownIsParked ==
  \A r \in Run : runState[r] = "UNKNOWN"
                   => taskState[runTask[r]] = "NEEDS_ATTENTION"

StructInv ==
  /\ RunsHaveTasks /\ RunTasksExist /\ TasksAreContracted
  /\ RecoverySucceeds /\ UnknownIsParked
  /\ RunSlotsAgree /\ TaskSlotsAgree /\ LeasesAgree

HIDE DEF TypeInv, TypeOK, StagedHasOutcome, TaskStates, LiveStates, Settled

\* The structural invariant holds of the empty database.
LEMMA InitStruct == Init => StructInv
  BY DEF Init, StructInv, RunsHaveTasks, RunTasksExist, TasksAreContracted,
         RecoverySucceeds, UnknownIsParked, RunSlotsAgree, TaskSlotsAgree,
         LeasesAgree, FreeLeases, UsedLeases, LostLeases, Occupying, Live,
         LiveStates, Open

\* A run that exists works for a task, which has an assignee.
LEMMA RunTaskType ==
  ASSUME TypeInv
  PROVE  \A r \in Run : runTask[r] \in Task \cup {NoTask}
  BY DEF TypeInv, TypeOK, RunTypes

\* A handler that neither starts nor ends a run, and neither opens nor
\* concludes a task, keeps the invariant.
LEMMA Frame ==
  ASSUME TypeInv, StructInv,
         UNCHANGED <<runTask, leaseVars, activeTask, activeRun>>,
         \A r \in Run : /\ Live(r)' <=> Live(r)
                        /\ (runState'[r] = "UNKNOWN") <=> (runState[r] = "UNKNOWN")
                        /\ (runState'[r] = "NONE") <=> (runState[r] = "NONE"),
         \A t \in Task : taskState[t] # "NONE"
                           => contract'[t] = contract[t] /\ taskState'[t] # "NONE",
         \A t \in Task : taskState'[t] # "NONE" => contract'[t].to \in Role,
         \A t \in Task : /\ (taskState'[t] \in Open) <=> (taskState[t] \in Open)
                         /\ (taskState'[t] = "NEEDS_ATTENTION")
                              <=> (taskState[t] = "NEEDS_ATTENTION")
  PROVE  StructInv'
<1>1. RunsHaveTasks' /\ RunTasksExist' /\ TasksAreContracted'
  BY RunTaskType DEF StructInv, RunsHaveTasks, RunTasksExist,
     TasksAreContracted, Assignee
<1>2. RecoverySucceeds' /\ UnknownIsParked'
  <2>1. \A r \in Run : Live(r) \/ runState[r] = "UNKNOWN" => runTask[r] \in Task
    BY RunTaskType DEF StructInv, RunsHaveTasks, Live, LiveStates
  <2> QED
    BY <2>1 DEF StructInv, RecoverySucceeds, UnknownIsParked
<1>3. \A r \in Run : Occupying(r) => RoleOf(r)' = RoleOf(r)
  BY RunTaskType DEF StructInv, RunsHaveTasks, RunTasksExist, Occupying, Live,
     LiveStates, RoleOf, Assignee
<1>4. \A r \in Run : Occupying(r)' <=> Occupying(r)
  BY DEF Occupying
<1>5. RunSlotsAgree'
  BY <1>3, <1>4 DEF StructInv, RunSlotsAgree, Occupying, RoleOf, Assignee,
     Live
<1>6. LeasesAgree'
  <2>1. FreeLeases'
    BY DEF StructInv, LeasesAgree, FreeLeases
  <2>2. UsedLeases'
    BY <1>3, <1>4 DEF StructInv, LeasesAgree, UsedLeases, Occupying, RoleOf,
       Assignee, Live
  <2>3. LostLeases'
    BY DEF StructInv, LeasesAgree, LostLeases
  <2> QED
    BY <2>1, <2>2, <2>3 DEF LeasesAgree
<1>7. TaskSlotsAgree'
  BY DEF StructInv, TaskSlotsAgree, Assignee, Open
<1> QED
  BY <1>1, <1>2, <1>5, <1>6, <1>7 DEF StructInv

\* Creating a task keeps the structural invariant.
LEMMA CreateStruct ==
  ASSUME TypeInv, StructInv, NEW t \in Task,
         \/ \E q \in UserRequests : SubmitFromUser(t, q)
         \/ \E r \in Run, q \in AgentRequests : Send(r, t, q)
  PROVE  StructInv'
<1>1. PICK q \in UserRequests \cup AgentRequests :
        /\ taskState[t] = "NONE"
        /\ taskState' = [taskState EXCEPT ![t] = "QUEUED"]
        /\ contract' = [contract EXCEPT ![t] = q]
        /\ UNCHANGED <<runState, runTask, leaseVars, activeTask, activeRun>>
  BY DEF SubmitFromUser, Send, Fresh, Born
<1>2. /\ q.to \in Role
      /\ taskState \in [Task -> TaskStates]
      /\ DOMAIN contract = Task
  BY DEF TypeInv, TypeOK, TaskTypes
<1>3. \A u \in Task : taskState'[u] # "NONE" => contract'[u].to \in Role
  BY <1>1, <1>2 DEF StructInv, TasksAreContracted, Assignee
<1>4. \A u \in Task : taskState[u] # "NONE"
                        => contract'[u] = contract[u] /\ taskState'[u] # "NONE"
  BY <1>1, <1>2
<1>5. \A u \in Task : /\ (taskState'[u] \in Open) <=> (taskState[u] \in Open)
                      /\ (taskState'[u] = "NEEDS_ATTENTION")
                           <=> (taskState[u] = "NEEDS_ATTENTION")
  BY <1>1, <1>2 DEF Open
<1> QED
  BY <1>1, <1>3, <1>4, <1>5, Frame DEF Live

\* Handlers that move a task without creating any, nor opening or closing it.
LEMMA MoveStruct ==
  ASSUME TypeInv, StructInv,
         \/ \E t \in Task : SendUserInput(t) \/ Suspend(t) \/ Resume(t) \/ Cancel(t)
         \/ \E o \in Role : DispatchRefused(o)
         \/ \E r \in Run : Accepted(r)
         \/ \E r \in Run, oc \in Outcome : FinishResult(r, oc)
         \/ \E r \in Run, kind \in WaitKinds, deps \in SUBSET Task :
              Wait(r, kind, deps)
  PROVE  StructInv'
<1>1. UNCHANGED <<contract, runTask, leaseVars, activeTask, activeRun>>
  BY DEF SendUserInput, Suspend, Resume, Cancel, DispatchRefused, Accepted,
         FinishResult, Wait
<1>2. taskState \in [Task -> TaskStates] /\ DOMAIN runState = Run
  BY DEF TypeInv, TypeOK, TaskTypes, RunTypes
<1>3. \/ runState' = runState
      \/ \E r \in Run : /\ runState[r] \in {"STARTING", "RUNNING"}
                        /\ \E s \in {"RUNNING", "SETTLING"} :
                             runState' = [runState EXCEPT ![r] = s]
  BY DEF SendUserInput, Suspend, Resume, Cancel, DispatchRefused, Accepted,
         FinishResult, Wait
<1>4. \A r \in Run : /\ Live(r)' <=> Live(r)
                     /\ (runState'[r] = "UNKNOWN") <=> (runState[r] = "UNKNOWN")
                     /\ (runState'[r] = "NONE") <=> (runState[r] = "NONE")
  BY <1>2, <1>3 DEF Live, LiveStates
<1>5. \/ taskState' = taskState
      \/ \E t \in Task : /\ taskState[t] \in {"QUEUED", "SUSPENDED"}
                         /\ \E s \in {"QUEUED", "SUSPENDED", "CANCELLED"} :
                              taskState' = [taskState EXCEPT ![t] = s]
      \/ \E r \in Run : /\ taskState[runTask[r]] \in Open
                        /\ \E s \in {"WAITING_INPUT", "RESULT_STAGED"} :
                             taskState' = [taskState EXCEPT ![runTask[r]] = s]
  <2>1. CASE \E t \in Task :
               SendUserInput(t) \/ Suspend(t) \/ Resume(t) \/ Cancel(t)
    BY <2>1 DEF SendUserInput, Suspend, Resume, Cancel, Movable
  <2>2. CASE (\E o \in Role : DispatchRefused(o)) \/ \E r \in Run : Accepted(r)
    BY <2>2 DEF DispatchRefused, Accepted
  <2>3. CASE \E r \in Run, oc \in Outcome : FinishResult(r, oc)
    BY <2>3 DEF FinishResult, Open
  <2>4. CASE \E r \in Run, kind \in WaitKinds, deps \in SUBSET Task :
               Wait(r, kind, deps)
    BY <2>4 DEF Wait, Open
  <2> QED
    BY <2>1, <2>2, <2>3, <2>4
<1>6. \A u \in Task : /\ (taskState'[u] \in Open) <=> (taskState[u] \in Open)
                      /\ (taskState'[u] = "NEEDS_ATTENTION")
                           <=> (taskState[u] = "NEEDS_ATTENTION")
                      /\ (taskState'[u] = "NONE") <=> (taskState[u] = "NONE")
  BY <1>2, <1>5 DEF Open
<1> QED
  BY <1>1, <1>4, <1>6, Frame DEF StructInv, TasksAreContracted, Assignee

\* Finishing with a handoff, which stages the task and creates the next one,
\* keeps the structural invariant.
LEMMA HandoffStruct ==
  ASSUME TypeInv, StructInv, NEW r \in Run, NEW n \in Task,
         NEW q \in AgentRequests, FinishHandoff(r, n, q)
  PROVE  StructInv'
<1>1. /\ taskState \in [Task -> TaskStates]
      /\ DOMAIN contract = Task /\ DOMAIN runState = Run
      /\ q.to \in Role
  BY DEF TypeInv, TypeOK, TaskTypes, RunTypes
<1>2. /\ taskState[runTask[r]] \in Open /\ taskState[n] = "NONE"
      /\ taskState' = [taskState EXCEPT ![runTask[r]] = "RESULT_STAGED",
                                        ![n] = "QUEUED"]
      /\ contract' = [contract EXCEPT ![n] = q]
      /\ runState[r] = "RUNNING"
      /\ runState' = [runState EXCEPT ![r] = "SETTLING"]
      /\ UNCHANGED <<runTask, leaseVars, activeTask, activeRun>>
  BY DEF FinishHandoff, Fresh, Born, Open
<1>3. \A p \in Run : /\ Live(p)' <=> Live(p)
                     /\ (runState'[p] = "UNKNOWN") <=> (runState[p] = "UNKNOWN")
                     /\ (runState'[p] = "NONE") <=> (runState[p] = "NONE")
  BY <1>1, <1>2 DEF Live, LiveStates
<1>4. \A u \in Task : /\ (taskState'[u] \in Open) <=> (taskState[u] \in Open)
                      /\ (taskState'[u] = "NEEDS_ATTENTION")
                           <=> (taskState[u] = "NEEDS_ATTENTION")
  BY <1>1, <1>2 DEF Open
<1>5. \A u \in Task : taskState[u] # "NONE"
                        => contract'[u] = contract[u] /\ taskState'[u] # "NONE"
  BY <1>1, <1>2
<1>6. \A u \in Task : taskState'[u] # "NONE" => contract'[u].to \in Role
  BY <1>1, <1>2 DEF StructInv, TasksAreContracted, Assignee, Open
<1> QED
  BY <1>2, <1>3, <1>4, <1>5, <1>6, Frame

\* No two runs that may be executing work on one task.
LEMMA OneRunPerTask ==
  ASSUME TypeInv, StructInv, NEW r \in Run, NEW q \in Run,
         Occupying(r), Occupying(q), runTask[r] = runTask[q]
  PROVE  r = q
<1>1. runTask[r] \in Task /\ RoleOf(r) \in Role /\ RoleOf(q) = RoleOf(r)
  BY RunTaskType DEF StructInv, RunsHaveTasks, RunTasksExist,
     TasksAreContracted, Occupying, Live, LiveStates, RoleOf
<1>2. activeRun[RoleOf(r)] = r /\ activeRun[RoleOf(r)] = q
  BY <1>1, Zenon DEF StructInv, RunSlotsAgree
<1> QED
  BY <1>2

\* The task of a run that may still execute is a task of a role.
LEMMA OccupyingRole ==
  ASSUME TypeInv, StructInv, NEW r \in Run, Occupying(r)
  PROVE  runTask[r] \in Task /\ taskState[runTask[r]] # "NONE" /\ RoleOf(r) \in Role
  BY RunTaskType DEF StructInv, RunsHaveTasks, RunTasksExist,
     TasksAreContracted, Occupying, Live, LiveStates, RoleOf

\* A dispatch keeps the structural invariant: the slot was empty, the leases
\* were free and no other run may be executing the task.
LEMMA DispatchStruct ==
  ASSUME TypeInv, StructInv, NEW o \in Role, NEW t \in Task, NEW r \in Run,
         Dispatch(o, t, r)
  PROVE  StructInv'
<1>1. /\ runState[r] = "NONE" /\ runTask[r] = NoTask
      /\ activeRun[o] = NoRun
      /\ \A k \in Needs[o] : leaseState[k] = "FREE"
      /\ contract[t].to = o
      /\ \/ activeTask[o] = NoTask /\ taskState[t] = "QUEUED"
         \/ activeTask[o] = t /\ taskState[t] = "WAITING_INPUT"
  <2>1. Assignee(t) = o
    BY DEF Dispatch, Candidate, Oldest, Resumable, StructInv, TaskSlotsAgree
  <2>2. runState[r] = "NONE" /\ runTask[r] = NoTask
    BY DEF Dispatch, FreshRun, StructInv, RunsHaveTasks
  <2> QED
    BY <2>1, <2>2 DEF Dispatch, DispatchOpen, WithinLimits, Unlocked, Candidate,
       Oldest, Resumable, Deliverable, Assignee
<1>2. /\ runState' = [runState EXCEPT ![r] = "STARTING"]
      /\ runTask' = [runTask EXCEPT ![r] = t]
      /\ leaseRun' = [k \in Resource |-> IF k \in Needs[o] THEN r ELSE leaseRun[k]]
      /\ leaseState' = [k \in Resource |->
                          IF k \in Needs[o] THEN "HELD" ELSE leaseState[k]]
      /\ taskState' = [taskState EXCEPT ![t] = "ACTIVE"]
      /\ activeTask' = [activeTask EXCEPT ![o] = t]
      /\ activeRun' = [activeRun EXCEPT ![o] = r]
      /\ UNCHANGED contract
  BY DEF Dispatch
<1>3. /\ taskState \in [Task -> TaskStates]
      /\ DOMAIN runState = Run /\ DOMAIN runTask = Run
      /\ DOMAIN activeTask = Role /\ DOMAIN activeRun = Role
      /\ Needs[o] \subseteq Resource
  BY DEF TypeInv, TypeOK, TaskTypes, RunTypes, SlotTypes
<1>4. /\ Occupying(r)' /\ Live(r)' /\ RoleOf(r)' = o /\ ~Occupying(r)
      /\ \A q \in Run \ {r} : /\ Occupying(q)' <=> Occupying(q)
                              /\ Live(q)' <=> Live(q)
                              /\ RoleOf(q)' = RoleOf(q)
  BY <1>1, <1>2, <1>3 DEF Occupying, Live, LiveStates, RoleOf, Assignee
<1>5. \A q \in Run : Occupying(q) => RoleOf(q) # o
  BY <1>1, OccupyingRole DEF StructInv, RunSlotsAgree
<1>6. RunsHaveTasks' /\ RunTasksExist' /\ TasksAreContracted'
  BY <1>1, <1>2, <1>3, RunTaskType DEF StructInv, RunsHaveTasks, RunTasksExist,
     TasksAreContracted, Assignee
<1>7. RunSlotsAgree'
  <2> SUFFICES ASSUME NEW p \in Role, NEW q \in Run
               PROVE  activeRun'[p] = q <=> Occupying(q)' /\ RoleOf(q)' = p
    BY DEF RunSlotsAgree, Occupying, Live, RoleOf, Assignee
  <2> QED
    BY <1>1, <1>2, <1>3, <1>4, <1>5 DEF StructInv, RunSlotsAgree
<1>8. TaskSlotsAgree'
  BY <1>1, <1>2, <1>3 DEF StructInv, TaskSlotsAgree, Assignee, Open
<1>9. LeasesAgree'
  <2>1. FreeLeases'
    BY <1>2, <1>3 DEF StructInv, LeasesAgree, FreeLeases
  <2>2. UsedLeases'
    <3> SUFFICES ASSUME NEW k \in Resource, NEW q \in Run
                 PROVE  leaseRun'[k] = q
                          <=> Occupying(q)' /\ k \in Needs[RoleOf(q)']
      BY DEF UsedLeases, Occupying, Live, RoleOf, Assignee
    <3>1. leaseRun[k] = q <=> Occupying(q) /\ k \in Needs[RoleOf(q)]
      BY DEF StructInv, LeasesAgree, UsedLeases
    <3>2. k \in Needs[o] => leaseRun[k] = NoRun
      BY <1>1 DEF StructInv, LeasesAgree, FreeLeases
    <3> QED
      BY <1>2, <1>4, <3>1, <3>2
  <2>3. LostLeases'
    BY <1>1, <1>2, <1>3 DEF StructInv, LeasesAgree, LostLeases, UsedLeases,
       Occupying, Live, LiveStates
  <2> QED
    BY <2>1, <2>2, <2>3 DEF LeasesAgree
<1>10. RecoverySucceeds' /\ UnknownIsParked'
  <2>1. \A q \in Run : Occupying(q) => runTask[q] # t
    BY <1>1, <1>5 DEF RoleOf, Assignee
  <2> SUFFICES ASSUME NEW q \in Run
               PROVE  /\ Live(q)' => taskState'[runTask'[q]] \in Open
                      /\ runState'[q] = "UNKNOWN"
                           => taskState'[runTask'[q]] = "NEEDS_ATTENTION"
    BY DEF RecoverySucceeds, UnknownIsParked, Live
  <2>2. CASE q = r
    BY <1>2, <1>3, <2>2 DEF Open
  <2>3. CASE q # r
    BY <1>2, <1>3, <1>4, <2>1, <2>3, OccupyingRole DEF StructInv,
       RecoverySucceeds, UnknownIsParked, Occupying
  <2> QED
    BY <2>2, <2>3
<1> QED
  BY <1>6, <1>7, <1>8, <1>9, <1>10 DEF StructInv

\* The end of a run gives back its slot and its leases and nothing else,
\* whatever becomes of its task.
LEMMA EndRunStruct ==
  ASSUME TypeInv, StructInv, NEW r \in Run,
         NEW out \in {"succeeded", "failed", "cancelled"},
         Live(r), EndRun(r, out),
         \A t \in Task : taskState[t] # "NONE"
                           => contract'[t] = contract[t] /\ taskState'[t] # "NONE",
         \A t \in Task : taskState'[t] # "NONE" => contract'[t].to \in Role,
         \A t \in Task : t # runTask[r] =>
              /\ (taskState'[t] \in Open) <=> (taskState[t] \in Open)
              /\ (taskState'[t] = "NEEDS_ATTENTION")
                   <=> (taskState[t] = "NEEDS_ATTENTION")
  PROVE  /\ RunsHaveTasks' /\ RunTasksExist' /\ TasksAreContracted'
         /\ RecoverySucceeds' /\ UnknownIsParked'
         /\ RunSlotsAgree' /\ LeasesAgree'
<1>1. /\ runState' = [runState EXCEPT ![r] = SettledAs(out)]
      /\ SettledAs(out) \in Settled
      /\ leaseRun' = [k \in Resource |->
                        IF leaseRun[k] = r THEN NoRun ELSE leaseRun[k]]
      /\ leaseState' = [k \in Resource |->
                          IF leaseRun[k] = r THEN "FREE" ELSE leaseState[k]]
      /\ activeRun' = [activeRun EXCEPT ![RoleOf(r)] = NoRun]
      /\ runTask' = runTask
  BY DEF EndRun, SettledAs, Settled
<1>2. DOMAIN runState = Run /\ DOMAIN activeRun = Role
  BY DEF TypeInv, TypeOK, RunTypes, SlotTypes
<1>3. /\ ~Occupying(r)' /\ ~Live(r)' /\ Occupying(r)
      /\ runState[r] # "NONE" /\ runState'[r] # "NONE"
  BY <1>1, <1>2 DEF Occupying, Live, LiveStates, Settled
<1>4. \A q \in Run : Occupying(q) => RoleOf(q)' = RoleOf(q)
  BY <1>1, OccupyingRole DEF RoleOf, Assignee
<1>5. \A q \in Run \ {r} : /\ runState'[q] = runState[q]
                           /\ Occupying(q)' <=> Occupying(q)
                           /\ Live(q)' <=> Live(q)
  BY <1>1, <1>2 DEF Occupying, Live
<1>6. RunsHaveTasks' /\ RunTasksExist' /\ TasksAreContracted'
  BY <1>1, <1>3, <1>5, RunTaskType DEF StructInv, RunsHaveTasks, RunTasksExist,
     TasksAreContracted, Assignee
<1>7. RecoverySucceeds' /\ UnknownIsParked'
  <2> SUFFICES ASSUME NEW q \in Run
               PROVE  /\ Live(q)' => taskState'[runTask'[q]] \in Open
                      /\ runState'[q] = "UNKNOWN"
                           => taskState'[runTask'[q]] = "NEEDS_ATTENTION"
    BY DEF RecoverySucceeds, UnknownIsParked, Live
  <2>1. CASE q = r
    BY <1>1, <1>2, <1>3, <2>1 DEF Settled
  <2>2. CASE q # r /\ Occupying(q)
    <3>1. runTask[q] # runTask[r] /\ runTask[q] \in Task
      BY <1>3, <2>2, OneRunPerTask, OccupyingRole
    <3>2. /\ taskState'[runTask[q]] \in Open <=> taskState[runTask[q]] \in Open
          /\ taskState'[runTask[q]] = "NEEDS_ATTENTION"
               <=> taskState[runTask[q]] = "NEEDS_ATTENTION"
      BY <3>1
    <3>3. /\ Live(q) => taskState[runTask[q]] \in Open
          /\ runState[q] = "UNKNOWN" => taskState[runTask[q]] = "NEEDS_ATTENTION"
      BY DEF StructInv, RecoverySucceeds, UnknownIsParked
    <3>4. /\ Live(q)' <=> Live(q)
          /\ runState'[q] = runState[q] /\ runTask' = runTask
      BY <1>1, <1>5, <2>2
    <3> QED
      BY <3>2, <3>3, <3>4
  <2>3. CASE q # r /\ ~Occupying(q)
    BY <1>5, <2>3 DEF Occupying
  <2> QED
    BY <2>1, <2>2, <2>3
<1>8. RunSlotsAgree'
  <2> SUFFICES ASSUME NEW p \in Role, NEW q \in Run
               PROVE  activeRun'[p] = q <=> Occupying(q)' /\ RoleOf(q)' = p
    BY DEF RunSlotsAgree, Occupying, Live, RoleOf, Assignee
  <2>1. activeRun[p] = q <=> Occupying(q) /\ RoleOf(q) = p
    BY DEF StructInv, RunSlotsAgree
  <2>2. activeRun[p] = r <=> RoleOf(r) = p
    BY <1>3 DEF StructInv, RunSlotsAgree
  <2> QED
    BY <1>1, <1>2, <1>3, <1>4, <1>5, <2>1, <2>2
<1>9. LeasesAgree'
  <2>1. FreeLeases'
    BY <1>1 DEF StructInv, LeasesAgree, FreeLeases
  <2>2. UsedLeases'
    <3> SUFFICES ASSUME NEW k \in Resource, NEW q \in Run
                 PROVE  leaseRun'[k] = q
                          <=> Occupying(q)' /\ k \in Needs[RoleOf(q)']
      BY DEF UsedLeases, Occupying, Live, RoleOf, Assignee
    <3>1. leaseRun[k] = q <=> Occupying(q) /\ k \in Needs[RoleOf(q)]
      BY DEF StructInv, LeasesAgree, UsedLeases
    <3> QED
      BY <1>1, <1>3, <1>4, <1>5, <3>1
  <2>3. LostLeases'
    BY <1>1, <1>5 DEF StructInv, LeasesAgree, LostLeases
  <2> QED
    BY <2>1, <2>2, <2>3 DEF LeasesAgree
<1> QED
  BY <1>6, <1>7, <1>8, <1>9

\* A settle that publishes keeps the structural invariant.
LEMMA SettlePublishStruct ==
  ASSUME TypeInv, StructInv, NEW r \in Run, NEW h \in Task, SettlePublish(r, h)
  PROVE  StructInv'
<1> DEFINE t == runTask[r]
<1>1. /\ Live(r) /\ EndRun(r, "succeeded") /\ StagedBy(r)
      /\ activeTask' = [activeTask EXCEPT ![RoleOf(r)] = NoTask]
  BY DEF SettlePublish
<1>2. t \in Task /\ taskState[t] \in Open /\ RoleOf(r) \in Role
  BY <1>1, OccupyingRole DEF Occupying, StructInv, RecoverySucceeds
<1>3. Concluded(t) \in Final
  BY <1>1, <1>2, ConcludedType DEF StagedBy
<1>4. /\ taskState \in [Task -> TaskStates]
      /\ DOMAIN contract = Task /\ DOMAIN activeTask = Role
  BY DEF TypeInv, TypeOK, TaskTypes, SlotTypes
<1>5. \/ /\ taskState[h] = "NONE" /\ Addressee(t) \in Role
         /\ taskState' = [taskState EXCEPT ![t] = Concluded(t), ![h] = "QUEUED"]
         /\ contract' = [contract EXCEPT ![h] = Handling(Addressee(t))]
      \/ /\ taskState' = [taskState EXCEPT ![t] = Concluded(t)]
         /\ contract' = contract
  BY DEF SettlePublish, Fresh, Born, NeedsHandling
<1>6. \A u \in Task : taskState[u] # "NONE"
                        => contract'[u] = contract[u] /\ taskState'[u] # "NONE"
  BY <1>2, <1>3, <1>4, <1>5 DEF Final
<1>7. \A u \in Task : taskState'[u] # "NONE" => contract'[u].to \in Role
  BY <1>2, <1>4, <1>5 DEF StructInv, TasksAreContracted, Assignee, Handling, Open
<1>8. \A u \in Task : u # t =>
              /\ (taskState'[u] \in Open) <=> (taskState[u] \in Open)
              /\ (taskState'[u] = "NEEDS_ATTENTION")
                   <=> (taskState[u] = "NEEDS_ATTENTION")
  BY <1>4, <1>5 DEF Open
<1>9. taskState'[t] \in Final
  BY <1>2, <1>3, <1>4, <1>5 DEF Open
<1>10. TaskSlotsAgree'
  <2>1. activeTask[RoleOf(r)] = t
    <3>1. \A o \in Role : activeTask[o] = t
            <=> taskState[t] \in Open \cup {"NEEDS_ATTENTION"} /\ Assignee(t) = o
      BY <1>2 DEF StructInv, TaskSlotsAgree
    <3>2. RoleOf(r) = Assignee(t)
      BY DEF RoleOf
    <3> QED
      BY <1>2, <3>1, <3>2
  <2> SUFFICES ASSUME NEW o \in Role, NEW u \in Task
               PROVE  activeTask'[o] = u
                        <=> /\ taskState'[u] \in Open \cup {"NEEDS_ATTENTION"}
                            /\ contract'[u].to = o
    BY DEF TaskSlotsAgree, Assignee
  <2>2. activeTask[o] = u <=> /\ taskState[u] \in Open \cup {"NEEDS_ATTENTION"}
                              /\ contract[u].to = o
    BY DEF StructInv, TaskSlotsAgree, Assignee
  <2>3. CASE u = t
    <3>1. RoleOf(r) = contract[t].to
      BY DEF RoleOf, Assignee
    <3> QED
      BY <1>1, <1>2, <1>4, <1>9, <2>1, <2>2, <2>3, <3>1 DEF Open, Final
  <2>4. CASE u # t
    <3>1. taskState'[u] \in Open \cup {"NEEDS_ATTENTION"}
            => contract'[u] = contract[u]
      BY <1>6, <1>8, <2>4 DEF Open
    <3>2. activeTask'[o] = u <=> activeTask[o] = u
      BY <1>1, <1>4, <2>1, <2>4
    <3> QED
      BY <1>6, <1>8, <2>2, <2>4, <3>1, <3>2 DEF Open
  <2> QED
    BY <2>3, <2>4
<1> QED
  BY <1>1, <1>6, <1>7, <1>8, <1>10, EndRunStruct DEF StructInv

\* A settle of a waiting task keeps the structural invariant.
LEMMA SettleWaitingStruct ==
  ASSUME TypeInv, StructInv, NEW r \in Run, SettleWaiting(r)
  PROVE  StructInv'
<1>1. /\ Live(r) /\ EndRun(r, "succeeded")
      /\ UNCHANGED <<taskState, contract, activeTask>>
  BY DEF SettleWaiting
<1>2. TaskSlotsAgree'
  BY <1>1 DEF StructInv, TaskSlotsAgree, Assignee
<1> QED
  BY <1>1, <1>2, EndRunStruct DEF StructInv, TasksAreContracted, Assignee

\* A settle that leaves the task to the user keeps the structural invariant.
LEMMA SettleAttentionStruct ==
  ASSUME TypeInv, StructInv, NEW r \in Run,
         NEW out \in {"succeeded", "failed", "cancelled"}, SettleAttention(r, out)
  PROVE  StructInv'
<1> DEFINE t == runTask[r]
<1>1. /\ Live(r) /\ EndRun(r, out) /\ taskState[t] \in Open
      /\ taskState' = [taskState EXCEPT ![t] = "NEEDS_ATTENTION"]
      /\ UNCHANGED <<contract, activeTask>>
  BY DEF SettleAttention
<1>2. taskState \in [Task -> TaskStates]
  BY DEF TypeInv, TypeOK, TaskTypes
<1>3. TaskSlotsAgree'
  BY <1>1, <1>2 DEF StructInv, TaskSlotsAgree, Assignee
<1>4. \A u \in Task : /\ u # t => taskState'[u] = taskState[u]
                      /\ (taskState'[u] = "NONE") <=> (taskState[u] = "NONE")
  BY <1>1, <1>2 DEF Open
<1> QED
  BY <1>1, <1>3, <1>4, EndRunStruct DEF StructInv, TasksAreContracted, Assignee

\* Giving up on any set of live runs, one or all, keeps the structural
\* invariant.
LEMMA QuarantinedStruct ==
  ASSUME TypeInv, StructInv, NEW runs \in SUBSET Run,
         \A r \in runs : Live(r), Quarantined(runs)
  PROVE  StructInv'
<1> DEFINE parked(t) == \E r \in runs : runTask[r] = t
<1>1. /\ runState' = [r \in Run |-> IF r \in runs THEN "UNKNOWN" ELSE runState[r]]
      /\ leaseState' = [k \in Resource |-> IF leaseRun[k] \in runs
                                           THEN "QUARANTINED" ELSE leaseState[k]]
      /\ taskState' = [t \in Task |-> IF parked(t) THEN "NEEDS_ATTENTION"
                                      ELSE taskState[t]]
      /\ UNCHANGED <<contract, runTask, leaseRun, activeTask, activeRun>>
  BY DEF Quarantined, LeasedTo
<1>2. \A r \in Run : /\ Occupying(r)' <=> Occupying(r)
                     /\ RoleOf(r)' = RoleOf(r)
                     /\ (runState'[r] = "NONE") <=> (runState[r] = "NONE")
                     /\ Live(r)' <=> Live(r) /\ r \notin runs
                     /\ (runState'[r] = "UNKNOWN")
                          <=> (runState[r] = "UNKNOWN" \/ r \in runs)
  BY <1>1 DEF Occupying, Live, LiveStates, RoleOf, Assignee
<1>3. \A r \in Run : Occupying(r) /\ parked(runTask[r]) => r \in runs
  BY OneRunPerTask DEF Occupying
<1>4. \A t \in Task : parked(t) => taskState[t] \in Open
  BY DEF StructInv, RecoverySucceeds
<1>5. RunsHaveTasks' /\ RunTasksExist' /\ TasksAreContracted'
  BY <1>1, <1>2, <1>4, RunTaskType DEF StructInv, RunsHaveTasks, RunTasksExist,
     TasksAreContracted, Assignee, Open
<1>6. RecoverySucceeds' /\ UnknownIsParked'
  <2> SUFFICES ASSUME NEW r \in Run
               PROVE  /\ Live(r)' => taskState'[runTask'[r]] \in Open
                      /\ runState'[r] = "UNKNOWN"
                           => taskState'[runTask'[r]] = "NEEDS_ATTENTION"
    BY DEF RecoverySucceeds, UnknownIsParked, Live
  <2>1. CASE ~Occupying(r)
    BY <1>2, <2>1 DEF Occupying
  <2>2. CASE Occupying(r)
    <3>1. runTask[r] \in Task
      BY <2>2, OccupyingRole
    <3>2. CASE r \in runs
      BY <1>1, <1>2, <3>1, <3>2
    <3>3. CASE r \notin runs
      <4>1. ~parked(runTask[r])
        BY <1>3, <2>2, <3>3
      <4>2. taskState'[runTask'[r]] = taskState[runTask[r]]
        BY <1>1, <3>1, <4>1
      <4> QED
        BY <1>2, <3>3, <4>2 DEF StructInv, RecoverySucceeds, UnknownIsParked
    <3> QED
      BY <3>2, <3>3
  <2> QED
    BY <2>1, <2>2
<1>7. RunSlotsAgree'
  <2> SUFFICES ASSUME NEW p \in Role, NEW q \in Run
               PROVE  activeRun'[p] = q <=> Occupying(q)' /\ RoleOf(q)' = p
    BY DEF RunSlotsAgree, Occupying, Live, RoleOf, Assignee
  <2>1. activeRun[p] = q <=> Occupying(q) /\ RoleOf(q) = p
    BY DEF StructInv, RunSlotsAgree
  <2> QED
    BY <1>1, <1>2, <2>1
<1>8. TaskSlotsAgree'
  <2>1. \A t \in Task : taskState'[t] \in Open \cup {"NEEDS_ATTENTION"}
                          <=> taskState[t] \in Open \cup {"NEEDS_ATTENTION"}
    BY <1>1, <1>4
  <2> QED
    BY <1>1, <2>1 DEF StructInv, TaskSlotsAgree, Assignee
<1>9. LeasesAgree'
  <2>1. FreeLeases'
    BY <1>1 DEF StructInv, LeasesAgree, FreeLeases
  <2>2. UsedLeases'
    <3> SUFFICES ASSUME NEW k \in Resource, NEW q \in Run
                 PROVE  leaseRun'[k] = q
                          <=> Occupying(q)' /\ k \in Needs[RoleOf(q)']
      BY DEF UsedLeases, Occupying, Live, RoleOf, Assignee
    <3> QED
      BY <1>1, <1>2 DEF StructInv, LeasesAgree, UsedLeases
  <2>3. LostLeases'
    BY <1>1, <1>2 DEF StructInv, LeasesAgree, LostLeases
  <2> QED
    BY <2>1, <2>2, <2>3 DEF LeasesAgree
<1> QED
  BY <1>5, <1>6, <1>7, <1>8, <1>9 DEF StructInv

\* Every step keeps the structural invariant.
LEMMA NextStruct == TypeInv /\ StructInv /\ [Next]_vars => StructInv'
<1> SUFFICES ASSUME TypeInv, StructInv, [Next]_vars
             PROVE  StructInv'
  OBVIOUS
<1>1. CASE UserStep
  BY <1>1, CreateStruct, MoveStruct DEF UserStep
<1>2. CASE SchedulerStep
  BY <1>2, DispatchStruct, MoveStruct DEF SchedulerStep
<1>3. ASSUME NEW r \in Run, AgentStep(r)
      PROVE  StructInv'
  BY <1>3, CreateStruct, MoveStruct, HandoffStruct DEF AgentStep
<1>4. ASSUME NEW r \in Run, ExitStep(r)
      PROVE  StructInv'
  <2>1. CASE MarkUnknown(r)
    BY <2>1, QuarantinedStruct DEF MarkUnknown
  <2> QED
    BY <1>4, <2>1, SettlePublishStruct, SettleWaitingStruct,
       SettleAttentionStruct DEF ExitStep
<1>5. CASE CrashRecover
  BY <1>5, QuarantinedStruct DEF CrashRecover
<1>6. CASE UNCHANGED vars
  BY <1>6, Frame DEF vars, Live, StructInv, TasksAreContracted, Assignee
<1> QED
  BY <1>1, <1>2, <1>3, <1>4, <1>5, <1>6 DEF Next

\* The invariant is inductive, and so holds of every state.
LEMMA Invariance == Spec => [](TypeInv /\ StructInv)
  BY InitType, InitStruct, NextType, NextStruct, PTL DEF Spec

\* Slots name exactly the runs and the tasks the roles have not disposed of.
THEOREM SlotsAlwaysAgree == Spec => []SlotsAgree
<1>1. StructInv => SlotsAgree
  BY DEF StructInv, SlotsAgree
<1> QED
  BY Invariance, <1>1, PTL

\* The task slot of a role names the task it has not disposed of, whether it
\* is worked, waits or was given up (dispatch, settle and recover in core.ts).
THEOREM TaskSlotsAlwaysAgree == Spec => []TaskSlotsAgree
BY SlotsAlwaysAgree, PTL DEF SlotsAgree

\* Leases are those of the runs that may still execute.
THEOREM LeasesAlwaysAgree == Spec => []LeasesAgree
<1>1. StructInv => LeasesAgree
  BY DEF StructInv
<1> QED
  BY Invariance, <1>1, PTL

\* No settle, crash, failed launch or dispatch ever lets two runs that may be
\* executing share a workspace or an auth unit.
THEOREM ResourcesStayExclusive == Spec => []ResourcesExclusive
<1>1. TypeInv /\ StructInv => ResourcesExclusive
  <2> SUFFICES ASSUME TypeInv, StructInv, NEW r \in Run, NEW q \in Run,
                      Occupying(r), Occupying(q), r # q,
                      NEW k \in Needs[RoleOf(r)] \cap Needs[RoleOf(q)]
               PROVE  FALSE
    BY DEF ResourcesExclusive
  <2>1. k \in Resource
    BY OccupyingRole
  <2>2. leaseRun[k] = r /\ leaseRun[k] = q
    BY <2>1 DEF StructInv, LeasesAgree, UsedLeases
  <2> QED
    BY <2>2
<1> QED
  BY Invariance, <1>1, PTL

\* Recovery after a crash never meets a task it may not move.
THEOREM RecoveryAlwaysSucceeds == Spec => []RecoverySucceeds
<1>1. StructInv => RecoverySucceeds
  BY DEF StructInv
<1> QED
  BY Invariance, <1>1, PTL

-----------------------------------------------------------------------------
(* The settle barrier and the life of runs.                                  *)

\* While a task is open, its runs are live or have succeeded.
OpenTasksRunWell ==
  \A r \in Run : runTask[r] # NoTask /\ taskState[runTask[r]] \in Open
                   => Live(r) \/ runState[r] = "SUCCEEDED"

\* A task in the queue or suspended has not been started.
QueuedIsUnstarted ==
  \A r \in Run : runTask[r] # NoTask
                   => taskState[runTask[r]] \notin {"QUEUED", "SUSPENDED"}

\* A task has at most one run that did not succeed.
OthersSucceeded ==
  \A r, q \in Run : runTask[r] # NoTask /\ runTask[q] = runTask[r] /\ q # r
    => runState[r] = "SUCCEEDED" \/ runState[q] = "SUCCEEDED"

\* A result is stored by a run of its own task.
ResultsHaveRuns ==
  \A t \in Task : /\ result[t] = "NONE" <=> resultRun[t] = NoRun
                  /\ resultRun[t] # NoRun => runTask[resultRun[t]] = t

\* The state of a result goes with the state of the run that stored it.
ResultsFollowRuns ==
  \A t \in Task :
    /\ result[t] = "STAGED" => Occupying(resultRun[t])
    /\ result[t] = "PUBLISHED" => /\ taskState[t] \in Final
                                  /\ runState[resultRun[t]] = "SUCCEEDED"
    /\ result[t] = "QUARANTINED"
         => runState[resultRun[t]] \in {"FAILED", "CANCELLED"}

\* Only published results are delivered.
DeliveredIsPublished ==
  \A t \in Task : delivery[t] = "DELIVERED" => result[t] = "PUBLISHED"

\* A held request stands behind the run that staged its sender's result, and
\* is neither released nor started before that run has succeeded.
HeldIsBehindARun ==
  \A t \in Task : heldBy[t] # NoRun =>
    /\ taskState[t] # "NONE"
    /\ runTask[heldBy[t]] # NoTask /\ StagedBy(heldBy[t])
    /\ runState[heldBy[t]] # "SUCCEEDED" =>
         /\ request[t] = "HELD"
         /\ taskState[t] \in {"QUEUED", "SUSPENDED", "CANCELLED"}
         /\ \A r \in Run : runTask[r] # t

\* A task that is being executed has a live run.
ActiveIsWorkedOn ==
  \A t \in Task : taskState[t] \in {"ACTIVE", "RESULT_STAGED"}
    => \E r \in Run : runTask[r] = t /\ Live(r)

\* A task that was given up has an issue.
ParkedIsReported ==
  \A t \in Task : taskState[t] = "NEEDS_ATTENTION"
    => \E r \in issues : runTask[r] = t

LifeInv ==
  /\ OpenTasksRunWell /\ QueuedIsUnstarted /\ OthersSucceeded
  /\ ResultsHaveRuns /\ ResultsFollowRuns /\ DeliveredIsPublished
  /\ HeldIsBehindARun /\ ActiveIsWorkedOn /\ ParkedIsReported

HIDE DEF TypeInv, StructInv, TypeOK, StagedHasOutcome, TaskStates, LiveStates,
         Settled

\* The empty database satisfies the invariant.
LEMMA InitLife == Init => LifeInv
  BY DEF Init, LifeInv, OpenTasksRunWell, QueuedIsUnstarted, OthersSucceeded,
         ResultsHaveRuns, ResultsFollowRuns, DeliveredIsPublished,
         HeldIsBehindARun, ActiveIsWorkedOn, ParkedIsReported, Open

\* The types of the columns this module reasons about.
LEMMA LifeTypes ==
  ASSUME TypeInv
  PROVE  /\ runState \in [Run -> LiveStates \cup Settled \cup {"NONE", "UNKNOWN"}]
         /\ runTask \in [Run -> Task \cup {NoTask}]
         /\ taskState \in [Task -> TaskStates]
         /\ heldBy \in [Task -> Run \cup {NoRun}]
         /\ resultRun \in [Task -> Run \cup {NoRun}]
         /\ DOMAIN result = Task /\ DOMAIN delivery = Task /\ DOMAIN request = Task
         /\ DOMAIN outcome = Task /\ DOMAIN contract = Task
         /\ issues \subseteq Run
  BY DEF TypeInv, TypeOK, TaskTypes, OutboxTypes, ResultTypes, RunTypes, SlotTypes

\* What a handler changes when it neither ends a run nor stores a result.
QuietRuns ==
  \A r \in Run : /\ Live(r)' <=> Live(r)
                 /\ \A s \in Settled \cup {"UNKNOWN", "NONE"} :
                      (runState'[r] = s) <=> (runState[r] = s)
QuietTasks ==
  \A t \in Task :
    \/ taskState'[t] = taskState[t]
    \/ taskState[t] = "NONE" /\ taskState'[t] = "QUEUED"
    \/ /\ taskState[t] \in {"QUEUED", "SUSPENDED"}
       /\ taskState'[t] \in {"QUEUED", "SUSPENDED", "CANCELLED"}
    \/ taskState[t] = "ACTIVE" /\ taskState'[t] = "WAITING_INPUT"
QuietRequests ==
  \A t \in Task : request[t] = "HELD" /\ taskState[t] # "NONE"
                    => request'[t] = "HELD"

\* Such a handler keeps the invariant.
LEMMA QuietLife ==
  ASSUME TypeInv, StructInv, LifeInv, QuietRuns, QuietTasks, QuietRequests,
         UNCHANGED <<runTask, result, resultRun, delivery, heldBy, issues>>
  PROVE  LifeInv'
<1>1. \A r \in Run : runTask[r] # NoTask
                       => runTask[r] \in Task /\ taskState[runTask[r]] # "NONE"
  BY LifeTypes DEF StructInv, RunTasksExist
<1>2. OpenTasksRunWell' /\ QueuedIsUnstarted'
  BY <1>1 DEF LifeInv, OpenTasksRunWell, QueuedIsUnstarted, QuietRuns,
     QuietTasks, Open, Settled
<1>3. OthersSucceeded'
  BY DEF LifeInv, OthersSucceeded, QuietRuns, Settled
<1>4. ResultsHaveRuns' /\ DeliveredIsPublished'
  BY DEF LifeInv, ResultsHaveRuns, DeliveredIsPublished
<1>5. ResultsFollowRuns'
  <2> SUFFICES ASSUME NEW t \in Task
               PROVE  /\ result[t] = "STAGED" => Occupying(resultRun[t])'
                      /\ result[t] = "PUBLISHED"
                           => /\ taskState'[t] \in Final
                              /\ runState'[resultRun[t]] = "SUCCEEDED"
                      /\ result[t] = "QUARANTINED"
                           => runState'[resultRun[t]] \in {"FAILED", "CANCELLED"}
    BY DEF ResultsFollowRuns, Occupying, Live
  <2>1. result[t] # "NONE" => resultRun[t] \in Run
    BY LifeTypes DEF LifeInv, ResultsHaveRuns
  <2>2. /\ result[t] = "STAGED" => Occupying(resultRun[t])
        /\ result[t] = "PUBLISHED" => /\ taskState[t] \in Final
                                      /\ runState[resultRun[t]] = "SUCCEEDED"
        /\ result[t] = "QUARANTINED"
             => runState[resultRun[t]] \in {"FAILED", "CANCELLED"}
    BY DEF LifeInv, ResultsFollowRuns
  <2>3. taskState[t] \in Final => taskState'[t] = taskState[t]
    BY DEF QuietTasks, Final
  <2> QED
    BY <2>1, <2>2, <2>3 DEF QuietRuns, Occupying, Settled
<1>6. HeldIsBehindARun'
  <2> SUFFICES ASSUME NEW t \in Task, heldBy[t] # NoRun
               PROVE  /\ taskState'[t] # "NONE"
                      /\ runTask[heldBy[t]] # NoTask /\ StagedBy(heldBy[t])
                      /\ runState'[heldBy[t]] # "SUCCEEDED" =>
                           /\ request'[t] = "HELD"
                           /\ taskState'[t] \in {"QUEUED", "SUSPENDED", "CANCELLED"}
                           /\ \A r \in Run : runTask[r] # t
    BY DEF HeldIsBehindARun, StagedBy
  <2>1. heldBy[t] \in Run
    BY LifeTypes
  <2>2. /\ taskState[t] # "NONE"
        /\ runTask[heldBy[t]] # NoTask /\ StagedBy(heldBy[t])
        /\ runState[heldBy[t]] # "SUCCEEDED" =>
             /\ request[t] = "HELD"
             /\ taskState[t] \in {"QUEUED", "SUSPENDED", "CANCELLED"}
             /\ \A r \in Run : runTask[r] # t
    BY DEF LifeInv, HeldIsBehindARun
  <2>3. (runState'[heldBy[t]] = "SUCCEEDED") <=> (runState[heldBy[t]] = "SUCCEEDED")
    BY <2>1 DEF QuietRuns, Settled
  <2>4. /\ request[t] = "HELD" => request'[t] = "HELD"
        /\ taskState'[t] # "NONE"
        /\ taskState[t] \in {"QUEUED", "SUSPENDED", "CANCELLED"}
             => taskState'[t] \in {"QUEUED", "SUSPENDED", "CANCELLED"}
    BY <2>2 DEF QuietTasks, QuietRequests
  <2> QED
    BY <2>2, <2>3, <2>4
<1>7. ActiveIsWorkedOn' /\ ParkedIsReported'
  BY DEF LifeInv, ActiveIsWorkedOn, ParkedIsReported, QuietRuns, QuietTasks, Live
<1> QED
  BY <1>2, <1>3, <1>4, <1>5, <1>6, <1>7 DEF LifeInv

\* The handlers that are quiet in this sense keep the invariant.
LEMMA QuietStepLife ==
  ASSUME TypeInv, StructInv, LifeInv,
         \/ UserStep
         \/ \E o \in Role : DispatchRefused(o)
         \/ \E r \in Run : Accepted(r)
         \/ \E r \in Run, t \in Task, q \in AgentRequests : Send(r, t, q)
         \/ \E r \in Run, kind \in WaitKinds, deps \in SUBSET Task :
              Wait(r, kind, deps)
         \/ UNCHANGED vars
  PROVE  LifeInv'
<1>1. UNCHANGED <<runTask, result, resultRun, delivery, heldBy, issues>>
  BY DEF UserStep, SubmitFromUser, SendUserInput, Suspend, Resume, Cancel,
         DispatchRefused, Accepted, Send, Wait, vars
<1>2. QuietRuns
  <2>1. \/ runState' = runState
        \/ \E r \in Run : runState[r] = "STARTING"
                          /\ runState' = [runState EXCEPT ![r] = "RUNNING"]
    BY DEF UserStep, SubmitFromUser, SendUserInput, Suspend, Resume, Cancel,
           DispatchRefused, Accepted, Send, Wait, vars
  <2> QED
    BY <2>1, LifeTypes DEF QuietRuns, Live, LiveStates, Settled
<1>3. QuietTasks
  <2>1. \/ taskState' = taskState
        \/ \E t \in Task : /\ taskState[t] = "NONE"
                           /\ taskState' = [taskState EXCEPT ![t] = "QUEUED"]
        \/ \E t \in Task : /\ taskState[t] \in {"QUEUED", "SUSPENDED"}
                           /\ \E s \in {"QUEUED", "SUSPENDED", "CANCELLED"} :
                                taskState' = [taskState EXCEPT ![t] = s]
        \/ \E t : /\ taskState[t] = "ACTIVE"
                  /\ taskState' = [taskState EXCEPT ![t] = "WAITING_INPUT"]
    BY DEF UserStep, SubmitFromUser, SendUserInput, Suspend, Resume, Cancel,
           Movable, DispatchRefused, Accepted, Send, Wait, Fresh, vars
  <2> QED
    BY <2>1, LifeTypes DEF QuietTasks
<1>4. QuietRequests
  <2>1. \/ request' = request
        \/ \E t \in Task : /\ taskState[t] = "NONE"
                           /\ request' = [request EXCEPT ![t] = "QUEUED"]
        \/ \E r \in Run : request' = [t \in Task |->
             IF claimedBy[t] = r /\ request[t] = "DISPATCHING"
             THEN "DELIVERED" ELSE request[t]]
    BY DEF UserStep, SubmitFromUser, SendUserInput, Suspend, Resume, Cancel,
           DispatchRefused, Accepted, Send, Wait, Fresh, vars
  <2> QED
    BY <2>1, LifeTypes DEF QuietRequests
<1> QED
  BY <1>1, <1>2, <1>3, <1>4, QuietLife

\* The work a run does is the work of a task that exists.
LEMMA RunsWorkOnTasks ==
  ASSUME TypeInv, StructInv, NEW r \in Run, runTask[r] # NoTask
  PROVE  /\ runTask[r] \in Task /\ taskState[runTask[r]] # "NONE"
         /\ runState[r] # "NONE"
  BY LifeTypes DEF StructInv, RunTasksExist, RunsHaveTasks

\* A run that is live keeps its task open and is its only run that may still
\* be executing; the others have succeeded and nothing of the task is shown.
LEMMA LiveRunLife ==
  ASSUME TypeInv, StructInv, LifeInv, NEW r \in Run, Live(r)
  PROVE  /\ runTask[r] \in Task /\ runTask[r] # NoTask
         /\ taskState[runTask[r]] \in Open
         /\ \A q \in Run : q # r /\ runTask[q] = runTask[r]
                             => runState[q] = "SUCCEEDED"
         /\ result[runTask[r]] # "PUBLISHED"
         /\ runState[r] \notin Settled \cup {"NONE", "UNKNOWN"}
<1>1. runTask[r] \in Task /\ taskState[runTask[r]] \in Open
  BY OccupyingRole DEF Occupying, StructInv, RecoverySucceeds
<1>2. runState[r] \notin Settled \cup {"NONE", "UNKNOWN"}
  BY DEF Live, LiveStates, Settled
<1>3. \A q \in Run : q # r /\ runTask[q] = runTask[r] => runState[q] = "SUCCEEDED"
  BY <1>1, <1>2 DEF LifeInv, OthersSucceeded, Settled
<1>4. result[runTask[r]] # "PUBLISHED"
  BY <1>1 DEF LifeInv, ResultsFollowRuns, Open, Final
<1> QED
  BY <1>1, <1>2, <1>3, <1>4

\* A task that is dispatched has no request held in front of it, and all its
\* earlier runs have succeeded.
LEMMA CandidateLife ==
  ASSUME TypeInv, StructInv, LifeInv, NEW o \in Role, NEW t \in Task,
         activeRun[o] = NoRun, Candidate(o, t)
  PROVE  /\ taskState[t] \in {"QUEUED", "WAITING_INPUT"}
         /\ \A q \in Run : runTask[q] = t => runState[q] = "SUCCEEDED"
         /\ heldBy[t] # NoRun => runState[heldBy[t]] = "SUCCEEDED"
         /\ result[t] # "PUBLISHED"
<1>1. \/ taskState[t] = "QUEUED" /\ request[t] = "QUEUED"
      \/ taskState[t] = "WAITING_INPUT" /\ activeTask[o] = t
  BY DEF Candidate, Oldest, Resumable, Deliverable
<1>2. \A q \in Run : runTask[q] = t => runState[q] = "SUCCEEDED"
  <2>1. CASE taskState[t] = "QUEUED"
    BY <2>1 DEF LifeInv, QueuedIsUnstarted
  <2>2. CASE taskState[t] = "WAITING_INPUT" /\ activeTask[o] = t
    <3>1. Assignee(t) = o
      BY <2>2 DEF StructInv, TaskSlotsAgree
    <3>2. \A q \in Run : runTask[q] = t => ~Occupying(q)
      BY <3>1 DEF StructInv, RunSlotsAgree, RoleOf
    <3> QED
      BY <2>2, <3>2 DEF LifeInv, OpenTasksRunWell, Occupying, Open
  <2> QED
    BY <1>1, <2>1, <2>2
<1>3. heldBy[t] # NoRun => runState[heldBy[t]] = "SUCCEEDED"
  BY <1>1 DEF LifeInv, HeldIsBehindARun
<1>4. result[t] # "PUBLISHED"
  BY <1>1 DEF LifeInv, ResultsFollowRuns, Final
<1> QED
  BY <1>1, <1>2, <1>3, <1>4

\* A dispatch keeps the invariant.
LEMMA DispatchLife ==
  ASSUME TypeInv, StructInv, LifeInv, NEW o \in Role, NEW t \in Task,
         NEW r \in Run, Dispatch(o, t, r)
  PROVE  LifeInv'
<1>1. /\ runState[r] = "NONE" /\ runTask[r] = NoTask
      /\ activeRun[o] = NoRun /\ Candidate(o, t)
      /\ runState' = [runState EXCEPT ![r] = "STARTING"]
      /\ runTask' = [runTask EXCEPT ![r] = t]
      /\ taskState' = [taskState EXCEPT ![t] = "ACTIVE"]
      /\ UNCHANGED <<result, resultRun, delivery, heldBy, issues>>
  BY DEF Dispatch, DispatchOpen, FreshRun, Deliver, StructInv, RunsHaveTasks
<1>2. /\ taskState[t] \in {"QUEUED", "WAITING_INPUT"}
      /\ \A q \in Run : runTask[q] = t => runState[q] = "SUCCEEDED"
      /\ heldBy[t] # NoRun => runState[heldBy[t]] = "SUCCEEDED"
      /\ result[t] # "PUBLISHED"
  BY <1>1, CandidateLife
<1>3. \A u \in Task : request'[u] = request[u] \/ u = t
  BY LifeTypes DEF Dispatch, Deliver
<1>4. \A q \in Run : q # r => /\ runTask'[q] = runTask[q]
                              /\ runState'[q] = runState[q]
                              /\ Live(q)' <=> Live(q)
                              /\ Occupying(q)' <=> Occupying(q)
  BY <1>1, LifeTypes DEF Live, Occupying
<1>5. runTask'[r] = t /\ runState'[r] = "STARTING" /\ Live(r)'
  BY <1>1, LifeTypes DEF Live, LiveStates
<1>6. \A u \in Task : u # t => taskState'[u] = taskState[u]
  BY <1>1, LifeTypes
<1>7. taskState'[t] = "ACTIVE"
  BY <1>1, LifeTypes
<1>8. \A u \in Task : resultRun[u] # r /\ heldBy[u] # r
  BY <1>1 DEF LifeInv, ResultsHaveRuns, HeldIsBehindARun
<1>9. OpenTasksRunWell' /\ QueuedIsUnstarted'
  <2>1. \A q \in Run : runTask'[q] # NoTask /\ runTask'[q] # t => q # r
                         /\ taskState'[runTask'[q]] = taskState[runTask[q]]
    BY <1>4, <1>5, <1>6, RunsWorkOnTasks
  <2> QED
    BY <1>2, <1>4, <1>5, <1>7, <2>1 DEF LifeInv, OpenTasksRunWell,
       QueuedIsUnstarted
<1>10. OthersSucceeded'
  BY <1>2, <1>4, <1>5 DEF LifeInv, OthersSucceeded
<1>11. ResultsHaveRuns' /\ DeliveredIsPublished'
  BY <1>1, <1>4, <1>8, LifeTypes DEF LifeInv, ResultsHaveRuns,
     DeliveredIsPublished
<1>12. ResultsFollowRuns'
  <2> SUFFICES ASSUME NEW u \in Task
               PROVE  /\ result[u] = "STAGED" => Occupying(resultRun[u])'
                      /\ result[u] = "PUBLISHED"
                           => /\ taskState'[u] \in Final
                              /\ runState'[resultRun[u]] = "SUCCEEDED"
                      /\ result[u] = "QUARANTINED"
                           => runState'[resultRun[u]] \in {"FAILED", "CANCELLED"}
    BY <1>1 DEF ResultsFollowRuns, Occupying, Live
  <2>1. result[u] # "NONE" => resultRun[u] \in Run /\ resultRun[u] # r
    BY <1>8, LifeTypes DEF LifeInv, ResultsHaveRuns
  <2>2. /\ result[u] = "STAGED" => Occupying(resultRun[u])
        /\ result[u] = "PUBLISHED" => /\ taskState[u] \in Final
                                      /\ runState[resultRun[u]] = "SUCCEEDED"
        /\ result[u] = "QUARANTINED"
             => runState[resultRun[u]] \in {"FAILED", "CANCELLED"}
    BY DEF LifeInv, ResultsFollowRuns
  <2>3. result[u] # "NONE" =>
          /\ Occupying(resultRun[u])' <=> Occupying(resultRun[u])
          /\ runState'[resultRun[u]] = runState[resultRun[u]]
    BY <1>1, <1>4, <2>1 DEF Occupying, Live
  <2>4. result[u] = "PUBLISHED" => taskState'[u] = taskState[u]
    BY <1>2, <1>6
  <2> QED
    BY <2>2, <2>3, <2>4
<1>13. HeldIsBehindARun'
  <2> SUFFICES ASSUME NEW u \in Task, heldBy[u] # NoRun
               PROVE  /\ taskState'[u] # "NONE"
                      /\ runTask'[heldBy[u]] # NoTask
                      /\ resultRun[runTask'[heldBy[u]]] = heldBy[u]
                      /\ runState'[heldBy[u]] # "SUCCEEDED" =>
                           /\ request'[u] = "HELD"
                           /\ taskState'[u] \in {"QUEUED", "SUSPENDED", "CANCELLED"}
                           /\ \A q \in Run : runTask'[q] # u
    BY <1>1 DEF HeldIsBehindARun, StagedBy
  <2>1. /\ heldBy[u] \in Run /\ runTask'[heldBy[u]] = runTask[heldBy[u]]
        /\ runState'[heldBy[u]] = runState[heldBy[u]]
    BY <1>4, <1>8, LifeTypes
  <2>2. /\ taskState[u] # "NONE"
        /\ runTask[heldBy[u]] # NoTask /\ resultRun[runTask[heldBy[u]]] = heldBy[u]
        /\ runState[heldBy[u]] # "SUCCEEDED" =>
             /\ request[u] = "HELD"
             /\ taskState[u] \in {"QUEUED", "SUSPENDED", "CANCELLED"}
             /\ \A q \in Run : runTask[q] # u
    BY DEF LifeInv, HeldIsBehindARun, StagedBy
  <2>3. CASE u = t
    BY <1>2, <1>7, <2>1, <2>2, <2>3
  <2>4. CASE u # t
    <3>1. taskState'[u] = taskState[u] /\ request'[u] = request[u]
      BY <1>3, <1>6, <2>4
    <3>2. (\A q \in Run : runTask[q] # u) => \A q \in Run : runTask'[q] # u
      BY <1>4, <1>5, <2>4
    <3> QED
      BY <2>1, <2>2, <3>1, <3>2
  <2> QED
    BY <2>3, <2>4
<1>14. ActiveIsWorkedOn'
  <2> SUFFICES ASSUME NEW u \in Task, taskState'[u] \in {"ACTIVE", "RESULT_STAGED"}
               PROVE  \E q \in Run : runTask'[q] = u /\ Live(q)'
    BY DEF ActiveIsWorkedOn, Live
  <2>1. CASE u = t
    BY <1>5, <2>1
  <2>2. CASE u # t
    <3>1. PICK q \in Run : runTask[q] = u /\ Live(q)
      BY <1>6, <2>2 DEF LifeInv, ActiveIsWorkedOn
    <3>2. q # r
      BY <1>1, <3>1
    <3> QED
      BY <1>4, <3>1, <3>2
  <2> QED
    BY <2>1, <2>2
<1>15. ParkedIsReported'
  <2> SUFFICES ASSUME NEW u \in Task, taskState'[u] = "NEEDS_ATTENTION"
               PROVE  \E q \in issues : runTask'[q] = u
    BY <1>1 DEF ParkedIsReported
  <2>1. PICK q \in issues : runTask[q] = u
    BY <1>6, <1>7 DEF LifeInv, ParkedIsReported
  <2> QED
    BY <1>1, <1>4, <2>1, LifeTypes
<1> QED
  BY <1>9, <1>10, <1>11, <1>12, <1>13, <1>14, <1>15 DEF LifeInv

\* Finishing, with a result or with a handoff, keeps the invariant.
LEMMA FinishLife ==
  ASSUME TypeInv, StructInv, LifeInv, NEW r \in Run,
         \/ \E oc \in Outcome : FinishResult(r, oc)
         \/ \E n \in Task, q \in AgentRequests : FinishHandoff(r, n, q)
  PROVE  LifeInv'
<1> DEFINE t == runTask[r]
<1>1. /\ runState[r] = "RUNNING"
      /\ taskState[t] \in {"ACTIVE", "WAITING_INPUT"} /\ result[t] = "NONE"
      /\ result' = [result EXCEPT ![t] = "STAGED"]
      /\ resultRun' = [resultRun EXCEPT ![t] = r]
      /\ runState' = [runState EXCEPT ![r] = "SETTLING"]
      /\ delivery' \in {delivery, [delivery EXCEPT ![t] = "HELD"]}
      /\ UNCHANGED <<runTask, issues>>
  BY DEF FinishResult, FinishHandoff
<1>2. \/ /\ taskState' = [taskState EXCEPT ![t] = "RESULT_STAGED"]
         /\ UNCHANGED <<heldBy, request>>
      \/ \E n \in Task :
           /\ taskState[n] = "NONE"
           /\ taskState' = [taskState EXCEPT ![t] = "RESULT_STAGED", ![n] = "QUEUED"]
           /\ request' = [request EXCEPT ![n] = "HELD"]
           /\ heldBy' = [heldBy EXCEPT ![n] = r]
  BY DEF FinishResult, FinishHandoff, Fresh
<1>3. Live(r) /\ Live(r)' /\ Occupying(r)'
  BY <1>1, LifeTypes DEF Live, LiveStates, Occupying
<1>4. /\ t \in Task /\ t # NoTask /\ runState[r] \notin Settled
      /\ \A q \in Run : q # r /\ runTask[q] = t => runState[q] = "SUCCEEDED"
  BY <1>3, LiveRunLife
<1>5. /\ result'[t] = "STAGED" /\ resultRun'[t] = r
      /\ taskState'[t] = "RESULT_STAGED" /\ delivery'[t] \in {delivery[t], "HELD"}
  BY <1>1, <1>2, <1>4, LifeTypes
<1>6. \A u \in Task : u # t =>
        /\ result'[u] = result[u] /\ resultRun'[u] = resultRun[u]
        /\ delivery'[u] = delivery[u]
        /\ \/ taskState'[u] = taskState[u] /\ heldBy'[u] = heldBy[u]
              /\ request'[u] = request[u]
           \/ /\ taskState[u] = "NONE" /\ taskState'[u] = "QUEUED"
              /\ heldBy'[u] = r /\ request'[u] = "HELD"
  BY <1>1, <1>2, LifeTypes
<1>7. heldBy'[t] = heldBy[t] /\ request'[t] = request[t]
  BY <1>1, <1>2, <1>4, LifeTypes
<1>8. \A q \in Run : /\ q # r => runState'[q] = runState[q]
                     /\ Live(q)' <=> Live(q)
                     /\ Occupying(q)' <=> Occupying(q)
  BY <1>1, <1>3, LifeTypes DEF Live, Occupying
<1>9. runState'[r] = "SETTLING"
  BY <1>1, LifeTypes
<1>10. OpenTasksRunWell' /\ QueuedIsUnstarted'
  <2>1. \A q \in Run : runTask[q] # NoTask /\ runTask[q] # t
                         => taskState'[runTask[q]] = taskState[runTask[q]]
    BY <1>6, RunsWorkOnTasks, ZenonT(30)
  <2>2. OpenTasksRunWell'
    BY <1>1, <1>3, <1>4, <1>8, <2>1 DEF LifeInv, OpenTasksRunWell
  <2>3. QueuedIsUnstarted'
    BY <1>1, <1>5, <2>1 DEF LifeInv, QueuedIsUnstarted
  <2> QED
    BY <2>2, <2>3
<1>11. OthersSucceeded'
  BY <1>1, <1>4, <1>8 DEF LifeInv, OthersSucceeded
<1>12. ResultsHaveRuns' /\ DeliveredIsPublished'
  <2>1. ResultsHaveRuns'
    BY <1>1, <1>5, <1>6 DEF LifeInv, ResultsHaveRuns
  <2>2. DeliveredIsPublished'
    BY <1>1, <1>5, <1>6 DEF LifeInv, DeliveredIsPublished
  <2> QED
    BY <2>1, <2>2
<1>13. ResultsFollowRuns'
  <2> SUFFICES ASSUME NEW u \in Task
               PROVE  /\ result'[u] = "STAGED" => Occupying(resultRun[u])'
                      /\ result'[u] = "PUBLISHED"
                           => /\ taskState'[u] \in Final
                              /\ runState'[resultRun'[u]] = "SUCCEEDED"
                      /\ result'[u] = "QUARANTINED"
                           => runState'[resultRun'[u]] \in {"FAILED", "CANCELLED"}
    BY DEF ResultsFollowRuns
  <2>1. CASE u = t
    BY <1>3, <1>5, <2>1 DEF Occupying, Live
  <2>2. CASE u # t
    <3>1. result[u] # "NONE" => resultRun[u] \in Run /\ resultRun[u] # r
      BY <2>2, LifeTypes DEF LifeInv, ResultsHaveRuns
    <3>2. /\ result[u] = "STAGED" => Occupying(resultRun[u])
          /\ result[u] = "PUBLISHED" => /\ taskState[u] \in Final
                                        /\ runState[resultRun[u]] = "SUCCEEDED"
          /\ result[u] = "QUARANTINED"
               => runState[resultRun[u]] \in {"FAILED", "CANCELLED"}
      BY DEF LifeInv, ResultsFollowRuns
    <3>3. result[u] # "NONE" => runState'[resultRun[u]] = runState[resultRun[u]]
      BY <1>8, <3>1
    <3>4. result'[u] = result[u] /\ resultRun'[u] = resultRun[u]
      BY <1>6, <2>2
    <3>5. taskState[u] \in Final => taskState'[u] = taskState[u]
      BY <1>6, <2>2 DEF Final
    <3> QED
      BY <3>2, <3>3, <3>4, <3>5 DEF Occupying, Live
  <2> QED
    BY <2>1, <2>2
<1>14. HeldIsBehindARun'
  <2> SUFFICES ASSUME NEW u \in Task, heldBy'[u] # NoRun
               PROVE  /\ taskState'[u] # "NONE"
                      /\ runTask[heldBy'[u]] # NoTask
                      /\ resultRun'[runTask[heldBy'[u]]] = heldBy'[u]
                      /\ runState'[heldBy'[u]] # "SUCCEEDED" =>
                           /\ request'[u] = "HELD"
                           /\ taskState'[u] \in {"QUEUED", "SUSPENDED", "CANCELLED"}
                           /\ \A q \in Run : runTask[q] # u
    BY <1>1 DEF HeldIsBehindARun, StagedBy
  <2>1. CASE heldBy[u] # heldBy'[u]
    BY <1>4, <1>5, <1>6, <1>7, <2>1, RunsWorkOnTasks
  <2>2. CASE heldBy[u] = heldBy'[u]
    <3>1. /\ taskState[u] # "NONE"
          /\ runTask[heldBy[u]] # NoTask /\ resultRun[runTask[heldBy[u]]] = heldBy[u]
          /\ runState[heldBy[u]] # "SUCCEEDED" =>
               /\ request[u] = "HELD"
               /\ taskState[u] \in {"QUEUED", "SUSPENDED", "CANCELLED"}
               /\ \A q \in Run : runTask[q] # u
      BY <2>2 DEF LifeInv, HeldIsBehindARun, StagedBy
    <3>2. heldBy[u] \in Run /\ runTask[heldBy[u]] \in Task
      BY <2>2, <3>1, LifeTypes
    <3>3. runTask[heldBy[u]] # t
      <4>1. resultRun[t] = NoRun
        BY <1>1, <1>4 DEF LifeInv, ResultsHaveRuns
      <4> QED
        BY <3>1, <3>2, <4>1
    <3>4. /\ runState'[heldBy[u]] = runState[heldBy[u]]
          /\ resultRun'[runTask[heldBy[u]]] = heldBy[u]
      BY <1>6, <1>8, <3>1, <3>2, <3>3
    <3>5. CASE u = t
      BY <1>4, <1>5, <2>2, <3>1, <3>4, <3>5
    <3>6. CASE u # t
      BY <1>6, <2>2, <3>1, <3>4, <3>6
    <3> QED
      BY <3>5, <3>6
  <2> QED
    BY <2>1, <2>2
<1>15. ActiveIsWorkedOn'
  BY <1>1, <1>3, <1>6, <1>8 DEF LifeInv, ActiveIsWorkedOn
<1>16. ParkedIsReported'
  BY <1>1, <1>5, <1>6 DEF LifeInv, ParkedIsReported
<1> QED
  BY <1>10, <1>11, <1>12, <1>13, <1>14, <1>15, <1>16 DEF LifeInv

\* A settle of a waiting task keeps the invariant: the run has succeeded and
\* nothing is held behind it.
LEMMA SettleWaitingLife ==
  ASSUME TypeInv, StructInv, LifeInv, NEW r \in Run, SettleWaiting(r)
  PROVE  LifeInv'
<1> DEFINE t == runTask[r]
<1>1. /\ Live(r) /\ ~StagedBy(r) /\ taskState[t] = "WAITING_INPUT"
      /\ runState' = [runState EXCEPT ![r] = "SUCCEEDED"]
      /\ \A u \in Task : request[u] = "HELD" => request'[u] = "HELD"
      /\ UNCHANGED <<taskState, runTask, result, resultRun, delivery, heldBy, issues>>
  BY DEF SettleWaiting, LeftWaiting, EndRun, SettledAs
<1>2. /\ t \in Task /\ t # NoTask
      /\ \A q \in Run : q # r /\ runTask[q] = t => runState[q] = "SUCCEEDED"
      /\ runState[r] # "SUCCEEDED"
  BY <1>1, LiveRunLife DEF Settled
<1>3. \A q \in Run : q # r => /\ runState'[q] = runState[q]
                              /\ Live(q)' <=> Live(q)
                              /\ Occupying(q)' <=> Occupying(q)
  BY <1>1, LifeTypes DEF Live, Occupying
<1>4. runState'[r] = "SUCCEEDED"
  BY <1>1, LifeTypes
<1>5. OpenTasksRunWell' /\ QueuedIsUnstarted' /\ OthersSucceeded'
  BY <1>1, <1>3, <1>4 DEF LifeInv, OpenTasksRunWell, QueuedIsUnstarted,
     OthersSucceeded
<1>6. ResultsHaveRuns' /\ DeliveredIsPublished'
  BY <1>1 DEF LifeInv, ResultsHaveRuns, DeliveredIsPublished
<1>7. \A u \in Task : resultRun[u] # r /\ heldBy[u] # r
  BY <1>1, <1>2 DEF LifeInv, ResultsHaveRuns, HeldIsBehindARun, StagedBy
<1>8. ResultsFollowRuns'
  <2> SUFFICES ASSUME NEW u \in Task
               PROVE  /\ result[u] = "STAGED" => Occupying(resultRun[u])'
                      /\ result[u] = "PUBLISHED"
                           => /\ taskState[u] \in Final
                              /\ runState'[resultRun[u]] = "SUCCEEDED"
                      /\ result[u] = "QUARANTINED"
                           => runState'[resultRun[u]] \in {"FAILED", "CANCELLED"}
    BY <1>1 DEF ResultsFollowRuns, Occupying, Live
  <2>1. result[u] # "NONE" => runState'[resultRun[u]] = runState[resultRun[u]]
    <3>1. result[u] # "NONE" => resultRun[u] \in Run
      BY LifeTypes DEF LifeInv, ResultsHaveRuns
    <3> QED
      BY <1>3, <1>7, <3>1
  <2>2. /\ result[u] = "STAGED" => Occupying(resultRun[u])
        /\ result[u] = "PUBLISHED" => /\ taskState[u] \in Final
                                      /\ runState[resultRun[u]] = "SUCCEEDED"
        /\ result[u] = "QUARANTINED"
             => runState[resultRun[u]] \in {"FAILED", "CANCELLED"}
    BY DEF LifeInv, ResultsFollowRuns
  <2>3. result[u] = "STAGED" => Occupying(resultRun[u])'
    BY <1>1, <2>1, <2>2 DEF Occupying, Live
  <2> QED
    BY <1>1, <2>1, <2>2, <2>3
<1>9. HeldIsBehindARun'
  <2>1. \A u \in Task : heldBy[u] # NoRun
                          => runState'[heldBy[u]] = runState[heldBy[u]]
    BY <1>3, <1>7, LifeTypes
  <2> QED
    BY <1>1, <2>1 DEF LifeInv, HeldIsBehindARun, StagedBy
<1>10. ActiveIsWorkedOn' /\ ParkedIsReported'
  BY <1>1, <1>3 DEF LifeInv, ActiveIsWorkedOn, ParkedIsReported
<1> QED
  BY <1>5, <1>6, <1>8, <1>9, <1>10 DEF LifeInv

\* What the results of tasks stand on.
LEMMA ResultFacts ==
  ASSUME TypeInv, LifeInv, NEW u \in Task, result[u] # "NONE"
  PROVE  /\ resultRun[u] \in Run /\ runTask[resultRun[u]] = u
         /\ result[u] = "STAGED" => Occupying(resultRun[u])
         /\ result[u] = "PUBLISHED" => /\ taskState[u] \in Final
                                       /\ runState[resultRun[u]] = "SUCCEEDED"
         /\ result[u] = "QUARANTINED"
              => runState[resultRun[u]] \in {"FAILED", "CANCELLED"}
<1>1. resultRun[u] \in Run /\ runTask[resultRun[u]] = u
  BY LifeTypes DEF LifeInv, ResultsHaveRuns
<1> QED
  BY <1>1 DEF LifeInv, ResultsFollowRuns

\* What a held request stands on.
LEMMA HeldFacts ==
  ASSUME TypeInv, LifeInv, NEW u \in Task, heldBy[u] # NoRun
  PROVE  /\ heldBy[u] \in Run /\ runTask[heldBy[u]] \in Task
         /\ runTask[heldBy[u]] # NoTask /\ resultRun[runTask[heldBy[u]]] = heldBy[u]
         /\ taskState[u] # "NONE"
         /\ runState[heldBy[u]] # "SUCCEEDED" =>
              /\ request[u] = "HELD"
              /\ taskState[u] \in {"QUEUED", "SUSPENDED", "CANCELLED"}
              /\ \A r \in Run : runTask[r] # u
<1>1. heldBy[u] \in Run
  BY LifeTypes
<1>2. runTask[heldBy[u]] \in Task \cup {NoTask}
  BY <1>1, LifeTypes
<1> QED
  BY <1>1, <1>2 DEF LifeInv, HeldIsBehindARun, StagedBy

\* The end of a run keeps the invariant when its task leaves the open states
\* and its result, if it stored one, goes the way of the run.
LEMMA EndRunLife ==
  ASSUME TypeInv, StructInv, LifeInv, NEW r \in Run, Live(r),
         NEW s \in Settled, runState' = [runState EXCEPT ![r] = s],
         UNCHANGED <<runTask, resultRun, heldBy>>,
         taskState'[runTask[r]] \in Final \cup {"NEEDS_ATTENTION"},
         taskState'[runTask[r]] = "NEEDS_ATTENTION" => r \in issues',
         issues \subseteq issues', issues' \subseteq Run,
         \A u \in Task : u # runTask[r] =>
           \/ taskState'[u] = taskState[u]
           \/ taskState[u] = "NONE" /\ taskState'[u] = "QUEUED",
         \A u \in Task : result'[u] = result[u] \/ (u = runTask[r] /\ StagedBy(r)),
         \A u \in Task : heldBy[u] # r /\ request[u] = "HELD" /\ taskState[u] # "NONE"
                           => request'[u] = "HELD",
         \/ s = "SUCCEEDED"
         \/ \A u \in Task : request[u] = "HELD" => request'[u] = "HELD",
         StagedBy(r) => \/ s = "SUCCEEDED" /\ result'[runTask[r]] = "PUBLISHED"
                           /\ taskState'[runTask[r]] \in Final
                        \/ /\ s \in {"FAILED", "CANCELLED"}
                           /\ result'[runTask[r]] = "QUARANTINED",
         \A u \in Task : delivery'[u] = "DELIVERED"
                           => \/ delivery[u] = "DELIVERED"
                              \/ u = runTask[r] /\ result'[u] = "PUBLISHED"
  PROVE  LifeInv'
<1> DEFINE t == runTask[r]
<1>1. /\ t \in Task /\ t # NoTask /\ taskState[t] \in Open
      /\ \A q \in Run : q # r /\ runTask[q] = t => runState[q] = "SUCCEEDED"
      /\ result[t] # "PUBLISHED"
      /\ runState[r] # "SUCCEEDED" /\ Occupying(r)
  BY LiveRunLife DEF Settled, Occupying
<1>2. runState'[r] = s
  BY LifeTypes
<1>3. \A q \in Run : q # r => /\ runState'[q] = runState[q]
                              /\ Live(q)' <=> Live(q)
                              /\ Occupying(q)' <=> Occupying(q)
  BY LifeTypes DEF Live, Occupying
<1>4. \A q \in Run : runTask[q] # NoTask /\ runTask[q] # t
                       => taskState'[runTask[q]] = taskState[runTask[q]]
  BY RunsWorkOnTasks
<1>5. OpenTasksRunWell'
  <2>1. \A q \in Run : runTask[q] = t => taskState'[runTask[q]] \notin Open
    BY DEF Open, Final
  <2> QED
    BY <1>3, <1>4, <2>1 DEF LifeInv, OpenTasksRunWell
<1>6. QueuedIsUnstarted'
  <2>1. \A q \in Run : runTask[q] = t
          => taskState'[runTask[q]] \notin {"QUEUED", "SUSPENDED"}
    BY DEF Final
  <2> QED
    BY <1>4, <2>1 DEF LifeInv, QueuedIsUnstarted
<1>7. OthersSucceeded'
  BY <1>1, <1>3 DEF LifeInv, OthersSucceeded
<1>8. ResultsHaveRuns'
  <2>1. StagedBy(r) => resultRun[t] = r /\ result'[t] # "NONE"
    BY DEF StagedBy
  <2> QED
    BY <2>1 DEF LifeInv, ResultsHaveRuns
<1>9. DeliveredIsPublished'
  BY <1>1 DEF LifeInv, DeliveredIsPublished
<1>10. ResultsFollowRuns'
  <2> SUFFICES ASSUME NEW u \in Task, result'[u] # "NONE"
               PROVE  /\ result'[u] = "STAGED" => Occupying(resultRun[u])'
                      /\ result'[u] = "PUBLISHED"
                           => /\ taskState'[u] \in Final
                              /\ runState'[resultRun[u]] = "SUCCEEDED"
                      /\ result'[u] = "QUARANTINED"
                           => runState'[resultRun[u]] \in {"FAILED", "CANCELLED"}
    BY DEF ResultsFollowRuns, Occupying, Live
  <2>1. CASE u = t /\ StagedBy(r)
    BY <1>2, <2>1 DEF StagedBy
  <2>2. CASE ~(u = t /\ StagedBy(r))
    <3>1. result'[u] = result[u]
      BY <2>2
    <3>2. /\ resultRun[u] \in Run /\ runTask[resultRun[u]] = u
          /\ result[u] = "STAGED" => Occupying(resultRun[u])
          /\ result[u] = "PUBLISHED" => /\ taskState[u] \in Final
                                        /\ runState[resultRun[u]] = "SUCCEEDED"
          /\ result[u] = "QUARANTINED"
               => runState[resultRun[u]] \in {"FAILED", "CANCELLED"}
      BY <3>1, ResultFacts
    <3>3. resultRun[u] # r
      BY <2>2, <3>2 DEF StagedBy
    <3>4. /\ runState'[resultRun[u]] = runState[resultRun[u]]
          /\ Occupying(resultRun[u]) => Occupying(resultRun[u])'
      BY <1>3, <3>2, <3>3 DEF Occupying, Live
    <3>5. result[u] = "PUBLISHED" => taskState'[u] = taskState[u]
      BY <1>1, <3>2 DEF Final
    <3> QED
      BY <3>1, <3>2, <3>4, <3>5
  <2> QED
    BY <2>1, <2>2
<1>11. HeldIsBehindARun'
  <2> SUFFICES ASSUME NEW u \in Task, heldBy[u] # NoRun
               PROVE  /\ taskState'[u] # "NONE"
                      /\ runTask[heldBy[u]] # NoTask
                      /\ resultRun[runTask[heldBy[u]]] = heldBy[u]
                      /\ runState'[heldBy[u]] # "SUCCEEDED" =>
                           /\ request'[u] = "HELD"
                           /\ taskState'[u] \in {"QUEUED", "SUSPENDED", "CANCELLED"}
                           /\ \A q \in Run : runTask[q] # u
    BY DEF HeldIsBehindARun, StagedBy
  <2>1. /\ heldBy[u] \in Run /\ runTask[heldBy[u]] # NoTask
        /\ resultRun[runTask[heldBy[u]]] = heldBy[u] /\ taskState[u] # "NONE"
    BY HeldFacts
  <2>2. taskState'[u] # "NONE" /\ (u = t \/ taskState'[u] = taskState[u])
    BY <2>1 DEF Final
  <2>3. ASSUME runState'[heldBy[u]] # "SUCCEEDED"
        PROVE  /\ request'[u] = "HELD"
               /\ taskState'[u] \in {"QUEUED", "SUSPENDED", "CANCELLED"}
               /\ \A q \in Run : runTask[q] # u
    <3>1. runState[heldBy[u]] # "SUCCEEDED"
      BY <1>1, <1>3, <2>1, <2>3
    <3>2. /\ request[u] = "HELD"
          /\ taskState[u] \in {"QUEUED", "SUSPENDED", "CANCELLED"}
          /\ \A q \in Run : runTask[q] # u
      BY <3>1, HeldFacts
    <3>3. request'[u] = "HELD"
      BY <1>2, <2>1, <2>3, <3>2
    <3> QED
      BY <2>2, <3>2, <3>3
  <2> QED
    BY <2>1, <2>2, <2>3
<1>12. ActiveIsWorkedOn'
  <2> SUFFICES ASSUME NEW u \in Task, taskState'[u] \in {"ACTIVE", "RESULT_STAGED"}
               PROVE  \E q \in Run : runTask[q] = u /\ Live(q)'
    BY DEF ActiveIsWorkedOn, Live
  <2>1. u # t /\ taskState[u] \in {"ACTIVE", "RESULT_STAGED"}
    BY DEF Final
  <2>2. PICK q \in Run : runTask[q] = u /\ Live(q)
    BY <2>1 DEF LifeInv, ActiveIsWorkedOn
  <2> QED
    BY <1>3, <2>1, <2>2
<1>13. ParkedIsReported'
  BY DEF LifeInv, ParkedIsReported
<1> QED
  BY <1>5, <1>6, <1>7, <1>8, <1>9, <1>10, <1>11, <1>12, <1>13 DEF LifeInv

\* A settle that leaves the task to the user keeps the invariant.
LEMMA SettleAttentionLife ==
  ASSUME TypeInv, StructInv, LifeInv, NEW r \in Run,
         NEW out \in {"succeeded", "failed", "cancelled"}, SettleAttention(r, out)
  PROVE  LifeInv'
<1> DEFINE t == runTask[r]
<1>1. /\ Live(r) /\ SettledAs(out) \in Settled
      /\ StagedBy(r) => SettledAs(out) \in {"FAILED", "CANCELLED"}
      /\ runState' = [runState EXCEPT ![r] = SettledAs(out)]
      /\ UNCHANGED <<runTask, resultRun, heldBy, delivery>>
      /\ issues' = issues \cup {r}
  BY DEF SettleAttention, EndRun, SettledAs, Settled
<1>2. t \in Task
  BY <1>1, LiveRunLife
<1>3. \A u \in Task : taskState'[u] = IF u = t THEN "NEEDS_ATTENTION"
                                      ELSE taskState[u]
  BY LifeTypes DEF SettleAttention
<1>4. /\ StagedBy(r) => result' = [result EXCEPT ![t] = "QUARANTINED"]
      /\ ~StagedBy(r) => result' = result
  BY DEF SettleAttention
<1>5. \A u \in Task : request[u] = "HELD" => request'[u] = "HELD"
  BY DEF SettleAttention
<1>6. issues \subseteq Run
  BY LifeTypes
<1>7. \A u \in Task : result'[u] = result[u] \/ (u = runTask[r] /\ StagedBy(r))
  BY <1>4, LifeTypes
<1>8. StagedBy(r) => result'[t] = "QUARANTINED"
  BY <1>2, <1>4, LifeTypes
<1>9. \A u \in Task : u # runTask[r] =>
           \/ taskState'[u] = taskState[u]
           \/ taskState[u] = "NONE" /\ taskState'[u] = "QUEUED"
  BY <1>3
<1> QED
  BY <1>1, <1>2, <1>3, <1>5, <1>6, <1>7, <1>8, <1>9, EndRunLife

\* A settle that publishes keeps the invariant.
LEMMA SettlePublishLife ==
  ASSUME TypeInv, StructInv, LifeInv, NEW r \in Run, NEW h \in Task,
         SettlePublish(r, h)
  PROVE  LifeInv'
<1> DEFINE t == runTask[r]
<1>1. /\ Live(r) /\ StagedBy(r)
      /\ runState' = [runState EXCEPT ![r] = "SUCCEEDED"]
      /\ result' = [result EXCEPT ![t] = "PUBLISHED"]
      /\ delivery' = [delivery EXCEPT ![t] = IF @ = "HELD" THEN "DELIVERED" ELSE @]
      /\ UNCHANGED <<runTask, resultRun, heldBy, issues>>
  BY DEF SettlePublish, EndRun, SettledAs
<1>2. t \in Task /\ taskState[t] \in Open
  BY <1>1, LiveRunLife
<1>3. Concluded(t) \in Final
  BY <1>1, <1>2, ConcludedType DEF StagedBy
<1>4. \/ /\ taskState[h] = "NONE"
         /\ taskState' = [taskState EXCEPT ![t] = Concluded(t), ![h] = "QUEUED"]
         /\ request' = [Released(r) EXCEPT ![h] = "QUEUED"]
      \/ /\ taskState' = [taskState EXCEPT ![t] = Concluded(t)]
         /\ request' = Released(r)
  BY DEF SettlePublish, Fresh
<1>5. taskState'[t] \in Final
  BY <1>2, <1>3, <1>4, LifeTypes DEF Open
<1>6. \A u \in Task : u # t =>
           \/ taskState'[u] = taskState[u]
           \/ taskState[u] = "NONE" /\ taskState'[u] = "QUEUED"
  BY <1>4, LifeTypes
<1>7. \A u \in Task : heldBy[u] # r /\ request[u] = "HELD" /\ taskState[u] # "NONE"
                        => request'[u] = "HELD"
  BY <1>4 DEF Released
<1>8. /\ result'[t] = "PUBLISHED"
      /\ \A u \in Task : result'[u] = result[u] \/ (u = runTask[r] /\ StagedBy(r))
  BY <1>1, <1>2, LifeTypes
<1>11. \A u \in Task : delivery'[u] = "DELIVERED"
                           => \/ delivery[u] = "DELIVERED"
                              \/ u = runTask[r] /\ result'[u] = "PUBLISHED"
  BY <1>1, <1>2, <1>8, LifeTypes
<1>12. taskState'[runTask[r]] = "NEEDS_ATTENTION" => r \in issues'
  BY <1>5 DEF Final
<1>9. issues \subseteq issues' /\ issues' \subseteq Run /\ "SUCCEEDED" \in Settled
  BY <1>1, LifeTypes DEF Settled
<1>10. UNCHANGED <<runTask, resultRun, heldBy>>
  BY <1>1
<1> QED
  BY <1>1, <1>5, <1>6, <1>7, <1>8, <1>9, <1>10, <1>11, <1>12, EndRunLife

\* Giving up on live runs keeps the invariant.
LEMMA QuarantinedLife ==
  ASSUME TypeInv, StructInv, LifeInv, NEW runs \in SUBSET Run,
         \A r \in runs : Live(r), Quarantined(runs),
         \A u \in Task : request[u] = "HELD" => request'[u] = "HELD"
  PROVE  LifeInv'
<1> DEFINE parked(u) == \E r \in runs : runTask[r] = u
<1>1. /\ \A r \in Run : runState'[r] = IF r \in runs THEN "UNKNOWN" ELSE runState[r]
      /\ \A u \in Task : taskState'[u] = IF parked(u) THEN "NEEDS_ATTENTION"
                                         ELSE taskState[u]
      /\ issues' = issues \cup runs
      /\ UNCHANGED <<runTask, result, resultRun, delivery, heldBy>>
  BY DEF Quarantined
<1>2. \A r \in runs : /\ runTask[r] \in Task /\ taskState[runTask[r]] \in Open
                      /\ runState[r] \notin Settled
                      /\ \A q \in Run : q # r /\ runTask[q] = runTask[r]
                                          => runState[q] = "SUCCEEDED"
                      /\ result[runTask[r]] # "PUBLISHED"
  BY LiveRunLife
<1>3. /\ \A r \in Run \ runs : Live(r)' <=> Live(r)
      /\ \A r \in Run : Occupying(r)' <=> Occupying(r)
  BY <1>1 DEF Live, Occupying
<1>4. \A r \in Run : (runState'[r] = "SUCCEEDED") <=> (runState[r] = "SUCCEEDED")
  BY <1>1, <1>2 DEF Settled
<1>5. OpenTasksRunWell' /\ QueuedIsUnstarted'
  <2> SUFFICES ASSUME NEW q \in Run, runTask[q] # NoTask
               PROVE  /\ taskState'[runTask[q]] \in Open
                           => Live(q)' \/ runState'[q] = "SUCCEEDED"
                      /\ taskState'[runTask[q]] \notin {"QUEUED", "SUSPENDED"}
    BY <1>1 DEF OpenTasksRunWell, QueuedIsUnstarted, Live
  <2>1. runTask[q] \in Task
    BY LifeTypes
  <2>2. CASE parked(runTask[q])
    BY <1>1, <2>1, <2>2 DEF Open
  <2>3. CASE ~parked(runTask[q])
    BY <1>1, <1>3, <1>4, <2>1, <2>3 DEF LifeInv, OpenTasksRunWell, QueuedIsUnstarted
  <2> QED
    BY <2>2, <2>3
<1>6. OthersSucceeded'
  BY <1>1, <1>4 DEF LifeInv, OthersSucceeded
<1>7. ResultsHaveRuns' /\ DeliveredIsPublished'
  BY <1>1 DEF LifeInv, ResultsHaveRuns, DeliveredIsPublished
<1>8. ResultsFollowRuns'
  <2> SUFFICES ASSUME NEW u \in Task, result[u] # "NONE"
               PROVE  /\ result[u] = "STAGED" => Occupying(resultRun[u])'
                      /\ result[u] = "PUBLISHED"
                           => /\ taskState'[u] \in Final
                              /\ runState'[resultRun[u]] = "SUCCEEDED"
                      /\ result[u] = "QUARANTINED"
                           => runState'[resultRun[u]] \in {"FAILED", "CANCELLED"}
    BY <1>1 DEF ResultsFollowRuns, Occupying, Live
  <2>1. /\ resultRun[u] \in Run /\ runTask[resultRun[u]] = u
        /\ result[u] = "STAGED" => Occupying(resultRun[u])
        /\ result[u] = "PUBLISHED" => /\ taskState[u] \in Final
                                      /\ runState[resultRun[u]] = "SUCCEEDED"
        /\ result[u] = "QUARANTINED"
             => runState[resultRun[u]] \in {"FAILED", "CANCELLED"}
    BY ResultFacts
  <2>2. Occupying(resultRun[u])' <=> Occupying(resultRun[u])
    BY <1>1, <1>3, <2>1 DEF Occupying, Live
  <2>3. result[u] = "PUBLISHED" => ~parked(u)
    BY <1>2
  <2>4. runState[resultRun[u]] \in Settled => runState'[resultRun[u]] = runState[resultRun[u]]
    BY <1>1, <1>2, <2>1
  <2> QED
    BY <1>1, <2>1, <2>2, <2>3, <2>4 DEF Settled
<1>9. HeldIsBehindARun'
  <2> SUFFICES ASSUME NEW u \in Task, heldBy[u] # NoRun
               PROVE  /\ taskState'[u] # "NONE"
                      /\ runTask[heldBy[u]] # NoTask
                      /\ resultRun[runTask[heldBy[u]]] = heldBy[u]
                      /\ runState'[heldBy[u]] # "SUCCEEDED" =>
                           /\ request'[u] = "HELD"
                           /\ taskState'[u] \in {"QUEUED", "SUSPENDED", "CANCELLED"}
                           /\ \A q \in Run : runTask[q] # u
    BY <1>1 DEF HeldIsBehindARun, StagedBy
  <2>1. /\ heldBy[u] \in Run /\ runTask[heldBy[u]] # NoTask
        /\ resultRun[runTask[heldBy[u]]] = heldBy[u] /\ taskState[u] # "NONE"
        /\ runState[heldBy[u]] # "SUCCEEDED" =>
             /\ request[u] = "HELD"
             /\ taskState[u] \in {"QUEUED", "SUSPENDED", "CANCELLED"}
             /\ \A q \in Run : runTask[q] # u
    BY HeldFacts
  <2>2. (\A q \in Run : runTask[q] # u) => ~parked(u)
    OBVIOUS
  <2> QED
    BY <1>1, <1>4, <2>1, <2>2
<1>10. ActiveIsWorkedOn'
  <2> SUFFICES ASSUME NEW u \in Task, taskState'[u] \in {"ACTIVE", "RESULT_STAGED"}
               PROVE  \E q \in Run : runTask[q] = u /\ Live(q)'
    BY <1>1 DEF ActiveIsWorkedOn, Live
  <2>1. ~parked(u) /\ taskState[u] \in {"ACTIVE", "RESULT_STAGED"}
    BY <1>1
  <2>2. PICK q \in Run : runTask[q] = u /\ Live(q)
    BY <2>1 DEF LifeInv, ActiveIsWorkedOn
  <2> QED
    BY <1>3, <2>1, <2>2
<1>11. ParkedIsReported'
  BY <1>1 DEF LifeInv, ParkedIsReported
<1> QED
  BY <1>5, <1>6, <1>7, <1>8, <1>9, <1>10, <1>11 DEF LifeInv

\* Every step keeps the invariant.
LEMMA NextLife == TypeInv /\ StructInv /\ LifeInv /\ [Next]_vars => LifeInv'
<1> SUFFICES ASSUME TypeInv, StructInv, LifeInv, [Next]_vars
             PROVE  LifeInv'
  OBVIOUS
<1>1. CASE UserStep \/ UNCHANGED vars
  BY <1>1, QuietStepLife
<1>2. CASE SchedulerStep
  BY <1>2, DispatchLife, QuietStepLife DEF SchedulerStep
<1>3. ASSUME NEW r \in Run, AgentStep(r)
      PROVE  LifeInv'
  <2>1. CASE Accepted(r) \/ (\E t \in Task, q \in AgentRequests : Send(r, t, q))
    BY <2>1, QuietStepLife
  <2>2. CASE \E kind \in WaitKinds, deps \in SUBSET Task : Wait(r, kind, deps)
    BY <2>2, QuietStepLife
  <2>3. CASE \/ \E oc \in Outcome : FinishResult(r, oc)
             \/ \E n \in Task, q \in AgentRequests : FinishHandoff(r, n, q)
    BY <2>3, FinishLife
  <2> QED
    BY <1>3, <2>1, <2>2, <2>3 DEF AgentStep
<1>4. ASSUME NEW r \in Run, ExitStep(r)
      PROVE  LifeInv'
  <2>1. CASE MarkUnknown(r)
    BY <2>1, QuarantinedLife DEF MarkUnknown
  <2> QED
    BY <1>4, <2>1, SettlePublishLife, SettleWaitingLife, SettleAttentionLife
       DEF ExitStep
<1>5. CASE CrashRecover
  <2> DEFINE lost == {r \in Run : Live(r)}
  <2>1. /\ Quarantined(lost)
        /\ \A u \in Task : request[u] = "HELD" => request'[u] = "HELD"
    BY <1>5 DEF CrashRecover
  <2> QED
    BY <2>1, QuarantinedLife
<1> QED
  BY <1>1, <1>2, <1>3, <1>4, <1>5 DEF Next

\* The invariant holds of every state.
LEMMA LifeInvariance == Spec => [](TypeInv /\ StructInv /\ LifeInv)
<1>1. Init => LifeInv
  BY InitLife
<1>2. TypeInv /\ StructInv /\ LifeInv /\ [Next]_vars => LifeInv'
  BY NextLife
<1> QED
  BY Invariance, <1>1, <1>2, PTL DEF Spec

-----------------------------------------------------------------------------
\* The settle barrier, for every set of tasks, runs and requests: nothing a run
\* produced is published, delivered, released or started before that run has
\* settled as SUCCEEDED.
THEOREM BarrierAlwaysHolds == Spec => []BarrierHolds
<1>1. TypeInv /\ StructInv /\ LifeInv => BarrierHolds
  <2> SUFFICES ASSUME TypeInv, StructInv, LifeInv
               PROVE  BarrierHolds
    OBVIOUS
  <2>1. \A t \in Task : result[t] = "PUBLISHED"
                          => runState[resultRun[t]] = "SUCCEEDED"
    BY DEF LifeInv, ResultsFollowRuns
  <2>2. \A t \in Task : delivery[t] = "DELIVERED" => result[t] = "PUBLISHED"
    BY DEF LifeInv, DeliveredIsPublished
  <2>3. \A t \in Task : heldBy[t] # NoRun /\ runState[heldBy[t]] # "SUCCEEDED"
          => request[t] = "HELD" /\ \A r \in Run : runTask[r] # t
    BY DEF LifeInv, HeldIsBehindARun
  <2> QED
    BY <2>1, <2>2, <2>3 DEF BarrierHolds
<1> QED
  BY LifeInvariance, <1>1, PTL

\* An execution of unknown outcome keeps its role and its task to itself: no
\* dispatch, crash or user operation starts another run of the same task.
THEOREM UnknownIsNeverRerun == Spec => []UnknownIsNotRerun
<1>1. TypeInv /\ StructInv /\ LifeInv => UnknownIsNotRerun
  <2> SUFFICES ASSUME TypeInv, StructInv, LifeInv,
                      NEW r \in Run, runState[r] = "UNKNOWN"
               PROVE  /\ taskState[runTask[r]] = "NEEDS_ATTENTION"
                      /\ activeRun[RoleOf(r)] = r
                      /\ \A q \in Run : runTask[q] = runTask[r] /\ q # r
                           => /\ runState[q] = "SUCCEEDED"
                              /\ result[runTask[r]] # "PUBLISHED"
    BY DEF UnknownIsNotRerun
  <2>1. taskState[runTask[r]] = "NEEDS_ATTENTION"
    BY DEF StructInv, UnknownIsParked
  <2>2. runTask[r] \in Task /\ runTask[r] # NoTask /\ RoleOf(r) \in Role
    BY OccupyingRole DEF Occupying
  <2>3. activeRun[RoleOf(r)] = r
    BY <2>2 DEF StructInv, RunSlotsAgree, Occupying
  <2>4. \A q \in Run : runTask[q] = runTask[r] /\ q # r => runState[q] = "SUCCEEDED"
    BY <2>2 DEF LifeInv, OthersSucceeded
  <2>5. result[runTask[r]] # "PUBLISHED"
    BY <2>1, <2>2 DEF LifeInv, ResultsFollowRuns, Final
  <2> QED
    BY <2>1, <2>3, <2>4, <2>5
<1> QED
  BY LifeInvariance, <1>1, PTL

\* An open task is being executed by a run that has yet to settle, or waits
\* with all its runs succeeded, and what was given up is reported.
THEOREM NothingIsEverAbandoned == Spec => []NothingIsAbandoned
<1>1. TypeInv /\ StructInv /\ LifeInv => NothingIsAbandoned
  <2> SUFFICES ASSUME TypeInv, StructInv, LifeInv, NEW t \in Task
               PROVE  /\ taskState[t] \in Open =>
                           \/ \E r \in Run : runTask[r] = t /\ Live(r)
                           \/ /\ taskState[t] = "WAITING_INPUT"
                              /\ \A r \in Run : runTask[r] = t
                                   => runState[r] = "SUCCEEDED"
                      /\ taskState[t] = "NEEDS_ATTENTION"
                           => \E r \in issues : runTask[r] = t
    BY DEF NothingIsAbandoned
  <2>1. taskState[t] = "NEEDS_ATTENTION" => \E r \in issues : runTask[r] = t
    BY DEF LifeInv, ParkedIsReported
  <2>2. taskState[t] \in {"ACTIVE", "RESULT_STAGED"}
          => \E r \in Run : runTask[r] = t /\ Live(r)
    BY DEF LifeInv, ActiveIsWorkedOn
  <2>3. taskState[t] = "WAITING_INPUT" =>
          \A r \in Run : runTask[r] = t => Live(r) \/ runState[r] = "SUCCEEDED"
    BY DEF LifeInv, OpenTasksRunWell, Open
  <2> QED
    BY <2>1, <2>2, <2>3 DEF Open
<1> QED
  BY LifeInvariance, <1>1, PTL
=============================================================================
