---------------------------- MODULE RouteWakeProofs ----------------------------
(***************************************************************************)
(* Where results and answers go, for every set of roles, tasks and runs: a  *)
(* delivered result reaches the role it is addressed to, a waiting task is  *)
(* ready exactly when what it waits for is there, and answers stay paired   *)
(* with the questions.  Then the kernel implements RoutePromise.            *)
(***************************************************************************)
EXTENDS RouteCoreRefinement, RouteCoreProofs

USE ConstantAssumption DEF ConstantAssumption
USE DEF taskVars, bornVars, outboxVars, resultVars, waitVars, runVars,
        leaseVars, slotVars

\* The task a task descends from, and the one that handles its result, exist.
LineageExists ==
  \A t \in Task :
    /\ parent[t] # NoTask => taskState[t] # "NONE" /\ taskState[parent[t]] # "NONE"
    /\ handling[t] # NoTask => /\ taskState[handling[t]] # "NONE"
                               /\ delivery[t] = "DELIVERED"
    /\ continuation[t] # "NONE" => parent[t] # NoTask

\* Only a stored result has a task.result message, and a handoff has none.
OnlyResultsAreSent ==
  \A t \in Task : delivery[t] # "NONE" =>
    /\ taskState[t] # "NONE" /\ result[t] # "NONE"
    /\ outcome[t] = "succeeded" => contract[t].mode = "result"

ReachInv == LineageExists /\ OnlyResultsAreSent /\ ResultReachesRole

\* What is read of a wait and of the answers to it.
InputsFollowWait(t) ==
  /\ \A i \in inputs[t] : /\ i.gen <= wait[t].gen
                          /\ i.by # NoRun => runTask[i.by] # NoTask
  /\ taskState[t] \in {"NONE", "QUEUED", "SUSPENDED"} => inputs[t] = {}
  /\ taskState[t] = "ACTIVE" => \A i \in inputs[t] : i.by # NoRun

InputsPaired(t) ==
  /\ \A i, j \in inputs[t] :
       i.gen = j.gen \/ (i.by = j.by /\ i.by # NoRun) => i = j
  /\ \A i \in inputs[t] : i.by = NoRun
       => wait[t].kind = "user_input" /\ i.gen = wait[t].gen

\* A task waits for children whose result comes back to its own role.
DepsComeBack(t) ==
  /\ wait[t].kind # "none" => taskState[t] # "NONE"
  /\ wait[t].kind = "child_results" => wait[t].deps \subseteq Awaitable(t)

\* The stored flag says whether what is waited for is there.
ReadyRight(t) ==
  taskState[t] = "WAITING_INPUT" =>
    /\ wait[t].kind = "child_results"
         => (wait[t].ready <=> Answered(wait[t].deps, result))
    /\ wait[t].kind = "user_input"
         => (wait[t].ready <=> \E i \in inputs[t] : i.by = NoRun)
    /\ wait[t].kind \notin {"child_results", "user_input"} => ~wait[t].ready

WakeOf(t) == /\ InputsFollowWait(t) /\ InputsPaired(t)
             /\ DepsComeBack(t) /\ ReadyRight(t)

WakeInv == \A t \in Task : WakeOf(t)

HIDE DEF TypeInv, StructInv, LifeInv, TypeOK, StagedHasOutcome, TaskStates,
         LiveStates, Settled

\* The types of the columns this module reasons about.
LEMMA WakeTypes ==
  ASSUME TypeInv
  PROVE  /\ parent \in [Task -> Task \cup {NoTask}]
         /\ DOMAIN contract = Task
         /\ DOMAIN continuation = Task
         /\ handling \in [Task -> Task \cup {NoTask}]
         /\ wait \in [Task -> WaitRecord]
         /\ inputs \in [Task -> SUBSET Input]
         /\ \A t \in Task : \A i \in inputs[t] :
              i \in Input /\ i.gen \in Nat /\ i.by \in Run \cup {NoRun}
         /\ \A t \in Task : wait[t] \in WaitRecord /\ wait[t].gen \in Nat
                            /\ wait[t].ready \in BOOLEAN
                            /\ wait[t].deps \subseteq Task
<1>1. /\ parent \in [Task -> Task \cup {NoTask}]
      /\ DOMAIN contract = Task
      /\ DOMAIN continuation = Task
      /\ handling \in [Task -> Task \cup {NoTask}]
      /\ wait \in [Task -> WaitRecord]
      /\ inputs \in [Task -> SUBSET Input]
  BY DEF TypeInv, TypeOK, TaskTypes, ResultTypes, WaitTypes
<1>2. \A t \in Task : \A i \in inputs[t] :
        i \in Input /\ i.gen \in Nat /\ i.by \in Run \cup {NoRun}
  BY <1>1 DEF Input
<1>3. \A t \in Task : wait[t] \in WaitRecord /\ wait[t].gen \in Nat
                      /\ wait[t].ready \in BOOLEAN /\ wait[t].deps \subseteq Task
  BY <1>1 DEF WaitRecord
<1> QED
  BY <1>1, <1>2, <1>3

\* The empty database satisfies both invariants.
LEMMA InitReach == Init => ReachInv /\ WakeInv
  BY DEF Init, ReachInv, LineageExists, OnlyResultsAreSent, ResultReachesRole,
         WakeInv, WakeOf, InputsFollowWait, InputsPaired, DepsComeBack,
         ReadyRight, NoWait

-----------------------------------------------------------------------------
(***************************************************************************)
(* Results reach the role they are addressed to.                            *)
(***************************************************************************)

\* What every handler leaves of the tasks that exist: their request and their
\* lineage, and a new task descends from one that exists.
TasksKeepTheirs ==
  /\ \A t \in Task : taskState[t] # "NONE"
       => /\ taskState'[t] # "NONE"
          /\ contract'[t] = contract[t] /\ parent'[t] = parent[t]
  /\ \A t \in Task : taskState[t] = "NONE" /\ parent'[t] # NoTask
       => \/ parent'[t] = parent[t]
          \/ taskState'[t] # "NONE" /\ taskState'[parent'[t]] # "NONE"

\* Every handler keeps the tasks that exist.
LEMMA NextKeeps == TypeInv /\ StructInv /\ [Next]_vars => TasksKeepTheirs
<1> SUFFICES ASSUME TypeInv, StructInv, [Next]_vars
             PROVE  TasksKeepTheirs
  OBVIOUS
<1> DEFINE Grows(n) ==
      /\ taskState[n] = "NONE"
      /\ taskState'[n] # "NONE"
      /\ \A t \in Task : t # n => /\ contract'[t] = contract[t]
                                  /\ parent'[t] = parent[t]
                                  /\ taskState[t] # "NONE" => taskState'[t] # "NONE"
      /\ parent'[n] # NoTask => taskState'[parent'[n]] # "NONE"
    Stays == /\ UNCHANGED bornVars
             /\ \A t \in Task : taskState[t] # "NONE" => taskState'[t] # "NONE"
<1>1. ASSUME Stays \/ \E n \in Task : Grows(n)
      PROVE  TasksKeepTheirs
  BY <1>1 DEF TasksKeepTheirs
<1> HIDE DEF Grows, Stays
<1>2. taskState \in [Task -> TaskStates]
  BY LifeTypes
<1>3. CASE UserStep
  <2>1. ASSUME NEW n \in Task, NEW q \in UserRequests, SubmitFromUser(n, q)
        PROVE  Grows(n)
    BY <2>1, <1>2, WakeTypes DEF SubmitFromUser, Fresh, Born, Grows
  <2>2. ASSUME NEW t \in Task, SendUserInput(t) \/ Suspend(t) \/ Resume(t) \/ Cancel(t)
        PROVE  Stays
    BY <2>2, <1>2 DEF SendUserInput, Suspend, Resume, Cancel, Stays
  <2> QED
    BY <1>1, <1>3, <2>1, <2>2 DEF UserStep
<1>4. CASE SchedulerStep
  <2>1. Stays
    BY <1>4, <1>2 DEF SchedulerStep, Dispatch, DispatchRefused, Stays
  <2> QED
    BY <1>1, <2>1
<1>5. ASSUME NEW r \in Run, AgentStep(r)
      PROVE  TasksKeepTheirs
  <2>1. ASSUME NEW n \in Task, NEW q \in AgentRequests, Send(r, n, q)
        PROVE  Grows(n)
    <3>1. taskState[runTask[r]] # "NONE"
      <4>1. Live(r)
        BY <2>1 DEF Send, Live, LiveStates
      <4> QED
        BY <4>1, OccupyingRole DEF Occupying
    <3> QED
      BY <2>1, <3>1, <1>2, WakeTypes DEF Send, Fresh, Born, Grows
  <2>2. ASSUME NEW n \in Task, NEW q \in AgentRequests, FinishHandoff(r, n, q)
        PROVE  Grows(n)
    <3>1. runTask[r] \in Task
      <4>1. Live(r)
        BY <2>2 DEF FinishHandoff, Live, LiveStates
      <4> QED
        BY <4>1, OccupyingRole DEF Occupying
    <3> QED
      BY <2>2, <3>1, <1>2, WakeTypes DEF FinishHandoff, Fresh, Born, Grows
  <2>3. ASSUME \/ Accepted(r) \/ \E oc \in Outcome : FinishResult(r, oc)
               \/ \E kind \in WaitKinds, deps \in SUBSET Task : Wait(r, kind, deps)
        PROVE  Stays
    BY <2>3, <1>2 DEF Accepted, FinishResult, Wait, Stays
  <2> QED
    BY <1>1, <1>5, <2>1, <2>2, <2>3 DEF AgentStep
<1>6. ASSUME NEW r \in Run, ExitStep(r)
      PROVE  TasksKeepTheirs
  <2>1. ASSUME NEW h \in Task, SettlePublish(r, h)
        PROVE  Stays \/ Grows(h)
    <3> DEFINE t == runTask[r]
    <3>1. Live(r) /\ StagedBy(r)
      BY <2>1 DEF SettlePublish
    <3>2. t \in Task /\ taskState[t] # "NONE" /\ Concluded(t) # "NONE"
      BY <3>1, OccupyingRole, ConcludedType DEF Occupying, StagedBy, Final
    <3>3. CASE NeedsHandling(t)
      BY <2>1, <3>2, <3>3, <1>2, WakeTypes DEF SettlePublish, Fresh, Born, Grows
    <3>4. CASE ~NeedsHandling(t)
      BY <2>1, <3>2, <3>4, <1>2 DEF SettlePublish, Stays
    <3> QED
      BY <3>3, <3>4
  <2>2. ASSUME \/ SettleWaiting(r) \/ MarkUnknown(r)
               \/ \E out \in {"succeeded", "failed", "cancelled"} :
                    SettleAttention(r, out)
        PROVE  Stays
    BY <2>2, <1>2 DEF SettleWaiting, SettleAttention, MarkUnknown, Quarantined, Stays
  <2> QED
    BY <1>1, <1>6, <2>1, <2>2 DEF ExitStep
<1>7. CASE CrashRecover \/ UNCHANGED vars
  <2>1. Stays
    BY <1>7 DEF CrashRecover, Quarantined, Stays, vars
  <2> QED
    BY <1>1, <2>1
<1> QED
  BY <1>3, <1>4, <1>5, <1>6, <1>7 DEF Next

\* A handler that publishes nothing keeps the invariant: at most it stores a
\* result whose message is held.
LEMMA ReachFrame ==
  ASSUME TypeInv, ReachInv, TasksKeepTheirs, UNCHANGED handling,
         \A t \in Task : (continuation'[t] # "NONE") <=> (continuation[t] # "NONE"),
         \A t \in Task : result[t] # "NONE" => result'[t] # "NONE",
         \A t \in Task :
           \/ delivery'[t] = delivery[t] /\ outcome'[t] = outcome[t]
           \/ delivery'[t] = "NONE" /\ delivery[t] = "NONE"
           \/ /\ delivery'[t] = "HELD" /\ delivery[t] = "NONE"
              /\ taskState[t] # "NONE" /\ result'[t] # "NONE"
              /\ outcome'[t] = "succeeded" => contract[t].mode = "result"
  PROVE  ReachInv'
<1>1. LineageExists'
  <2> SUFFICES ASSUME NEW t \in Task
               PROVE  /\ parent'[t] # NoTask => /\ taskState'[t] # "NONE"
                                                /\ taskState'[parent'[t]] # "NONE"
                      /\ handling[t] # NoTask => /\ taskState'[handling[t]] # "NONE"
                                                 /\ delivery'[t] = "DELIVERED"
                      /\ continuation'[t] # "NONE" => parent'[t] # NoTask
    BY DEF LineageExists
  <2>1. /\ parent[t] # NoTask => taskState[t] # "NONE" /\ taskState[parent[t]] # "NONE"
        /\ handling[t] # NoTask => /\ taskState[handling[t]] # "NONE"
                                   /\ delivery[t] = "DELIVERED"
        /\ continuation[t] # "NONE" => parent[t] # NoTask
    BY DEF ReachInv, LineageExists
  <2>2. parent[t] \in Task \cup {NoTask} /\ handling[t] \in Task \cup {NoTask}
    BY WakeTypes
  <2>3. handling[t] # NoTask => taskState'[handling[t]] # "NONE"
    BY <2>1, <2>2 DEF TasksKeepTheirs
  <2>4. parent'[t] # NoTask => taskState'[t] # "NONE" /\ taskState'[parent'[t]] # "NONE"
    <3>1. CASE taskState[t] = "NONE"
      BY <2>1, <3>1 DEF TasksKeepTheirs
    <3>2. CASE taskState[t] # "NONE"
      <4>1. parent'[t] = parent[t] /\ taskState'[t] # "NONE"
        BY <3>2 DEF TasksKeepTheirs
      <4>2. parent[t] # NoTask => taskState'[parent[t]] # "NONE"
        BY <2>1, <2>2 DEF TasksKeepTheirs
      <4> QED
        BY <4>1, <4>2
    <3> QED
      BY <3>1, <3>2
  <2>5. parent[t] # NoTask => parent'[t] = parent[t]
    BY <2>1 DEF TasksKeepTheirs
  <2> QED
    BY <2>1, <2>3, <2>4, <2>5
<1>2. OnlyResultsAreSent'
  BY DEF ReachInv, OnlyResultsAreSent, TasksKeepTheirs
<1>3. ResultReachesRole'
  <2> SUFFICES ASSUME NEW t \in Task, delivery'[t] = "DELIVERED",
                      Addressee(t)' \in Role
               PROVE  \/ handling[t] # NoTask /\ contract'[handling[t]].to = Addressee(t)'
                      \/ continuation'[t] # "NONE"
                         /\ contract'[parent'[t]].to = Addressee(t)'
                      \/ /\ outcome'[t] # "succeeded" /\ parent'[t] # NoTask
                         /\ contract'[parent'[t]].to = Addressee(t)'
    BY DEF ResultReachesRole, Assignee, Addressee
  <2>1. delivery[t] = "DELIVERED" /\ outcome'[t] = outcome[t]
    OBVIOUS
  <2>2. contract'[t] = contract[t] /\ parent'[t] = parent[t]
    BY <2>1 DEF ReachInv, OnlyResultsAreSent, TasksKeepTheirs
  <2>3. Addressee(t)' = Addressee(t)
    BY <2>1, <2>2 DEF Addressee
  <2>4. \/ handling[t] # NoTask /\ contract[handling[t]].to = Addressee(t)
        \/ continuation[t] # "NONE" /\ contract[parent[t]].to = Addressee(t)
        \/ /\ outcome[t] # "succeeded" /\ parent[t] # NoTask
           /\ contract[parent[t]].to = Addressee(t)
    BY <2>1, <2>3 DEF ReachInv, ResultReachesRole, Assignee
  <2>5. /\ parent[t] \in Task \cup {NoTask} /\ handling[t] \in Task \cup {NoTask}
        /\ parent[t] # NoTask => taskState[parent[t]] # "NONE"
        /\ handling[t] # NoTask => taskState[handling[t]] # "NONE"
        /\ continuation[t] # "NONE" => parent[t] # NoTask
    BY WakeTypes DEF ReachInv, LineageExists
  <2>6. handling[t] # NoTask => contract'[handling[t]] = contract[handling[t]]
    BY <2>5 DEF TasksKeepTheirs
  <2>7. parent[t] # NoTask => contract'[parent[t]] = contract[parent[t]]
    BY <2>5 DEF TasksKeepTheirs
  <2> QED
    BY <2>1, <2>2, <2>3, <2>4, <2>5, <2>6, <2>7
<1> QED
  BY <1>1, <1>2, <1>3 DEF ReachInv

\* A settle that publishes delivers the result to the role that handles it or
\* to the parent that waits for it.
LEMMA PublishReach ==
  ASSUME TypeInv, StructInv, LifeInv, ReachInv, TasksKeepTheirs,
         NEW r \in Run, NEW h \in Task, SettlePublish(r, h)
  PROVE  ReachInv'
<1> DEFINE t == runTask[r]
<1>1. /\ Live(r) /\ StagedBy(r) /\ outcome' = outcome
      /\ result' = [result EXCEPT ![t] = "PUBLISHED"]
      /\ delivery' = [delivery EXCEPT ![t] = IF @ = "HELD" THEN "DELIVERED" ELSE @]
  BY DEF SettlePublish
<1>2. /\ t \in Task /\ taskState[t] # "NONE" /\ result[t] # "PUBLISHED"
  BY <1>1, LiveRunLife DEF Open
<1>3. delivery[t] # "DELIVERED" /\ handling[t] = NoTask
  BY <1>2 DEF LifeInv, DeliveredIsPublished, ReachInv, LineageExists
<1>4. /\ result'[t] = "PUBLISHED"
      /\ delivery'[t] = IF delivery[t] = "HELD" THEN "DELIVERED" ELSE delivery[t]
      /\ \A u \in Task : u # t => /\ result'[u] = result[u]
                                  /\ delivery'[u] = delivery[u]
  BY <1>1, <1>2, LifeTypes
<1>5. \/ AnswersParent(t) /\ continuation' =
           [continuation EXCEPT ![t] = IF @ = "NONE" THEN "PENDING" ELSE @]
      \/ ~AnswersParent(t) /\ continuation' = continuation
  BY DEF SettlePublish
<1>6. /\ \A u \in Task : u # t => continuation'[u] = continuation[u]
      /\ continuation[t] # "NONE" => continuation'[t] # "NONE"
      /\ AnswersParent(t) => continuation'[t] # "NONE"
      /\ continuation'[t] # "NONE" => continuation[t] # "NONE" \/ AnswersParent(t)
  BY <1>2, <1>5, WakeTypes
<1>7. \/ /\ NeedsHandling(t) /\ taskState[h] = "NONE"
         /\ handling' = [handling EXCEPT ![t] = h]
         /\ taskState' = [taskState EXCEPT ![t] = Concluded(t), ![h] = "QUEUED"]
         /\ contract' = [contract EXCEPT ![h] = Handling(Addressee(t))]
         /\ parent' = [parent EXCEPT ![h] = NoTask]
      \/ ~NeedsHandling(t) /\ UNCHANGED <<handling, contract, parent>>
  BY DEF SettlePublish, Fresh, Born
<1>8. /\ \A u \in Task : u # t => handling'[u] = handling[u]
      /\ \/ /\ NeedsHandling(t) /\ handling'[t] = h /\ h # t
            /\ taskState'[h] # "NONE" /\ contract'[h].to = Addressee(t)
         \/ ~NeedsHandling(t) /\ handling'[t] = NoTask
  BY <1>2, <1>3, <1>7, WakeTypes, LifeTypes DEF Handling
<1>9. ASSUME NEW u \in Task
      PROVE  /\ parent[u] \in Task \cup {NoTask} /\ handling[u] \in Task \cup {NoTask}
             /\ parent[u] # NoTask => taskState[u] # "NONE" /\ taskState[parent[u]] # "NONE"
             /\ handling[u] # NoTask => /\ taskState[handling[u]] # "NONE"
                                        /\ delivery[u] = "DELIVERED"
             /\ continuation[u] # "NONE" => parent[u] # NoTask
  BY WakeTypes DEF ReachInv, LineageExists
<1>10. LineageExists'
  <2> SUFFICES ASSUME NEW u \in Task
               PROVE  /\ parent'[u] # NoTask => /\ taskState'[u] # "NONE"
                                                /\ taskState'[parent'[u]] # "NONE"
                      /\ handling'[u] # NoTask => /\ taskState'[handling'[u]] # "NONE"
                                                  /\ delivery'[u] = "DELIVERED"
                      /\ continuation'[u] # "NONE" => parent'[u] # NoTask
    BY DEF LineageExists
  <2>1. parent'[u] # NoTask => taskState'[u] # "NONE" /\ taskState'[parent'[u]] # "NONE"
    <3>1. CASE taskState[u] = "NONE"
      BY <1>9, <3>1 DEF TasksKeepTheirs
    <3>2. CASE taskState[u] # "NONE"
      <4>1. parent'[u] = parent[u] /\ taskState'[u] # "NONE"
        BY <3>2 DEF TasksKeepTheirs
      <4>2. parent[u] # NoTask => taskState'[parent[u]] # "NONE"
        BY <1>9 DEF TasksKeepTheirs
      <4> QED
        BY <4>1, <4>2
    <3> QED
      BY <3>1, <3>2
  <2>2. handling'[u] # NoTask => /\ taskState'[handling'[u]] # "NONE"
                                 /\ delivery'[u] = "DELIVERED"
    <3>1. CASE u = t
      BY <1>4, <1>8, <3>1 DEF NeedsHandling
    <3>2. CASE u # t
      <4>1. handling[u] # NoTask => taskState'[handling[u]] # "NONE"
        BY <1>9 DEF TasksKeepTheirs
      <4> QED
        BY <1>4, <1>8, <1>9, <3>2, <4>1
    <3> QED
      BY <3>1, <3>2
  <2>3. continuation'[u] # "NONE" => parent'[u] # NoTask
    <3>1. parent[u] # NoTask => parent'[u] = parent[u]
      BY <1>9 DEF TasksKeepTheirs
    <3> QED
      BY <1>6, <1>9, <3>1 DEF AnswersParent
  <2> QED
    BY <2>1, <2>2, <2>3
<1>11. OnlyResultsAreSent'
  <2> SUFFICES ASSUME NEW u \in Task, delivery'[u] # "NONE"
               PROVE  /\ taskState'[u] # "NONE" /\ result'[u] # "NONE"
                      /\ outcome[u] = "succeeded" => contract'[u].mode = "result"
    BY <1>1 DEF OnlyResultsAreSent
  <2>1. delivery[u] # "NONE"
    BY <1>4
  <2>2. /\ taskState[u] # "NONE" /\ result[u] # "NONE"
        /\ outcome[u] = "succeeded" => contract[u].mode = "result"
    BY <2>1 DEF ReachInv, OnlyResultsAreSent
  <2> QED
    BY <1>4, <2>2 DEF TasksKeepTheirs
<1>12. ResultReachesRole'
  <2> SUFFICES ASSUME NEW u \in Task, delivery'[u] = "DELIVERED",
                      Addressee(u)' \in Role
               PROVE  \/ handling'[u] # NoTask
                         /\ contract'[handling'[u]].to = Addressee(u)'
                      \/ continuation'[u] # "NONE"
                         /\ contract'[parent'[u]].to = Addressee(u)'
                      \/ /\ outcome'[u] # "succeeded" /\ parent'[u] # NoTask
                         /\ contract'[parent'[u]].to = Addressee(u)'
    BY DEF ResultReachesRole, Assignee, Addressee
  <2>1. delivery[u] # "NONE"
    BY <1>4
  <2>2. /\ taskState[u] # "NONE"
        /\ outcome[u] = "succeeded" => contract[u].mode = "result"
    BY <2>1 DEF ReachInv, OnlyResultsAreSent
  <2>3. contract'[u] = contract[u] /\ parent'[u] = parent[u]
    BY <2>2 DEF TasksKeepTheirs
  <2>4. Addressee(u)' = Addressee(u)
    BY <1>1, <2>3 DEF Addressee
  <2>5. /\ handling[u] # NoTask => contract'[handling[u]] = contract[handling[u]]
        /\ parent[u] # NoTask => contract'[parent[u]] = contract[parent[u]]
    BY <1>9 DEF TasksKeepTheirs
  <2>6. CASE u = t
    <3>1. delivery[t] = "HELD"
      BY <1>3, <1>4, <2>6
    <3>2. CASE NeedsHandling(t)
      BY <1>8, <2>4, <2>6, <3>2, WakeTypes
    <3>3. CASE ~NeedsHandling(t)
      <4>1. parent[t] # NoTask /\ contract[parent[t]].to = Addressee(t)
        BY <1>3, <2>4, <2>6, <3>1, <3>3 DEF NeedsHandling, Assignee
      <4>2. outcome[t] = "succeeded" => AnswersParent(t)
        BY <2>2, <2>6, <4>1 DEF AnswersParent, Addressee, Assignee
      <4> QED
        BY <1>1, <1>6, <2>3, <2>4, <2>5, <2>6, <4>1, <4>2
    <3> QED
      BY <3>2, <3>3
  <2>7. CASE u # t
    <3>1. delivery[u] = "DELIVERED" /\ handling'[u] = handling[u]
          /\ continuation'[u] = continuation[u]
      BY <1>4, <1>6, <1>8, <2>7
    <3>2. \/ handling[u] # NoTask /\ contract[handling[u]].to = Addressee(u)
          \/ continuation[u] # "NONE" /\ contract[parent[u]].to = Addressee(u)
          \/ /\ outcome[u] # "succeeded" /\ parent[u] # NoTask
             /\ contract[parent[u]].to = Addressee(u)
      BY <2>4, <3>1 DEF ReachInv, ResultReachesRole, Assignee
    <3> QED
      BY <1>1, <1>9, <2>3, <2>4, <2>5, <3>1, <3>2
  <2> QED
    BY <2>6, <2>7
<1> QED
  BY <1>10, <1>11, <1>12 DEF ReachInv

\* Storing a result keeps the invariant: its message is held.
LEMMA FinishReach ==
  ASSUME TypeInv, StructInv, LifeInv, ReachInv, TasksKeepTheirs, NEW r \in Run,
         \/ \E oc \in Outcome : FinishResult(r, oc)
         \/ \E n \in Task, q \in AgentRequests : FinishHandoff(r, n, q)
  PROVE  ReachInv'
<1> DEFINE t == runTask[r]
<1>1. /\ runState[r] = "RUNNING" /\ result[t] = "NONE"
      /\ result' = [result EXCEPT ![t] = "STAGED"]
      /\ UNCHANGED <<handling, continuation>>
      /\ \E oc : outcome' = [outcome EXCEPT ![t] = oc]
  BY DEF FinishResult, FinishHandoff
<1>2. t \in Task /\ taskState[t] # "NONE"
  <2>1. Live(r)
    BY <1>1 DEF Live, LiveStates
  <2> QED
    BY <2>1, LiveRunLife DEF Open
<1>3. delivery[t] = "NONE"
  BY <1>1, <1>2 DEF ReachInv, OnlyResultsAreSent
<1>4. \/ delivery' = delivery
      \/ /\ delivery' = [delivery EXCEPT ![t] = "HELD"]
         /\ outcome'[t] = "succeeded" => contract[t].mode = "result"
  <2>1. ASSUME NEW oc \in Outcome, FinishResult(r, oc)
        PROVE  /\ delivery' = [delivery EXCEPT ![t] = "HELD"]
               /\ outcome'[t] = "succeeded" => contract[t].mode = "result"
    BY <2>1, <1>2, LifeTypes DEF FinishResult
  <2>2. ASSUME NEW n \in Task, NEW q \in AgentRequests, FinishHandoff(r, n, q)
        PROVE  delivery' = delivery
    BY <2>2 DEF FinishHandoff
  <2> QED
    BY <2>1, <2>2
<1>5. \A u \in Task : result[u] # "NONE" => result'[u] # "NONE"
  BY <1>1, LifeTypes
<1>6. result'[t] # "NONE"
  BY <1>1, <1>2, LifeTypes
<1>7. \A u \in Task : u # t => delivery'[u] = delivery[u] /\ outcome'[u] = outcome[u]
  BY <1>1, <1>4, LifeTypes
<1>8. \/ delivery'[t] = "NONE" /\ delivery[t] = "NONE"
      \/ /\ delivery'[t] = "HELD" /\ delivery[t] = "NONE"
         /\ taskState[t] # "NONE" /\ result'[t] # "NONE"
         /\ outcome'[t] = "succeeded" => contract[t].mode = "result"
  BY <1>2, <1>3, <1>4, <1>6, LifeTypes
<1>9. \A u \in Task :
           \/ delivery'[u] = delivery[u] /\ outcome'[u] = outcome[u]
           \/ delivery'[u] = "NONE" /\ delivery[u] = "NONE"
           \/ /\ delivery'[u] = "HELD" /\ delivery[u] = "NONE"
              /\ taskState[u] # "NONE" /\ result'[u] # "NONE"
              /\ outcome'[u] = "succeeded" => contract[u].mode = "result"
  BY <1>7, <1>8
<1>10. \A u \in Task : (continuation'[u] # "NONE") <=> (continuation[u] # "NONE")
  BY <1>1
<1> QED
  BY <1>1, <1>5, <1>9, <1>10, ReachFrame

\* Every step keeps the invariant.
LEMMA NextReach ==
  TypeInv /\ StructInv /\ LifeInv /\ ReachInv /\ [Next]_vars => ReachInv'
<1> SUFFICES ASSUME TypeInv, StructInv, LifeInv, ReachInv, [Next]_vars
             PROVE  ReachInv'
  OBVIOUS
<1>1. TasksKeepTheirs
  BY NextKeeps
<1>2. ASSUME UNCHANGED <<handling, delivery, outcome>>,
             \A t \in Task : (continuation'[t] # "NONE") <=> (continuation[t] # "NONE"),
             \A t \in Task : result[t] # "NONE" => result'[t] # "NONE"
      PROVE  ReachInv'
  BY <1>1, <1>2, ReachFrame
<1>3. CASE UserStep \/ UNCHANGED vars \/ CrashRecover
  <2>1. UNCHANGED <<handling, delivery, outcome, continuation, result>>
    BY <1>3 DEF UserStep, SubmitFromUser, SendUserInput, Suspend, Resume, Cancel,
       vars, CrashRecover, Quarantined
  <2> QED
    BY <1>2, <2>1
<1>4. CASE SchedulerStep
  <2>1. ASSUME NEW o \in Role, NEW t \in Task, NEW r \in Run, Dispatch(o, t, r)
        PROVE  ReachInv'
    <3>1. UNCHANGED <<handling, delivery, outcome, result>>
      BY <2>1 DEF Dispatch
    <3>2. \/ continuation' = continuation
          \/ continuation' = [u \in Task |->
               IF parent[u] = t /\ continuation[u] = "PENDING"
               THEN "CONSUMED" ELSE continuation[u]]
      BY <2>1 DEF Dispatch, Deliver
    <3>3. \A u \in Task : (continuation'[u] # "NONE") <=> (continuation[u] # "NONE")
      BY <3>2
    <3> QED
      BY <1>2, <3>1, <3>3
  <2>2. ASSUME NEW o \in Role, DispatchRefused(o)
        PROVE  ReachInv'
    BY <1>2, <2>2 DEF DispatchRefused
  <2> QED
    BY <1>4, <2>1, <2>2 DEF SchedulerStep
<1>5. ASSUME NEW r \in Run, AgentStep(r)
      PROVE  ReachInv'
  <2>1. CASE \/ \E oc \in Outcome : FinishResult(r, oc)
             \/ \E n \in Task, q \in AgentRequests : FinishHandoff(r, n, q)
    BY <1>1, <2>1, FinishReach
  <2>2. CASE \/ Accepted(r)
             \/ \E t \in Task, q \in AgentRequests : Send(r, t, q)
             \/ \E kind \in WaitKinds, deps \in SUBSET Task : Wait(r, kind, deps)
    <3>1. UNCHANGED <<handling, delivery, outcome, continuation, result>>
      BY <2>2 DEF Accepted, Send, Wait
    <3> QED
      BY <1>2, <3>1
  <2> QED
    BY <1>5, <2>1, <2>2 DEF AgentStep
<1>6. ASSUME NEW r \in Run, ExitStep(r)
      PROVE  ReachInv'
  <2>1. ASSUME NEW h \in Task, SettlePublish(r, h)
        PROVE  ReachInv'
    BY <1>1, <2>1, PublishReach
  <2>2. CASE SettleWaiting(r) \/ MarkUnknown(r)
    <3>1. UNCHANGED <<handling, delivery, outcome, continuation, result>>
      BY <2>2 DEF SettleWaiting, MarkUnknown, Quarantined
    <3> QED
      BY <1>2, <3>1
  <2>3. ASSUME NEW out \in {"succeeded", "failed", "cancelled"},
               SettleAttention(r, out)
        PROVE  ReachInv'
    <3>1. /\ UNCHANGED <<handling, delivery, outcome, continuation>>
          /\ \/ result' = result
             \/ result' = [result EXCEPT ![runTask[r]] = "QUARANTINED"]
      BY <2>3 DEF SettleAttention
    <3>2. \A t \in Task : result[t] # "NONE" => result'[t] # "NONE"
      BY <3>1, LifeTypes
    <3> QED
      BY <1>2, <3>1, <3>2
  <2> QED
    BY <1>6, <2>1, <2>2, <2>3 DEF ExitStep
<1> QED
  BY <1>3, <1>4, <1>5, <1>6 DEF Next

\* Every result delivered to a role becomes a handling task of that role or
\* continues the parent that role runs, whatever the requests, roles and order
\* of settles; only a child's problem report to its parent's role is neither.
THEOREM ResultsAlwaysReachTheirRole == Spec => []ResultReachesRole
<1>1. Init => ReachInv
  BY InitReach
<1>2. TypeInv /\ StructInv /\ LifeInv /\ ReachInv /\ [Next]_vars => ReachInv'
  BY NextReach
<1>3. ReachInv => ResultReachesRole
  BY DEF ReachInv
<1> QED
  BY LifeInvariance, <1>1, <1>2, <1>3, PTL DEF Spec

-----------------------------------------------------------------------------
(***************************************************************************)
(* Ready flags and answers.                                                 *)
(***************************************************************************)
\* The result of a task has come, and well.
Came(t) == result[t] = "PUBLISHED" /\ outcome[t] = "succeeded"

\* A handler that leaves the wait and the inputs of a task alone keeps what
\* is said of them, if the results it waits for stay what they were.
LEMMA WakeFrame ==
  ASSUME TypeInv, TasksKeepTheirs, NEW t \in Task, WakeOf(t),
         wait'[t] = wait[t], inputs'[t] = inputs[t],
         \A r \in Run : runTask[r] # NoTask => runTask'[r] # NoTask,
         \/ taskState'[t] = taskState[t]
         \/ /\ taskState[t] \in {"NONE", "QUEUED", "SUSPENDED"}
            /\ taskState'[t] \in {"QUEUED", "SUSPENDED", "CANCELLED", "ACTIVE"}
         \/ taskState'[t] \in Final \cup {"RESULT_STAGED", "NEEDS_ATTENTION"},
         taskState[t] = "WAITING_INPUT" /\ wait[t].kind = "child_results"
           => \A d \in wait[t].deps : Came(d)' <=> Came(d)
  PROVE  WakeOf(t)'
<1>1. /\ wait[t] \in WaitRecord /\ wait[t].deps \subseteq Task
      /\ \A i \in inputs[t] : i.by \in Run \cup {NoRun}
  BY WakeTypes
<1>2. InputsFollowWait(t)'
  <2>1. /\ \A i \in inputs[t] : /\ i.gen <= wait[t].gen
                                /\ i.by # NoRun => runTask[i.by] # NoTask
        /\ taskState[t] \in {"NONE", "QUEUED", "SUSPENDED"} => inputs[t] = {}
        /\ taskState[t] = "ACTIVE" => \A i \in inputs[t] : i.by # NoRun
    BY DEF WakeOf, InputsFollowWait
  <2>2. \A i \in inputs'[t] : /\ i.gen <= wait'[t].gen
                              /\ i.by # NoRun => runTask'[i.by] # NoTask
    BY <1>1, <2>1
  <2>3. taskState'[t] \in {"NONE", "QUEUED", "SUSPENDED"} => inputs'[t] = {}
    BY <2>1 DEF Final
  <2>4. taskState'[t] = "ACTIVE" => \A i \in inputs'[t] : i.by # NoRun
    BY <2>1 DEF Final
  <2> QED
    BY <2>2, <2>3, <2>4 DEF InputsFollowWait
<1>3. InputsPaired(t)'
  BY DEF WakeOf, InputsPaired
<1>4. DepsComeBack(t)'
  <2>1. wait[t].kind # "none" =>
          taskState'[t] # "NONE" /\ contract'[t] = contract[t]
    BY DEF WakeOf, DepsComeBack, TasksKeepTheirs
  <2>2. wait[t].kind = "child_results" => wait[t].deps \subseteq Awaitable(t)
    BY DEF WakeOf, DepsComeBack
  <2>3. \A u \in Task : taskState[u] # "NONE"
          => /\ taskState'[u] # "NONE"
             /\ contract'[u] = contract[u] /\ parent'[u] = parent[u]
    BY DEF TasksKeepTheirs
  <2>4. wait[t].kind = "child_results" => wait[t].deps \subseteq Awaitable(t)'
    BY <2>1, <2>2, <2>3 DEF Awaitable, Assignee
  <2> QED
    BY <2>1, <2>4 DEF DepsComeBack
<1>5. ReadyRight(t)'
  <2> SUFFICES ASSUME taskState'[t] = "WAITING_INPUT"
               PROVE  /\ wait[t].kind = "child_results"
                           => (wait[t].ready <=> Answered(wait[t].deps, result)')
                      /\ wait[t].kind = "user_input"
                           => (wait[t].ready <=> \E i \in inputs[t] : i.by = NoRun)
                      /\ wait[t].kind \notin {"child_results", "user_input"}
                           => ~wait[t].ready
    BY DEF ReadyRight, Answered
  <2>1. taskState[t] = "WAITING_INPUT"
    BY DEF Final
  <2>2. wait[t].kind = "child_results"
          => (Answered(wait[t].deps, result)' <=> Answered(wait[t].deps, result))
    BY <2>1 DEF Answered, Came
  <2> QED
    BY <2>1, <2>2 DEF WakeOf, ReadyRight
<1> QED
  BY <1>2, <1>3, <1>4, <1>5 DEF WakeOf

\* Handlers that touch no wait and no input and publish nothing keep the
\* invariant.
LEMMA QuietWake ==
  ASSUME TypeInv, StructInv, LifeInv, WakeInv, TasksKeepTheirs,
         \/ \E t \in Task, q \in UserRequests : SubmitFromUser(t, q)
         \/ \E t \in Task : Suspend(t) \/ Resume(t) \/ Cancel(t)
         \/ \E o \in Role : DispatchRefused(o)
         \/ \E r \in Run, t \in Task, q \in AgentRequests : Send(r, t, q)
         \/ \E r \in Run : Accepted(r) \/ SettleWaiting(r) \/ MarkUnknown(r)
         \/ CrashRecover \/ UNCHANGED vars
  PROVE  WakeInv'
<1>1. UNCHANGED <<wait, inputs, runTask, result, outcome>>
  <2>1. CASE \/ \E t \in Task, q \in UserRequests : SubmitFromUser(t, q)
             \/ \E r \in Run, t \in Task, q \in AgentRequests : Send(r, t, q)
    BY <2>1 DEF SubmitFromUser, Send
  <2>2. CASE \/ \E t \in Task : Suspend(t) \/ Resume(t) \/ Cancel(t)
             \/ \E o \in Role : DispatchRefused(o)
    BY <2>2 DEF Suspend, Resume, Cancel, DispatchRefused
  <2>3. CASE \/ \E r \in Run : Accepted(r) \/ SettleWaiting(r) \/ MarkUnknown(r)
             \/ CrashRecover
    BY <2>3 DEF Accepted, SettleWaiting, EndRun, MarkUnknown, CrashRecover, Quarantined
  <2> QED
    BY <2>1, <2>2, <2>3 DEF vars
<1>2. \/ taskState' = taskState
      \/ \E t \in Task : /\ taskState[t] \in {"NONE", "QUEUED", "SUSPENDED"}
                         /\ \E s \in {"QUEUED", "SUSPENDED", "CANCELLED"} :
                              taskState' = [taskState EXCEPT ![t] = s]
      \/ \E parked \in SUBSET Task :
           taskState' = [t \in Task |-> IF t \in parked THEN "NEEDS_ATTENTION"
                                        ELSE taskState[t]]
  <2>1. CASE \E r \in Run : MarkUnknown(r)
    <3>1. PICK r \in Run : MarkUnknown(r)
      BY <2>1
    <3>2. taskState' = [t \in Task |-> IF t \in {u \in Task : \E q \in {r} : runTask[q] = u}
                                       THEN "NEEDS_ATTENTION" ELSE taskState[t]]
      BY <3>1 DEF MarkUnknown, Quarantined
    <3> QED
      BY <3>2
  <2>2. CASE CrashRecover
    <3> DEFINE lost == {r \in Run : Live(r)}
    <3>1. taskState' = [t \in Task |-> IF t \in {u \in Task : \E q \in lost : runTask[q] = u}
                                       THEN "NEEDS_ATTENTION" ELSE taskState[t]]
      BY <2>2 DEF CrashRecover, Quarantined
    <3> QED
      BY <3>1
  <2>3. CASE \/ \E t \in Task, q \in UserRequests : SubmitFromUser(t, q)
             \/ \E t \in Task : Suspend(t) \/ Resume(t) \/ Cancel(t)
             \/ \E r \in Run, t \in Task, q \in AgentRequests : Send(r, t, q)
    BY <2>3 DEF SubmitFromUser, Suspend, Resume, Cancel, Movable, Send, Fresh
  <2>4. CASE \/ \E o \in Role : DispatchRefused(o)
             \/ \E r \in Run : Accepted(r) \/ SettleWaiting(r)
             \/ UNCHANGED vars
    BY <2>4 DEF DispatchRefused, Accepted, SettleWaiting, vars
  <2> QED
    BY <2>1, <2>2, <2>3, <2>4
<1>3. \A t \in Task :
         \/ taskState'[t] = taskState[t]
         \/ /\ taskState[t] \in {"NONE", "QUEUED", "SUSPENDED"}
            /\ taskState'[t] \in {"QUEUED", "SUSPENDED", "CANCELLED", "ACTIVE"}
         \/ taskState'[t] \in Final \cup {"RESULT_STAGED", "NEEDS_ATTENTION"}
  BY <1>2, LifeTypes
<1>4. \A d : Came(d)' <=> Came(d)
  BY <1>1 DEF Came
<1> QED
  BY <1>1, <1>3, <1>4, WakeFrame DEF WakeInv

\* Storing a result, and giving one up, keep the invariant: nobody can have
\* seen it.
LEMMA StoreWake ==
  ASSUME TypeInv, StructInv, LifeInv, WakeInv, TasksKeepTheirs, NEW r \in Run,
         \/ \E oc \in Outcome : FinishResult(r, oc)
         \/ \E n \in Task, q \in AgentRequests : FinishHandoff(r, n, q)
         \/ \E out \in {"succeeded", "failed", "cancelled"} : SettleAttention(r, out)
  PROVE  WakeInv'
<1> DEFINE t == runTask[r]
<1>1. UNCHANGED <<wait, inputs, runTask>>
  <2>1. CASE \E out \in {"succeeded", "failed", "cancelled"} : SettleAttention(r, out)
    BY <2>1 DEF SettleAttention, EndRun
  <2> QED
    BY <2>1 DEF FinishResult, FinishHandoff
<1>2. Live(r)
  BY DEF FinishResult, FinishHandoff, SettleAttention, Live, LiveStates
<1>3. t \in Task /\ result[t] # "PUBLISHED"
  BY <1>2, LiveRunLife
<1>4. /\ \/ result' = result
         \/ \E s \in {"STAGED", "QUARANTINED"} : result' = [result EXCEPT ![t] = s]
      /\ outcome' = outcome \/ \E oc : outcome' = [outcome EXCEPT ![t] = oc]
  BY DEF FinishResult, FinishHandoff, SettleAttention
<1>5. \A d \in Task : Came(d)' <=> Came(d)
  BY <1>3, <1>4, LifeTypes DEF Came
<1>6. \/ \E s \in {"RESULT_STAGED", "NEEDS_ATTENTION"} :
           taskState' = [taskState EXCEPT ![t] = s]
      \/ \E n \in Task : /\ taskState[n] = "NONE"
                         /\ taskState' = [taskState EXCEPT ![t] = "RESULT_STAGED",
                                                           ![n] = "QUEUED"]
  BY DEF FinishResult, FinishHandoff, SettleAttention, Fresh
<1>7. \A u \in Task :
         \/ taskState'[u] = taskState[u]
         \/ /\ taskState[u] \in {"NONE", "QUEUED", "SUSPENDED"}
            /\ taskState'[u] \in {"QUEUED", "SUSPENDED", "CANCELLED", "ACTIVE"}
         \/ taskState'[u] \in Final \cup {"RESULT_STAGED", "NEEDS_ATTENTION"}
  BY <1>6, LifeTypes
<1>8. \A u \in Task : wait[u].deps \subseteq Task
  BY WakeTypes
<1> QED
  BY <1>1, <1>5, <1>7, <1>8, WakeFrame DEF WakeInv

\* The only answer a wait can have is one of its own question: all unread
\* inputs are the same one.
LEMMA OneUnread ==
  ASSUME NEW t \in Task, WakeOf(t), NEW i \in inputs[t], NEW j \in inputs[t],
         i.by = NoRun, j.by = NoRun
  PROVE  i = j
  BY DEF WakeOf, InputsPaired

\* The user's answer keeps the invariant: it makes exactly its own task ready.
LEMMA InputWake ==
  ASSUME TypeInv, StructInv, LifeInv, WakeInv, TasksKeepTheirs, NEW t \in Task,
         SendUserInput(t)
  PROVE  WakeInv'
<1> DEFINE answer == [gen |-> wait[t].gen, by |-> NoRun]
<1>1. /\ taskState[t] = "WAITING_INPUT" /\ wait[t].kind = "user_input"
      /\ \A i \in inputs[t] : i.gen # wait[t].gen
      /\ inputs'[t] = inputs[t] \cup {answer}
      /\ wait'[t] = [wait[t] EXCEPT !.ready = TRUE]
      /\ \A u \in Task : u # t => inputs'[u] = inputs[u] /\ wait'[u] = wait[u]
      /\ UNCHANGED <<taskState, runTask, result, outcome>>
  BY WakeTypes DEF SendUserInput, Unanswered
<1>2. \A d : Came(d)' <=> Came(d)
  BY <1>1 DEF Came
<1>3. \A u \in Task : u # t => WakeOf(u)'
  BY <1>1, <1>2, WakeFrame DEF WakeInv
<1>4. /\ wait'[t].kind = "user_input" /\ wait'[t].ready
      /\ wait'[t].gen = wait[t].gen /\ wait[t].gen \in Nat
      /\ answer.gen = wait[t].gen /\ answer.by = NoRun
  BY <1>1, WakeTypes DEF WaitRecord
<1>5. WakeOf(t)
  BY DEF WakeInv
<1>6. \A i \in inputs'[t] : i \in inputs[t] \/ i = answer
  BY <1>1
<1>7. InputsFollowWait(t)'
  <2>1. \A i \in inputs'[t] : /\ i.gen <= wait'[t].gen
                              /\ i.by # NoRun => runTask'[i.by] # NoTask
    BY <1>1, <1>4, <1>5, <1>6 DEF WakeOf, InputsFollowWait
  <2> QED
    BY <1>1, <2>1 DEF InputsFollowWait
<1>8. InputsPaired(t)'
  <2>1. \A i \in inputs[t] : i.by # NoRun
    BY <1>1, <1>5 DEF WakeOf, InputsPaired
  <2> QED
    BY <1>1, <1>4, <1>5, <1>6, <2>1 DEF WakeOf, InputsPaired
<1>9. DepsComeBack(t)'
  BY <1>1, <1>4 DEF DepsComeBack
<1>10. ReadyRight(t)'
  BY <1>1, <1>4 DEF ReadyRight
<1> QED
  BY <1>3, <1>7, <1>8, <1>9, <1>10 DEF WakeInv, WakeOf

\* route_wait keeps the invariant: a new generation, which nobody has answered,
\* for children whose results come back to the role.
LEMMA WaitWake ==
  ASSUME TypeInv, StructInv, LifeInv, WakeInv, TasksKeepTheirs, NEW r \in Run,
         NEW kind \in WaitKinds, NEW deps \in SUBSET Task, Wait(r, kind, deps)
  PROVE  WakeInv'
<1>1. PICK t \in Task : t = runTask[r]
  <2>1. Live(r)
    BY DEF Wait, Live, LiveStates
  <2> QED
    BY <2>1, LiveRunLife
<1> DEFINE w == [kind |-> kind, deps |-> deps, gen |-> wait[t].gen + 1,
                 ready |-> WaitReady(kind, deps)]
<1>2. /\ taskState[t] = "ACTIVE"
      /\ IF kind = "child_results" THEN deps # {} /\ deps \subseteq Awaitable(t)
                                   ELSE deps = {}
      /\ wait' = [wait EXCEPT ![t] = w]
      /\ taskState' = [taskState EXCEPT ![t] = "WAITING_INPUT"]
      /\ UNCHANGED <<bornVars, inputs, runTask, result, outcome>>
  BY <1>1 DEF Wait
<1>3. /\ wait'[t] = w /\ taskState'[t] = "WAITING_INPUT"
      /\ \A u \in Task : u # t => wait'[u] = wait[u] /\ taskState'[u] = taskState[u]
  BY <1>2, WakeTypes, LifeTypes
<1>4. \A d : Came(d)' <=> Came(d)
  BY <1>2 DEF Came
<1>5. \A u \in Task : u # t => WakeOf(u)'
  BY <1>2, <1>3, <1>4, WakeFrame DEF WakeInv
<1>6. /\ WakeOf(t) /\ wait[t].gen \in Nat
      /\ \A i \in inputs[t] : i.gen \in Nat /\ i.by # NoRun
  BY <1>2, WakeTypes DEF WakeInv, WakeOf, InputsFollowWait
<1>7. /\ wait'[t].kind = kind /\ wait'[t].deps = deps
      /\ wait'[t].gen = wait[t].gen + 1 /\ wait'[t].ready = WaitReady(kind, deps)
  BY <1>3
<1>8. InputsFollowWait(t)'
  <2>1. \A i \in inputs'[t] : /\ i.gen <= wait'[t].gen
                              /\ i.by # NoRun => runTask'[i.by] # NoTask
    <3>1. \A i \in inputs[t] : i.gen <= wait[t].gen
                                 /\ (i.by # NoRun => runTask[i.by] # NoTask)
      BY <1>6 DEF WakeOf, InputsFollowWait
    <3> QED
      BY <1>2, <1>6, <1>7, <3>1
  <2> QED
    BY <1>3, <2>1 DEF InputsFollowWait
<1>9. InputsPaired(t)'
  BY <1>2, <1>6 DEF WakeOf, InputsPaired
<1>10. DepsComeBack(t)'
  <2>1. kind = "child_results" => deps \subseteq Awaitable(t)'
    <3>1. Awaitable(t) \subseteq Awaitable(t)'
      BY <1>2 DEF Awaitable, Assignee, TasksKeepTheirs
    <3> QED
      BY <1>2, <3>1
  <2> QED
    BY <1>3, <1>7, <2>1 DEF DepsComeBack
<1>11. ReadyRight(t)'
  <2> DEFINE all == deps # {} /\ \A d \in deps : Came(d)
  <2>1. wait'[t].ready = (kind = "child_results" /\ all)
    BY <1>7 DEF WaitReady, Answered, Came
  <2>2. Answered(wait[t].deps, result)' <=> all
    BY <1>2, <1>7 DEF Answered, Came
  <2> HIDE DEF all
  <2>3. /\ kind = "child_results"
             => (wait'[t].ready <=> Answered(wait[t].deps, result)')
        /\ kind # "child_results" => ~wait'[t].ready
    BY <2>1, <2>2
  <2>4. ~ \E i \in inputs'[t] : i.by = NoRun
    BY <1>2, <1>6
  <2> QED
    BY <1>7, <2>3, <2>4 DEF ReadyRight
<1> QED
  BY <1>5, <1>8, <1>9, <1>10, <1>11 DEF WakeInv, WakeOf

\* A dispatch keeps the invariant: a continuation takes the flag and the answer
\* that woke the task, and there was only one to take.
LEMMA DispatchWake ==
  ASSUME TypeInv, StructInv, LifeInv, WakeInv, TasksKeepTheirs, NEW o \in Role,
         NEW t \in Task, NEW r \in Run, Dispatch(o, t, r)
  PROVE  WakeInv'
<1>1. /\ runTask[r] = NoTask /\ runTask' = [runTask EXCEPT ![r] = t]
      /\ taskState' = [taskState EXCEPT ![t] = "ACTIVE"]
      /\ UNCHANGED <<bornVars, result, outcome>>
      /\ Candidate(o, t) /\ WithinLimits(o, t)
  BY DEF Dispatch, FreshRun, StructInv, RunsHaveTasks
<1>2. /\ taskState'[t] = "ACTIVE" /\ runTask'[r] = t /\ t # NoTask
      /\ \A u \in Task : u # t => taskState'[u] = taskState[u]
      /\ \A q \in Run : runTask[q] # NoTask => runTask'[q] # NoTask
  BY <1>1, LifeTypes
<1>3. \A d : Came(d)' <=> Came(d)
  BY <1>1 DEF Came
<1>4. CASE activeTask[o] # t
  <2>1. UNCHANGED <<wait, inputs>> /\ taskState[t] = "QUEUED"
    BY <1>1, <1>4 DEF Dispatch, Deliver, Candidate, Oldest, Resumable, Deliverable
  <2> QED
    BY <1>2, <1>3, <2>1, WakeFrame DEF WakeInv
<1>5. CASE activeTask[o] = t
  <2>1. /\ taskState[t] = "WAITING_INPUT" /\ wait[t].ready
        /\ wait' = [wait EXCEPT ![t].ready = FALSE]
        /\ inputs' = IF wait[t].kind # "user_input" THEN inputs
                     ELSE [inputs EXCEPT ![t] =
                       (@ \ NextInput(t)) \cup
                       {[gen |-> i.gen, by |-> r] : i \in NextInput(t)}]
    BY <1>1, <1>5 DEF Dispatch, Deliver, Candidate, Oldest, Resumable
  <2>2. /\ \A u \in Task : u # t => wait'[u] = wait[u] /\ inputs'[u] = inputs[u]
        /\ wait'[t] = [wait[t] EXCEPT !.ready = FALSE]
    BY <2>1, WakeTypes
  <2>3. \A u \in Task : u # t => WakeOf(u)'
    BY <1>2, <1>3, <2>2, WakeFrame DEF WakeInv
  <2>4. /\ wait'[t].kind = wait[t].kind /\ wait'[t].deps = wait[t].deps
        /\ wait'[t].gen = wait[t].gen
    BY <2>2, WakeTypes DEF WaitRecord
  <2>5. /\ WakeOf(t)
        /\ \A i \in inputs[t] : i \in Input /\ i.gen \in Nat /\ i.by \in Run \cup {NoRun}
    BY WakeTypes DEF WakeInv
  <2>6. \A i \in inputs[t] : i.by # r
    BY <1>1, <2>5 DEF WakeOf, InputsFollowWait
  <2>7. \A i \in inputs'[t] :
          \/ i \in inputs[t] /\ i.by # NoRun
          \/ /\ i.by = r
             /\ \E j \in inputs[t] : j.by = NoRun /\ i = [gen |-> j.gen, by |-> r]
    <3>1. CASE wait[t].kind # "user_input"
      BY <2>1, <2>5, <3>1 DEF WakeOf, InputsPaired
    <3>2. CASE wait[t].kind = "user_input"
      <4>1. \A j \in inputs[t] : j.by = NoRun => j \in NextInput(t)
        <5>1. \A i, j \in inputs[t] : i.by = NoRun /\ j.by = NoRun => i = j
          BY <2>5, OneUnread
        <5>2. \A i \in inputs[t] : i.gen <= i.gen
          BY <2>5
        <5> QED
          BY <5>1, <5>2 DEF NextInput, UnreadInputs
      <4>2. NextInput(t) \subseteq {j \in inputs[t] : j.by = NoRun}
        BY DEF NextInput, UnreadInputs
      <4>3. inputs'[t] = (inputs[t] \ NextInput(t)) \cup
                         {[gen |-> j.gen, by |-> r] : j \in NextInput(t)}
        BY <2>1, <3>2, WakeTypes
      <4> QED
        BY <4>1, <4>2, <4>3
    <3> QED
      BY <3>1, <3>2
  <2>8. InputsFollowWait(t)'
    <3>1. \A i \in inputs[t] : /\ i.gen <= wait[t].gen
                               /\ i.by # NoRun => runTask[i.by] # NoTask
      BY <2>5 DEF WakeOf, InputsFollowWait
    <3>2. \A i \in inputs'[t] : i.by # NoRun /\ i.gen <= wait'[t].gen
      BY <2>4, <2>7, <3>1
    <3>3. \A i \in inputs'[t] : runTask'[i.by] # NoTask
      BY <1>2, <2>5, <2>7, <3>1
    <3> QED
      BY <1>2, <3>2, <3>3 DEF InputsFollowWait
  <2>9. InputsPaired(t)'
    <3>1. \A i \in inputs'[t] : i.by # NoRun
      BY <2>7
    <3>2. ASSUME NEW i \in inputs'[t], NEW j \in inputs'[t],
                 i.gen = j.gen \/ i.by = j.by
          PROVE  i = j
      <4>1. \A a, b \in inputs[t] :
              a.gen = b.gen \/ (a.by = b.by /\ a.by # NoRun) => a = b
        BY <2>5 DEF WakeOf, InputsPaired
      <4>2. CASE i.by = r /\ j.by = r
        <5>1. PICK a \in inputs[t] : a.by = NoRun /\ i = [gen |-> a.gen, by |-> r]
          BY <2>6, <2>7, <4>2
        <5>2. PICK b \in inputs[t] : b.by = NoRun /\ j = [gen |-> b.gen, by |-> r]
          BY <2>6, <2>7, <4>2
        <5> QED
          BY <2>5, <5>1, <5>2, OneUnread
      <4>3. CASE i.by # r /\ j.by # r
        BY <2>7, <3>1, <3>2, <4>1, <4>3
      <4>4. ASSUME NEW a \in inputs'[t], NEW b \in inputs'[t], a.by = r, b.by # r
            PROVE  a.gen # b.gen
        <5>1. PICK c \in inputs[t] : c.by = NoRun /\ a = [gen |-> c.gen, by |-> r]
          BY <2>6, <2>7, <4>4
        <5>2. b \in inputs[t] /\ b.by # NoRun
          BY <2>7, <4>4
        <5> QED
          BY <4>1, <5>1, <5>2
      <4> QED
        BY <3>2, <4>2, <4>3, <4>4
    <3> QED
      BY <3>1, <3>2 DEF InputsPaired
  <2>10. DepsComeBack(t)'
    <3>1. Awaitable(t)' = {u \in Task : /\ taskState'[u] # "NONE" /\ parent[u] = t
                                        /\ contract[u].mode = "result"
                                        /\ contract[u].dest = Assignee(t)}
      BY <1>1 DEF Awaitable, Assignee
    <3>2. Awaitable(t) \subseteq Awaitable(t)'
      BY <1>2, <3>1 DEF Awaitable
    <3> QED
      BY <1>2, <2>4, <2>5, <3>2 DEF WakeOf, DepsComeBack
  <2>11. ReadyRight(t)'
    BY <1>2 DEF ReadyRight
  <2> QED
    BY <2>3, <2>8, <2>9, <2>10, <2>11 DEF WakeInv, WakeOf
<1> QED
  BY <1>4, <1>5

\* A settle that publishes keeps the invariant: every task that waits for the
\* result is the parent of the one that produced it, and its flag is set anew.
LEMMA PublishWake ==
  ASSUME TypeInv, StructInv, LifeInv, WakeInv, TasksKeepTheirs, NEW r \in Run,
         NEW h \in Task, SettlePublish(r, h)
  PROVE  WakeInv'
<1>1. PICK t \in Task : t = runTask[r]
  <2>1. Live(r)
    BY DEF SettlePublish
  <2> QED
    BY <2>1, LiveRunLife
<1> DEFINE p == parent[t]
           published == [result EXCEPT ![t] = "PUBLISHED"]
<1>2. /\ Live(r) /\ StagedBy(r) /\ result' = published
      /\ UNCHANGED <<outcome, inputs, runTask>>
      /\ IF AnswersParent(t) /\ wait[p].kind = "child_results"
         THEN wait' = [wait EXCEPT ![p].ready = Answered(wait[p].deps, published)]
         ELSE wait' = wait
  BY <1>1 DEF SettlePublish, EndRun
<1>3. /\ taskState[t] \in Open /\ result[t] # "PUBLISHED"
      /\ Concluded(t) \in Final
  BY <1>1, <1>2, LiveRunLife, ConcludedType DEF StagedBy
<1>4. \/ /\ taskState[h] = "NONE"
         /\ taskState' = [taskState EXCEPT ![t] = Concluded(t), ![h] = "QUEUED"]
      \/ taskState' = [taskState EXCEPT ![t] = Concluded(t)]
  BY <1>1 DEF SettlePublish, Fresh
<1>5. \A u \in Task :
         \/ taskState'[u] = taskState[u]
         \/ /\ taskState[u] \in {"NONE", "QUEUED", "SUSPENDED"}
            /\ taskState'[u] \in {"QUEUED", "SUSPENDED", "CANCELLED", "ACTIVE"}
         \/ taskState'[u] \in Final \cup {"RESULT_STAGED", "NEEDS_ATTENTION"}
  BY <1>3, <1>4, LifeTypes
<1>6. \A d \in Task : d # t => (Came(d)' <=> Came(d))
  BY <1>2, LifeTypes DEF Came
<1>7. ASSUME NEW u \in Task, wait'[u] = wait[u], WakeOf(u),
             \/ t \notin wait[u].deps
             \/ wait[u].kind # "child_results"
             \/ outcome[t] # "succeeded"
      PROVE  WakeOf(u)'
  <2>1. wait[u].deps \subseteq Task
    BY WakeTypes
  <2>2. outcome[t] # "succeeded" => (Came(t)' <=> Came(t))
    BY <1>2 DEF Came
  <2>3. wait[u].kind = "child_results" => \A d \in wait[u].deps : Came(d)' <=> Came(d)
    BY <1>6, <1>7, <2>1, <2>2
  <2> QED
    BY <1>2, <1>5, <1>7, <2>3, WakeFrame
<1>8. ASSUME NEW u \in Task, wait[u].kind = "child_results", WakeOf(u),
             t \in wait[u].deps, outcome[t] = "succeeded"
      PROVE  u = p /\ AnswersParent(t)
  <2>1. /\ parent[t] = u /\ contract[t].mode = "result"
        /\ contract[t].dest = Assignee(u)
    BY <1>8 DEF WakeOf, DepsComeBack, Awaitable
  <2> QED
    BY <1>8, <2>1 DEF AnswersParent
<1>9. SUFFICES ASSUME NEW u \in Task
               PROVE  WakeOf(u)'
  BY DEF WakeInv
<1>10. WakeOf(u)
  BY DEF WakeInv
<1>11. CASE ~(AnswersParent(t) /\ wait[p].kind = "child_results")
  <2>1. wait'[u] = wait[u]
    BY <1>2, <1>11
  <2> QED
    BY <1>7, <1>8, <1>10, <1>11, <2>1
<1>12. CASE AnswersParent(t) /\ wait[p].kind = "child_results" /\ u # p
  <2>1. wait'[u] = wait[u]
    BY <1>2, <1>12, WakeTypes
  <2> QED
    BY <1>7, <1>8, <1>10, <1>12, <2>1
<1>13. CASE AnswersParent(t) /\ wait[p].kind = "child_results" /\ u = p
  <2>1. wait'[u] = [wait[u] EXCEPT !.ready = Answered(wait[u].deps, published)]
    BY <1>2, <1>13, WakeTypes
  <2>2. /\ wait[u] \in WaitRecord
        /\ \A i \in inputs[u] : i.by \in Run \cup {NoRun}
    BY WakeTypes
  <2>3. /\ wait'[u].kind = "child_results" /\ wait'[u].deps = wait[u].deps
        /\ wait'[u].gen = wait[u].gen
        /\ wait'[u].ready = Answered(wait[u].deps, published)
    BY <1>13, <2>1, <2>2 DEF WaitRecord
  <2>4. InputsFollowWait(u)'
    <3>1. /\ \A i \in inputs[u] : /\ i.gen <= wait[u].gen
                                  /\ i.by # NoRun => runTask[i.by] # NoTask
          /\ taskState[u] \in {"NONE", "QUEUED", "SUSPENDED"} => inputs[u] = {}
          /\ taskState[u] = "ACTIVE" => \A i \in inputs[u] : i.by # NoRun
      BY <1>10 DEF WakeOf, InputsFollowWait
    <3>2. \A i \in inputs'[u] : /\ i.gen <= wait'[u].gen
                                /\ i.by # NoRun => runTask'[i.by] # NoTask
      BY <1>2, <2>3, <3>1
    <3>3. taskState'[u] \in {"NONE", "QUEUED", "SUSPENDED"} => inputs'[u] = {}
      BY <1>2, <1>5, <3>1 DEF Final
    <3>4. taskState'[u] = "ACTIVE" => \A i \in inputs'[u] : i.by # NoRun
      BY <1>2, <1>5, <3>1 DEF Final
    <3> QED
      BY <3>2, <3>3, <3>4 DEF InputsFollowWait
  <2>5. InputsPaired(u)'
    BY <1>2, <1>10, <1>13, <2>3 DEF WakeOf, InputsPaired
  <2>6. DepsComeBack(u)'
    <3>1. taskState[u] # "NONE" /\ wait[u].deps \subseteq Awaitable(u)
      BY <1>10, <1>13 DEF WakeOf, DepsComeBack
    <3>2. Awaitable(u) \subseteq Awaitable(u)'
      BY <3>1 DEF Awaitable, Assignee, TasksKeepTheirs
    <3> QED
      BY <2>3, <3>1, <3>2 DEF DepsComeBack, TasksKeepTheirs
  <2>7. ReadyRight(u)'
    <3>1. Answered(wait[u].deps, result)' <=> Answered(wait[u].deps, published)
      BY <1>2, <2>3 DEF Answered
    <3> HIDE DEF published
    <3>2. wait'[u].ready <=> Answered(wait[u].deps, result)'
      BY <2>3, <3>1
    <3> QED
      BY <2>3, <3>2 DEF ReadyRight
  <2> QED
    BY <2>4, <2>5, <2>6, <2>7 DEF WakeOf
<1> QED
  BY <1>11, <1>12, <1>13

\* Every step keeps the invariant.
LEMMA NextWake ==
  TypeInv /\ StructInv /\ LifeInv /\ WakeInv /\ [Next]_vars => WakeInv'
<1> SUFFICES ASSUME TypeInv, StructInv, LifeInv, WakeInv, [Next]_vars
             PROVE  WakeInv'
  OBVIOUS
<1>1. TasksKeepTheirs
  BY NextKeeps
<1>2. CASE UserStep \/ UNCHANGED vars
  <2>1. ASSUME NEW t \in Task, SendUserInput(t)
        PROVE  WakeInv'
    BY <1>1, <2>1, InputWake
  <2> QED
    BY <1>1, <1>2, <2>1, QuietWake DEF UserStep
<1>3. CASE SchedulerStep
  BY <1>1, <1>3, DispatchWake, QuietWake DEF SchedulerStep
<1>4. ASSUME NEW r \in Run, AgentStep(r)
      PROVE  WakeInv'
  <2>1. CASE \/ \E oc \in Outcome : FinishResult(r, oc)
             \/ \E n \in Task, q \in AgentRequests : FinishHandoff(r, n, q)
    BY <1>1, <2>1, StoreWake
  <2>2. CASE \E kind \in WaitKinds, deps \in SUBSET Task : Wait(r, kind, deps)
    BY <1>1, <2>2, WaitWake
  <2>3. CASE Accepted(r) \/ (\E t \in Task, q \in AgentRequests : Send(r, t, q))
    BY <1>1, <2>3, QuietWake
  <2> QED
    BY <1>4, <2>1, <2>2, <2>3 DEF AgentStep
<1>5. ASSUME NEW r \in Run, ExitStep(r)
      PROVE  WakeInv'
  <2>1. CASE \E h \in Task : SettlePublish(r, h)
    BY <1>1, <2>1, PublishWake
  <2>2. CASE \E out \in {"succeeded", "failed", "cancelled"} : SettleAttention(r, out)
    BY <1>1, <2>2, StoreWake
  <2>3. CASE SettleWaiting(r) \/ MarkUnknown(r)
    BY <1>1, <2>3, QuietWake
  <2> QED
    BY <1>5, <2>1, <2>2, <2>3 DEF ExitStep
<1>6. CASE CrashRecover
  BY <1>1, <1>6, QuietWake
<1> QED
  BY <1>2, <1>3, <1>4, <1>5, <1>6 DEF Next

\* The invariant holds of every state.
LEMMA WakeInvariance == Spec => [](TypeInv /\ StructInv /\ LifeInv /\ WakeInv)
<1>1. Init => WakeInv
  BY InitReach
<1>2. TypeInv /\ StructInv /\ LifeInv /\ WakeInv /\ [Next]_vars => WakeInv'
  BY NextWake
<1> QED
  BY LifeInvariance, <1>1, <1>2, PTL DEF Spec

\* No wake-up is lost and none is false: whichever of the wait, the results,
\* the user's answer and the exits of the runs comes first, the stored ready
\* flag says exactly whether what a waiting task waits for is there.
THEOREM ReadyIsAlwaysExact == Spec => []ReadyIsExact
<1>1. TypeInv /\ WakeInv => ReadyIsExact
  <2> SUFFICES ASSUME TypeInv, WakeInv, NEW t \in Task,
                      taskState[t] = "WAITING_INPUT"
               PROVE  wait[t].ready = Due(t)
    BY DEF ReadyIsExact
  <2>1. wait[t].ready \in BOOLEAN
    BY WakeTypes
  <2>2. ReadyRight(t)
    BY DEF WakeInv, WakeOf
  <2>3. CASE wait[t].kind = "child_results"
    <3>1. wait[t].ready <=> Answered(wait[t].deps, result)
      BY <2>2, <2>3 DEF ReadyRight
    <3>2. Due(t) <=> Answered(wait[t].deps, result)
      BY <2>3 DEF Due
    <3>3. Due(t) \in BOOLEAN
      BY <2>3 DEF Due, Answered
    <3> QED
      BY <2>1, <3>1, <3>2, <3>3
  <2>4. CASE wait[t].kind = "user_input"
    <3>1. wait[t].ready <=> UnreadInputs(t) # {}
      BY <2>2, <2>4 DEF ReadyRight, UnreadInputs
    <3>2. Due(t) = (UnreadInputs(t) # {})
      BY <2>4 DEF Due
    <3> QED
      BY <2>1, <3>1, <3>2
  <2>5. CASE wait[t].kind \notin {"child_results", "user_input"}
    <3>1. ~wait[t].ready
      BY <2>2, <2>5 DEF ReadyRight
    <3>2. Due(t) = FALSE
      BY <2>5 DEF Due
    <3> QED
      BY <2>1, <3>1, <3>2
  <2> QED
    BY <2>3, <2>4, <2>5
<1> QED
  BY WakeInvariance, <1>1, PTL

\* Each question of a task gets at most one answer, each run reads at most one,
\* and no answer is left over for a later question.
THEOREM AnswersAlwaysPaired == Spec => []AnswersArePaired
<1>1. WakeInv => AnswersArePaired
  BY DEF WakeInv, WakeOf, InputsPaired, AnswersArePaired, UnreadInputs
<1> QED
  BY WakeInvariance, <1>1, PTL

-----------------------------------------------------------------------------
(* The kernel implements RoutePromise: each handler is one step of the       *)
(* promise, or invisible.                                                    *)

\* The runs that may be executing a task.
Working(t) == {r \in Run : Occupying(r) /\ runTask[r] = t}

\* The phase of a task, state by state.
LEMMA Phases ==
  ASSUME NEW t \in Task
  PROVE  /\ taskState[t] = "NONE" => PhaseOf(t) = "none"
         /\ taskState[t] = "NEEDS_ATTENTION" => PhaseOf(t) = "stuck"
         /\ taskState[t] \in Final => PhaseOf(t) = "closed"
         /\ taskState[t] \in Open \cup {"QUEUED", "SUSPENDED"} => PhaseOf(t) = "open"
  BY DEF PhaseOf, Open, Final

\* The same of the next state.
LEMMA NextPhases ==
  ASSUME NEW t \in Task
  PROVE  /\ taskState'[t] = "NONE" => PhaseOf(t)' = "none"
         /\ taskState'[t] = "NEEDS_ATTENTION" => PhaseOf(t)' = "stuck"
         /\ taskState'[t] \in Final => PhaseOf(t)' = "closed"
         /\ taskState'[t] \in Open \cup {"QUEUED", "SUSPENDED"} => PhaseOf(t)' = "open"
         /\ taskState'[t] = taskState[t] => PhaseOf(t)' = PhaseOf(t)
  BY DEF PhaseOf, Open, Final

\* The empty database is the initial state of the promise.
LEMMA InitPromise == Init => Promise!Init
<1> SUFFICES ASSUME Init
             PROVE  Promise!Init
  OBVIOUS
<1>1. \A t \in Task : PhaseOf(t) = "none"
  BY Phases DEF Init
<1>2. \A t \in Task : Behind(t) = NoTask
  BY DEF Init, Behind
<1>3. \A t \in Task : {r \in Run : Occupying(r) /\ runTask[r] = t} = {}
  BY DEF Init, Occupying, Live, LiveStates
<1>4. \A t \in Task : (result[t] = "PUBLISHED") = FALSE
  BY DEF Init
<1> QED
  BY <1>1, <1>2, <1>3, <1>4 DEF Promise!Init

\* A handler that changes none of the four is invisible.
LEMMA Invisible ==
  ASSUME \A t \in Task : PhaseOf(t)' = PhaseOf(t),
         \A t \in Task : Behind(t)' = Behind(t),
         \A t \in Task : Working(t)' = Working(t),
         \A t \in Task : (result'[t] = "PUBLISHED") <=> (result[t] = "PUBLISHED")
  PROVE  UNCHANGED Promise!vars
<1>1. \A t \in Task : {r \in Run : Occupying(r) /\ runTask[r] = t}'
                        = {r \in Run : Occupying(r) /\ runTask[r] = t}
  BY DEF Working
<1>2. \A t \in Task : (result'[t] = "PUBLISHED") = (result[t] = "PUBLISHED")
  OBVIOUS
<1> QED
  BY <1>1, <1>2 DEF Promise!vars

\* Handlers that neither start nor end a run leave the working runs alone.
LEMMA QuietWorking ==
  ASSUME QuietRuns, runTask' = runTask, NEW t \in Task
  PROVE  Working(t)' = Working(t)
<1>1. \A r \in Run : Occupying(r)' <=> Occupying(r)
  BY DEF QuietRuns, Occupying
<1> QED
  BY <1>1 DEF Working

\* What a task that can be created looks like: it is behind nothing.
LEMMA FreshIsBehindNothing ==
  ASSUME TypeInv, LifeInv, NEW t \in Task, taskState[t] = "NONE"
  PROVE  heldBy[t] = NoRun /\ Behind(t) = NoTask
  BY DEF LifeInv, HeldIsBehindARun, Behind

\* Moving a task about is invisible as long as it stays open.
LEMMA MovePromise ==
  ASSUME TypeInv, StructInv, LifeInv,
         \/ \E t \in Task : SendUserInput(t) \/ Suspend(t) \/ Resume(t)
         \/ \E o \in Role : DispatchRefused(o)
         \/ \E r \in Run : Accepted(r)
         \/ \E r \in Run, oc \in Outcome : FinishResult(r, oc)
         \/ \E r \in Run, kind \in WaitKinds, deps \in SUBSET Task :
              Wait(r, kind, deps)
  PROVE  UNCHANGED Promise!vars
<1>1. UNCHANGED <<runTask, heldBy>>
  BY DEF SendUserInput, Suspend, Resume, DispatchRefused, Accepted, FinishResult, Wait
<1>2. \/ runState' = runState
      \/ \E r \in Run : /\ runState[r] \in {"STARTING", "RUNNING"}
                        /\ \E s \in {"RUNNING", "SETTLING"} :
                             runState' = [runState EXCEPT ![r] = s]
  BY DEF SendUserInput, Suspend, Resume, DispatchRefused, Accepted, FinishResult, Wait
<1>3. QuietRuns
  BY <1>2, LifeTypes DEF QuietRuns, Live, LiveStates, Settled
<1>4. \/ taskState' = taskState
      \/ \E t \in Task : /\ taskState[t] \in {"QUEUED", "SUSPENDED"}
                         /\ \E s \in {"QUEUED", "SUSPENDED"} :
                              taskState' = [taskState EXCEPT ![t] = s]
      \/ \E r \in Run : /\ taskState[runTask[r]] \in Open
                        /\ \E s \in {"WAITING_INPUT", "RESULT_STAGED"} :
                             taskState' = [taskState EXCEPT ![runTask[r]] = s]
  <2>1. CASE \E t \in Task : SendUserInput(t) \/ Suspend(t) \/ Resume(t)
    BY <2>1 DEF SendUserInput, Suspend, Resume, Movable
  <2>2. CASE (\E o \in Role : DispatchRefused(o)) \/ \E r \in Run : Accepted(r)
    BY <2>2 DEF DispatchRefused, Accepted
  <2>3. CASE \/ \E r \in Run, oc \in Outcome : FinishResult(r, oc)
             \/ \E r \in Run, kind \in WaitKinds, deps \in SUBSET Task :
                  Wait(r, kind, deps)
    BY <2>3 DEF FinishResult, Wait, Open
  <2> QED
    BY <2>1, <2>2, <2>3
<1>5. \A t \in Task : PhaseOf(t)' = PhaseOf(t)
  <2> SUFFICES ASSUME NEW t \in Task
               PROVE  PhaseOf(t)' = PhaseOf(t)
    OBVIOUS
  <2>1. \/ taskState'[t] = taskState[t]
        \/ /\ taskState[t] \in Open \cup {"QUEUED", "SUSPENDED"}
           /\ taskState'[t] \in Open \cup {"QUEUED", "SUSPENDED"}
    BY <1>4, LifeTypes DEF Open
  <2> QED
    BY <2>1, Phases, NextPhases
<1>6. \A t \in Task : Behind(t)' = Behind(t)
  BY <1>1 DEF Behind
<1>7. \A t \in Task : Working(t)' = Working(t)
  BY <1>1, <1>3, QuietWorking
<1>8. \A t \in Task : (result'[t] = "PUBLISHED") <=> (result[t] = "PUBLISHED")
  <2>1. \/ result' = result
        \/ \E r \in Run : /\ result[runTask[r]] = "NONE"
                          /\ result' = [result EXCEPT ![runTask[r]] = "STAGED"]
    BY DEF SendUserInput, Suspend, Resume, DispatchRefused, Accepted, FinishResult,
           Wait
  <2> QED
    BY <2>1, LifeTypes
<1> QED
  BY <1>5, <1>6, <1>7, <1>8, Invisible

\* A request makes a task of its own appear.
LEMMA CreatePromise ==
  ASSUME TypeInv, StructInv, LifeInv, NEW t \in Task,
         \/ \E q \in UserRequests : SubmitFromUser(t, q)
         \/ \E r \in Run, q \in AgentRequests : Send(r, t, q)
  PROVE  Promise!Create(t, NoTask)
<1>1. /\ taskState[t] = "NONE"
      /\ taskState' = [taskState EXCEPT ![t] = "QUEUED"]
      /\ UNCHANGED <<runState, runTask, heldBy, result>>
  BY DEF SubmitFromUser, Send, Fresh
<1>2. QuietRuns
  BY <1>1 DEF QuietRuns, Live
<1>3. PhaseOf(t) = "none" /\ PhaseOf(t)' = "open"
  BY <1>1, Phases, NextPhases, LifeTypes
<1>4. \A u \in Task : u # t => PhaseOf(u)' = PhaseOf(u)
  BY <1>1, NextPhases, LifeTypes
<1>5. Behind(t) = NoTask /\ \A u \in Task : Behind(u)' = Behind(u)
  BY <1>1, FreshIsBehindNothing DEF Behind
<1>6. \A u \in Task : {r \in Run : Occupying(r) /\ runTask[r] = u}'
                        = {r \in Run : Occupying(r) /\ runTask[r] = u}
  BY <1>1, <1>2, QuietWorking DEF Working
<1>7. \A u \in Task : (result'[u] = "PUBLISHED") = (result[u] = "PUBLISHED")
  BY <1>1
<1> QED
  BY <1>3, <1>4, <1>5, <1>6, <1>7 DEF Promise!Create

\* A handoff makes a task appear that follows on the one handed off.
LEMMA HandoffPromise ==
  ASSUME TypeInv, StructInv, LifeInv, NEW r \in Run, NEW n \in Task,
         NEW q \in AgentRequests, FinishHandoff(r, n, q)
  PROVE  Promise!Create(n, runTask[r])
<1>0. PICK t : t = runTask[r]
  OBVIOUS
<1>1. /\ taskState[n] = "NONE" /\ runState[r] = "RUNNING"
      /\ taskState' = [taskState EXCEPT ![t] = "RESULT_STAGED", ![n] = "QUEUED"]
      /\ runState' = [runState EXCEPT ![r] = "SETTLING"]
      /\ heldBy' = [heldBy EXCEPT ![n] = r]
      /\ result[t] = "NONE" /\ result' = [result EXCEPT ![t] = "STAGED"]
      /\ runTask' = runTask
  BY <1>0 DEF FinishHandoff, Fresh
<1>2. Live(r) /\ t \in Task /\ t # NoTask /\ taskState[t] \in Open /\ t # n
  <2>1. Live(r)
    BY <1>1 DEF Live, LiveStates
  <2> QED
    BY <1>0, <1>1, <2>1, LiveRunLife DEF Open
<1>3. QuietRuns
  BY <1>1, LifeTypes DEF QuietRuns, Live, LiveStates, Settled
<1>4. PhaseOf(n) = "none" /\ PhaseOf(n)' = "open" /\ PhaseOf(t) = "open"
  BY <1>1, <1>2, Phases, NextPhases, LifeTypes
<1>5. \A u \in Task : u # n => PhaseOf(u)' = PhaseOf(u)
  <2>1. taskState'[t] = "RESULT_STAGED"
    BY <1>1, <1>2, LifeTypes
  <2>2. PhaseOf(t)' = "open"
    BY <1>2, <2>1, NextPhases DEF Open
  <2>3. \A u \in Task : u # n /\ u # t => taskState'[u] = taskState[u]
    BY <1>1, LifeTypes
  <2> QED
    BY <1>4, <2>2, <2>3, NextPhases
<1>6. /\ Behind(n)' = t
      /\ \A u \in Task : u # n => Behind(u)' = Behind(u)
  BY <1>0, <1>1, LifeTypes DEF Behind
<1>7. \A u \in Task : {p \in Run : Occupying(p) /\ runTask[p] = u}'
                        = {p \in Run : Occupying(p) /\ runTask[p] = u}
  BY <1>1, <1>3, QuietWorking DEF Working
<1>8. r \in {p \in Run : Occupying(p) /\ runTask[p] = t}
  BY <1>0, <1>2 DEF Occupying
<1>9. \A u \in Task : (result'[u] = "PUBLISHED") = (result[u] = "PUBLISHED")
  BY <1>1, LifeTypes
<1>10. /\ [u \in Task |-> PhaseOf(u)]' = [[u \in Task |-> PhaseOf(u)] EXCEPT ![n] = "open"]
       /\ [u \in Task |-> Behind(u)]' = [[u \in Task |-> Behind(u)] EXCEPT ![n] = t]
  BY <1>4, <1>5, <1>6
<1> QED
  BY <1>0, <1>2, <1>4, <1>7, <1>8, <1>9, <1>10 DEF Promise!Create

\* A task withdrawn by the user is one nobody works on.
LEMMA CancelPromise ==
  ASSUME TypeInv, StructInv, LifeInv, NEW t \in Task, Cancel(t)
  PROVE  Promise!Withdraw(t)
<1>1. /\ taskState[t] \in {"QUEUED", "SUSPENDED"}
      /\ taskState' = [taskState EXCEPT ![t] = "CANCELLED"]
      /\ UNCHANGED <<runState, runTask, heldBy, result>>
  BY DEF Cancel, Movable
<1>2. QuietRuns
  BY <1>1 DEF QuietRuns, Live
<1>3. PhaseOf(t) = "open"
  BY <1>1, Phases
<1>4. PhaseOf(t)' = "closed" /\ \A u \in Task : u # t => PhaseOf(u)' = PhaseOf(u)
  BY <1>1, NextPhases, LifeTypes DEF Final
<1>5. \A u \in Task : Behind(u)' = Behind(u)
  BY <1>1 DEF Behind
<1>6. \A u \in Task : {p \in Run : Occupying(p) /\ runTask[p] = u}'
                        = {p \in Run : Occupying(p) /\ runTask[p] = u}
  BY <1>1, <1>2, QuietWorking DEF Working
<1>7. {p \in Run : Occupying(p) /\ runTask[p] = t} = {}
  BY <1>1 DEF LifeInv, QueuedIsUnstarted
<1>8. \A u \in Task : (result'[u] = "PUBLISHED") = (result[u] = "PUBLISHED")
  BY <1>1
<1> QED
  BY <1>3, <1>4, <1>5, <1>6, <1>7, <1>8 DEF Promise!Withdraw

\* Only the runs working on one task change.
LEMMA WorkingUpdate ==
  ASSUME NEW t \in Task, NEW S, Working(t)' = S,
         \A u \in Task : u # t => Working(u)' = Working(u)
  PROVE  [u \in Task |-> {p \in Run : Occupying(p) /\ runTask[p] = u}]'
           = [[u \in Task |-> {p \in Run : Occupying(p) /\ runTask[p] = u}] EXCEPT ![t] = S]
<1>1. [u \in Task |-> Working(u)]' = [[u \in Task |-> Working(u)] EXCEPT ![t] = S]
  OBVIOUS
<1>2. [u \in Task |-> Working(u)]
        = [u \in Task |-> {p \in Run : Occupying(p) /\ runTask[p] = u}]
  BY DEF Working
<1>3. [u \in Task |-> Working(u)]'
        = [u \in Task |-> {p \in Run : Occupying(p) /\ runTask[p] = u}]'
  BY DEF Working
<1> QED
  BY <1>1, <1>2, <1>3

\* When a run ends, nobody works on its task any more.
LEMMA EndedWorking ==
  ASSUME TypeInv, StructInv, LifeInv, NEW r \in Run, NEW t \in Task, Live(r),
         t = runTask[r], NEW s \in Settled,
         runState' = [runState EXCEPT ![r] = s], runTask' = runTask
  PROVE  /\ Working(t) # {} /\ Working(t)' = {}
         /\ \A u \in Task : u # t => Working(u)' = Working(u)
<1>1. \A q \in Run : q # r => (Occupying(q)' <=> Occupying(q))
  BY LifeTypes DEF Occupying, Live
<1>2. ~Occupying(r)'
  BY LifeTypes DEF Occupying, Live, LiveStates, Settled
<1>3. \A q \in Run : q # r /\ runTask[q] = t => ~Occupying(q)
  BY LiveRunLife DEF Occupying, Live, LiveStates
<1>4. r \in Working(t)
  BY DEF Working, Occupying
<1>5. Working(t)' = {}
  BY <1>1, <1>2, <1>3 DEF Working
<1>6. \A u \in Task : u # t => Working(u)' = Working(u)
  BY <1>1 DEF Working
<1> QED
  BY <1>4, <1>5, <1>6

\* A run that waits lets its task rest.
LEMMA WaitingPromise ==
  ASSUME TypeInv, StructInv, LifeInv, NEW r \in Run, SettleWaiting(r)
  PROVE  \E t \in Task : Promise!Rest(t)
<1>0. PICK t : t = runTask[r]
  OBVIOUS
<1>1. /\ Live(r) /\ "SUCCEEDED" \in Settled
      /\ runState' = [runState EXCEPT ![r] = "SUCCEEDED"]
      /\ UNCHANGED <<runTask, heldBy, taskState, result>>
  BY DEF SettleWaiting, EndRun, SettledAs, Settled
<1>2. t \in Task /\ taskState[t] \in Open
  BY <1>0, <1>1, LiveRunLife
<1>3. /\ Working(t) # {} /\ Working(t)' = {}
      /\ \A u \in Task : u # t => Working(u)' = Working(u)
  BY <1>0, <1>1, <1>2, EndedWorking
<1>4. PhaseOf(t) = "open" /\ \A u \in Task : PhaseOf(u)' = PhaseOf(u)
  BY <1>1, <1>2, Phases, NextPhases DEF Open
<1>5. \A u \in Task : Behind(u)' = Behind(u)
  BY <1>1 DEF Behind
<1>6. \A u \in Task : (result'[u] = "PUBLISHED") = (result[u] = "PUBLISHED")
  BY <1>1
<1>7. /\ {p \in Run : Occupying(p) /\ runTask[p] = t} # {}
      /\ {p \in Run : Occupying(p) /\ runTask[p] = t}' = {}
      /\ \A u \in Task : u # t => {p \in Run : Occupying(p) /\ runTask[p] = u}'
                                   = {p \in Run : Occupying(p) /\ runTask[p] = u}
  BY <1>3 DEF Working
<1>8. [u \in Task |-> PhaseOf(u)]' = [u \in Task |-> PhaseOf(u)]
  BY <1>4
<1>9. [u \in Task |-> Behind(u)]' = [u \in Task |-> Behind(u)]
  BY <1>5
<1>10. [u \in Task |-> {p \in Run : Occupying(p) /\ runTask[p] = u}]'
         = [[u \in Task |-> {p \in Run : Occupying(p) /\ runTask[p] = u}] EXCEPT ![t] = {}]
  BY <1>2, <1>3, WorkingUpdate
<1>11. [u \in Task |-> result[u] = "PUBLISHED"]' = [u \in Task |-> result[u] = "PUBLISHED"]
  BY <1>6
<1>12. Promise!Rest(t)
  BY <1>2, <1>4, <1>7, <1>8, <1>9, <1>10, <1>11 DEF Promise!Rest
<1> QED
  BY <1>2, <1>12

\* A run that ends otherwise leaves its task to the user.
LEMMA AttentionPromise ==
  ASSUME TypeInv, StructInv, LifeInv, NEW r \in Run,
         NEW out \in {"succeeded", "failed", "cancelled"}, SettleAttention(r, out)
  PROVE  \E t \in Task : Promise!GiveUp(t)
<1>0. PICK t : t = runTask[r]
  OBVIOUS
<1>1. /\ Live(r) /\ SettledAs(out) \in Settled
      /\ runState' = [runState EXCEPT ![r] = SettledAs(out)]
      /\ taskState' = [taskState EXCEPT ![t] = "NEEDS_ATTENTION"]
      /\ UNCHANGED <<runTask, heldBy>>
      /\ \/ result' = result
         \/ result' = [result EXCEPT ![t] = "QUARANTINED"]
  BY <1>0 DEF SettleAttention, EndRun, SettledAs, Settled
<1>2. t \in Task /\ taskState[t] \in Open /\ result[t] # "PUBLISHED"
  BY <1>0, <1>1, LiveRunLife
<1>3. /\ Working(t) # {} /\ Working(t)' = {}
      /\ \A u \in Task : u # t => Working(u)' = Working(u)
  BY <1>0, <1>1, <1>2, EndedWorking
<1>4. PhaseOf(t) = "open" /\ PhaseOf(t)' = "stuck"
  BY <1>1, <1>2, Phases, NextPhases, LifeTypes DEF Open
<1>5. \A u \in Task : u # t => PhaseOf(u)' = PhaseOf(u)
  BY <1>1, NextPhases, LifeTypes
<1>6. \A u \in Task : Behind(u)' = Behind(u)
  BY <1>1 DEF Behind
<1>7. \A u \in Task : (result'[u] = "PUBLISHED") = (result[u] = "PUBLISHED")
  BY <1>1, <1>2, LifeTypes
<1>8. /\ {p \in Run : Occupying(p) /\ runTask[p] = t} # {}
      /\ {p \in Run : Occupying(p) /\ runTask[p] = t}' = {}
      /\ \A u \in Task : u # t => {p \in Run : Occupying(p) /\ runTask[p] = u}'
                                   = {p \in Run : Occupying(p) /\ runTask[p] = u}
  BY <1>3 DEF Working
<1>9. [u \in Task |-> PhaseOf(u)]' = [[u \in Task |-> PhaseOf(u)] EXCEPT ![t] = "stuck"]
  BY <1>2, <1>4, <1>5
<1>10. [u \in Task |-> Behind(u)]' = [u \in Task |-> Behind(u)]
  BY <1>6
<1>11. [u \in Task |-> {p \in Run : Occupying(p) /\ runTask[p] = u}]'
         = [[u \in Task |-> {p \in Run : Occupying(p) /\ runTask[p] = u}] EXCEPT ![t] = {}]
  BY <1>2, <1>3, WorkingUpdate
<1>12. [u \in Task |-> result[u] = "PUBLISHED"]' = [u \in Task |-> result[u] = "PUBLISHED"]
  BY <1>7
<1>13. Promise!GiveUp(t)
  BY <1>2, <1>4, <1>8, <1>9, <1>10, <1>11, <1>12 DEF Promise!GiveUp
<1> QED
  BY <1>2, <1>13

\* A published result is shown, perhaps as a task of its addressee.
LEMMA PublishPromise ==
  ASSUME TypeInv, StructInv, LifeInv, NEW r \in Run, NEW h \in Task,
         SettlePublish(r, h)
  PROVE  \E t \in Task, c \in Task \cup {NoTask} : Promise!Conclude(t, c)
<1>0. PICK t : t = runTask[r]
  OBVIOUS
<1>1. /\ Live(r) /\ StagedBy(r) /\ "SUCCEEDED" \in Settled
      /\ runState' = [runState EXCEPT ![r] = "SUCCEEDED"]
      /\ UNCHANGED <<runTask, heldBy>>
      /\ result' = [result EXCEPT ![t] = "PUBLISHED"]
  BY <1>0 DEF SettlePublish, EndRun, SettledAs, Settled
<1>2. t \in Task /\ t # NoTask /\ taskState[t] \in Open /\ result[t] # "PUBLISHED"
  BY <1>0, <1>1, LiveRunLife
<1>3. Concluded(t) \in Final
  BY <1>0, <1>1, <1>2, ConcludedType DEF StagedBy
<1>4. \/ taskState' = [taskState EXCEPT ![t] = Concluded(t)]
      \/ /\ taskState[h] = "NONE"
         /\ taskState' = [taskState EXCEPT ![t] = Concluded(t), ![h] = "QUEUED"]
  BY <1>0 DEF SettlePublish, Fresh
<1>5. /\ Working(t) # {} /\ Working(t)' = {}
      /\ \A u \in Task : u # t => Working(u)' = Working(u)
  BY <1>0, <1>1, <1>2, EndedWorking
<1>6. \A u \in Task : Behind(u)' = Behind(u)
  BY <1>1 DEF Behind
<1>7. /\ (result'[t] = "PUBLISHED") = TRUE
      /\ (result[t] = "PUBLISHED") = FALSE
      /\ \A u \in Task : u # t
           => (result'[u] = "PUBLISHED") = (result[u] = "PUBLISHED")
  BY <1>1, <1>2, LifeTypes
<1>8. PhaseOf(t) = "open"
  BY <1>2, Phases DEF Open
<1>11. /\ {p \in Run : Occupying(p) /\ runTask[p] = t} # {}
      /\ {p \in Run : Occupying(p) /\ runTask[p] = t}' = {}
      /\ \A u \in Task : u # t => {p \in Run : Occupying(p) /\ runTask[p] = u}'
                                   = {p \in Run : Occupying(p) /\ runTask[p] = u}
  BY <1>5 DEF Working
<1>12. [u \in Task |-> Behind(u)]' = [u \in Task |-> Behind(u)]
  BY <1>6
<1>13. [u \in Task |-> {p \in Run : Occupying(p) /\ runTask[p] = u}]'
         = [[u \in Task |-> {p \in Run : Occupying(p) /\ runTask[p] = u}] EXCEPT ![t] = {}]
  BY <1>2, <1>5, WorkingUpdate
<1>14. [u \in Task |-> result[u] = "PUBLISHED"]'
         = [[u \in Task |-> result[u] = "PUBLISHED"] EXCEPT ![t] = TRUE]
  BY <1>2, <1>7
<1>9. CASE taskState' = [taskState EXCEPT ![t] = Concluded(t)]
  <2>1. PhaseOf(t)' = "closed" /\ \A u \in Task : u # t => PhaseOf(u)' = PhaseOf(u)
    BY <1>2, <1>3, <1>9, NextPhases, LifeTypes
  <2>2. [u \in Task |-> PhaseOf(u)]' =
          [u \in Task |-> IF u = t THEN "closed" ELSE IF u = NoTask THEN "open"
                          ELSE [v \in Task |-> PhaseOf(v)][u]]
    BY <2>1
  <2>3. Promise!Conclude(t, NoTask)
    BY <1>2, <1>11, <1>12, <1>13, <1>14, <1>7, <1>8, <2>2 DEF Promise!Conclude
  <2> QED
    BY <1>2, <2>3
<1>10. CASE /\ taskState[h] = "NONE"
            /\ taskState' = [taskState EXCEPT ![t] = Concluded(t), ![h] = "QUEUED"]
  <2>1. h # t /\ PhaseOf(h) = "none" /\ PhaseOf(h)' = "open"
    BY <1>2, <1>10, Phases, NextPhases, LifeTypes DEF Open
  <2>2. PhaseOf(t)' = "closed"
    BY <1>2, <1>3, <1>10, <2>1, NextPhases, LifeTypes
  <2>3. \A u \in Task : u # t /\ u # h => PhaseOf(u)' = PhaseOf(u)
    BY <1>10, NextPhases, LifeTypes
  <2>4. [u \in Task |-> PhaseOf(u)]' =
          [u \in Task |-> IF u = t THEN "closed" ELSE IF u = h THEN "open"
                          ELSE [v \in Task |-> PhaseOf(v)][u]]
    BY <2>1, <2>2, <2>3
  <2>5. Promise!Conclude(t, h)
    BY <1>2, <1>11, <1>12, <1>13, <1>14, <1>7, <1>8, <2>1, <2>4
       DEF Promise!Conclude
  <2> QED
    BY <1>2, <2>5
<1> QED
  BY <1>4, <1>9, <1>10

\* Runs given up without proof that they stopped are contact lost.
LEMMA LosePromise ==
  ASSUME TypeInv, StructInv, LifeInv, NEW runs \in SUBSET Run,
         \A r \in runs : Live(r), Quarantined(runs)
  PROVE  \E tasks \in SUBSET Task : Promise!Lose(tasks)
<1>0. PICK tasks \in SUBSET Task :
        \A t \in Task : t \in tasks <=> \E r \in runs : runTask[r] = t
  <2>1. {t \in Task : \E r \in runs : runTask[r] = t} \in SUBSET Task
    OBVIOUS
  <2> QED
    BY <2>1
<1>1. /\ \A t \in Task : taskState'[t] = IF t \in tasks THEN "NEEDS_ATTENTION"
                                         ELSE taskState[t]
      /\ \A r \in Run : runState'[r] = IF r \in runs THEN "UNKNOWN" ELSE runState[r]
      /\ UNCHANGED <<runTask, heldBy, result>>
  BY <1>0 DEF Quarantined
<1>2. \A t \in tasks : PhaseOf(t) = "open" /\ PhaseOf(t)' = "stuck"
  <2> SUFFICES ASSUME NEW t \in tasks
               PROVE  PhaseOf(t) = "open" /\ PhaseOf(t)' = "stuck"
    OBVIOUS
  <2>1. taskState[t] \in Open
    BY <1>0, LiveRunLife
  <2> QED
    BY <1>1, <2>1, Phases, NextPhases DEF Open
<1>3. \A t \in Task : t \notin tasks => PhaseOf(t)' = PhaseOf(t)
  BY <1>1, NextPhases
<1>4. \A r \in Run : Occupying(r)' <=> Occupying(r)
  BY <1>1 DEF Occupying, Live, LiveStates
<1>5. \A u \in Task : {p \in Run : Occupying(p) /\ runTask[p] = u}'
                        = {p \in Run : Occupying(p) /\ runTask[p] = u}
  BY <1>1, <1>4
<1>6. \A t \in tasks : {p \in Run : Occupying(p) /\ runTask[p] = t} # {}
  BY <1>0 DEF Occupying
<1>7. \A u \in Task : Behind(u)' = Behind(u)
  BY <1>1 DEF Behind
<1>8. \A u \in Task : (result'[u] = "PUBLISHED") = (result[u] = "PUBLISHED")
  BY <1>1
<1>9. [u \in Task |-> PhaseOf(u)]' =
        [u \in Task |-> IF u \in tasks THEN "stuck" ELSE [v \in Task |-> PhaseOf(v)][u]]
  BY <1>2, <1>3
<1>10. /\ [u \in Task |-> Behind(u)]' = [u \in Task |-> Behind(u)]
       /\ [u \in Task |-> {p \in Run : Occupying(p) /\ runTask[p] = u}]'
            = [u \in Task |-> {p \in Run : Occupying(p) /\ runTask[p] = u}]
       /\ [u \in Task |-> result[u] = "PUBLISHED"]' = [u \in Task |-> result[u] = "PUBLISHED"]
  BY <1>5, <1>7, <1>8
<1>11. Promise!Lose(tasks)
  BY <1>2, <1>6, <1>9, <1>10 DEF Promise!Lose
<1> QED
  BY <1>11

\* A dispatch starts a run on a task that nobody works on and that stands
\* behind nothing unfinished.
LEMMA DispatchPromise ==
  ASSUME TypeInv, StructInv, LifeInv, NEW o \in Role, NEW t \in Task,
         NEW r \in Run, Dispatch(o, t, r)
  PROVE  Promise!Start(t, r)
<1>1. /\ runState[r] = "NONE" /\ runTask[r] = NoTask
      /\ activeRun[o] = NoRun /\ Candidate(o, t)
      /\ runState' = [runState EXCEPT ![r] = "STARTING"]
      /\ runTask' = [runTask EXCEPT ![r] = t]
      /\ taskState' = [taskState EXCEPT ![t] = "ACTIVE"]
      /\ UNCHANGED <<result, heldBy>>
  BY DEF Dispatch, DispatchOpen, FreshRun, Deliver, StructInv, RunsHaveTasks
<1>2. /\ taskState[t] \in {"QUEUED", "WAITING_INPUT"}
      /\ \A q \in Run : runTask[q] = t => runState[q] = "SUCCEEDED"
      /\ heldBy[t] # NoRun => runState[heldBy[t]] = "SUCCEEDED"
  BY <1>1, CandidateLife
<1>3. PhaseOf(t) = "open" /\ \A u \in Task : PhaseOf(u)' = PhaseOf(u)
  <2>1. PhaseOf(t) = "open"
    BY <1>2, Phases DEF Open
  <2>2. PhaseOf(t)' = "open"
    BY <1>1, NextPhases, LifeTypes DEF Open
  <2> QED
    BY <1>1, <2>1, <2>2, NextPhases, LifeTypes
<1>4. \A q \in Run : q # r => /\ runTask'[q] = runTask[q]
                              /\ Occupying(q)' <=> Occupying(q)
  BY <1>1, LifeTypes DEF Live, Occupying
<1>5. ~Occupying(r) /\ Occupying(r)' /\ runTask'[r] = t
  BY <1>1, LifeTypes DEF Live, LiveStates, Occupying
<1>6. {p \in Run : Occupying(p) /\ runTask[p] = t} = {}
  BY <1>2 DEF Occupying, Live, LiveStates
<1>7. {p \in Run : Occupying(p) /\ runTask[p] = t}' = {r}
  BY <1>4, <1>5, <1>6
<1>8. \A u \in Task : u # t => {p \in Run : Occupying(p) /\ runTask[p] = u}'
                                = {p \in Run : Occupying(p) /\ runTask[p] = u}
  BY <1>4, <1>5
<1>9. \A u \in Task : Behind(u)' = Behind(u)
  <2>1. \A u \in Task : heldBy[u] # NoRun => heldBy[u] # r /\ heldBy[u] \in Run
    BY <1>1, HeldFacts
  <2> QED
    BY <1>1, <1>4, <2>1 DEF Behind
<1>10. \A u \in Task : (result'[u] = "PUBLISHED") = (result[u] = "PUBLISHED")
  BY <1>1
<1>11. /\ Behind(t) \in Task \cup {NoTask}
       /\ Behind(t) # NoTask => result[Behind(t)] = "PUBLISHED"
  <2>1. CASE heldBy[t] = NoRun
    BY <2>1 DEF Behind
  <2>2. CASE heldBy[t] # NoRun
    <3>1. PICK u \in Task : u = runTask[heldBy[t]] /\ resultRun[u] = heldBy[t]
      BY <2>2, HeldFacts
    <3>2. resultRun[u] \in Run /\ runState[resultRun[u]] = "SUCCEEDED"
      BY <1>2, <2>2, <3>1, HeldFacts
    <3>3. result[u] # "NONE"
      BY <3>2 DEF LifeInv, ResultsHaveRuns
    <3>4. result[u] \in {"NONE", "STAGED", "PUBLISHED", "QUARANTINED"}
      BY DEF TypeInv, TypeOK, ResultTypes
    <3>5. result[u] = "PUBLISHED"
      BY <3>2, <3>3, <3>4, ResultFacts DEF Occupying, Live, LiveStates
    <3> QED
      BY <2>2, <3>1, <3>5 DEF Behind
  <2> QED
    BY <2>1, <2>2
<1>12. [u \in Task |-> {p \in Run : Occupying(p) /\ runTask[p] = u}]'
         = [[u \in Task |-> {p \in Run : Occupying(p) /\ runTask[p] = u}] EXCEPT ![t] = {r}]
  <2>1. Working(t)' = {r} /\ \A u \in Task : u # t => Working(u)' = Working(u)
    BY <1>7, <1>8 DEF Working
  <2> QED
    BY <2>1, WorkingUpdate
<1>13. /\ [u \in Task |-> PhaseOf(u)]' = [u \in Task |-> PhaseOf(u)]
       /\ [u \in Task |-> Behind(u)]' = [u \in Task |-> Behind(u)]
       /\ [u \in Task |-> result[u] = "PUBLISHED"]' = [u \in Task |-> result[u] = "PUBLISHED"]
  BY <1>3, <1>9, <1>10
<1>14. \A u \in Task : r \notin {p \in Run : Occupying(p) /\ runTask[p] = u}
  BY <1>5
<1>15. Behind(t) # NoTask => [u \in Task |-> result[u] = "PUBLISHED"][Behind(t)]
  BY <1>11
<1> QED
  BY <1>3, <1>6, <1>12, <1>13, <1>14, <1>15 DEF Promise!Start

\* Every handler is a step of the promise, or invisible to it.
LEMMA NextPromise ==
  TypeInv /\ StructInv /\ LifeInv /\ [Next]_vars => [Promise!Next]_(Promise!vars)
<1> SUFFICES ASSUME TypeInv, StructInv, LifeInv, [Next]_vars
             PROVE  Promise!Next \/ UNCHANGED Promise!vars
  OBVIOUS
<1>1. CASE UserStep
  <2>1. CASE \E t \in Task, q \in UserRequests : SubmitFromUser(t, q)
    BY <2>1, CreatePromise DEF Promise!Next
  <2>2. CASE \E t \in Task : Cancel(t)
    BY <2>2, CancelPromise DEF Promise!Next
  <2>3. CASE \E t \in Task : SendUserInput(t) \/ Suspend(t) \/ Resume(t)
    BY <2>3, MovePromise
  <2> QED
    BY <1>1, <2>1, <2>2, <2>3 DEF UserStep
<1>2. CASE SchedulerStep
  BY <1>2, DispatchPromise, MovePromise DEF SchedulerStep, Promise!Next
<1>3. ASSUME NEW r \in Run, AgentStep(r)
      PROVE  Promise!Next \/ UNCHANGED Promise!vars
  <2>1. CASE \E t \in Task, q \in AgentRequests : Send(r, t, q)
    BY <2>1, CreatePromise DEF Promise!Next
  <2>2. CASE \E n \in Task, q \in AgentRequests : FinishHandoff(r, n, q)
    <3>1. PICK n \in Task, q \in AgentRequests : FinishHandoff(r, n, q)
      BY <2>2
    <3>2. runTask[r] \in Task \cup {NoTask}
      BY LifeTypes
    <3> QED
      BY <3>1, <3>2, HandoffPromise DEF Promise!Next
  <2>3. CASE \/ Accepted(r)
             \/ \E oc \in Outcome : FinishResult(r, oc)
             \/ \E kind \in WaitKinds, deps \in SUBSET Task : Wait(r, kind, deps)
    BY <2>3, MovePromise
  <2> QED
    BY <1>3, <2>1, <2>2, <2>3 DEF AgentStep
<1>4. ASSUME NEW r \in Run, ExitStep(r)
      PROVE  Promise!Next \/ UNCHANGED Promise!vars
  <2>1. CASE \E h \in Task : SettlePublish(r, h)
    BY <2>1, PublishPromise DEF Promise!Next
  <2>2. CASE SettleWaiting(r)
    BY <2>2, WaitingPromise DEF Promise!Next
  <2>3. CASE \E out \in {"succeeded", "failed", "cancelled"} : SettleAttention(r, out)
    BY <2>3, AttentionPromise DEF Promise!Next
  <2>4. CASE MarkUnknown(r)
    <3>1. {r} \in SUBSET Run /\ \A q \in {r} : Live(q)
      BY <2>4 DEF MarkUnknown
    <3> QED
      BY <2>4, <3>1, LosePromise DEF MarkUnknown, Promise!Next
  <2> QED
    BY <1>4, <2>1, <2>2, <2>3, <2>4 DEF ExitStep
<1>5. CASE CrashRecover
  <2>1. {r \in Run : Live(r)} \in SUBSET Run
    OBVIOUS
  <2> QED
    BY <1>5, <2>1, LosePromise DEF CrashRecover, Promise!Next
<1>6. CASE UNCHANGED vars
  BY <1>6 DEF vars, Promise!vars, PhaseOf, Behind, Occupying, Live
<1> QED
  BY <1>1, <1>2, <1>3, <1>4, <1>5, <1>6 DEF Next

\* The kernel implements its promise: one run at a time works on a task, none
\* does again once the outcome of a run is unknown, a result is shown once and
\* only when its run has stopped, and what was handed off starts only after
\* the result it follows on is shown.
THEOREM KernelKeepsItsPromise == Spec => ImplementsPromise
<1>1. Init => Promise!Init
  BY InitPromise
<1>2. TypeInv /\ StructInv /\ LifeInv /\ [Next]_vars
        => [Promise!Next]_(Promise!vars)
  BY NextPromise
<1> QED
  BY <1>1, <1>2, LifeInvariance, PTL DEF Spec, ImplementsPromise, Promise!Spec
=============================================================================
