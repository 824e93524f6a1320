-------------------------- MODULE ParticipantsProofs --------------------------
(***************************************************************************)
(* For every set of roles, tasks, runs and keys: participants and the       *)
(* kernel work on the same tables without undoing each other's work, and a  *)
(* call that is sent again acts once.                                       *)
(*                                                                          *)
(* The argument is about the answers of the user.  A task that can be       *)
(* started or is being worked has no answer that nobody has read (Quiet),   *)
(* so that a task gets at most one at a time, and who read one is known: a  *)
(* run that was started, or a call that is in the ledger.                   *)
(***************************************************************************)
EXTENDS Participants, FiniteSetTheorems, TLAPS

USE ConstantAssumption, ParticipantsAssumption DEF ConstantAssumption, ParticipantsAssumption
USE DEF taskVars, bornVars, outboxVars, resultVars, waitVars, runVars, leaseVars, slotVars,
        Assignee, RoleOf

Contract == [to : Role \cup {NoRole}, mode : {"result", "handoff"},
             dest : Role \cup {User}, problem : Role \cup {User}]

Outcomes == {"succeeded", "partial", "failed", "cancelled"}

Kinds == {"none", "child_results", "user_input", "external_condition"}

WaitRow == [kind : Kinds, deps : SUBSET Task, ready : BOOLEAN, gen : Nat]

\* An answer is read by a run or by a call with a key.
Answer == [gen : Nat, by : Run \cup {NoRun} \cup Key]

Tools == {"claim", "request_user_input", "submit_result"}

Call == [tool : Tools, key : Key, task : Task]

\* The columns the argument is about.
WorkTypes ==
  /\ taskState \in [Task -> TaskStates]
  /\ contract \in [Task -> Contract]
  /\ outcome \in [Task -> Outcomes \cup {"none"}]
  /\ resultRun \in [Task -> Run \cup {NoRun}]
  /\ result \in [Task -> {"NONE", "STAGED", "PUBLISHED", "QUARANTINED"}]
  /\ runState \in [Run -> LiveStates \cup Settled \cup {"NONE", "UNKNOWN"}]
  /\ runTask \in [Run -> Task \cup {NoTask}]
  /\ activeTask \in [Role -> Task \cup {NoTask}]

AskTypes ==
  /\ wait \in [Task -> WaitRow]
  /\ inputs \in [Task -> SUBSET Answer]
  /\ ledger \in [Role -> SUBSET Call]

\* A task with a result that was staged has an outcome.
StagedIsDecided == \A t \in Task : resultRun[t] # NoRun => outcome[t] # "none"

\* Tasks that may be started, or are being worked.
Quiet == {"NONE", "QUEUED", "SUSPENDED", "ACTIVE"}

\* The answers of a task: one for each question, none that is not asked for, and
\* each read at most once by somebody that is known.
Answered1(t) ==
  /\ inputs[t] # {} => taskState[t] # "NONE"
  /\ \A i \in inputs[t] : i.gen <= wait[t].gen
  /\ \A i, j \in inputs[t] : i.gen = j.gen => i = j
  /\ \A i, j \in inputs[t] : i.by = j.by /\ i.by # NoRun => i = j
  /\ \A i \in inputs[t] : i.by = NoRun =>
       /\ wait[t].kind = "user_input" /\ i.gen = wait[t].gen
       /\ taskState[t] \notin Quiet
  /\ \A i \in inputs[t] : i.by \in Run => runState[i.by] # "NONE"
  /\ \A i \in inputs[t] : i.by \in Key =>
       /\ Assignee(t) \in Role
       /\ [tool |-> "claim", key |-> i.by, task |-> t] \in ledger[Assignee(t)]

AnswersFit == \A t \in Task : Answered1(t)

\* A key stands for one call of a tool.
LedgerFits ==
  \A o \in Role : \A c, d \in ledger[o] : c.tool = d.tool /\ c.key = d.key => c = d

\* Runs work for roles the kernel visits, and a role has tasks of its own.
RunsAreVisited ==
  \A r \in Run : runTask[r] \in Task =>
    taskState[runTask[r]] # "NONE" /\ Assignee(runTask[r]) \in Profiled

SlotsAreOwn ==
  \A o \in Role : activeTask[o] \in Task =>
    taskState[activeTask[o]] # "NONE" /\ Assignee(activeTask[o]) = o

WorkInv == WorkTypes /\ StagedIsDecided /\ RunsAreVisited /\ SlotsAreOwn

AskInv == AskTypes /\ AnswersFit /\ LedgerFits

-----------------------------------------------------------------------------
(* Who tasks belong to.                                                      *)

\* A task that is there stays there, with its request.
TasksStay ==
  \A t \in Task : taskState[t] # "NONE" =>
    taskState'[t] # "NONE" /\ contract'[t] = contract[t]

\* No task becomes one that may be started, or is being worked, but those there are.
QuietStays == \A t \in Task : taskState'[t] \in Quiet => taskState[t] \in Quiet

\* Requests are typed.
LEMMA RequestTypes ==
  /\ UserRequests \cup AgentRequests \subseteq Contract
  /\ \A o \in Role : Handling(o) \in Contract
  /\ Unsent \in Contract
BY DEF Contract, Handling, Unsent

\* A new task.
LEMMA BornStays ==
  ASSUME WorkTypes, NEW n \in Task, Fresh(n), NEW q \in Contract,
         taskState' = [taskState EXCEPT ![n] = "QUEUED"],
         contract' = [contract EXCEPT ![n] = q]
  PROVE  /\ taskState' \in [Task -> TaskStates] /\ contract' \in [Task -> Contract]
         /\ TasksStay /\ QuietStays
<1>1. \A u \in Task : /\ taskState'[u] = IF u = n THEN "QUEUED" ELSE taskState[u]
                      /\ contract'[u] = IF u = n THEN q ELSE contract[u]
  BY DEF WorkTypes
<1> QED BY <1>1 DEF WorkTypes, Fresh, TasksStay, QuietStays, Quiet, TaskStates

\* A step that changes the state of one task.
LEMMA TaskStays ==
  ASSUME WorkTypes, NEW t, NEW state \in TaskStates \ {"NONE"},
         taskState' = [taskState EXCEPT ![t] = state],
         contract' = contract
  PROVE  /\ taskState' \in [Task -> TaskStates] /\ contract' \in [Task -> Contract]
         /\ TasksStay
         /\ ((t \in Task /\ state \in Quiet) => taskState[t] \in Quiet) => QuietStays
<1>1. \A u \in Task : taskState'[u] = IF u = t THEN state ELSE taskState[u]
  BY DEF WorkTypes
<1>2. taskState' \in [Task -> TaskStates]
  BY DEF WorkTypes
<1> QED BY <1>1, <1>2 DEF WorkTypes, TasksStay, QuietStays

\* What runs and slots refer to stays if tasks stay and neither is changed.
LEMMA OwnersStay ==
  ASSUME WorkInv, TasksStay,
         \A r \in Run : runTask'[r] = runTask[r] \/ (runTask'[r] \in Task =>
            taskState'[runTask'[r]] # "NONE" /\ contract'[runTask'[r]].to \in Profiled),
         \A o \in Role : activeTask'[o] = activeTask[o] \/ (activeTask'[o] \in Task =>
            taskState'[activeTask'[o]] # "NONE" /\ contract'[activeTask'[o]].to = o)
  PROVE  RunsAreVisited' /\ SlotsAreOwn'
<1>1. ASSUME NEW r \in Run, runTask'[r] \in Task
      PROVE  taskState'[runTask'[r]] # "NONE" /\ contract'[runTask'[r]].to \in Profiled
  BY <1>1 DEF WorkInv, RunsAreVisited, TasksStay
<1>2. ASSUME NEW o \in Role, activeTask'[o] \in Task
      PROVE  taskState'[activeTask'[o]] # "NONE" /\ contract'[activeTask'[o]].to = o
  BY <1>2, ZenonT(30) DEF WorkInv, SlotsAreOwn, TasksStay
<1> QED BY <1>1, <1>2 DEF RunsAreVisited, SlotsAreOwn

\* The user's steps.
LEMMA UserWork ==
  ASSUME WorkInv, UserStep
  PROVE  WorkInv' /\ TasksStay /\ QuietStays
<1> USE DEF WorkInv
<1>1. ASSUME NEW t \in Task, NEW q \in UserRequests, SubmitFromUser(t, q)
      PROVE  WorkInv' /\ TasksStay /\ QuietStays
  <2>1. /\ taskState' \in [Task -> TaskStates] /\ contract' \in [Task -> Contract]
        /\ TasksStay /\ QuietStays
    BY <1>1, BornStays, RequestTypes DEF SubmitFromUser, Born
  <2>2. RunsAreVisited' /\ SlotsAreOwn'
    BY <1>1, <2>1, OwnersStay DEF SubmitFromUser
  <2> QED BY <1>1, <2>1, <2>2 DEF SubmitFromUser, WorkTypes, StagedIsDecided
<1>2. ASSUME NEW t \in Task, SendUserInput(t)
      PROVE  WorkInv' /\ TasksStay /\ QuietStays
  <2>1. UNCHANGED <<taskVars, resultVars, runVars, slotVars>>
    BY <1>2 DEF SendUserInput
  <2>2. TasksStay /\ QuietStays
    BY <2>1 DEF TasksStay, QuietStays
  <2> QED BY <2>1, <2>2 DEF WorkTypes, StagedIsDecided, RunsAreVisited, SlotsAreOwn
<1>3. ASSUME NEW t \in Task, Suspend(t) \/ Resume(t) \/ Cancel(t)
      PROVE  WorkInv' /\ TasksStay /\ QuietStays
  <2>1. /\ UNCHANGED <<bornVars, resultVars, runVars, slotVars>>
        /\ taskState[t] \in Quiet
    BY <1>3 DEF Suspend, Resume, Cancel, Movable, Quiet
  <2>2. PICK state \in TaskStates \ {"NONE"} : taskState' = [taskState EXCEPT ![t] = state]
    BY <1>3 DEF Suspend, Resume, Cancel, TaskStates
  <2>3. /\ taskState' \in [Task -> TaskStates] /\ contract' \in [Task -> Contract]
        /\ TasksStay /\ QuietStays
    BY <2>1, <2>2, TaskStays
  <2>4. RunsAreVisited' /\ SlotsAreOwn'
    BY <2>1, <2>3, OwnersStay
  <2> QED BY <2>1, <2>3, <2>4 DEF WorkTypes, StagedIsDecided
<1> QED BY <1>1, <1>2, <1>3 DEF UserStep

\* A dispatch: the run works for the role it was started for.
LEMMA DispatchWork ==
  ASSUME WorkInv, NEW o \in Profiled, NEW t \in Task, NEW r \in Run, Dispatch(o, t, r)
  PROVE  /\ WorkInv' /\ TasksStay
         /\ Assignee(t) = o /\ taskState[t] \in {"QUEUED", "WAITING_INPUT"}
         /\ taskState' = [taskState EXCEPT ![t] = "ACTIVE"]
<1> USE DEF WorkInv
<1>1. Assignee(t) = o /\ taskState[t] \in {"QUEUED", "WAITING_INPUT"}
  BY DEF Dispatch, Candidate, Oldest, Resumable, Deliverable, SlotsAreOwn
<1>2. /\ taskState' = [taskState EXCEPT ![t] = "ACTIVE"]
      /\ runTask' = [runTask EXCEPT ![r] = t]
      /\ activeTask' = [activeTask EXCEPT ![o] = t]
      /\ runState' = [runState EXCEPT ![r] = "STARTING"]
      /\ UNCHANGED <<bornVars, resultVars>>
  BY DEF Dispatch
<1>3. "ACTIVE" \in TaskStates \ {"NONE"}
  BY DEF TaskStates
<1>4. /\ taskState' \in [Task -> TaskStates] /\ contract' \in [Task -> Contract]
      /\ TasksStay
  BY <1>2, <1>3, TaskStays
<1>5. /\ \A q \in Run : runTask'[q] = IF q = r THEN t ELSE runTask[q]
      /\ \A p \in Role : activeTask'[p] = IF p = o THEN t ELSE activeTask[p]
      /\ taskState'[t] = "ACTIVE" /\ contract'[t].to = o
  BY <1>1, <1>2 DEF WorkTypes
<1>6. RunsAreVisited' /\ SlotsAreOwn'
  BY <1>4, <1>5, OwnersStay
<1>7. /\ runTask' \in [Run -> Task \cup {NoTask}]
      /\ activeTask' \in [Role -> Task \cup {NoTask}]
      /\ runState' \in [Run -> LiveStates \cup Settled \cup {"NONE", "UNKNOWN"}]
  BY <1>2 DEF WorkTypes, LiveStates
<1> QED BY <1>1, <1>2, <1>4, <1>6, <1>7 DEF WorkTypes, StagedIsDecided

-----------------------------------------------------------------------------
(* What runs do is done to tasks of roles the kernel visits.                 *)

\* Runs that were started stay started.
RunsStay == \A r \in Run : runState[r] # "NONE" => runState'[r] # "NONE"

\* Work of roles the kernel does not visit is left alone.
OutsideStays ==
  \A t \in Task : taskState[t] # "NONE" /\ Assignee(t) \notin Profiled =>
    taskState'[t] = taskState[t] /\ result'[t] = result[t]

\* The state and the result of the task of a run are changed.
LEMMA RunTaskStays ==
  ASSUME WorkInv, NEW r \in Run, NEW state \in TaskStates \ Quiet,
         taskState' = [taskState EXCEPT ![runTask[r]] = state], contract' = contract,
         \A t \in Task : t # runTask[r] => result'[t] = result[t]
  PROVE  /\ taskState' \in [Task -> TaskStates] /\ contract' \in [Task -> Contract]
         /\ TasksStay /\ QuietStays /\ OutsideStays
<1>1. state \in TaskStates \ {"NONE"}
  BY DEF Quiet
<1>2. /\ taskState' \in [Task -> TaskStates] /\ contract' \in [Task -> Contract]
      /\ TasksStay /\ QuietStays
  BY <1>1, TaskStays DEF WorkInv
<1>3. OutsideStays
  <2>1. \A t \in Task : taskState'[t] = IF t = runTask[r] THEN state ELSE taskState[t]
    BY DEF WorkInv, WorkTypes
  <2> QED BY <2>1 DEF WorkInv, RunsAreVisited, OutsideStays
<1> QED BY <1>2, <1>3

\* A new task beside it.
LEMMA BornOutside ==
  ASSUME WorkInv, NEW n \in Task, Fresh(n), taskState' = [taskState EXCEPT ![n] = "QUEUED"],
         result' = result
  PROVE  OutsideStays
BY DEF WorkInv, WorkTypes, Fresh, OutsideStays

\* Runs that report, ask, finish or wait.
LEMMA AgentWork ==
  ASSUME WorkInv, NEW r \in Run, AgentStep(r)
  PROVE  WorkInv' /\ TasksStay /\ QuietStays /\ RunsStay /\ OutsideStays
<1>1. CASE Accepted(r)
  <2>1. /\ UNCHANGED <<taskVars, resultVars, runTask, slotVars>>
        /\ runState' = [runState EXCEPT ![r] = "RUNNING"]
    BY <1>1 DEF Accepted
  <2>2. runState' \in [Run -> LiveStates \cup Settled \cup {"NONE", "UNKNOWN"}] /\ RunsStay
    BY <2>1 DEF WorkInv, WorkTypes, LiveStates, RunsStay
  <2>3. TasksStay /\ QuietStays /\ OutsideStays
    BY <2>1 DEF TasksStay, QuietStays, OutsideStays
  <2> QED BY <2>1, <2>2, <2>3 DEF WorkInv, WorkTypes, StagedIsDecided, RunsAreVisited,
                                  SlotsAreOwn
<1>2. ASSUME NEW t \in Task, NEW q \in AgentRequests, Send(r, t, q)
      PROVE  WorkInv' /\ TasksStay /\ QuietStays /\ RunsStay /\ OutsideStays
  <2>1. /\ taskState' = [taskState EXCEPT ![t] = "QUEUED"] /\ Fresh(t)
        /\ contract' = [contract EXCEPT ![t] = q]
        /\ UNCHANGED <<resultVars, runVars, slotVars>>
    BY <1>2 DEF Send, Born
  <2>2. /\ taskState' \in [Task -> TaskStates] /\ contract' \in [Task -> Contract]
        /\ TasksStay /\ QuietStays
    BY <2>1, BornStays, RequestTypes DEF WorkInv
  <2>3. RunsAreVisited' /\ SlotsAreOwn'
    BY <2>1, <2>2, OwnersStay
  <2>4. RunsStay /\ OutsideStays
    BY <2>1, BornOutside DEF RunsStay
  <2> QED BY <2>1, <2>2, <2>3, <2>4 DEF WorkInv, WorkTypes, StagedIsDecided
<1>3. ASSUME NEW oc \in Outcome, FinishResult(r, oc)
      PROVE  WorkInv' /\ TasksStay /\ QuietStays /\ RunsStay /\ OutsideStays
  <2> DEFINE t == runTask[r]
  <2>1. /\ taskState' = [taskState EXCEPT ![t] = "RESULT_STAGED"]
        /\ result' = [result EXCEPT ![t] = "STAGED"]
        /\ outcome' = [outcome EXCEPT ![t] = oc]
        /\ resultRun' = [resultRun EXCEPT ![t] = r]
        /\ runState' = [runState EXCEPT ![r] = "SETTLING"]
        /\ UNCHANGED <<bornVars, runTask, slotVars>>
    BY <1>3 DEF FinishResult
  <2>2. "RESULT_STAGED" \in TaskStates \ Quiet
    BY DEF TaskStates, Quiet
  <2>3. /\ taskState' \in [Task -> TaskStates] /\ contract' \in [Task -> Contract]
        /\ TasksStay /\ QuietStays /\ OutsideStays
    <3>1. \A u \in Task : u # runTask[r] => result'[u] = result[u]
      BY <2>1 DEF WorkInv, WorkTypes
    <3> QED BY <2>1, <2>2, <3>1, RunTaskStays
  <2>4. RunsAreVisited' /\ SlotsAreOwn'
    BY <2>1, <2>3, OwnersStay
  <2>5. oc \in Outcomes
    BY DEF Outcomes
  <2>6. /\ outcome' \in [Task -> Outcomes \cup {"none"}]
        /\ resultRun' \in [Task -> Run \cup {NoRun}]
        /\ result' \in [Task -> {"NONE", "STAGED", "PUBLISHED", "QUARANTINED"}]
        /\ runState' \in [Run -> LiveStates \cup Settled \cup {"NONE", "UNKNOWN"}]
    BY <2>1, <2>5 DEF WorkInv, WorkTypes, LiveStates
  <2>7. StagedIsDecided' /\ RunsStay
    BY <2>1, <2>5 DEF WorkInv, WorkTypes, StagedIsDecided, RunsStay, Outcomes
  <2> QED BY <2>1, <2>3, <2>4, <2>6, <2>7 DEF WorkInv, WorkTypes
<1>4. ASSUME NEW n \in Task, NEW q \in AgentRequests, FinishHandoff(r, n, q)
      PROVE  WorkInv' /\ TasksStay /\ QuietStays /\ RunsStay /\ OutsideStays
  <2> DEFINE t == runTask[r]
  <2>1. /\ taskState' = [taskState EXCEPT ![t] = "RESULT_STAGED", ![n] = "QUEUED"]
        /\ Fresh(n) /\ contract' = [contract EXCEPT ![n] = q]
        /\ result' = [result EXCEPT ![t] = "STAGED"]
        /\ outcome' = [outcome EXCEPT ![t] = "succeeded"]
        /\ resultRun' = [resultRun EXCEPT ![t] = r]
        /\ runState' = [runState EXCEPT ![r] = "SETTLING"]
        /\ UNCHANGED <<runTask, slotVars>>
    BY <1>4 DEF FinishHandoff, Born
  <2>2. \A u \in Task :
          /\ taskState'[u] = IF u = n THEN "QUEUED"
                             ELSE IF u = t THEN "RESULT_STAGED" ELSE taskState[u]
          /\ contract'[u] = IF u = n THEN q ELSE contract[u]
          /\ result'[u] = IF u = t THEN "STAGED" ELSE result[u]
    BY <2>1 DEF WorkInv, WorkTypes
  <2>3. /\ taskState' \in [Task -> TaskStates] /\ contract' \in [Task -> Contract]
    BY <2>1, RequestTypes DEF WorkInv, WorkTypes, TaskStates
  <2>4. taskState[n] = "NONE"
    BY <2>1 DEF Fresh
  <2>5. TasksStay /\ QuietStays
    BY <2>2, <2>4 DEF TasksStay, QuietStays, Quiet
  <2>6. OutsideStays
    BY <2>2, <2>4 DEF OutsideStays, WorkInv, RunsAreVisited
  <2>7. RunsAreVisited' /\ SlotsAreOwn'
    BY <2>1, <2>5, OwnersStay
  <2>8. /\ outcome' \in [Task -> Outcomes \cup {"none"}]
        /\ resultRun' \in [Task -> Run \cup {NoRun}]
        /\ result' \in [Task -> {"NONE", "STAGED", "PUBLISHED", "QUARANTINED"}]
        /\ runState' \in [Run -> LiveStates \cup Settled \cup {"NONE", "UNKNOWN"}]
    BY <2>1 DEF WorkInv, WorkTypes, LiveStates, Outcomes
  <2>9. StagedIsDecided' /\ RunsStay
    BY <2>1 DEF WorkInv, WorkTypes, StagedIsDecided, RunsStay
  <2> QED BY <2>1, <2>3, <2>5, <2>6, <2>7, <2>8, <2>9 DEF WorkInv, WorkTypes
<1>5. ASSUME NEW kind \in WaitKinds, NEW deps \in SUBSET Task, Wait(r, kind, deps)
      PROVE  WorkInv' /\ TasksStay /\ QuietStays /\ RunsStay /\ OutsideStays
  <2>1. /\ taskState' = [taskState EXCEPT ![runTask[r]] = "WAITING_INPUT"]
        /\ UNCHANGED <<bornVars, resultVars, runVars, slotVars>>
    BY <1>5 DEF Wait
  <2>2. "WAITING_INPUT" \in TaskStates \ Quiet
    BY DEF TaskStates, Quiet
  <2>3. /\ taskState' \in [Task -> TaskStates] /\ contract' \in [Task -> Contract]
        /\ TasksStay /\ QuietStays /\ OutsideStays
    BY <2>1, <2>2, RunTaskStays
  <2>4. RunsAreVisited' /\ SlotsAreOwn'
    BY <2>1, <2>3, OwnersStay
  <2>5. RunsStay
    BY <2>1 DEF RunsStay
  <2> QED BY <2>1, <2>3, <2>4, <2>5 DEF WorkInv, WorkTypes, StagedIsDecided
<1> QED BY <1>1, <1>2, <1>3, <1>4, <1>5 DEF AgentStep

\* A run that settles gives its slots back.
LEMMA EndedWork ==
  ASSUME WorkInv, NEW r \in Run, NEW out \in {"succeeded", "failed", "cancelled"},
         EndRun(r, out)
  PROVE  /\ runState' \in [Run -> LiveStates \cup Settled \cup {"NONE", "UNKNOWN"}]
         /\ runTask' = runTask /\ RunsStay
<1>1. SettledAs(out) \in Settled /\ SettledAs(out) # "NONE"
  BY DEF SettledAs, Settled
<1>2. runState' = [runState EXCEPT ![r] = SettledAs(out)] /\ runTask' = runTask
  BY DEF EndRun
<1> QED BY <1>1, <1>2 DEF WorkInv, WorkTypes, RunsStay

\* A staged result is published as one of the final states.
LEMMA ConcludedIsFinal ==
  ASSUME WorkInv, NEW t \in Task, resultRun[t] \in Run
  PROVE  Concluded(t) \in TaskStates \ Quiet
<1>1. outcome[t] \in Outcomes /\ contract[t].mode \in {"result", "handoff"}
  BY DEF WorkInv, WorkTypes, StagedIsDecided, Contract
<1>2. Concluded(t) \in {"HANDED_OFF", "DELIVERED", "PARTIAL", "FAILED", "CANCELLED"}
  BY <1>1 DEF Concluded, Outcomes
<1> QED BY <1>2 DEF TaskStates, Quiet

\* Runs that settle or are given up.
LEMMA PublishWork ==
  ASSUME WorkInv, NEW r \in Run, NEW h \in Task, SettlePublish(r, h)
  PROVE  WorkInv' /\ TasksStay /\ QuietStays /\ RunsStay /\ OutsideStays
<1> DEFINE t == runTask[r]
           state == IF t \in Task THEN Concluded(t) ELSE "DELIVERED"
<1>1. /\ EndRun(r, "succeeded") /\ resultRun[t] = r
      /\ result' = [result EXCEPT ![t] = "PUBLISHED"]
      /\ activeTask' = [activeTask EXCEPT ![RoleOf(r)] = NoTask]
      /\ UNCHANGED <<outcome, resultRun>>
  BY DEF SettlePublish, StagedBy
<1>2. state \in TaskStates \ Quiet
  BY <1>1, ConcludedIsFinal DEF TaskStates, Quiet
<1>3. [taskState EXCEPT ![t] = Concluded(t)] = [taskState EXCEPT ![t] = state]
  BY ZenonT(30) DEF WorkInv, WorkTypes
<1>4. /\ runState' \in [Run -> LiveStates \cup Settled \cup {"NONE", "UNKNOWN"}]
      /\ runTask' = runTask /\ RunsStay
  BY <1>1, EndedWork
<1>5. /\ result' \in [Task -> {"NONE", "STAGED", "PUBLISHED", "QUARANTINED"}]
      /\ activeTask' \in [Role -> Task \cup {NoTask}]
      /\ \A u \in Task : u # t => result'[u] = result[u]
      /\ \A o \in Role : activeTask'[o] = activeTask[o] \/ activeTask'[o] = NoTask
  BY <1>1 DEF WorkInv, WorkTypes
<1>6. /\ taskState' \in [Task -> TaskStates] /\ contract' \in [Task -> Contract]
      /\ TasksStay /\ QuietStays /\ OutsideStays
  <2>1. CASE NeedsHandling(t)
    <3> DEFINE q == Handling(Addressee(t))
    <3>1. /\ Fresh(h) /\ contract' = [contract EXCEPT ![h] = q]
          /\ taskState' = [taskState EXCEPT ![t] = Concluded(t), ![h] = "QUEUED"]
      BY <2>1 DEF SettlePublish, Born
    <3>2. q \in Contract
      BY <2>1, RequestTypes DEF NeedsHandling
    <3>3. taskState' = [[taskState EXCEPT ![t] = Concluded(t)] EXCEPT ![h] = "QUEUED"]
      BY <3>1
    <3>4. taskState' = [[taskState EXCEPT ![t] = state] EXCEPT ![h] = "QUEUED"]
      BY <1>3, <3>3
    <3> HIDE DEF state, q
    <3>5. \A u \in Task : /\ taskState'[u] = IF u = h THEN "QUEUED"
                                             ELSE IF u = t THEN state ELSE taskState[u]
                          /\ contract'[u] = IF u = h THEN q ELSE contract[u]
      BY <3>1, <3>4 DEF WorkInv, WorkTypes
    <3>6. taskState' \in [Task -> TaskStates] /\ contract' \in [Task -> Contract]
      BY <1>2, <3>1, <3>2, <3>4 DEF WorkInv, WorkTypes, TaskStates
    <3>7. taskState[h] = "NONE"
      BY <3>1 DEF Fresh
    <3>8. state \notin Quiet /\ state # "NONE"
      BY <1>2 DEF Quiet
    <3>9. TasksStay /\ QuietStays
      BY <3>5, <3>7, <3>8 DEF TasksStay, QuietStays, Quiet
    <3>10. OutsideStays
      BY <1>5, <3>5, <3>7 DEF OutsideStays, WorkInv, RunsAreVisited
    <3> QED BY <3>6, <3>9, <3>10
  <2>2. CASE ~NeedsHandling(t)
    <3>1. taskState' = [taskState EXCEPT ![t] = Concluded(t)] /\ contract' = contract
      BY <2>2 DEF SettlePublish
    <3>2. taskState' = [taskState EXCEPT ![t] = state]
      BY <1>3, <3>1
    <3> HIDE DEF state
    <3> QED BY <1>2, <1>5, <3>1, <3>2, RunTaskStays
  <2> QED BY <2>1, <2>2
<1>7. RunsAreVisited' /\ SlotsAreOwn'
  <2>1. \A o \in Role : activeTask'[o] = activeTask[o] \/ activeTask'[o] \notin Task
    BY <1>5
  <2> QED BY <1>4, <1>6, <2>1, OwnersStay
<1>8. StagedIsDecided'
  BY <1>1 DEF WorkInv, StagedIsDecided
<1> QED BY <1>1, <1>4, <1>5, <1>6, <1>7, <1>8 DEF WorkInv, WorkTypes

\* Runs of unknown outcome leave their tasks to the user.
LEMMA LostWork ==
  ASSUME WorkInv, NEW lost \in SUBSET Run, Quarantined(lost)
  PROVE  WorkInv' /\ TasksStay /\ QuietStays /\ RunsStay /\ OutsideStays
<1>1. /\ runState' = [r \in Run |-> IF r \in lost THEN "UNKNOWN" ELSE runState[r]]
      /\ taskState' = [t \in Task |-> IF \E r \in lost : runTask[r] = t
                                      THEN "NEEDS_ATTENTION" ELSE taskState[t]]
      /\ UNCHANGED <<bornVars, resultVars, runTask, activeTask>>
  BY DEF Quarantined
<1>2. /\ taskState' \in [Task -> TaskStates] /\ contract' \in [Task -> Contract]
      /\ runState' \in [Run -> LiveStates \cup Settled \cup {"NONE", "UNKNOWN"}]
  BY <1>1 DEF WorkInv, WorkTypes, TaskStates
<1>3. TasksStay /\ QuietStays /\ RunsStay
  BY <1>1 DEF TasksStay, QuietStays, Quiet, RunsStay
<1>4. OutsideStays
  BY <1>1 DEF OutsideStays, WorkInv, RunsAreVisited
<1>5. RunsAreVisited' /\ SlotsAreOwn'
  BY <1>1, <1>3, OwnersStay
<1> QED BY <1>1, <1>2, <1>3, <1>4, <1>5 DEF WorkInv, WorkTypes, StagedIsDecided

\* Runs that exit.
LEMMA ExitWork ==
  ASSUME WorkInv, NEW r \in Run, ExitStep(r)
  PROVE  WorkInv' /\ TasksStay /\ QuietStays /\ RunsStay /\ OutsideStays
<1>1. CASE SettleWaiting(r)
  <2>1. /\ EndRun(r, "succeeded") /\ UNCHANGED <<taskVars, resultVars, activeTask>>
    BY <1>1 DEF SettleWaiting
  <2>2. /\ runState' \in [Run -> LiveStates \cup Settled \cup {"NONE", "UNKNOWN"}]
        /\ runTask' = runTask /\ RunsStay
    BY <2>1, EndedWork
  <2>3. TasksStay /\ QuietStays /\ OutsideStays
    BY <2>1 DEF TasksStay, QuietStays, OutsideStays
  <2> QED BY <2>1, <2>2, <2>3 DEF WorkInv, WorkTypes, StagedIsDecided, RunsAreVisited,
                                  SlotsAreOwn
<1>2. ASSUME NEW out \in {"succeeded", "failed", "cancelled"}, SettleAttention(r, out)
      PROVE  WorkInv' /\ TasksStay /\ QuietStays /\ RunsStay /\ OutsideStays
  <2> DEFINE t == runTask[r]
  <2>1. /\ EndRun(r, out)
        /\ taskState' = [taskState EXCEPT ![t] = "NEEDS_ATTENTION"]
        /\ result' = [result EXCEPT ![t] = "QUARANTINED"] \/ result' = result
        /\ UNCHANGED <<bornVars, outcome, resultRun, activeTask>>
    BY <1>2 DEF SettleAttention
  <2>2. /\ runState' \in [Run -> LiveStates \cup Settled \cup {"NONE", "UNKNOWN"}]
        /\ runTask' = runTask /\ RunsStay
    BY <2>1, EndedWork
  <2>3. /\ result' \in [Task -> {"NONE", "STAGED", "PUBLISHED", "QUARANTINED"}]
        /\ \A u \in Task : u # t => result'[u] = result[u]
    BY <2>1 DEF WorkInv, WorkTypes
  <2>4. "NEEDS_ATTENTION" \in TaskStates \ Quiet
    BY DEF TaskStates, Quiet
  <2>5. /\ taskState' \in [Task -> TaskStates] /\ contract' \in [Task -> Contract]
        /\ TasksStay /\ QuietStays /\ OutsideStays
    BY <2>1, <2>3, <2>4, RunTaskStays
  <2>6. RunsAreVisited' /\ SlotsAreOwn'
    BY <2>1, <2>2, <2>5, OwnersStay
  <2> QED BY <2>1, <2>2, <2>3, <2>5, <2>6 DEF WorkInv, WorkTypes, StagedIsDecided
<1>3. CASE MarkUnknown(r)
  BY <1>3, LostWork DEF MarkUnknown
<1> QED BY <1>1, <1>2, <1>3, PublishWork DEF ExitStep

\* The runs that were live when the Core died.
LEMMA CrashWork ==
  ASSUME WorkInv, CrashRecover
  PROVE  WorkInv' /\ TasksStay /\ QuietStays /\ RunsStay /\ OutsideStays
BY LostWork DEF CrashRecover

\* A participant works on a task of its role.
LEMMA ParticipantWork ==
  ASSUME WorkInv, NEW o \in Role, ParticipantStep(o)
  PROVE  WorkInv' /\ TasksStay /\ RunsStay
<1>1. ASSUME NEW t \in Task, NEW k \in Key, Claim(o, t, k)
      PROVE  WorkInv' /\ TasksStay /\ RunsStay
  <2>1. /\ taskState' = [taskState EXCEPT ![t] = "ACTIVE"]
        /\ activeTask' = [activeTask EXCEPT ![o] = t]
        /\ UNCHANGED <<bornVars, resultVars, runVars>>
        /\ Assignee(t) = o
    BY <1>1 DEF Claim, TaskOfRole
  <2>2. "ACTIVE" \in TaskStates \ {"NONE"}
    BY DEF TaskStates
  <2>3. /\ taskState' \in [Task -> TaskStates] /\ contract' \in [Task -> Contract]
        /\ TasksStay
    BY <2>1, <2>2, TaskStays DEF WorkInv
  <2>4. /\ activeTask' \in [Role -> Task \cup {NoTask}]
        /\ \A p \in Role : activeTask'[p] = IF p = o THEN t ELSE activeTask[p]
        /\ taskState'[t] = "ACTIVE" /\ contract'[t].to = o
    BY <2>1 DEF WorkInv, WorkTypes
  <2>5. RunsAreVisited' /\ SlotsAreOwn'
    BY <2>1, <2>3, <2>4, OwnersStay
  <2> QED BY <2>1, <2>3, <2>4, <2>5 DEF WorkInv, WorkTypes, StagedIsDecided, RunsStay
<1>2. ASSUME NEW t \in Task, NEW k \in Key, RequestUserInput(o, t, k)
      PROVE  WorkInv' /\ TasksStay /\ RunsStay
  <2>1. /\ taskState' = [taskState EXCEPT ![t] = "WAITING_INPUT"]
        /\ UNCHANGED <<bornVars, resultVars, runVars, slotVars>>
    BY <1>2 DEF RequestUserInput
  <2>2. "WAITING_INPUT" \in TaskStates \ {"NONE"}
    BY DEF TaskStates
  <2>3. /\ taskState' \in [Task -> TaskStates] /\ contract' \in [Task -> Contract]
        /\ TasksStay
    BY <2>1, <2>2, TaskStays DEF WorkInv
  <2>4. RunsAreVisited' /\ SlotsAreOwn'
    BY <2>1, <2>3, OwnersStay
  <2> QED BY <2>1, <2>3, <2>4 DEF WorkInv, WorkTypes, StagedIsDecided, RunsStay
<1>3. ASSUME NEW t \in Task, NEW k \in Key, NEW oc \in Outcome \cap {"succeeded", "failed"},
             SubmitResult(o, t, k, oc)
      PROVE  WorkInv' /\ TasksStay /\ RunsStay
  <2> DEFINE state == IF oc = "succeeded" THEN "DELIVERED" ELSE "FAILED"
  <2>1. /\ taskState' = [taskState EXCEPT ![t] = state]
        /\ result' = [result EXCEPT ![t] = "PUBLISHED"]
        /\ outcome' = [outcome EXCEPT ![t] = oc]
        /\ activeTask' = [activeTask EXCEPT ![o] = IF @ = t THEN NoTask ELSE @]
        /\ UNCHANGED <<bornVars, resultRun, runVars>>
    BY <1>3 DEF SubmitResult
  <2>2. state \in TaskStates \ {"NONE"} /\ oc \in Outcomes
    BY DEF TaskStates, Outcomes
  <2> HIDE DEF state
  <2>3. /\ taskState' \in [Task -> TaskStates] /\ contract' \in [Task -> Contract]
        /\ TasksStay
    BY <2>1, <2>2, TaskStays DEF WorkInv
  <2>4. /\ activeTask' \in [Role -> Task \cup {NoTask}]
        /\ \A p \in Role : activeTask'[p] = activeTask[p] \/ activeTask'[p] \notin Task
    BY <2>1 DEF WorkInv, WorkTypes
  <2>5. RunsAreVisited' /\ SlotsAreOwn'
    BY <2>1, <2>3, <2>4, OwnersStay
  <2>6. /\ outcome' \in [Task -> Outcomes \cup {"none"}]
        /\ result' \in [Task -> {"NONE", "STAGED", "PUBLISHED", "QUARANTINED"}]
        /\ StagedIsDecided'
    BY <2>1, <2>2 DEF WorkInv, WorkTypes, StagedIsDecided, Outcomes
  <2> QED BY <2>1, <2>3, <2>4, <2>5, <2>6 DEF WorkInv, WorkTypes, RunsStay
<1> QED BY <1>1, <1>2, <1>3 DEF ParticipantStep

-----------------------------------------------------------------------------
(* Answers stay as they are, are asked for, come and are read.               *)

\* What the ledger holds it goes on holding.
LedgerGrows == \A o \in Role : ledger[o] \subseteq ledger'[o]

\* The answers of a task and what they are for are left alone.
SameAsks(u) ==
  inputs'[u] = inputs[u] /\ wait'[u].kind = wait[u].kind /\ wait'[u].gen = wait[u].gen

\* The kernel does not look at the ledger.
LEMMA LedgerStays ==
  ASSUME ledger' = ledger
  PROVE  LedgerGrows
BY DEF LedgerGrows

\* A task whose answers are left alone, and that does not become one that may
\* be started.
LEMMA AnsweredStays ==
  ASSUME NEW u \in Task, Answered1(u), SameAsks(u), TasksStay, RunsStay, LedgerGrows,
         contract \in [Task -> Contract], inputs \in [Task -> SUBSET Answer],
         taskState'[u] \in Quiet => taskState[u] \in Quiet
  PROVE  Answered1(u)'
<1>1. CASE inputs[u] = {}
  BY <1>1 DEF Answered1, SameAsks
<1>2. CASE inputs[u] # {}
  <2>1. taskState'[u] # "NONE" /\ contract'[u] = contract[u]
    BY <1>2 DEF Answered1, TasksStay
  <2>2. /\ \A i \in inputs'[u] : i.gen <= wait'[u].gen
        /\ \A i, j \in inputs'[u] : i.gen = j.gen => i = j
        /\ \A i, j \in inputs'[u] : i.by = j.by /\ i.by # NoRun => i = j
        /\ \A i \in inputs'[u] : i.by = NoRun =>
             /\ wait'[u].kind = "user_input" /\ i.gen = wait'[u].gen
             /\ taskState'[u] \notin Quiet
    BY DEF Answered1, SameAsks
  <2>3. \A i \in inputs'[u] : i.by \in Run => runState'[i.by] # "NONE"
    BY DEF Answered1, SameAsks, RunsStay
  <2>4. \A i \in inputs'[u] : i.by \in Key =>
          /\ contract'[u].to \in Role
          /\ [tool |-> "claim", key |-> i.by, task |-> u] \in ledger'[contract'[u].to]
    BY <2>1 DEF Answered1, SameAsks, LedgerGrows
  <2> QED BY <2>1, <2>2, <2>3, <2>4 DEF Answered1
<1> QED BY <1>1, <1>2

\* A step that leaves the answers of every task alone.
LEMMA AnswersStay ==
  ASSUME AskInv, WorkTypes, TasksStay, QuietStays, RunsStay, LedgerGrows,
         \A u \in Task : SameAsks(u)
  PROVE  AnswersFit'
<1>1. \A u \in Task : Answered1(u)'
  BY AnsweredStays DEF AskInv, AskTypes, AnswersFit, WorkTypes, QuietStays
<1> QED BY <1>1 DEF AnswersFit

\* A task that is being worked asks for something: its answers have been read.
LEMMA AskedAnew ==
  ASSUME AskInv, WorkTypes, TasksStay, RunsStay, LedgerGrows, NEW t \in Task,
         taskState[t] = "ACTIVE", inputs' = inputs,
         wait'[t].gen = wait[t].gen + 1,
         \A u \in Task : u # t => wait'[u] = wait[u] /\ taskState'[u] = taskState[u]
  PROVE  AnswersFit'
<1>1. ASSUME NEW u \in Task, u # t
      PROVE  Answered1(u)'
  BY <1>1, AnsweredStays DEF AskInv, AskTypes, AnswersFit, WorkTypes, SameAsks
<1>2. Answered1(t)'
  <2>1. /\ \A i \in inputs[t] : i.by # NoRun
        /\ taskState'[t] # "NONE" /\ contract'[t] = contract[t]
    BY DEF AskInv, AnswersFit, Answered1, Quiet, TasksStay
  <2>2. wait[t].gen \in Nat /\ \A i \in inputs[t] : i.gen \in Nat
    BY DEF AskInv, AskTypes, WaitRow, Answer
  <2>3. \A i \in inputs[t] : i.gen <= wait[t].gen
    BY DEF AskInv, AnswersFit, Answered1
  <2>4. \A i \in inputs[t] : i.gen <= wait'[t].gen
    BY <2>2, <2>3
  <2>5. \A i \in inputs[t] : i.by \in Run => runState'[i.by] # "NONE"
    BY DEF AskInv, AnswersFit, Answered1, RunsStay
  <2>6. \A i \in inputs[t] : i.by \in Key =>
          /\ contract'[t].to \in Role
          /\ [tool |-> "claim", key |-> i.by, task |-> t] \in ledger'[contract'[t].to]
    BY <2>1 DEF AskInv, AnswersFit, Answered1, LedgerGrows
  <2>7. /\ \A i, j \in inputs[t] : i.gen = j.gen => i = j
        /\ \A i, j \in inputs[t] : i.by = j.by /\ i.by # NoRun => i = j
    BY DEF AskInv, AnswersFit, Answered1
  <2> QED BY <2>1, <2>4, <2>5, <2>6, <2>7 DEF Answered1
<1> QED BY <1>1, <1>2 DEF AnswersFit

\* The user answers the question a task waits with.
LEMMA AnswerComes ==
  ASSUME AskInv, WorkTypes, TasksStay, RunsStay, LedgerGrows, NEW t \in Task,
         SendUserInput(t)
  PROVE  AnswersFit'
<1> DEFINE answer == [gen |-> wait[t].gen, by |-> NoRun]
<1>1. /\ taskState' = taskState /\ contract' = contract /\ taskState[t] = "WAITING_INPUT"
      /\ wait[t].kind = "user_input"
      /\ \A i \in inputs[t] : i.gen # wait[t].gen
  BY DEF SendUserInput, Unanswered
<1>2. /\ inputs'[t] = inputs[t] \cup {answer}
      /\ wait'[t].kind = wait[t].kind /\ wait'[t].gen = wait[t].gen
      /\ \A u \in Task : u # t => inputs'[u] = inputs[u] /\ wait'[u] = wait[u]
  BY DEF SendUserInput, AskInv, AskTypes, WaitRow
<1>3. ASSUME NEW u \in Task, u # t
      PROVE  Answered1(u)'
  BY <1>1, <1>2, <1>3, AnsweredStays DEF AskInv, AskTypes, AnswersFit, WorkTypes, SameAsks
<1>4. Answered1(t)'
  <2>1. \A i \in inputs[t] : i.by # NoRun
    BY <1>1 DEF AskInv, AnswersFit, Answered1
  <2>2. wait[t].gen \in Nat
    BY DEF AskInv, AskTypes, WaitRow
  <2>3. /\ \A i \in inputs[t] : i.gen <= wait[t].gen
        /\ \A i, j \in inputs[t] : i.gen = j.gen => i = j
        /\ \A i, j \in inputs[t] : i.by = j.by /\ i.by # NoRun => i = j
        /\ \A i \in inputs[t] : i.by \in Run => runState[i.by] # "NONE"
        /\ \A i \in inputs[t] : i.by \in Key =>
             /\ contract[t].to \in Role
             /\ [tool |-> "claim", key |-> i.by, task |-> t] \in ledger[contract[t].to]
    BY DEF AskInv, AnswersFit, Answered1
  <2>4. answer.gen = wait[t].gen /\ answer.by = NoRun
    OBVIOUS
  <2> HIDE DEF answer
  <2>5. /\ \A i \in inputs'[t] : i.gen <= wait'[t].gen
        /\ \A i, j \in inputs'[t] : i.gen = j.gen => i = j
        /\ \A i, j \in inputs'[t] : i.by = j.by /\ i.by # NoRun => i = j
    BY <1>1, <1>2, <2>1, <2>2, <2>3, <2>4
  <2>6. \A i \in inputs'[t] : i.by = NoRun =>
          wait'[t].kind = "user_input" /\ i.gen = wait'[t].gen
    BY <1>1, <1>2, <2>1, <2>4
  <2>7. taskState'[t] \notin Quiet /\ taskState'[t] # "NONE"
    BY <1>1 DEF Quiet
  <2>8. \A i \in inputs'[t] : i.by \in Run => runState'[i.by] # "NONE"
    BY <1>2, <2>3, <2>4 DEF RunsStay
  <2>9. \A i \in inputs'[t] : i.by \in Key =>
          /\ contract'[t].to \in Role
          /\ [tool |-> "claim", key |-> i.by, task |-> t] \in ledger'[contract'[t].to]
    BY <1>1, <1>2, <2>3, <2>4 DEF LedgerGrows
  <2> QED BY <2>5, <2>6, <2>7, <2>8, <2>9 DEF Answered1
<1> QED BY <1>3, <1>4 DEF AnswersFit

\* A task has one answer that nobody has read, or none.
LEMMA OneIsUnread ==
  ASSUME AskInv, NEW t \in Task
  PROVE  /\ \A i, j \in inputs[t] : i.by = NoRun /\ j.by = NoRun => i = j
         /\ \A i \in inputs[t] : i.by = NoRun => i \in NextInput(t)
         /\ \A i \in NextInput(t) : i \in inputs[t] /\ i.by = NoRun
<1>1. \A i, j \in inputs[t] : i.by = NoRun /\ j.by = NoRun => i = j
  BY DEF AskInv, AnswersFit, Answered1
<1>2. \A i \in inputs[t] : i.gen <= i.gen
  BY DEF AskInv, AskTypes, Answer
<1> QED BY <1>1, <1>2 DEF NextInput, UnreadInputs

\* The answer is read by somebody who has not read one of this task before.
LEMMA AnswerIsRead ==
  ASSUME AskInv, WorkTypes, TasksStay, RunsStay, LedgerGrows, NEW t \in Task,
         NEW x \in Run \cup Key, \A i \in inputs[t] : i.by # x,
         taskState[t] # "NONE",
         inputs' = [inputs EXCEPT ![t] = (@ \ NextInput(t)) \cup
                      {[gen |-> i.gen, by |-> x] : i \in NextInput(t)}],
         wait' = [wait EXCEPT ![t].ready = FALSE],
         \A u \in Task : u # t => taskState'[u] = taskState[u],
         x \in Run => runState'[x] # "NONE",
         x \in Key => /\ Assignee(t) \in Role
                      /\ [tool |-> "claim", key |-> x, task |-> t] \in ledger'[Assignee(t)]
  PROVE  AnswersFit'
<1>1. /\ inputs'[t] = (inputs[t] \ NextInput(t)) \cup
                        {[gen |-> i.gen, by |-> x] : i \in NextInput(t)}
      /\ wait'[t].kind = wait[t].kind /\ wait'[t].gen = wait[t].gen
      /\ \A u \in Task : u # t => inputs'[u] = inputs[u] /\ wait'[u] = wait[u]
  BY DEF AskInv, AskTypes, WaitRow
<1>2. ASSUME NEW u \in Task, u # t
      PROVE  Answered1(u)'
  BY <1>1, <1>2, AnsweredStays DEF AskInv, AskTypes, AnswersFit, WorkTypes, SameAsks
<1>3. Answered1(t)'
  <2>1. \A i \in inputs'[t] :
          \/ i \in inputs[t] /\ i.by # NoRun
          \/ \E j \in inputs[t] : j.by = NoRun /\ i = [gen |-> j.gen, by |-> x]
    BY <1>1, OneIsUnread
  <2>2. x # NoRun /\ taskState'[t] # "NONE" /\ contract'[t] = contract[t]
    BY DEF TasksStay
  <2>3. /\ \A i \in inputs[t] : i.gen <= wait[t].gen
        /\ \A i, j \in inputs[t] : i.gen = j.gen => i = j
        /\ \A i, j \in inputs[t] : i.by = j.by /\ i.by # NoRun => i = j
        /\ \A i \in inputs[t] : i.by \in Run => runState[i.by] # "NONE"
        /\ \A i \in inputs[t] : i.by \in Key =>
             /\ contract[t].to \in Role
             /\ [tool |-> "claim", key |-> i.by, task |-> t] \in ledger[contract[t].to]
    BY DEF AskInv, AnswersFit, Answered1
  <2>4. \A i \in inputs'[t] : i.gen <= wait'[t].gen /\ i.by # NoRun
    BY <1>1, <2>1, <2>2, <2>3
  <2>5. ASSUME NEW i \in inputs'[t], NEW j \in inputs'[t], i.gen = j.gen
        PROVE  i = j
    BY <2>1, <2>3, <2>5, OneIsUnread
  <2>6. ASSUME NEW i \in inputs'[t], NEW j \in inputs'[t], i.by = j.by
        PROVE  i = j
    BY <2>1, <2>3, <2>6, OneIsUnread
  <2>7. \A i \in inputs'[t] : i.by \in Run => runState'[i.by] # "NONE"
    BY <2>1, <2>3 DEF RunsStay
  <2>8. \A i \in inputs'[t] : i.by \in Key =>
          /\ contract'[t].to \in Role
          /\ [tool |-> "claim", key |-> i.by, task |-> t] \in ledger'[contract'[t].to]
    BY <2>1, <2>2, <2>3 DEF LedgerGrows
  <2> QED BY <2>2, <2>4, <2>5, <2>6, <2>7, <2>8 DEF Answered1
<1> QED BY <1>2, <1>3 DEF AnswersFit

\* What is read keeps its type.
LEMMA ReadTypes ==
  ASSUME AskTypes, NEW t \in Task, NEW x \in Run \cup Key,
         inputs' = [inputs EXCEPT ![t] = (@ \ NextInput(t)) \cup
                      {[gen |-> i.gen, by |-> x] : i \in NextInput(t)}],
         wait' = [wait EXCEPT ![t].ready = FALSE]
  PROVE  wait' \in [Task -> WaitRow] /\ inputs' \in [Task -> SUBSET Answer]
<1>1. \A i \in NextInput(t) : i.gen \in Nat
  BY DEF NextInput, UnreadInputs, AskTypes, Answer
<1>2. {[gen |-> i.gen, by |-> x] : i \in NextInput(t)} \subseteq Answer
  BY <1>1 DEF Answer
<1>3. inputs' \in [Task -> SUBSET Answer]
  BY <1>2 DEF AskTypes
<1>4. [wait[t] EXCEPT !.ready = FALSE] \in WaitRow
  <2>1. wait[t] \in [kind : Kinds, deps : SUBSET Task, ready : BOOLEAN, gen : Nat]
    BY DEF AskTypes, WaitRow
  <2> QED BY <2>1 DEF WaitRow
<1>5. wait' = [wait EXCEPT ![t] = [wait[t] EXCEPT !.ready = FALSE]]
  BY DEF AskTypes
<1> QED BY <1>3, <1>4, <1>5 DEF AskTypes

\* A call is kept once.
LEMMA KeyedOnce ==
  ASSUME AskInv, NEW o \in Role, NEW tool \in Tools, NEW k \in Key, NEW t \in Task,
         Keyed(o, tool, k, t)
  PROVE  /\ ledger' \in [Role -> SUBSET Call] /\ LedgerGrows /\ LedgerFits'
         /\ [tool |-> tool, key |-> k, task |-> t] \in ledger'[o]
         /\ \A e \in ledger[o] : ~(e.tool = tool /\ e.key = k)
         /\ ledger' # ledger
<1> DEFINE call == [tool |-> tool, key |-> k, task |-> t]
<1>1. /\ \A e \in ledger[o] : ~(e.tool = tool /\ e.key = k)
      /\ ledger' = [ledger EXCEPT ![o] = @ \cup {call}]
  BY DEF Keyed
<1>2. call \in Call /\ call.tool = tool /\ call.key = k
  BY DEF Call
<1> HIDE DEF call
<1>3. /\ ledger' \in [Role -> SUBSET Call]
      /\ \A p \in Role : ledger'[p] = IF p = o THEN ledger[p] \cup {call} ELSE ledger[p]
  BY <1>1, <1>2 DEF AskInv, AskTypes
<1>4. LedgerGrows /\ call \in ledger'[o] /\ call \notin ledger[o]
  BY <1>1, <1>2, <1>3 DEF LedgerGrows
<1>5. ASSUME NEW p \in Role, NEW c \in ledger'[p], NEW d \in ledger'[p],
             c.tool = d.tool, c.key = d.key
      PROVE  c = d
  BY <1>1, <1>2, <1>3, <1>5 DEF AskInv, LedgerFits
<1> QED BY <1>1, <1>3, <1>4, <1>5 DEF LedgerFits, call

-----------------------------------------------------------------------------
(* The steps of the kernel and of participants keep the answers.             *)

\* A step that leaves waits and answers alone.
LEMMA AsksStay ==
  ASSUME WorkInv, AskInv, TasksStay, QuietStays, RunsStay,
         wait' = wait, inputs' = inputs, ledger' = ledger
  PROVE  AskInv'
<1>1. \A u \in Task : SameAsks(u)
  BY DEF SameAsks
<1>2. AnswersFit'
  BY <1>1, AnswersStay, LedgerStays DEF WorkInv
<1> QED BY <1>2 DEF AskInv, AskTypes, LedgerFits

\* The user submits, answers, suspends, resumes and cancels.
LEMMA UserAsk ==
  ASSUME WorkInv, AskInv, UserStep, ledger' = ledger
  PROVE  AskInv'
<1>1. TasksStay /\ QuietStays
  BY UserWork
<1>2. RunsStay
  BY DEF UserStep, SubmitFromUser, SendUserInput, Suspend, Resume, Cancel, RunsStay
<1>3. ASSUME NEW t \in Task, SendUserInput(t)
      PROVE  AskInv'
  <2>1. AnswersFit'
    BY <1>1, <1>2, <1>3, AnswerComes, LedgerStays DEF WorkInv
  <2>2. wait[t] \in [kind : Kinds, deps : SUBSET Task, ready : BOOLEAN, gen : Nat]
    BY DEF AskInv, AskTypes, WaitRow
  <2>3. [wait[t] EXCEPT !.ready = TRUE] \in WaitRow
    BY <2>2 DEF WaitRow
  <2>4. wait' = [wait EXCEPT ![t] = [wait[t] EXCEPT !.ready = TRUE]]
    BY <1>3 DEF SendUserInput, AskInv, AskTypes
  <2>5. wait' \in [Task -> WaitRow]
    BY <2>3, <2>4 DEF AskInv, AskTypes
  <2>6. [gen |-> wait[t].gen, by |-> NoRun] \in Answer
    BY <2>2 DEF Answer
  <2>7. inputs' \in [Task -> SUBSET Answer]
    BY <1>3, <2>6 DEF SendUserInput, AskInv, AskTypes
  <2> QED BY <2>1, <2>5, <2>7 DEF AskInv, AskTypes, LedgerFits
<1>4. CASE ~\E t \in Task : SendUserInput(t)
  <2>1. wait' = wait /\ inputs' = inputs
    BY <1>4 DEF UserStep, SubmitFromUser, Suspend, Resume, Cancel
  <2> QED BY <1>1, <1>2, <2>1, AsksStay
<1> QED BY <1>3, <1>4

\* A run that is started reads the answer its task waited for.
LEMMA DispatchAsk ==
  ASSUME WorkInv, AskInv, NEW o \in Profiled, NEW t \in Task, NEW r \in Run,
         Dispatch(o, t, r), ledger' = ledger
  PROVE  AskInv'
<1>1. /\ TasksStay /\ taskState[t] \in {"QUEUED", "WAITING_INPUT"}
      /\ taskState' = [taskState EXCEPT ![t] = "ACTIVE"]
  BY DispatchWork
<1>2. /\ RunsStay /\ runState[r] = "NONE" /\ runState'[r] = "STARTING"
  BY DEF Dispatch, FreshRun, RunsStay, WorkInv, WorkTypes
<1>3. /\ taskState'[t] = "ACTIVE"
      /\ \A u \in Task : u # t => taskState'[u] = taskState[u]
  BY <1>1 DEF WorkInv, WorkTypes
<1>4. LedgerGrows
  BY LedgerStays
<1>5. CASE activeTask[o] # t
  <2>1. wait' = wait /\ inputs' = inputs /\ taskState[t] = "QUEUED"
    BY <1>5 DEF Dispatch, Deliver, Candidate, Oldest, Resumable, Deliverable
  <2>2. QuietStays
    BY <1>3, <2>1 DEF QuietStays, Quiet
  <2> QED BY <1>1, <1>2, <2>1, <2>2, AsksStay
<1>6. CASE activeTask[o] = t /\ wait[t].kind # "user_input"
  <2>1. inputs' = inputs /\ wait' = [wait EXCEPT ![t].ready = FALSE]
    BY <1>6 DEF Dispatch, Deliver
  <2>2. wait[t] \in [kind : Kinds, deps : SUBSET Task, ready : BOOLEAN, gen : Nat]
    BY DEF AskInv, AskTypes, WaitRow
  <2>3. /\ wait' = [wait EXCEPT ![t] = [wait[t] EXCEPT !.ready = FALSE]]
        /\ [wait[t] EXCEPT !.ready = FALSE] \in WaitRow
    BY <2>1, <2>2 DEF AskInv, AskTypes, WaitRow
  <2>4. wait' \in [Task -> WaitRow] /\ \A u \in Task : SameAsks(u)
    BY <2>1, <2>2, <2>3 DEF AskInv, AskTypes, SameAsks
  <2>5. ASSUME NEW u \in Task, u # t
        PROVE  Answered1(u)'
    BY <1>1, <1>2, <1>3, <1>4, <2>4, <2>5, AnsweredStays
       DEF AskInv, AskTypes, AnswersFit, WorkInv, WorkTypes
  <2>6. \A i \in inputs[t] : i.by # NoRun
    BY <1>6 DEF AskInv, AnswersFit, Answered1
  <2>7. Answered1(t)'
    <3>0. Answered1(t) /\ wait'[t].gen = wait[t].gen
      BY <2>4 DEF AskInv, AnswersFit, SameAsks
    <3>1. /\ \A i \in inputs[t] : i.gen <= wait'[t].gen
          /\ \A i, j \in inputs[t] : i.gen = j.gen => i = j
          /\ \A i, j \in inputs[t] : i.by = j.by /\ i.by # NoRun => i = j
          /\ \A i \in inputs[t] : i.by \in Run => runState'[i.by] # "NONE"
      BY <1>2, <3>0 DEF Answered1, RunsStay
    <3>2. \A i \in inputs[t] : i.by \in Key =>
            /\ contract'[t].to \in Role
            /\ [tool |-> "claim", key |-> i.by, task |-> t] \in ledger'[contract'[t].to]
      BY <1>1, <1>4 DEF AskInv, AnswersFit, Answered1, TasksStay, LedgerGrows
    <3> QED BY <1>3, <2>1, <2>6, <3>1, <3>2 DEF Answered1
  <2> QED BY <2>1, <2>4, <2>5, <2>7 DEF AskInv, AskTypes, AnswersFit, LedgerFits
<1>7. CASE activeTask[o] = t /\ wait[t].kind = "user_input"
  <2>1. /\ wait' = [wait EXCEPT ![t].ready = FALSE]
        /\ inputs' = [inputs EXCEPT ![t] = (@ \ NextInput(t)) \cup
                        {[gen |-> i.gen, by |-> r] : i \in NextInput(t)}]
    BY <1>7 DEF Dispatch, Deliver
  <2>2. \A i \in inputs[t] : i.by # r
    BY <1>2 DEF AskInv, AnswersFit, Answered1
  <2>3. r \in Run \cup Key /\ r \notin Key /\ taskState[t] # "NONE"
    BY <1>1
  <2>4. AnswersFit'
    BY <1>1, <1>2, <1>3, <1>4, <2>1, <2>2, <2>3, AnswerIsRead DEF WorkInv
  <2>5. wait' \in [Task -> WaitRow] /\ inputs' \in [Task -> SUBSET Answer]
    BY <2>1, <2>3, ReadTypes DEF AskInv
  <2> QED BY <2>4, <2>5 DEF AskInv, AskTypes, LedgerFits
<1> QED BY <1>5, <1>6, <1>7

\* Runs ask anew only for a task that is being worked.
LEMMA AgentAsk ==
  ASSUME WorkInv, AskInv, NEW r \in Run, AgentStep(r), ledger' = ledger
  PROVE  AskInv'
<1>1. TasksStay /\ QuietStays /\ RunsStay
  BY AgentWork
<1>2. ASSUME NEW kind \in WaitKinds, NEW deps \in SUBSET Task, Wait(r, kind, deps)
      PROVE  AskInv'
  <2> DEFINE t == runTask[r]
             row == [kind |-> kind, deps |-> deps, gen |-> wait[t].gen + 1,
                     ready |-> WaitReady(kind, deps)]
  <2>1. /\ taskState[t] = "ACTIVE" /\ inputs' = inputs
        /\ taskState' = [taskState EXCEPT ![t] = "WAITING_INPUT"]
    BY <1>2 DEF Wait
  <2>2. wait' = [wait EXCEPT ![t] = row]
    BY <1>2 DEF Wait
  <2>3. CASE t \in Task
    <3>1. wait[t] \in [kind : Kinds, deps : SUBSET Task, ready : BOOLEAN, gen : Nat]
      BY <2>3 DEF AskInv, AskTypes, WaitRow
    <3>2. row.gen = wait[t].gen + 1 /\ row \in WaitRow
      <4>1. kind \in Kinds /\ WaitReady(kind, deps) \in BOOLEAN
        BY DEF Kinds, WaitReady, Answered
      <4>2. wait[t].gen + 1 \in Nat
        BY <3>1
      <4> QED BY <4>1, <4>2 DEF WaitRow
    <3> HIDE DEF row
    <3>3. /\ wait' \in [Task -> WaitRow] /\ wait'[t].gen = wait[t].gen + 1
          /\ \A u \in Task : u # t => wait'[u] = wait[u] /\ taskState'[u] = taskState[u]
      BY <2>1, <2>2, <2>3, <3>2 DEF AskInv, AskTypes, WorkInv, WorkTypes
    <3>4. AnswersFit'
      BY <1>1, <2>1, <2>3, <3>3, AskedAnew, LedgerStays DEF WorkInv
    <3> QED BY <2>1, <3>3, <3>4 DEF AskInv, AskTypes, LedgerFits
  <2>4. CASE t \notin Task
    <3>1. wait' = wait
      BY <2>2, <2>4 DEF AskInv, AskTypes
    <3> QED BY <1>1, <2>1, <3>1, AsksStay
  <2> QED BY <2>3, <2>4
<1>3. CASE ~\E kind \in WaitKinds, deps \in SUBSET Task : Wait(r, kind, deps)
  <2>1. wait' = wait /\ inputs' = inputs
    BY <1>3 DEF AgentStep, Accepted, Send, FinishResult, FinishHandoff
  <2> QED BY <1>1, <2>1, AsksStay
<1> QED BY <1>2, <1>3

\* Runs that exit: a result that is published can make a parent go on.
LEMMA ExitAsk ==
  ASSUME WorkInv, AskInv, NEW r \in Run, ExitStep(r), ledger' = ledger
  PROVE  AskInv'
<1>1. TasksStay /\ QuietStays /\ RunsStay
  BY ExitWork
<1>2. ASSUME NEW h \in Task, SettlePublish(r, h)
      PROVE  AskInv'
  <2>1. /\ inputs' = inputs
        /\ \/ wait' = wait
           \/ \E p, ready \in {parent[runTask[r]], Answered(wait[parent[runTask[r]]].deps,
                  [result EXCEPT ![runTask[r]] = "PUBLISHED"])} :
                wait' = [wait EXCEPT ![p].ready = ready] /\ ready \in BOOLEAN
    BY <1>2 DEF SettlePublish, Answered
  <2>2. ASSUME NEW p, NEW ready \in BOOLEAN, wait' = [wait EXCEPT ![p].ready = ready]
        PROVE  wait' \in [Task -> WaitRow] /\ \A u \in Task : SameAsks(u)
    <3>1. CASE p \in Task
      <4>1. wait[p] \in [kind : Kinds, deps : SUBSET Task, ready : BOOLEAN, gen : Nat]
        BY <3>1 DEF AskInv, AskTypes, WaitRow
      <4>2. /\ wait' = [wait EXCEPT ![p] = [wait[p] EXCEPT !.ready = ready]]
            /\ [wait[p] EXCEPT !.ready = ready] \in WaitRow
        BY <2>2, <3>1, <4>1 DEF AskInv, AskTypes, WaitRow
      <4>3. wait' \in [Task -> WaitRow]
        BY <4>2 DEF AskInv, AskTypes
      <4>4. \A u \in Task : wait'[u].kind = wait[u].kind /\ wait'[u].gen = wait[u].gen
        BY <4>1, <4>2 DEF AskInv, AskTypes
      <4> QED BY <2>1, <4>3, <4>4 DEF SameAsks
    <3>2. CASE p \notin Task
      <4>1. wait' = wait
        BY <2>2, <3>2 DEF AskInv, AskTypes
      <4> QED BY <2>1, <4>1 DEF AskInv, AskTypes, SameAsks
    <3> QED BY <3>1, <3>2
  <2>3. CASE wait' = wait
    BY <1>1, <2>1, <2>3, AsksStay
  <2>4. CASE wait' # wait
    <3>1. wait' \in [Task -> WaitRow] /\ \A u \in Task : SameAsks(u)
      BY <2>1, <2>2, <2>4
    <3>2. AnswersFit'
      BY <1>1, <3>1, AnswersStay, LedgerStays DEF WorkInv
    <3> QED BY <2>1, <3>1, <3>2 DEF AskInv, AskTypes, LedgerFits
  <2> QED BY <2>3, <2>4
<1>3. CASE ~\E h \in Task : SettlePublish(r, h)
  <2>1. wait' = wait /\ inputs' = inputs
    BY <1>3 DEF ExitStep, SettleWaiting, SettleAttention, MarkUnknown, Quarantined
  <2> QED BY <1>1, <2>1, AsksStay
<1> QED BY <1>2, <1>3

\* Participants claim, ask and submit.
LEMMA ParticipantAsk ==
  ASSUME WorkInv, AskInv, NEW o \in Role, ParticipantStep(o)
  PROVE  AskInv'
<1>1. TasksStay /\ RunsStay
  BY ParticipantWork
<1>2. ASSUME NEW t \in Task, NEW k \in Key, Claim(o, t, k)
      PROVE  AskInv'
  <2>1. /\ Keyed(o, "claim", k, t) /\ Assignee(t) = o /\ taskState[t] # "NONE"
        /\ taskState' = [taskState EXCEPT ![t] = "ACTIVE"]
    BY <1>2 DEF Claim, TaskOfRole
  <2>2. /\ ledger' \in [Role -> SUBSET Call] /\ LedgerGrows /\ LedgerFits'
        /\ [tool |-> "claim", key |-> k, task |-> t] \in ledger'[o]
        /\ \A e \in ledger[o] : ~(e.tool = "claim" /\ e.key = k)
    BY <2>1, KeyedOnce DEF Tools
  <2>3. /\ taskState'[t] = "ACTIVE"
        /\ \A u \in Task : u # t => taskState'[u] = taskState[u]
    BY <2>1 DEF WorkInv, WorkTypes
  <2>4. CASE taskState[t] = "QUEUED" /\ UNCHANGED <<wait, inputs>>
    <3>1. QuietStays /\ \A u \in Task : SameAsks(u)
      BY <2>3, <2>4 DEF QuietStays, Quiet, SameAsks
    <3>2. AnswersFit'
      BY <1>1, <2>2, <3>1, AnswersStay DEF WorkInv
    <3> QED BY <2>2, <2>4, <3>2 DEF AskInv, AskTypes
  <2>5. CASE Reads(t, k)
    <3>1. /\ wait' = [wait EXCEPT ![t].ready = FALSE]
          /\ inputs' = [inputs EXCEPT ![t] = (@ \ NextInput(t)) \cup
                          {[gen |-> i.gen, by |-> k] : i \in NextInput(t)}]
      BY <2>5 DEF Reads
    <3>2. \A i \in inputs[t] : i.by # k
      <4>1. ASSUME NEW i \in inputs[t], i.by = k
            PROVE  FALSE
        <5>1. [tool |-> "claim", key |-> k, task |-> t] \in ledger[o]
          BY <2>1, <4>1 DEF AskInv, AnswersFit, Answered1
        <5> QED BY <2>2, <5>1
      <4> QED BY <4>1
    <3>3. k \in Run \cup Key /\ k \notin Run
      OBVIOUS
    <3>4. AnswersFit'
      BY <1>1, <2>1, <2>2, <2>3, <3>1, <3>2, <3>3, AnswerIsRead DEF WorkInv
    <3>5. wait' \in [Task -> WaitRow] /\ inputs' \in [Task -> SUBSET Answer]
      BY <3>1, <3>3, ReadTypes DEF AskInv
    <3> QED BY <2>2, <3>4, <3>5 DEF AskInv, AskTypes
  <2> QED BY <1>2, <2>4, <2>5 DEF Claim
<1>3. ASSUME NEW t \in Task, NEW k \in Key, RequestUserInput(o, t, k)
      PROVE  AskInv'
  <2> DEFINE row == [kind |-> "user_input", deps |-> {}, gen |-> wait[t].gen + 1,
                     ready |-> FALSE]
  <2>1. /\ Keyed(o, "request_user_input", k, t) /\ taskState[t] = "ACTIVE"
        /\ inputs' = inputs /\ wait' = [wait EXCEPT ![t] = row]
        /\ taskState' = [taskState EXCEPT ![t] = "WAITING_INPUT"]
    BY <1>3 DEF RequestUserInput
  <2>2. ledger' \in [Role -> SUBSET Call] /\ LedgerGrows /\ LedgerFits'
    BY <2>1, KeyedOnce DEF Tools
  <2>3. wait[t] \in [kind : Kinds, deps : SUBSET Task, ready : BOOLEAN, gen : Nat]
    BY DEF AskInv, AskTypes, WaitRow
  <2>4. row.gen = wait[t].gen + 1 /\ row \in WaitRow
    <3>1. "user_input" \in Kinds /\ wait[t].gen + 1 \in Nat
      BY <2>3 DEF Kinds
    <3> QED BY <3>1 DEF WaitRow
  <2> HIDE DEF row
  <2>5. /\ wait' \in [Task -> WaitRow] /\ wait'[t].gen = wait[t].gen + 1
        /\ \A u \in Task : u # t => wait'[u] = wait[u] /\ taskState'[u] = taskState[u]
    BY <2>1, <2>4 DEF AskInv, AskTypes, WorkInv, WorkTypes
  <2>6. AnswersFit'
    BY <1>1, <2>1, <2>2, <2>5, AskedAnew DEF WorkInv
  <2> QED BY <2>1, <2>2, <2>5, <2>6 DEF AskInv, AskTypes
<1>4. ASSUME NEW t \in Task, NEW k \in Key, NEW oc \in Outcome \cap {"succeeded", "failed"},
             SubmitResult(o, t, k, oc)
      PROVE  AskInv'
  <2>1. /\ Keyed(o, "submit_result", k, t) /\ wait' = wait /\ inputs' = inputs
        /\ taskState' = [taskState EXCEPT ![t] = IF oc = "succeeded" THEN "DELIVERED"
                                                 ELSE "FAILED"]
    BY <1>4 DEF SubmitResult
  <2>2. ledger' \in [Role -> SUBSET Call] /\ LedgerGrows /\ LedgerFits'
    BY <2>1, KeyedOnce DEF Tools
  <2>3. QuietStays /\ \A u \in Task : SameAsks(u)
    BY <2>1 DEF QuietStays, Quiet, SameAsks, WorkInv, WorkTypes
  <2>4. AnswersFit'
    BY <1>1, <2>2, <2>3, AnswersStay DEF WorkInv
  <2> QED BY <2>1, <2>2, <2>4 DEF AskInv, AskTypes
<1> QED BY <1>2, <1>3, <1>4 DEF ParticipantStep

-----------------------------------------------------------------------------
(* The invariant, and what follows from it.                                  *)

\* Nothing is there at first.
LEMMA WorkInit ==
  ASSUME ParticipantInit
  PROVE  WorkInv /\ AskInv
<1> USE DEF ParticipantInit, Init
<1>1. WorkInv
  BY RequestTypes DEF WorkInv, WorkTypes, StagedIsDecided, RunsAreVisited, SlotsAreOwn,
                      TaskStates
<1>2. NoWait \in WaitRow
  BY DEF NoWait, WaitRow, Kinds
<1>3. AskInv
  BY <1>2 DEF AskInv, AskTypes, AnswersFit, Answered1, LedgerFits
<1> QED BY <1>1, <1>3

\* A role that is refused: its mark is all that is written.
LEMMA RefusedWork ==
  ASSUME WorkInv, NEW o \in Role, DispatchRefused(o)
  PROVE  WorkInv' /\ TasksStay /\ QuietStays /\ RunsStay /\ OutsideStays
BY DEF DispatchRefused, WorkInv, WorkTypes, StagedIsDecided, RunsAreVisited, SlotsAreOwn,
       TasksStay, QuietStays, RunsStay, OutsideStays

\* Every step keeps the invariant.
LEMMA WorkNext ==
  ASSUME WorkInv, AskInv, [ParticipantNext]_allVars
  PROVE  WorkInv' /\ AskInv'
<1>1. CASE UserStep /\ ledger' = ledger
  BY <1>1, UserWork, UserAsk
<1>2. ASSUME NEW o \in Visited, NEW t \in Task, NEW r \in Run, Dispatch(o, t, r),
             ledger' = ledger
      PROVE  WorkInv' /\ AskInv'
  BY <1>2, DispatchWork, DispatchAsk DEF Visited
<1>3. ASSUME NEW o \in Visited, DispatchRefused(o), ledger' = ledger
      PROVE  WorkInv' /\ AskInv'
  <2>1. o \in Role /\ wait' = wait /\ inputs' = inputs
    BY <1>3 DEF Visited, DispatchRefused
  <2> QED BY <1>3, <2>1, RefusedWork, AsksStay
<1>4. ASSUME NEW r \in Run, AgentStep(r), ledger' = ledger
      PROVE  WorkInv' /\ AskInv'
  BY <1>4, AgentWork, AgentAsk
<1>5. ASSUME NEW r \in Run, ExitStep(r), ledger' = ledger
      PROVE  WorkInv' /\ AskInv'
  BY <1>5, ExitWork, ExitAsk
<1>6. CASE CrashRecover /\ ledger' = ledger
  <2>1. wait' = wait /\ inputs' = inputs
    BY <1>6 DEF CrashRecover, Quarantined
  <2> QED BY <1>6, <2>1, CrashWork, AsksStay
<1>7. ASSUME NEW o \in Role, ParticipantStep(o)
      PROVE  WorkInv' /\ AskInv'
  BY <1>7, ParticipantWork, ParticipantAsk
<1>8. CASE UNCHANGED allVars
  <2>1. /\ UNCHANGED <<taskState, contract, outcome, resultRun, result, runState, runTask,
                       activeTask>>
        /\ UNCHANGED <<wait, inputs, ledger>>
    BY <1>8 DEF allVars, vars
  <2> QED BY <2>1 DEF WorkInv, WorkTypes, StagedIsDecided, RunsAreVisited, SlotsAreOwn,
                      AskInv, AskTypes, AnswersFit, Answered1, LedgerFits
<1> QED BY <1>1, <1>2, <1>3, <1>4, <1>5, <1>6, <1>7, <1>8 DEF ParticipantNext, KernelStep

\* The invariant holds of every execution of the kernel beside participants.
LEMMA WorkAlways == ParticipantSpec => [](WorkInv /\ AskInv)
BY WorkInit, WorkNext, PTL DEF ParticipantSpec

\* A call that is sent again because its answer was lost does nothing: a key
\* stands for one task, reads one answer and is in the ledger (the replay of
\* operations in participant-extension.ts).
THEOREM RepeatedCallsActOnce == ParticipantSpec => []KeysActOnce
<1>1. ASSUME WorkInv, AskInv, NEW o \in Role, NEW k \in Key
      PROVE  LET readBy == {t \in Task : Assignee(t) = o /\ \E i \in inputs[t] : i.by = k}
             IN  /\ Cardinality(readBy) <= 1
                 /\ \A t \in readBy : /\ Cardinality({i \in inputs[t] : i.by = k}) = 1
                                      /\ [tool |-> "claim", key |-> k, task |-> t] \in ledger[o]
  <2> DEFINE readBy == {t \in Task : Assignee(t) = o /\ \E i \in inputs[t] : i.by = k}
  <2>1. \A t \in readBy : [tool |-> "claim", key |-> k, task |-> t] \in ledger[o]
    BY <1>1 DEF AskInv, AnswersFit, Answered1
  <2>2. \A t, u \in readBy : t = u
    <3>1. ASSUME NEW t \in readBy, NEW u \in readBy
          PROVE  t = u
      <4>1. [tool |-> "claim", key |-> k, task |-> t]
              = [tool |-> "claim", key |-> k, task |-> u]
        BY <1>1, <2>1 DEF AskInv, LedgerFits
      <4> QED BY <4>1
    <3> QED BY <3>1
  <2>3. Cardinality(readBy) <= 1
    <3> HIDE DEF readBy
    <3>1. CASE readBy = {}
      <4>1. Cardinality(readBy) = 0
        BY <3>1, FS_EmptySet
      <4> QED BY <4>1
    <3>2. ASSUME NEW t \in readBy
          PROVE  Cardinality(readBy) <= 1
      <4>1. readBy = {t}
        BY <2>2
      <4>2. Cardinality({t}) = 1
        BY FS_Singleton
      <4>3. Cardinality(readBy) = 1
        BY <4>1, <4>2
      <4> QED BY <4>3
    <3> QED BY <3>1, <3>2
  <2>4. ASSUME NEW t \in readBy
        PROVE  Cardinality({i \in inputs[t] : i.by = k}) = 1
    <3>1. PICK i \in inputs[t] : i.by = k
      OBVIOUS
    <3>2. \A j \in inputs[t] : j.by = k => j = i
      <4>1. k # NoRun
        OBVIOUS
      <4> QED BY <1>1, <3>1, <4>1 DEF AskInv, AnswersFit, Answered1
    <3>3. {j \in inputs[t] : j.by = k} = {i}
      BY <3>1, <3>2
    <3>4. Cardinality({i}) = 1
      BY FS_Singleton
    <3> QED BY <3>3, <3>4
  <2> QED BY <2>1, <2>3, <2>4
<1>2. WorkInv /\ AskInv => KeysActOnce
  BY <1>1 DEF KeysActOnce
<1> QED BY <1>2, WorkAlways, PTL

\* Questions and answers stay paired when participants ask and read beside runs
\* (claim and request_user_input in participant-extension.ts).
THEOREM OutsideAnswersStayPaired == ParticipantSpec => []AnswersArePaired
<1>1. AskInv => AnswersArePaired
  BY DEF AskInv, AnswersFit, Answered1, AnswersArePaired, UnreadInputs
<1> QED BY <1>1, WorkAlways, PTL

-----------------------------------------------------------------------------
(* Work from outside.                                                        *)

\* A step of the user: only tasks that are not there yet, queued or suspended.
LEMMA UserOutside ==
  ASSUME WorkInv, UserStep, NEW t \in Task, taskState[t] # "NONE"
  PROVE  /\ taskState'[t] # taskState[t] => taskState[t] \in {"QUEUED", "SUSPENDED"}
         /\ result'[t] = result[t] /\ contract'[t] = contract[t]
BY DEF UserStep, SubmitFromUser, Fresh, Born, SendUserInput, Suspend, Resume, Cancel, Movable,
       WorkInv, WorkTypes

\* A dispatch: only a task of a role the kernel visits.
LEMMA DispatchOutside ==
  ASSUME WorkInv, NEW o \in Profiled, NEW t \in Task, NEW r \in Run, Dispatch(o, t, r)
  PROVE  OutsideStays
<1>1. Assignee(t) = o /\ taskState' = [taskState EXCEPT ![t] = "ACTIVE"] /\ result' = result
  BY DispatchWork DEF Dispatch
<1> QED BY <1>1 DEF OutsideStays, WorkInv, WorkTypes

\* A participant: a task that is not final and has no published result, with a
\* call that is put in the ledger.
LEMMA ParticipantOutside ==
  ASSUME WorkInv, AskInv, NEW o \in Role, ParticipantStep(o), NEW t \in Task
  PROVE  /\ taskState[t] \in Final => taskState'[t] = taskState[t]
         /\ result[t] = "PUBLISHED" => result'[t] = result[t]
         /\ ledger' # ledger
<1>1. PICK u \in Task, k \in Key, tool \in Tools : Keyed(o, tool, k, u)
  BY DEF ParticipantStep, Claim, RequestUserInput, SubmitResult, Tools
<1>2. ledger' # ledger
  BY <1>1, KeyedOnce
<1>3. PICK v \in Task, state \in TaskStates :
        /\ taskState' = [taskState EXCEPT ![v] = state]
        /\ taskState[v] \in {"QUEUED", "WAITING_INPUT", "ACTIVE"}
  <2>1. PICK v \in Task, key \in Key :
          \/ Claim(o, v, key)
          \/ RequestUserInput(o, v, key)
          \/ \E oc \in Outcome \cap {"succeeded", "failed"} : SubmitResult(o, v, key, oc)
    BY DEF ParticipantStep
  <2> QED BY <2>1 DEF Claim, RequestUserInput, SubmitResult, TaskStates
<1>4. taskState[t] \in Final => taskState'[t] = taskState[t]
  BY <1>3 DEF Final, WorkInv, WorkTypes
<1>5. result[t] = "PUBLISHED" => result'[t] = result[t]
  BY DEF ParticipantStep, Claim, RequestUserInput, SubmitResult, WorkInv, WorkTypes
<1> QED BY <1>2, <1>4, <1>5

\* What participants have finished stays finished, and what they work on is
\* changed by their own calls alone, whatever runs of other roles, crashes and
\* recoveries do (recover, settle and unknown in core.ts and
\* execution-coordinator.ts beside participant-extension.ts).
THEOREM OutsideWorkStaysSafe == ParticipantSpec => OutsideWorkIsSafe
<1>1. ASSUME WorkInv, AskInv, [ParticipantNext]_allVars
      PROVE  [\A t \in Task : taskState[t] # "NONE" /\ Assignee(t) \in Attached \ Profiled =>
               /\ taskState[t] \in Final => taskState'[t] = taskState[t]
               /\ result[t] = "PUBLISHED" => result'[t] = result[t]
               /\ taskState'[t] # taskState[t] /\ taskState[t] \in Open =>
                    ledger' # ledger]_allVars
  <2>1. SUFFICES ASSUME NEW t \in Task, ParticipantNext, taskState[t] # "NONE",
                        Assignee(t) \in Attached \ Profiled
        PROVE  /\ taskState[t] \in Final => taskState'[t] = taskState[t]
               /\ result[t] = "PUBLISHED" => result'[t] = result[t]
               /\ taskState'[t] # taskState[t] /\ taskState[t] \in Open => ledger' # ledger
    BY <1>1
  <2>2. CASE UserStep
    BY <1>1, <2>1, <2>2, UserOutside DEF Final, Open
  <2>3. CASE OutsideStays
    BY <2>1, <2>3 DEF OutsideStays
  <2>4. CASE \E o \in Role : ParticipantStep(o)
    BY <1>1, <2>4, ParticipantOutside
  <2>5. UserStep \/ OutsideStays \/ \E o \in Role : ParticipantStep(o)
    <3>1. ASSUME NEW o \in Visited
          PROVE  /\ DispatchRefused(o) => OutsideStays
                 /\ \A u \in Task, r \in Run : Dispatch(o, u, r) => OutsideStays
      BY <1>1, DispatchOutside, RefusedWork DEF Visited
    <3>2. ASSUME NEW r \in Run
          PROVE  AgentStep(r) \/ ExitStep(r) => OutsideStays
      BY <1>1, AgentWork, ExitWork
    <3>3. CrashRecover => OutsideStays
      BY <1>1, CrashWork
    <3> QED BY <2>1, <3>1, <3>2, <3>3 DEF ParticipantNext, KernelStep
  <2> QED BY <2>2, <2>3, <2>4, <2>5
<1> QED BY <1>1, WorkAlways, PTL DEF ParticipantSpec, OutsideWorkIsSafe

-----------------------------------------------------------------------------
(* The slots of roles that are worked from one side.                         *)

\* A task the role has not disposed of.
Kept(t) == taskState[t] \in Open \cup {"NEEDS_ATTENTION"}

\* A run that may still execute has a task.
RunsWork == \A r \in Run : Occupying(r) => runTask[r] \in Task

SlotInv ==
  /\ activeRun \in [Role -> Run \cup {NoRun}]
  /\ RunsWork /\ RecoverySucceeds /\ RunSlotsAgree /\ TaskSlotsAgree

\* The role of a run, and that it has no other.
LEMMA OneRunPerTask ==
  ASSUME WorkInv, SlotInv, NEW r \in Run, Occupying(r)
  PROVE  /\ runTask[r] \in Task /\ taskState[runTask[r]] # "NONE"
         /\ RoleOf(r) \in Profiled /\ RoleOf(r) \in Role
         /\ \A q \in Run : Occupying(q) /\ RoleOf(q) = RoleOf(r) => q = r
<1>1. runTask[r] \in Task
  BY DEF SlotInv, RunsWork
<1>2. taskState[runTask[r]] # "NONE" /\ RoleOf(r) \in Profiled
  BY <1>1 DEF WorkInv, RunsAreVisited
<1>3. \A q \in Run : Occupying(q) /\ RoleOf(q) = RoleOf(r) => q = r
  <2>1. ASSUME NEW q \in Run, Occupying(q), RoleOf(q) = RoleOf(r)
        PROVE  q = r
    <3>1. activeRun[RoleOf(r)] = r /\ activeRun[RoleOf(r)] = q
      BY <1>2, <2>1 DEF SlotInv, RunSlotsAgree
    <3> QED BY <3>1
  <2> QED BY <2>1
<1> QED BY <1>1, <1>2, <1>3

\* No run is started or given back, and no task is taken up or disposed of.
LEMMA SlotsStay ==
  ASSUME WorkInv, SlotInv, TasksStay, UNCHANGED <<runTask, activeTask, activeRun>>,
         \A r \in Run : Occupying(r)' <=> Occupying(r),
         \A t \in Task : Kept(t)' <=> Kept(t),
         \A r \in Run : Live(r)' => Live(r) /\ taskState'[runTask[r]] \in Open
  PROVE  SlotInv'
<1>1. RunsWork'
  BY DEF SlotInv, RunsWork
<1>2. RecoverySucceeds'
  BY DEF RecoverySucceeds
<1>3. RunSlotsAgree'
  <2>1. ASSUME NEW r \in Run, Occupying(r)
        PROVE  RoleOf(r)' = RoleOf(r)
    BY <2>1, OneRunPerTask DEF TasksStay
  <2> QED BY <2>1 DEF SlotInv, RunSlotsAgree
<1>4. TaskSlotsAgree'
  <2>1. ASSUME NEW t \in Task, Kept(t)
        PROVE  Assignee(t)' = Assignee(t)
    BY <2>1 DEF TasksStay, Kept, Open
  <2> QED BY <2>1 DEF SlotInv, TaskSlotsAgree, Kept
<1> QED BY <1>1, <1>2, <1>3, <1>4 DEF SlotInv

\* Only runs are changed, and none of them becomes live, lost or settled.
LEMMA RunsKeepSlots ==
  ASSUME WorkInv, NEW r \in Run, NEW state \in LiveStates, Live(r),
         runState' = [runState EXCEPT ![r] = state]
  PROVE  \A q \in Run : (Occupying(q)' <=> Occupying(q)) /\ (Live(q)' <=> Live(q))
BY DEF WorkInv, WorkTypes, Occupying, Live, LiveStates

\* The user's steps: tasks in the queue, suspended or new.
LEMMA UserSlots ==
  ASSUME WorkInv, SlotInv, UserStep
  PROVE  SlotInv'
<1>1. UNCHANGED <<runVars, activeTask, activeRun>>
  BY DEF UserStep, SubmitFromUser, SendUserInput, Suspend, Resume, Cancel
<1>2. TasksStay
  BY UserWork
<1>3. \A t \in Task : \/ taskState'[t] = taskState[t]
                      \/ /\ taskState[t] \in {"NONE", "QUEUED", "SUSPENDED"}
                         /\ taskState'[t] \in {"QUEUED", "SUSPENDED", "CANCELLED"}
  BY DEF UserStep, SubmitFromUser, Fresh, SendUserInput, Suspend, Resume, Cancel, Movable,
         WorkInv, WorkTypes
<1>4. \A r \in Run : (Occupying(r)' <=> Occupying(r)) /\ (Live(r)' <=> Live(r))
  BY <1>1 DEF Occupying, Live
<1>5. \A t \in Task : Kept(t)' <=> Kept(t)
  BY <1>3 DEF Kept, Open
<1>6. \A r \in Run : Live(r)' => Live(r) /\ taskState'[runTask[r]] \in Open
  BY <1>3, <1>4 DEF SlotInv, RecoverySucceeds, RunsWork, Occupying, Open
<1> QED BY <1>1, <1>2, <1>4, <1>5, <1>6, SlotsStay

\* A dispatch takes the role's slots, which were free or of the task it continues.
LEMMA DispatchSlots ==
  ASSUME WorkInv, SlotInv, NEW o \in Profiled, NEW t \in Task, NEW r \in Run,
         Dispatch(o, t, r)
  PROVE  SlotInv'
<1>1. /\ TasksStay /\ Assignee(t) = o
      /\ taskState[t] \in {"QUEUED", "WAITING_INPUT"}
      /\ taskState' = [taskState EXCEPT ![t] = "ACTIVE"]
  BY DispatchWork
<1>2. /\ activeRun[o] = NoRun /\ runState[r] = "NONE"
      /\ runState' = [runState EXCEPT ![r] = "STARTING"]
      /\ runTask' = [runTask EXCEPT ![r] = t]
      /\ activeTask' = [activeTask EXCEPT ![o] = t]
      /\ activeRun' = [activeRun EXCEPT ![o] = r]
      /\ activeTask[o] = NoTask \/ activeTask[o] = t
      /\ contract' = contract
  BY DEF Dispatch, DispatchOpen, Candidate, Oldest, Resumable, FreshRun
<1>3. /\ \A q \in Run : /\ runState'[q] = IF q = r THEN "STARTING" ELSE runState[q]
                        /\ runTask'[q] = IF q = r THEN t ELSE runTask[q]
      /\ \A u \in Task : taskState'[u] = IF u = t THEN "ACTIVE" ELSE taskState[u]
      /\ \A p \in Role : /\ activeTask'[p] = IF p = o THEN t ELSE activeTask[p]
                         /\ activeRun'[p] = IF p = o THEN r ELSE activeRun[p]
      /\ activeRun' \in [Role -> Run \cup {NoRun}]
  BY <1>1, <1>2 DEF WorkInv, WorkTypes, SlotInv
<1>4. /\ ~Occupying(r) /\ Occupying(r)' /\ Live(r)'
      /\ \A q \in Run \ {r} : (Occupying(q)' <=> Occupying(q)) /\ (Live(q)' <=> Live(q))
  BY <1>2, <1>3 DEF Occupying, Live, LiveStates
<1>5. \A q \in Run : ~(Occupying(q) /\ RoleOf(q) = o)
  BY <1>2 DEF SlotInv, RunSlotsAgree
<1>6. RunsWork'
  BY <1>3, <1>4 DEF SlotInv, RunsWork
<1>7. RecoverySucceeds'
  BY <1>1, <1>3, <1>4 DEF SlotInv, RecoverySucceeds, RunsWork, Occupying, Open
<1>8. RunSlotsAgree'
  BY <1>1, <1>2, <1>3, <1>4, <1>5 DEF SlotInv, RunSlotsAgree
<1>9. TaskSlotsAgree'
  BY <1>1, <1>2, <1>3 DEF SlotInv, TaskSlotsAgree, Open
<1> QED BY <1>3, <1>6, <1>7, <1>8, <1>9 DEF SlotInv

\* Runs that report, ask, finish or wait: their task stays with the role.
LEMMA AgentSlots ==
  ASSUME WorkInv, SlotInv, NEW r \in Run, AgentStep(r)
  PROVE  SlotInv'
<1>1. /\ UNCHANGED <<runTask, activeTask, activeRun>>
      /\ \/ runState' = runState
         \/ Live(r) /\ \E state \in LiveStates : runState' = [runState EXCEPT ![r] = state]
  BY DEF AgentStep, Accepted, Send, FinishResult, FinishHandoff, Wait, Live, LiveStates
<1>2. \A q \in Run : (Occupying(q)' <=> Occupying(q)) /\ (Live(q)' <=> Live(q))
  BY <1>1, RunsKeepSlots DEF Occupying, Live
<1>3. TasksStay
  BY AgentWork
<1> DEFINE Moves(t) == \/ taskState'[t] = taskState[t]
                       \/ taskState[t] = "NONE" /\ taskState'[t] = "QUEUED"
                       \/ taskState[t] \in Open /\ taskState'[t] \in Open
<1>4. \A t \in Task : Moves(t)
  <2>1. CASE Accepted(r)
    BY <2>1 DEF Accepted
  <2>2. ASSUME NEW t \in Task, NEW q \in AgentRequests, Send(r, t, q)
        PROVE  \A u \in Task : Moves(u)
    BY <2>2 DEF Send, Fresh, WorkInv, WorkTypes
  <2>3. ASSUME NEW oc \in Outcome, FinishResult(r, oc)
        PROVE  \A u \in Task : Moves(u)
    BY <2>3 DEF FinishResult, Open, WorkInv, WorkTypes
  <2>4. ASSUME NEW n \in Task, NEW q \in AgentRequests, FinishHandoff(r, n, q)
        PROVE  \A u \in Task : Moves(u)
    BY <2>4 DEF FinishHandoff, Fresh, Open, WorkInv, WorkTypes
  <2>5. ASSUME NEW kind \in WaitKinds, NEW deps \in SUBSET Task, Wait(r, kind, deps)
        PROVE  \A u \in Task : Moves(u)
    BY <2>5 DEF Wait, Open, WorkInv, WorkTypes
  <2> QED BY <2>1, <2>2, <2>3, <2>4, <2>5 DEF AgentStep
<1>5. \A t \in Task : Kept(t)' <=> Kept(t)
  BY <1>4 DEF Kept, Open
<1>6. \A q \in Run : Live(q)' => Live(q) /\ taskState'[runTask[q]] \in Open
  BY <1>2, <1>4 DEF SlotInv, RecoverySucceeds, RunsWork, Occupying, Open
<1> QED BY <1>1, <1>2, <1>3, <1>5, <1>6, SlotsStay

\* A run that settles gives the run slot of its role back, and nobody else's.
LEMMA EndedSlots ==
  ASSUME WorkInv, SlotInv, NEW r \in Run, Live(r), TasksStay,
         NEW out \in {"succeeded", "failed", "cancelled"}, EndRun(r, out),
         \A u \in Task : u # runTask[r] /\ taskState[u] \in Open => taskState'[u] \in Open
  PROVE  /\ activeRun' \in [Role -> Run \cup {NoRun}]
         /\ RunsWork' /\ RecoverySucceeds' /\ RunSlotsAgree'
<1>1. SettledAs(out) \in Settled
  BY DEF SettledAs, Settled
<1>2. /\ runState' = [runState EXCEPT ![r] = SettledAs(out)] /\ runTask' = runTask
      /\ activeRun' = [activeRun EXCEPT ![RoleOf(r)] = NoRun]
  BY DEF EndRun
<1>3. /\ \A q \in Run : runState'[q] = IF q = r THEN SettledAs(out) ELSE runState[q]
      /\ \A p \in Role : activeRun'[p] = IF p = RoleOf(r) THEN NoRun ELSE activeRun[p]
      /\ activeRun' \in [Role -> Run \cup {NoRun}]
  BY <1>2 DEF WorkInv, WorkTypes, SlotInv
<1>4. /\ ~Occupying(r)' /\ ~Live(r)'
      /\ \A q \in Run \ {r} : (Occupying(q)' <=> Occupying(q)) /\ (Live(q)' <=> Live(q))
  BY <1>1, <1>3 DEF Occupying, Live, LiveStates, Settled
<1>5. Occupying(r)
  BY DEF Occupying
<1>6. RunsWork'
  BY <1>2, <1>4 DEF SlotInv, RunsWork
<1>7. ASSUME NEW q \in Run, q # r, Occupying(q)
      PROVE  /\ runTask[q] \in Task /\ runTask[q] # runTask[r]
             /\ RoleOf(q)' = RoleOf(q) /\ RoleOf(q) # RoleOf(r)
  <2>1. runTask[q] \in Task /\ taskState[runTask[q]] # "NONE"
    BY <1>7, OneRunPerTask
  <2>2. RoleOf(q) # RoleOf(r)
    BY <1>5, <1>7, OneRunPerTask
  <2> QED BY <1>2, <2>1, <2>2 DEF TasksStay
<1>8. RecoverySucceeds'
  BY <1>2, <1>4, <1>7 DEF SlotInv, RecoverySucceeds, Occupying
<1>9. RunSlotsAgree'
  <2>1. ASSUME NEW o \in Role, NEW q \in Run
        PROVE  activeRun'[o] = q <=> Occupying(q)' /\ RoleOf(q)' = o
    <3>1. CASE q = r
      <4>1. activeRun[o] = r => o = RoleOf(r)
        BY DEF SlotInv, RunSlotsAgree
      <4> QED BY <1>3, <1>4, <3>1, <4>1
    <3>2. CASE q # r /\ Occupying(q)
      BY <1>3, <1>4, <1>7, <3>2 DEF SlotInv, RunSlotsAgree
    <3>3. CASE q # r /\ ~Occupying(q)
      <4>1. activeRun[o] # q /\ q # NoRun
        BY <3>3 DEF SlotInv, RunSlotsAgree
      <4>2. ~Occupying(q)'
        BY <1>4, <3>3
      <4> QED BY <1>3, <4>1, <4>2
    <3> QED BY <3>1, <3>2, <3>3
  <2> QED BY <2>1 DEF RunSlotsAgree
<1> QED BY <1>3, <1>6, <1>8, <1>9

\* A result that is published takes its task off the slot of the role.
LEMMA PublishSlots ==
  ASSUME WorkInv, SlotInv, NEW r \in Run, NEW h \in Task, SettlePublish(r, h)
  PROVE  SlotInv'
<1> DEFINE t == runTask[r]
<1>1. /\ Live(r) /\ resultRun[t] = r /\ EndRun(r, "succeeded")
      /\ activeTask' = [activeTask EXCEPT ![RoleOf(r)] = NoTask]
  BY DEF SettlePublish, StagedBy
<1>2. /\ t \in Task /\ taskState[t] # "NONE" /\ RoleOf(r) \in Role
  BY <1>1, OneRunPerTask DEF Occupying
<1>3. TasksStay
  BY PublishWork
<1>4. taskState[t] \in Open
  BY <1>1 DEF SlotInv, RecoverySucceeds
<1>5. activeTask[RoleOf(r)] = t
  <2>1. \A o \in Role, u \in Task :
          taskState[u] \in Open /\ Assignee(u) = o => activeTask[o] = u
    BY DEF SlotInv, TaskSlotsAgree
  <2> QED BY <1>2, <1>4, <2>1
<1>6. Concluded(t) \notin Open \cup {"NEEDS_ATTENTION"}
  <2>1. outcome[t] \in Outcomes /\ contract[t].mode \in {"result", "handoff"}
    BY <1>1, <1>2 DEF WorkInv, WorkTypes, StagedIsDecided, Contract
  <2>2. Concluded(t) \in {"HANDED_OFF", "DELIVERED", "PARTIAL", "FAILED", "CANCELLED"}
    BY <2>1 DEF Concluded, Outcomes
  <2> QED BY <2>2 DEF Open
<1>7. /\ taskState'[t] \notin Open \cup {"NEEDS_ATTENTION"}
      /\ \A u \in Task : \/ u = t \/ taskState'[u] = taskState[u]
                         \/ taskState[u] = "NONE" /\ taskState'[u] = "QUEUED"
  <2>1. CASE NeedsHandling(t)
    <3>1. Fresh(h) /\ taskState' = [taskState EXCEPT ![t] = Concluded(t), ![h] = "QUEUED"]
      BY <2>1 DEF SettlePublish
    <3>2. taskState[h] = "NONE"
      BY <3>1 DEF Fresh
    <3>3. t # h
      BY <1>2, <3>2
    <3>4. \A u \in Task : taskState'[u] = IF u = h THEN "QUEUED"
                                          ELSE IF u = t THEN Concluded(t) ELSE taskState[u]
      BY <3>1 DEF WorkInv, WorkTypes
    <3> HIDE DEF t
    <3> QED BY <1>2, <1>6, <3>2, <3>3, <3>4
  <2>2. CASE ~NeedsHandling(t)
    <3>1. taskState' = [taskState EXCEPT ![t] = Concluded(t)]
      BY <2>2 DEF SettlePublish
    <3>2. \A u \in Task : taskState'[u] = IF u = t THEN Concluded(t) ELSE taskState[u]
      BY <3>1 DEF WorkInv, WorkTypes
    <3> HIDE DEF t
    <3> QED BY <1>2, <1>6, <3>2
  <2> QED BY <2>1, <2>2
<1>8. \A u \in Task : u # t /\ taskState[u] \in Open => taskState'[u] \in Open
  BY <1>7 DEF Open
<1>9. /\ activeRun' \in [Role -> Run \cup {NoRun}]
      /\ RunsWork' /\ RecoverySucceeds' /\ RunSlotsAgree'
  BY <1>1, <1>3, <1>8, EndedSlots
<1>10. TaskSlotsAgree'
  <2>1. ASSUME NEW o \in Role, NEW u \in Task
        PROVE  activeTask'[o] = u <=> Kept(u)' /\ Assignee(u)' = o
    <3>1. activeTask'[o] = IF o = RoleOf(r) THEN NoTask ELSE activeTask[o]
      BY <1>1 DEF WorkInv, WorkTypes
    <3>2. activeTask[o] = u <=> Kept(u) /\ Assignee(u) = o
      BY DEF SlotInv, TaskSlotsAgree, Kept
    <3>3. CASE u = t
      <4>1. activeTask'[o] # t
        BY <1>2, <3>1, <3>2, <3>3
      <4> QED BY <1>7, <3>3, <4>1 DEF Kept
    <3>4. CASE u # t
      <4>1. Kept(u)' <=> Kept(u)
        BY <1>7, <3>4 DEF Kept, Open
      <4>2. Kept(u) => Assignee(u)' = Assignee(u)
        BY <1>3 DEF TasksStay, Kept, Open
      <4>3. activeTask[RoleOf(r)] # u
        BY <1>5, <3>4
      <4> QED BY <3>1, <3>2, <4>1, <4>2, <4>3
    <3> QED BY <3>3, <3>4
  <2> QED BY <2>1 DEF TaskSlotsAgree, Kept
<1> QED BY <1>9, <1>10 DEF SlotInv

\* A settle that keeps the task: it waits, or is left to the user.
LEMMA KeptSlots ==
  ASSUME WorkInv, SlotInv, NEW r \in Run, Live(r), NEW out \in {"succeeded", "failed", "cancelled"},
         EndRun(r, out), UNCHANGED <<contract, activeTask>>, TasksStay,
         \A u \in Task : taskState'[u] = taskState[u] \/ (u = runTask[r] /\ Kept(u) /\ Kept(u)')
  PROVE  SlotInv'
<1>1. \A u \in Task : u # runTask[r] /\ taskState[u] \in Open => taskState'[u] \in Open
  OBVIOUS
<1>2. /\ activeRun' \in [Role -> Run \cup {NoRun}]
      /\ RunsWork' /\ RecoverySucceeds' /\ RunSlotsAgree'
  BY <1>1, EndedSlots
<1>3. TaskSlotsAgree'
  BY DEF SlotInv, TaskSlotsAgree, Kept
<1> QED BY <1>2, <1>3 DEF SlotInv

\* Runs of unknown outcome keep their slots, with their tasks.
LEMMA LostSlots ==
  ASSUME WorkInv, SlotInv, NEW lost \in SUBSET Run, \A r \in lost : Live(r), Quarantined(lost)
  PROVE  SlotInv'
<1>1. /\ runState' = [r \in Run |-> IF r \in lost THEN "UNKNOWN" ELSE runState[r]]
      /\ taskState' = [t \in Task |-> IF \E r \in lost : runTask[r] = t
                                      THEN "NEEDS_ATTENTION" ELSE taskState[t]]
      /\ UNCHANGED <<contract, runTask, activeTask, activeRun>>
  BY DEF Quarantined
<1>2. TasksStay
  BY LostWork
<1>3. \A r \in Run : /\ Occupying(r)' <=> Occupying(r)
                     /\ Live(r)' <=> Live(r) /\ r \notin lost
  BY <1>1 DEF Occupying, Live, LiveStates
<1>4. \A t \in Task : Kept(t)' <=> Kept(t)
  BY <1>1 DEF SlotInv, RecoverySucceeds, Kept, Open
<1>5. ASSUME NEW q \in Run, Live(q)'
      PROVE  Live(q) /\ taskState'[runTask[q]] \in Open
  <2>1. Live(q) /\ q \notin lost /\ Occupying(q)
    BY <1>3, <1>5 DEF Occupying
  <2>2. ASSUME NEW r \in lost
        PROVE  runTask[r] # runTask[q]
    <3>1. r \in Run /\ Occupying(r)
      BY DEF Occupying
    <3> QED BY <2>1, <3>1, OneRunPerTask
  <2>3. runTask[q] \in Task
    BY <2>1, OneRunPerTask
  <2> QED BY <1>1, <2>1, <2>2, <2>3 DEF SlotInv, RecoverySucceeds
<1> QED BY <1>1, <1>2, <1>3, <1>4, <1>5, SlotsStay

\* Runs that exit.
LEMMA ExitSlots ==
  ASSUME WorkInv, SlotInv, NEW r \in Run, ExitStep(r)
  PROVE  SlotInv'
<1>1. CASE SettleWaiting(r)
  <2>1. /\ Live(r) /\ EndRun(r, "succeeded") /\ UNCHANGED <<taskState, contract, activeTask>>
    BY <1>1 DEF SettleWaiting
  <2>2. TasksStay
    BY ExitWork
  <2>3. \A u \in Task : taskState'[u] = taskState[u] \/ (u = runTask[r] /\ Kept(u) /\ Kept(u)')
    BY <2>1
  <2> QED BY <2>1, <2>2, <2>3, KeptSlots
<1>2. ASSUME NEW out \in {"succeeded", "failed", "cancelled"}, SettleAttention(r, out)
      PROVE  SlotInv'
  <2>1. /\ Live(r) /\ EndRun(r, out) /\ UNCHANGED <<contract, activeTask>>
        /\ taskState[runTask[r]] \in Open
        /\ taskState' = [taskState EXCEPT ![runTask[r]] = "NEEDS_ATTENTION"]
    BY <1>2 DEF SettleAttention
  <2>2. TasksStay
    BY ExitWork
  <2>3. \A u \in Task : taskState'[u] = taskState[u] \/ (u = runTask[r] /\ Kept(u) /\ Kept(u)')
    BY <2>1 DEF Kept, WorkInv, WorkTypes
  <2> QED BY <2>1, <2>2, <2>3, KeptSlots
<1>3. CASE MarkUnknown(r)
  BY <1>3, LostSlots DEF MarkUnknown
<1> QED BY <1>1, <1>2, <1>3, PublishSlots DEF ExitStep

\* A participant takes up a task only if the slot of its role is free or names
\* that task, and no run works for the role.
LEMMA ParticipantSlots ==
  ASSUME Attached \cap Profiled = {}, WorkInv, SlotInv, NEW o \in Role, ParticipantStep(o)
  PROVE  SlotInv'
<1>1. /\ UNCHANGED <<contract, runState, runTask, activeRun>>
      /\ o \in Attached
  BY DEF ParticipantStep, Claim, RequestUserInput, SubmitResult, TaskOfRole
<1>2. \A r \in Run : (Occupying(r)' <=> Occupying(r)) /\ (Live(r)' <=> Live(r))
  BY <1>1 DEF Occupying, Live
<1>3. TasksStay
  BY ParticipantWork
<1>4. ASSUME NEW t \in Task, Assignee(t) = o,
             \A u \in Task \ {t} : taskState'[u] = taskState[u]
      PROVE  \A r \in Run : Live(r)' => Live(r) /\ taskState'[runTask[r]] \in Open
  <2>1. ASSUME NEW r \in Run, Live(r)
        PROVE  taskState'[runTask[r]] \in Open
    <3>1. runTask[r] \in Task /\ RoleOf(r) \in Profiled
      BY <2>1, OneRunPerTask DEF Occupying
    <3>2. runTask[r] # t
      BY <1>1, <1>4, <3>1
    <3> QED BY <1>4, <2>1, <3>1, <3>2 DEF SlotInv, RecoverySucceeds
  <2> QED BY <1>2, <2>1
<1>5. ASSUME NEW t \in Task, Assignee(t) = o,
             \A u \in Task \ {t} : taskState'[u] = taskState[u],
             TaskSlotsAgree'
      PROVE  SlotInv'
  <2>1. RecoverySucceeds'
    BY <1>1, <1>4, <1>5 DEF RecoverySucceeds
  <2>2. RunsWork' /\ RunSlotsAgree'
    BY <1>1, <1>2 DEF SlotInv, RunsWork, RunSlotsAgree
  <2> QED BY <1>1, <1>5, <2>1, <2>2 DEF SlotInv
<1>6. ASSUME NEW t \in Task, NEW k \in Key, Claim(o, t, k)
      PROVE  SlotInv'
  <2>1. /\ taskState' = [taskState EXCEPT ![t] = "ACTIVE"]
        /\ activeTask' = [activeTask EXCEPT ![o] = t]
        /\ Assignee(t) = o /\ ~Busy(o, t)
    BY <1>6 DEF Claim, TaskOfRole
  <2>2. activeTask[o] = t \/ activeTask[o] = NoTask
    <3>1. ASSUME NEW u \in Task, activeTask[o] = u
          PROVE  taskState[u] \in Unfinished
      <4>1. taskState[u] \in Open \cup {"NEEDS_ATTENTION"}
        BY <3>1 DEF SlotInv, TaskSlotsAgree
      <4> QED BY <4>1 DEF Open, Unfinished
    <3>2. activeTask[o] \in Task \cup {NoTask}
      BY DEF WorkInv, WorkTypes
    <3> QED BY <2>1, <3>1, <3>2 DEF Busy
  <2>3. /\ \A u \in Task : taskState'[u] = IF u = t THEN "ACTIVE" ELSE taskState[u]
        /\ \A p \in Role : activeTask'[p] = IF p = o THEN t ELSE activeTask[p]
    BY <2>1 DEF WorkInv, WorkTypes
  <2>4. TaskSlotsAgree'
    BY <1>1, <2>1, <2>2, <2>3 DEF SlotInv, TaskSlotsAgree, Open
  <2> QED BY <1>5, <2>1, <2>3, <2>4
<1>7. ASSUME NEW t \in Task, NEW k \in Key, RequestUserInput(o, t, k)
      PROVE  SlotInv'
  <2>1. /\ taskState' = [taskState EXCEPT ![t] = "WAITING_INPUT"] /\ activeTask' = activeTask
        /\ Assignee(t) = o /\ taskState[t] = "ACTIVE"
    BY <1>7 DEF RequestUserInput, TaskOfRole
  <2>2. \A u \in Task : taskState'[u] = IF u = t THEN "WAITING_INPUT" ELSE taskState[u]
    BY <2>1 DEF WorkInv, WorkTypes
  <2>3. TaskSlotsAgree'
    BY <1>1, <2>1, <2>2 DEF SlotInv, TaskSlotsAgree, Open
  <2> QED BY <1>5, <2>1, <2>2, <2>3
<1>8. ASSUME NEW t \in Task, NEW k \in Key, NEW oc \in Outcome \cap {"succeeded", "failed"},
             SubmitResult(o, t, k, oc)
      PROVE  SlotInv'
  <2>1. PICK state \in {"DELIVERED", "FAILED"} : taskState' = [taskState EXCEPT ![t] = state]
    BY <1>8 DEF SubmitResult
  <2>2. /\ activeTask' = [activeTask EXCEPT ![o] = IF @ = t THEN NoTask ELSE @]
        /\ Assignee(t) = o /\ taskState[t] = "ACTIVE"
    BY <1>8 DEF SubmitResult, TaskOfRole
  <2>3. activeTask[o] = t
    BY <2>2 DEF SlotInv, TaskSlotsAgree, Open
  <2>4. /\ \A u \in Task : taskState'[u] = IF u = t THEN state ELSE taskState[u]
        /\ \A p \in Role : activeTask'[p] = IF p = o THEN NoTask ELSE activeTask[p]
    BY <2>1, <2>2, <2>3 DEF WorkInv, WorkTypes
  <2>5. state \notin Open \cup {"NEEDS_ATTENTION"}
    BY DEF Open
  <2>6. TaskSlotsAgree'
    BY <1>1, <2>2, <2>3, <2>4, <2>5 DEF SlotInv, TaskSlotsAgree, Open
  <2> QED BY <1>5, <2>2, <2>4, <2>6
<1> QED BY <1>6, <1>7, <1>8 DEF ParticipantStep

\* Every step keeps the slots.
LEMMA SlotNext ==
  ASSUME Attached \cap Profiled = {}, WorkInv, SlotInv, [ParticipantNext]_allVars
  PROVE  SlotInv'
<1>1. ASSUME NEW o \in Visited, DispatchRefused(o)
      PROVE  SlotInv'
  <2>1. UNCHANGED <<taskState, contract, runState, runTask, activeTask, activeRun>>
    BY <1>1 DEF DispatchRefused
  <2> QED BY <2>1 DEF SlotInv, RunsWork, RecoverySucceeds, RunSlotsAgree, TaskSlotsAgree,
                      Occupying, Live
<1>2. CASE CrashRecover
  BY <1>2, LostSlots DEF CrashRecover
<1>3. CASE UNCHANGED allVars
  <2>1. UNCHANGED <<taskState, contract, runState, runTask, activeTask, activeRun>>
    BY <1>3 DEF allVars, vars
  <2> QED BY <2>1 DEF SlotInv, RunsWork, RecoverySucceeds, RunSlotsAgree, TaskSlotsAgree,
                      Occupying, Live
<1> QED BY <1>1, <1>2, <1>3, UserSlots, DispatchSlots, AgentSlots, ExitSlots, ParticipantSlots
        DEF ParticipantNext, KernelStep, Visited

\* A role that is worked either by runs or by participants has one task at a
\* time, the one its slot names: claims, answers and submitted results keep
\* role_slots as exact as dispatches, settles and recoveries do
\* (participant-extension.ts beside core.ts).
THEOREM OutsideSlotsAgree ==
  ASSUME Attached \cap Profiled = {}
  PROVE  ParticipantSpec => []TaskSlotsAgree
<1>1. ParticipantInit => SlotInv
  BY DEF ParticipantInit, Init, SlotInv, RunsWork, RecoverySucceeds, RunSlotsAgree,
         TaskSlotsAgree, Occupying, Live, LiveStates, Open
<1>2. WorkInv /\ SlotInv /\ [ParticipantNext]_allVars => SlotInv'
  BY SlotNext
<1>3. SlotInv => TaskSlotsAgree
  BY DEF SlotInv
<1> QED BY <1>1, <1>2, <1>3, WorkAlways, PTL DEF ParticipantSpec
=============================================================================
