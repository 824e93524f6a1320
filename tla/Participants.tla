----------------------------- MODULE Participants -----------------------------
(***************************************************************************)
(* Work done from outside: packages/core-service/participant-extension.ts.  *)
(* A participant that holds the attachment of a role claims the tasks of    *)
(* that role, asks the user and submits results in the tables of the kernel *)
(* and without a run.  The kernel goes on working for the roles that have a *)
(* verified execution profile.                                              *)
(*                                                                          *)
(* Each call carries a key.  A repeated call whose answer was lost finds    *)
(* its key in the ledger and changes nothing, and a key that was used for   *)
(* something else is refused.  Attachments are in Commands, the sessions of *)
(* participants in WorkSessions.                                            *)
(*                                                                          *)
(* Definitions whose name ends in _bug are not part of the model: each is   *)
(* the definition that follows it with a plausible mistake in it.           *)
(***************************************************************************)
EXTENDS RouteCore

CONSTANTS
  Profiled,  \* roles with a verified execution profile: tick visits them
  Attached,  \* roles with a participant
  Key        \* keys participants put on their calls

ASSUME ParticipantsAssumption ==
  /\ Profiled \subseteq Role /\ Attached \subseteq Role
  /\ Key \cap (Run \cup {NoRun}) = {}

VARIABLE
  ledger     \* operations of scope participant-ext: role -> calls kept with it

allVars == <<vars, ledger>>

ParticipantInit == Init /\ ledger = [o \in Role |-> {}]

-----------------------------------------------------------------------------
\* A key that is not looked up.
Keyed_bug(o, tool, k, t) == ledger' = ledger

\* ledger: the call is kept with what it did in one transaction.
Keyed(o, tool, k, t) ==
  /\ \A e \in ledger[o] : ~(e.tool = tool /\ e.key = k)
  /\ ledger' = [ledger EXCEPT ![o] = @ \cup {[tool |-> tool, key |-> k, task |-> t]}]

TaskOfRole(o, t) == o \in Attached /\ taskState[t] # "NONE" /\ Assignee(t) = o

Unfinished == {"QUEUED", "ACTIVE", "WAITING_INPUT", "RESULT_STAGED", "SUSPENDED",
               "NEEDS_ATTENTION"}

\* A task that waits for the user is put aside for another one.
Busy_bug(o, t) == \E u \in Task \ {t} : activeTask[o] = u /\ taskState[u] = "ACTIVE"

\* The slot of the role names another task that is not finished.
Busy(o, t) == \E u \in Task \ {t} : activeTask[o] = u /\ taskState[u] \in Unfinished

\* The answer is read and stays unread for the next reader.
Reads_bug(t, k) ==
  /\ wait[t].kind = "user_input" /\ wait[t].ready /\ UnreadInputs(t) # {}
  /\ wait' = [wait EXCEPT ![t].ready = FALSE]
  /\ inputs' = inputs

\* The oldest unread answer of the user is read under the key of the call.
Reads(t, k) ==
  /\ wait[t].kind = "user_input" /\ wait[t].ready /\ UnreadInputs(t) # {}
  /\ wait' = [wait EXCEPT ![t].ready = FALSE]
  /\ inputs' = [inputs EXCEPT ![t] = (@ \ NextInput(t)) \cup
                  {[gen |-> i.gen, by |-> k] : i \in NextInput(t)}]

\* claim: a queued task, whatever its outbox row says and whoever runs, or one
\* that waits for the user and has an answer.
Claim(o, t, k) ==
  /\ TaskOfRole(o, t) /\ ~Busy(o, t)
  /\ Keyed(o, "claim", k, t)
  /\ \/ taskState[t] = "QUEUED" /\ UNCHANGED <<wait, inputs>>
     \/ taskState[t] = "WAITING_INPUT" /\ Reads(t, k)
  /\ taskState' = [taskState EXCEPT ![t] = "ACTIVE"]
  /\ activeTask' = [activeTask EXCEPT ![o] = t]
  /\ UNCHANGED <<bornVars, outboxVars, resultVars, continuation, runVars, leaseVars,
                 activeRun, reconciling, issues>>

RequestUserInput(o, t, k) ==
  /\ TaskOfRole(o, t) /\ taskState[t] = "ACTIVE"
  /\ Keyed(o, "request_user_input", k, t)
  /\ wait' = [wait EXCEPT ![t] = [kind |-> "user_input", deps |-> {},
                                  gen |-> @.gen + 1, ready |-> FALSE]]
  /\ taskState' = [taskState EXCEPT ![t] = "WAITING_INPUT"]
  /\ UNCHANGED <<bornVars, outboxVars, resultVars, continuation, inputs, runVars,
                 leaseVars, slotVars, issues>>

\* submit_result: the result of a task that is ACTIVE is published at once, and
\* its message counts as delivered without a continuation or a handling task.
SubmitResult(o, t, k, oc) ==
  /\ TaskOfRole(o, t) /\ taskState[t] = "ACTIVE"
  /\ contract[t].mode = "result" /\ result[t] = "NONE"
  /\ Keyed(o, "submit_result", k, t)
  /\ result' = [result EXCEPT ![t] = "PUBLISHED"]
  /\ outcome' = [outcome EXCEPT ![t] = oc]
  /\ delivery' = [delivery EXCEPT ![t] = "DELIVERED"]
  /\ taskState' = [taskState EXCEPT ![t] = IF oc = "succeeded" THEN "DELIVERED" ELSE "FAILED"]
  /\ activeTask' = [activeTask EXCEPT ![o] = IF @ = t THEN NoTask ELSE @]
  /\ UNCHANGED <<bornVars, outboxVars, resultRun, handling, waitVars, runVars,
                 leaseVars, activeRun, reconciling, issues>>

ParticipantStep(o) ==
  \E t \in Task, k \in Key :
    \/ Claim(o, t, k)
    \/ RequestUserInput(o, t, k)
    \/ \E oc \in Outcome \cap {"succeeded", "failed"} : SubmitResult(o, t, k, oc)

\* The tick visits every role.
Visited_bug == Role

\* The tick visits the roles that have a verified execution profile.
Visited == Profiled

\* The kernel, beside participants.
KernelStep ==
  /\ \/ UserStep
     \/ \E o \in Visited : \/ \E t \in Task, r \in Run : Dispatch(o, t, r)
                            \/ DispatchRefused(o)
     \/ \E r \in Run : AgentStep(r) \/ ExitStep(r)
     \/ CrashRecover
  /\ UNCHANGED ledger

ParticipantNext == KernelStep \/ \E o \in Role : ParticipantStep(o)

ParticipantSpec == ParticipantInit /\ [][ParticipantNext]_allVars

-----------------------------------------------------------------------------
(* Properties.                                                              *)

\* A repeated call does nothing: whatever a participant sends again because the
\* answer was lost, a key stands for one task and reads one answer of the user,
\* and every answer read outside was read by a call that is in the ledger.
KeysActOnce ==
  \A o \in Role, k \in Key :
    LET readBy == {t \in Task : Assignee(t) = o /\ \E i \in inputs[t] : i.by = k}
    IN  /\ Cardinality(readBy) <= 1
        /\ \A t \in readBy : /\ Cardinality({i \in inputs[t] : i.by = k}) = 1
                             /\ [tool |-> "claim", key |-> k, task |-> t] \in ledger[o]

\* What participants have finished stays finished, and what they work on stays
\* theirs, while runs of other roles settle, fail, are lost and are recovered.
OutsideWorkIsSafe ==
  [][\A t \in Task : taskState[t] # "NONE" /\ Assignee(t) \in Attached \ Profiled =>
       /\ taskState[t] \in Final => taskState'[t] = taskState[t]
       /\ result[t] = "PUBLISHED" => result'[t] = result[t]
       /\ taskState'[t] # taskState[t] /\ taskState[t] \in Open =>
            ledger' # ledger]_allVars
=============================================================================
