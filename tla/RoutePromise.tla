----------------------------- MODULE RoutePromise -----------------------------
(***************************************************************************)
(* What the routing kernel promises to the roles and to the user, without   *)
(* messages, outbox rows, leases or slots: a task is worked on by one run   *)
(* at a time and never again once the outcome of a run is unknown, its      *)
(* result is shown once, when that run has stopped, and a task that follows *)
(* on another one starts only after the result of the other is shown.       *)
(***************************************************************************)
CONSTANTS
  Task,    \* task identities
  NoTask,  \* no predecessor
  Run      \* run identities

VARIABLES
  phase,    \* "none", "open", "stuck" or "closed"
  after,    \* the task whose result must be shown before this one starts
  working,  \* the runs that may be executing the task
  shown     \* the result of the task is visible outside

vars == <<phase, after, working, shown>>

Init ==
  /\ phase = [t \in Task |-> "none"]
  /\ after = [t \in Task |-> NoTask]
  /\ working = [t \in Task |-> {}]
  /\ shown = [t \in Task |-> FALSE]

\* A task appears, on its own or to follow on task p.
Create(t, p) ==
  /\ phase[t] = "none"
  /\ p # NoTask => p \in Task /\ phase[p] = "open" /\ working[p] # {}
  /\ phase' = [phase EXCEPT ![t] = "open"]
  /\ after' = [after EXCEPT ![t] = p]
  /\ UNCHANGED <<working, shown>>

\* A run starts on a task that nobody works on and that follows on nothing
\* unfinished.
Start(t, r) ==
  /\ phase[t] = "open" /\ working[t] = {}
  /\ after[t] # NoTask => shown[after[t]]
  /\ \A u \in Task : r \notin working[u]
  /\ working' = [working EXCEPT ![t] = {r}]
  /\ UNCHANGED <<phase, after, shown>>

\* The run stops and leaves the task open, to be continued.
Rest(t) ==
  /\ phase[t] = "open" /\ working[t] # {}
  /\ working' = [working EXCEPT ![t] = {}]
  /\ UNCHANGED <<phase, after, shown>>

\* The run stops and the result is shown, possibly as a new task h of the role
\* the result is addressed to.
Conclude(t, h) ==
  /\ phase[t] = "open" /\ working[t] # {} /\ ~shown[t]
  /\ h # NoTask => phase[h] = "none"
  /\ phase' = [u \in Task |-> IF u = t THEN "closed"
                              ELSE IF u = h THEN "open" ELSE phase[u]]
  /\ working' = [working EXCEPT ![t] = {}]
  /\ shown' = [shown EXCEPT ![t] = TRUE]
  /\ UNCHANGED after

\* The run stops and the task is left to the user.
GiveUp(t) ==
  /\ phase[t] = "open" /\ working[t] # {}
  /\ phase' = [phase EXCEPT ![t] = "stuck"]
  /\ working' = [working EXCEPT ![t] = {}]
  /\ UNCHANGED <<after, shown>>

\* Contact is lost with the runs of some tasks, which may still be executing.
Lose(tasks) ==
  /\ \A t \in tasks : phase[t] = "open" /\ working[t] # {}
  /\ phase' = [t \in Task |-> IF t \in tasks THEN "stuck" ELSE phase[t]]
  /\ UNCHANGED <<after, working, shown>>

\* The user withdraws a task that nobody works on.
Withdraw(t) ==
  /\ phase[t] = "open" /\ working[t] = {}
  /\ phase' = [phase EXCEPT ![t] = "closed"]
  /\ UNCHANGED <<after, working, shown>>

Next ==
  \/ \E t \in Task, p \in Task \cup {NoTask} : Create(t, p)
  \/ \E t \in Task, r \in Run : Start(t, r)
  \/ \E t \in Task : Rest(t) \/ GiveUp(t) \/ Withdraw(t)
  \/ \E t \in Task, h \in Task \cup {NoTask} : Conclude(t, h)
  \/ \E tasks \in SUBSET Task : Lose(tasks)

Spec == Init /\ [][Next]_vars
=============================================================================
