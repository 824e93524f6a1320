----------------------------- MODULE WorkSessions -----------------------------
(***************************************************************************)
(* The working sessions of one role: packages/core-service                  *)
(* role-session-extension.ts (create, switch, commitTransfer),              *)
(* context-transfer-engine.ts (handing what a session knows on to its       *)
(* successor), participant-join.ts (the slots by which somebody outside     *)
(* joins the role and leaves it) and what the kernel and the coordinator do *)
(* with sessions.                                                           *)
(*                                                                          *)
(* A transfer is an operation in the database and a job in the memory of    *)
(* the Core: every step of the job up to its next await is one action.  A   *)
(* successor under the same harness is a native fork, under another one it  *)
(* is a new native session that is fed with the exported text.              *)
(*                                                                          *)
(* Revisions, the control lease and the command ledger are in Commands.     *)
(*                                                                          *)
(* Definitions whose name contains _bug are not part of the model: each is  *)
(* the definition that follows it with a plausible mistake in it.           *)
(***************************************************************************)
EXTENDS Naturals, Sequences, FiniteSets

CONSTANTS
  Harness,    \* harnesses with a transfer port
  First,      \* the harness the role starts with
  MaxConfirm, \* MAX_CONFIRM_ATTEMPTS
  MaxRetry,   \* MAX_RETRIES
  MaxSession, \* bound: sessions of the role
  MaxOp,      \* bound: transfers
  MaxTask,    \* bound: tasks
  MaxSlot,    \* bound: slots for participants
  MaxTrouble, \* bound: calls that are lost or fail, and updates of the charter
  MaxCrash    \* bound: crashes

ASSUME WorkSessionsAssumption ==
  /\ First \in Harness
  /\ MaxSession \in Nat \ {0}
  /\ {MaxConfirm, MaxRetry, MaxOp, MaxTask, MaxSlot, MaxTrouble, MaxCrash} \subseteq Nat

Ops == 1 .. MaxOp

VARIABLES
  binding,    \* harness and epoch of the current binding
  boot,       \* delivery of the charter and its initialisation attempt
  sessions,   \* role_sessions: harness, state, native reference, runs so far
  activation, \* the ACTIVE activation: session and epoch of the binding
  tasks,      \* tasks of the role: session they were submitted for, state
  run,        \* the run in the slot of the role, or NoRun
  slots,      \* work_session_slots: kind, state, session
  members,    \* participant_bindings: slot, session, state
  ops,        \* context_transfer_ops with their metadata
  core,       \* "up" or "down"
  job,        \* what the engine is about to do for an operation
  seed,       \* what is on its way to the target, and how often it was taken in
  troubles,   \* calls that failed and updates of the charter so far
  crashes     \* crashes so far

roleVars  == <<binding, boot, activation, tasks, run>>
joinVars  == <<slots, members>>
boundVars == <<troubles, crashes>>
vars == <<roleVars, joinVars, sessions, ops, core, job, seed, boundVars>>

NoRun == [task |-> 0, session |-> 0, epoch |-> 0, live |-> FALSE]

OpStates == {"PREPARING", "EXPORTED", "SEEDED", "COMMITTED", "FAILED"}
Unsettled == {"PREPARING", "EXPORTED", "SEEDED"}

TypeOK ==
  /\ binding \in [harness : Harness, epoch : Nat]
  /\ boot \in {"PENDING", "DELIVERING", "DELIVERED", "FAILED", "UNKNOWN"}
  /\ \A s \in DOMAIN sessions :
       sessions[s] \in [harness : Harness, state : {"ACTIVE", "ARCHIVED"},
                        ref : {"none", "saved", "inherited"}, turns : Nat]
  /\ activation \in [session : 0 .. MaxSession, epoch : Nat]
  /\ \A t \in DOMAIN tasks :
       tasks[t] \in [session : 0 .. MaxSession,
                     state : {"QUEUED", "ACTIVE", "DONE", "CANCELLED",
                              "NEEDS_ATTENTION"}]
  /\ run \in [task : 0 .. MaxTask, session : 0 .. MaxSession, epoch : Nat, live : BOOLEAN]
  /\ \A o \in DOMAIN ops :
       ops[o] \in [from : 1 .. MaxSession, to : Harness, state : OpStates,
                   session : 0 .. MaxSession, seen : Nat, target : BOOLEAN,
                   sent : BOOLEAN, confirmed : BOOLEAN, attempts : Nat,
                   retries : 0 .. MaxRetry,
                   error : {"none", "ambiguous", "unresolved"}]
  /\ \A w \in DOMAIN slots :
       slots[w] \in [kind : {"managed", "outside"},
                     state : {"OPEN", "BOUND", "CLOSED"}, session : 0 .. MaxSession]
  /\ \A m \in DOMAIN members :
       members[m] \in [slot : DOMAIN slots, session : DOMAIN sessions,
                       state : {"ACTIVE", "ENDED"}]
  /\ core \in {"up", "down"}
  /\ job \in [Ops -> {"idle", "queued", "forking", "verifying", "exporting", "sizing",
                      "initialising", "sending", "awaiting", "settling",
                      "confirming", "timer"}]
  /\ seed \in [Ops -> [flying : BOOLEAN, taken : Nat]]
  /\ troubles \in 0 .. MaxTrouble
  /\ crashes \in 0 .. MaxCrash

Init ==
  /\ binding = [harness |-> First, epoch |-> 1]
  /\ boot = "PENDING"
  /\ sessions = <<[harness |-> First, state |-> "ACTIVE", ref |-> "none", turns |-> 0]>>
  /\ activation = [session |-> 0, epoch |-> 0]
  /\ tasks = <<>>
  /\ run = NoRun
  /\ slots = <<>> /\ members = <<>>
  /\ ops = <<>>
  /\ core = "up"
  /\ job = [o \in Ops |-> "idle"]
  /\ seed = [o \in Ops |-> [flying |-> FALSE, taken |-> 0]]
  /\ troubles = 0
  /\ crashes = 0

IsActive(s) == s \in DOMAIN sessions /\ sessions[s].state = "ACTIVE"

\* The one ACTIVE session of the role (index role_sessions_one_active), or 0.
Active == IF \E s \in DOMAIN sessions : IsActive(s)
          THEN CHOOSE s \in DOMAIN sessions : IsActive(s) ELSE 0

Trouble == troubles < MaxTrouble /\ troubles' = troubles + 1

-----------------------------------------------------------------------------
(* Tasks, the charter and runs.                                              *)

\* A task belongs to the session that is active when it is submitted, if any.
Submits ==
  /\ core = "up" /\ Len(tasks) < MaxTask
  /\ tasks' = Append(tasks, [session |-> Active, state |-> "QUEUED"])
  /\ UNCHANGED <<binding, boot, sessions, activation, run, joinVars, ops, core, job, seed, boundVars>>

Cancels(t) ==
  /\ core = "up" /\ tasks[t].state = "QUEUED"
  /\ tasks' = [tasks EXCEPT ![t].state = "CANCELLED"]
  /\ UNCHANGED <<binding, boot, sessions, activation, run, joinVars, ops, core, job, seed, boundVars>>

CharterUpdates_bug(h) ==
  /\ core = "up" /\ Trouble
  /\ boot \notin {"DELIVERING", "UNKNOWN"}
  /\ binding' = [harness |-> h, epoch |-> binding.epoch + 1]
  /\ boot' = "PENDING"
  /\ UNCHANGED <<sessions, activation, tasks, run, joinVars, ops, core, job, seed, crashes>>

\* roleCharter.update: a new binding, and the charter is to be delivered again.
CharterUpdates(h) ==
  /\ core = "up" /\ Trouble
  /\ run = NoRun /\ boot \notin {"DELIVERING", "UNKNOWN"}
  /\ binding' = [harness |-> h, epoch |-> binding.epoch + 1]
  /\ boot' = "PENDING"
  /\ UNCHANGED <<sessions, activation, tasks, run, joinVars, ops, core, job, seed, crashes>>

\* initialize, which does not look at transfers.
Initialises ==
  /\ core = "up" /\ boot = "PENDING"
  /\ boot' = "DELIVERING"
  /\ UNCHANGED <<binding, sessions, activation, tasks, run, joinVars, ops, core, job, seed, boundVars>>

InitialisationEnds ==
  /\ core = "up" /\ boot = "DELIVERING"
  /\ boot' \in {"DELIVERED", "FAILED"}
  /\ UNCHANGED <<binding, sessions, activation, tasks, run, joinVars, ops, core, job, seed, boundVars>>

\* The role has a transfer under way.
Paused == \E o \in DOMAIN ops : ops[o].state \in Unsettled

Oldest(t) == /\ tasks[t].state = "QUEUED"
             /\ \A u \in 1 .. t - 1 : tasks[u].state # "QUEUED"

Dispatch_bug(t) ==
  /\ core = "up" /\ boot = "DELIVERED"
  /\ run = NoRun /\ Oldest(t)
  /\ IsActive(tasks[t].session)
  /\ sessions[tasks[t].session].harness = binding.harness
  /\ activation' = [session |-> tasks[t].session, epoch |-> binding.epoch]
  /\ run' = [task |-> t, session |-> tasks[t].session, epoch |-> binding.epoch, live |-> TRUE]
  /\ tasks' = [tasks EXCEPT ![t].state = "ACTIVE"]
  /\ UNCHANGED <<binding, boot, sessions, joinVars, ops, core, job, seed, boundVars>>

\* The role is not visited while it has a transfer (tick); a task is started in
\* the session it belongs to (ensureActiveActivation) or blocks the queue.
Dispatch(t) ==
  /\ core = "up" /\ boot = "DELIVERED" /\ ~Paused
  /\ run = NoRun /\ Oldest(t)
  /\ IsActive(tasks[t].session)
  /\ sessions[tasks[t].session].harness = binding.harness
  /\ activation' = [session |-> tasks[t].session, epoch |-> binding.epoch]
  /\ run' = [task |-> t, session |-> tasks[t].session, epoch |-> binding.epoch, live |-> TRUE]
  /\ tasks' = [tasks EXCEPT ![t].state = "ACTIVE"]
  /\ UNCHANGED <<binding, boot, sessions, joinVars, ops, core, job, seed, boundVars>>

\* NativeSessionStore.save: the first reference of a session is kept.  One that
\* was inherited cannot be read by load, and the run ends without having saved.
SavesSession ==
  /\ core = "up" /\ run.live
  /\ sessions[run.session].ref = "none"
  /\ binding.epoch = run.epoch
  /\ activation = [session |-> run.session, epoch |-> run.epoch]
  /\ sessions' = [sessions EXCEPT ![run.session].ref = "saved"]
  /\ UNCHANGED <<roleVars, joinVars, ops, core, job, seed, boundVars>>

RunEnds ==
  /\ core = "up" /\ run.live
  /\ run' = NoRun
  /\ tasks' = [tasks EXCEPT ![run.task].state = "DONE"]
  /\ sessions' = [sessions EXCEPT ![run.session].turns = @ + 1]
  /\ UNCHANGED <<binding, boot, activation, joinVars, ops, core, job, seed, boundVars>>

-----------------------------------------------------------------------------
(* roleSession.create and roleSession.switch.                                *)

\* safeToSwitch
SafeToSwitch ==
  /\ run = NoRun
  /\ boot \notin {"DELIVERING", "UNKNOWN"}
  /\ \A t \in DOMAIN tasks : tasks[t].state \in {"DONE", "CANCELLED"}

\* transitionWorkSessionBinding, which publishes the charter for the new binding.
Transition(h) ==
  IF h = binding.harness THEN UNCHANGED <<binding, boot>>
  ELSE /\ binding' = [harness |-> h, epoch |-> binding.epoch + 1]
       /\ boot' = "PENDING"

Archived(s) == [t \in DOMAIN sessions |->
                  IF t = s THEN [sessions[t] EXCEPT !.state = "ARCHIVED"] ELSE sessions[t]]

NewSession(h, ref) == [harness |-> h, state |-> "ACTIVE", ref |-> ref, turns |-> 0]

\* Somebody outside is bound to the role.
Guest == \E m \in DOMAIN members :
           members[m].state = "ACTIVE" /\ slots[members[m].slot].kind = "outside"

\* bindManagedSession, in the transaction that makes s the active session: the
\* harness is bound to it in its own slot, unless somebody outside is bound,
\* which makes that transaction fail.
BindsManaged(s) ==
  LET open == {w \in DOMAIN slots : slots[w].kind = "managed" /\ slots[w].state # "CLOSED"}
      slot == IF open = {} THEN Len(slots) + 1 ELSE CHOOSE w \in open : \A v \in open : v <= w
      row  == [kind |-> "managed", state |-> "BOUND", session |-> s]
  IN  /\ ~Guest
      /\ slots' = IF open = {} THEN Append(slots, row) ELSE [slots EXCEPT ![slot] = row]
      /\ members' = Append([m \in DOMAIN members |-> [members[m] EXCEPT !.state = "ENDED"]],
                    [slot |-> slot, session |-> s, state |-> "ACTIVE"])

\* A session takes the place of the active one under the binding there is then.
Succeeds(h, ref) ==
  LET new == Len(sessions) + 1
  IN  /\ Transition(h)
      /\ sessions' = Append(Archived(Active), NewSession(h, ref))
      /\ activation' = [session |-> new, epoch |-> binding'.epoch]
      /\ BindsManaged(new)

\* Bound.  Only a transfer from the newest session can be committed, so that
\* this leaves room for all of them.
Room == Len(sessions) < MaxSession

CreatesBlank(h) ==
  /\ core = "up" /\ SafeToSwitch /\ Room
  /\ Succeeds(h, "none")
  /\ UNCHANGED <<tasks, run, ops, core, job, seed, boundVars>>

\* The operation is recorded with the request; its job starts after the commit.
CreatesInherit(h) ==
  /\ core = "up" /\ SafeToSwitch /\ Room /\ Len(ops) < MaxOp /\ Active # 0
  /\ ops' = Append(ops, [from |-> Active, to |-> h, state |-> "PREPARING",
                         session |-> 0, seen |-> 0, target |-> FALSE, sent |-> FALSE,
                         confirmed |-> FALSE, attempts |-> 0, retries |-> 0,
                         error |-> "none"])
  /\ job' = [job EXCEPT ![Len(ops) + 1] = "queued"]
  /\ UNCHANGED <<roleVars, joinVars, sessions, core, seed, boundVars>>

\* Only the active session can be switched to: its binding is restored.
Switches(s) ==
  /\ core = "up" /\ sessions[s].state = "ACTIVE"
  /\ Transition(sessions[s].harness)
  /\ activation' = [session |-> s, epoch |-> binding'.epoch]
  /\ UNCHANGED <<sessions, tasks, run, joinVars, ops, core, job, seed, boundVars>>

-----------------------------------------------------------------------------
(* Slots and participants.                                                   *)

\* assertSessionDrained
Drained(s) ==
  /\ \A t \in DOMAIN tasks :
       tasks[t].session = s => tasks[t].state \in {"DONE", "CANCELLED"}
  /\ run = NoRun \/ run.session # s

Member(s) == \E m \in DOMAIN members : members[m].session = s /\ members[m].state = "ACTIVE"

\* participant.slot.create, for a session that is there already or for none.
CreatesSlot(s) ==
  /\ core = "up" /\ Len(slots) < MaxSlot
  /\ s # 0 => IsActive(s) /\ ~Member(s)
  /\ slots' = Append(slots, [kind |-> "outside", state |-> "OPEN", session |-> s])
  /\ UNCHANGED <<roleVars, sessions, members, ops, core, job, seed, boundVars>>

\* The session a participant gets: that of its slot, or the active one if nobody
\* was ever bound to it, or 0 for one of its own.
SessionFor(w) ==
  IF slots[w].session # 0 THEN slots[w].session
  ELSE IF \E m \in DOMAIN members : members[m].session = Active THEN 0
  ELSE Active

EndsActivation(s) ==
  activation' = IF activation.session = s THEN [session |-> 0, epoch |-> 0] ELSE activation

Binds(w, s) ==
  /\ slots' = [slots EXCEPT ![w].state = "BOUND", ![w].session = s]
  /\ members' = Append(members, [slot |-> w, session |-> s, state |-> "ACTIVE"])

\* createParticipantSession: the new session takes the place of the active one
\* under the current binding and gets the tasks that belong to none.
OpensSession(new) ==
  /\ Room
  /\ Active # 0 => Drained(Active)
  /\ sessions' = Append(Archived(Active), NewSession(binding.harness, "none"))
  /\ EndsActivation(Active)
  /\ tasks' = [t \in DOMAIN tasks |->
                 IF tasks[t].session = 0 /\ tasks[t].state = "QUEUED"
                 THEN [tasks[t] EXCEPT !.session = new] ELSE tasks[t]]

\* participant.join: a role has one participant at a time.
Joins(w) ==
  /\ core = "up" /\ slots[w].state = "OPEN"
  /\ \A m \in DOMAIN members : members[m].state = "ENDED"
  /\ LET s == SessionFor(w) new == Len(sessions) + 1
     IN  \/ IsActive(s) /\ Binds(w, s) /\ UNCHANGED <<sessions, activation, tasks>>
         \/ s = 0 /\ OpensSession(new) /\ Binds(w, new)
  /\ UNCHANGED <<binding, boot, run, ops, core, job, seed, boundVars>>

\* participant.leave: the session of the slot becomes history with it.
Leaves(w) ==
  /\ core = "up" /\ slots[w].state # "CLOSED"
  /\ LET s == slots[w].session
     IN  /\ s # 0 => Drained(s)
         /\ sessions' = Archived(s)
         /\ IF s = 0 THEN activation' = activation ELSE EndsActivation(s)
  /\ slots' = [slots EXCEPT ![w].state = "CLOSED"]
  /\ members' = [m \in DOMAIN members |-> IF members[m].slot = w
                   THEN [members[m] EXCEPT !.state = "ENDED"] ELSE members[m]]
  /\ UNCHANGED <<binding, boot, tasks, run, ops, core, job, seed, boundVars>>

-----------------------------------------------------------------------------
(* The engine.                                                               *)

\* The job of an operation does its next step.
Doing(o, what) == core = "up" /\ o \in DOMAIN ops /\ job[o] = what

Then(o, what) == job' = [job EXCEPT ![o] = what]

\* The metadata of an operation that is over are not read again.
Over(p, state) == [p EXCEPT !.state = state, !.target = FALSE, !.sent = FALSE,
                            !.confirmed = FALSE, !.attempts = 0, !.retries = 0,
                            !.error = "none"]

\* fail: an operation that is over stays as it is.
Fail(o) ==
  /\ ops' = [ops EXCEPT ![o] = Over(@, "FAILED")]
  /\ Then(o, "idle")

Retry_bug(o, p) ==
  /\ ops' = [ops EXCEPT ![o] = [p EXCEPT !.retries = @ + 1]]
  /\ Then(o, "timer")

\* scheduleRetry: the operation stays unsettled, with or without another try.
Retry(o, p) ==
  IF p.retries < MaxRetry
  THEN /\ ops' = [ops EXCEPT ![o] = [p EXCEPT !.retries = @ + 1]]
       /\ Then(o, "timer")
  ELSE /\ ops' = [ops EXCEPT ![o] = [p EXCEPT !.error = "unresolved"]]
       /\ Then(o, "idle")

\* The target may have been fed: from now on its state is only read.
Seeded(o, p) ==
  /\ ops' = [ops EXCEPT ![o] = [p EXCEPT !.state = "SEEDED"]]
  /\ Then(o, "settling")

Fork(o) == ops[o].to = sessions[ops[o].from].harness

\* run and runOrSettle, up to the first await: nothing is sent again once the
\* target may have been fed.  An operation that is over has no job.
Begins(o) ==
  /\ Doing(o, "queued")
  /\ LET p == ops[o]
     IN  \/ p.state = "SEEDED" /\ Then(o, "settling") /\ ops' = ops
         \/ /\ p.state \in {"PREPARING", "EXPORTED"}
            /\ IF \/ sessions[p.from].state # "ACTIVE"
                  \/ sessions[p.from].ref = "none"
               THEN Fail(o)
               ELSE IF Fork(o) THEN Then(o, "forking") /\ ops' = ops
               ELSE IF p.state = "EXPORTED" /\ p.target /\ p.sent THEN Seeded(o, p)
               ELSE Then(o, "exporting") /\ ops' = ops
  /\ UNCHANGED <<roleVars, joinVars, sessions, core, seed, boundVars>>

\* runNativeFork: the child is recorded as soon as it exists, and holds the
\* history of its parent unless the fork went wrong.  A known child is only read.
\* Without an answer the port says whether the fork may be repeated.
Forks(o) ==
  /\ Doing(o, "forking")
  /\ LET p == ops[o]
     IN  \/ /\ p.target
            /\ Then(o, "verifying")
            /\ UNCHANGED <<ops, seed, troubles>>
         \/ /\ ~p.target
            /\ ops' = [ops EXCEPT ![o].target = TRUE, ![o].seen = sessions[p.from].turns]
            /\ Then(o, "verifying")
            /\ \/ seed' = [seed EXCEPT ![o].taken = @ + 1] /\ troubles' = troubles
               \/ seed' = seed /\ Trouble
         \/ /\ ~p.target /\ Trouble
            /\ \/ Retry(o, p)
               \/ ops' = [ops EXCEPT ![o].error = "unresolved"] /\ Then(o, "idle")
               \/ Fail(o)
            /\ seed' = seed
  /\ UNCHANGED <<roleVars, joinVars, sessions, core, crashes>>

\* The histories of parent and child are compared.
Verifies(o) ==
  /\ Doing(o, "verifying")
  /\ \/ /\ seed[o].taken > 0
        /\ Seeded(o, [ops[o] EXCEPT !.confirmed = TRUE, !.error = "none"])
        /\ troubles' = troubles
     \/ /\ IF seed[o].taken > 0 THEN Trouble ELSE troubles' = troubles
        /\ Seeded(o, [ops[o] EXCEPT !.error = "ambiguous"])
  /\ UNCHANGED <<roleVars, joinVars, sessions, core, seed, crashes>>

Exports(o) ==
  /\ Doing(o, "exporting")
  /\ \/ /\ ops' = [ops EXCEPT ![o].state = "EXPORTED",
                              ![o].seen = sessions[ops[o].from].turns]
        /\ Then(o, "sizing")
        /\ troubles' = troubles
     \/ Trouble /\ Fail(o)
  /\ UNCHANGED <<roleVars, joinVars, sessions, core, seed, crashes>>

\* targetWindowTokens may have to create the target to ask for its window; the
\* source may not fit, or the windows may not be known (decideTransfer).
Sizes(o) ==
  /\ Doing(o, "sizing")
  /\ \/ /\ \E target \in {ops[o].target, TRUE} :
               ops' = [ops EXCEPT ![o].target = target]
        /\ Then(o, "initialising")
     \/ Fail(o)
  /\ UNCHANGED <<roleVars, joinVars, sessions, core, seed, boundVars>>

\* initializeTarget up to the seed: the target is created and recorded, or it
\* is known and, should it hold the seed already, is not fed again.
InitialisesTarget(o) ==
  /\ Doing(o, "initialising")
  /\ LET p == ops[o]
     IN  \/ /\ ~p.target \/ seed[o].taken = 0
            /\ ops' = [ops EXCEPT ![o].target = TRUE]
            /\ Then(o, "sending")
            /\ troubles' = troubles
         \/ /\ p.target /\ seed[o].taken > 0
            /\ Seeded(o, [p EXCEPT !.confirmed = TRUE, !.error = "none"])
            /\ troubles' = troubles
         \/ /\ Trouble
            /\ IF p.target THEN Seeded(o, [p EXCEPT !.error = "ambiguous"])
               ELSE Retry(o, p) \/ Fail(o)
  /\ UNCHANGED <<roleVars, joinVars, sessions, core, seed, crashes>>

Sends_bug(o) ==
  /\ Doing(o, "sending")
  /\ seed' = [seed EXCEPT ![o].flying = TRUE]
  /\ Then(o, "awaiting")
  /\ UNCHANGED <<roleVars, joinVars, sessions, ops, core, boundVars>>

\* That the seed is sent is recorded before it is (recordInputDispatch).
Sends(o) ==
  /\ Doing(o, "sending")
  /\ ops' = [ops EXCEPT ![o].sent = TRUE]
  /\ seed' = [seed EXCEPT ![o].flying = TRUE]
  /\ Then(o, "awaiting")
  /\ UNCHANGED <<roleVars, joinVars, sessions, core, boundVars>>

\* The harness takes the seed in, also when nobody waits for it any more.
TakesIn(o) ==
  /\ seed[o].flying
  /\ seed' = [seed EXCEPT ![o] = [flying |-> FALSE, taken |-> @.taken + 1]]
  /\ UNCHANGED <<roleVars, joinVars, sessions, ops, core, job, boundVars>>

\* The answer of the harness, or an error after which nothing is certain.
Hears(o) ==
  /\ Doing(o, "awaiting")
  /\ \/ /\ seed[o].taken > 0
        /\ Seeded(o, [ops[o] EXCEPT !.confirmed = TRUE, !.error = "none"])
        /\ UNCHANGED <<seed, troubles>>
     \/ /\ Trouble
        /\ Seeded(o, [ops[o] EXCEPT !.error = "ambiguous"])
        /\ \/ seed' = seed
           \/ seed' = [seed EXCEPT ![o].flying = FALSE]
  /\ UNCHANGED <<roleVars, joinVars, sessions, core, crashes>>

\* commitTransfer and the check before it: the target takes the place of the
\* session it was made from and the operation is COMMITTED in one transaction.
CommitOrRace(o, p) ==
  \/ /\ Active = p.from
     /\ Succeeds(p.to, "inherited")
     /\ ops' = [ops EXCEPT ![o] = [Over(p, "COMMITTED") EXCEPT
                                     !.session = Len(sessions) + 1]]
     /\ Then(o, "idle")
     /\ UNCHANGED <<tasks, run, troubles>>
  \/ /\ Active # p.from \/ Guest
     /\ Fail(o)
     /\ UNCHANGED <<roleVars, joinVars, sessions, troubles>>
  \/ /\ Active = p.from /\ Trouble
     /\ Fail(o)
     /\ UNCHANGED <<roleVars, joinVars, sessions>>

Settles(o) ==
  /\ Doing(o, "settling")
  /\ IF ops[o].confirmed THEN CommitOrRace(o, ops[o])
     ELSE /\ ops' = [ops EXCEPT ![o].attempts = @ + 1]
          /\ Then(o, "confirming")
          /\ UNCHANGED <<roleVars, joinVars, sessions, troubles>>
  /\ UNCHANGED <<core, seed, crashes>>

Confirms_bug(o) ==
  /\ Doing(o, "confirming")
  /\ LET p == ops[o]
     IN  \/ /\ seed[o].taken > 0 \/ p.attempts >= MaxConfirm
            /\ CommitOrRace(o, [p EXCEPT !.confirmed = TRUE])
         \/ /\ seed[o].taken = 0 /\ p.attempts < MaxConfirm
            /\ Retry(o, [p EXCEPT !.error = "ambiguous"])
            /\ UNCHANGED <<roleVars, joinVars, sessions, troubles>>
  /\ UNCHANGED <<core, seed, crashes>>

\* The target is read: if it holds the seed the transfer is committed, and if
\* not, or if it cannot be read, it is read again a bounded number of times.
Confirms(o) ==
  /\ Doing(o, "confirming")
  /\ LET p == ops[o]
     IN  \/ /\ seed[o].taken > 0
            /\ CommitOrRace(o, [p EXCEPT !.confirmed = TRUE])
         \/ /\ IF seed[o].taken > 0 THEN Trouble ELSE troubles' = troubles
            /\ IF p.attempts < MaxConfirm THEN Retry(o, [p EXCEPT !.error = "ambiguous"])
               ELSE /\ ops' = [ops EXCEPT ![o].error = "unresolved"]
                    /\ Then(o, "idle")
            /\ UNCHANGED <<roleVars, joinVars, sessions>>
  /\ UNCHANGED <<core, seed, crashes>>

TimerFires(o) ==
  /\ Doing(o, "timer")
  /\ Then(o, "queued")
  /\ UNCHANGED <<roleVars, joinVars, sessions, ops, core, seed, boundVars>>

-----------------------------------------------------------------------------
\* The jobs are lost; what ran is UNKNOWN after the restart.
Crash ==
  /\ core = "up" /\ crashes < MaxCrash /\ crashes' = crashes + 1
  /\ core' = "down"
  /\ job' = [o \in Ops |-> "idle"]
  /\ run' = [run EXCEPT !.live = FALSE]
  /\ tasks' = IF run.live THEN [tasks EXCEPT ![run.task].state = "NEEDS_ATTENTION"] ELSE tasks
  /\ boot' = IF boot = "DELIVERING" THEN "UNKNOWN" ELSE boot
  /\ UNCHANGED <<binding, sessions, activation, joinVars, ops, seed, troubles>>

\* A restart that takes up only what was sent.
Restart_bug ==
  /\ core = "down" /\ core' = "up"
  /\ job' = [o \in Ops |-> IF o \in DOMAIN ops /\ ops[o].state = "SEEDED"
                           THEN "settling" ELSE "idle"]
  /\ UNCHANGED <<roleVars, joinVars, sessions, ops, seed, boundVars>>

\* resumeInterrupted: every operation that is not settled is taken up again.
Restart ==
  /\ core = "down" /\ core' = "up"
  /\ job' = [o \in Ops |-> IF o \in DOMAIN ops /\ ops[o].state \in Unsettled
                           THEN "queued" ELSE "idle"]
  /\ UNCHANGED <<roleVars, joinVars, sessions, ops, seed, boundVars>>

EngineStep(o) ==
  \/ Begins(o) \/ Forks(o) \/ Verifies(o) \/ Exports(o) \/ Sizes(o) \/ InitialisesTarget(o) \/ Sends(o)
  \/ Hears(o) \/ Settles(o) \/ Confirms(o) \/ TimerFires(o)

Next ==
  \/ Submits
  \/ \E t \in DOMAIN tasks : Cancels(t) \/ Dispatch(t)
  \/ \E h \in Harness : CharterUpdates(h) \/ CreatesBlank(h) \/ CreatesInherit(h)
  \/ Initialises \/ InitialisationEnds
  \/ SavesSession \/ RunEnds
  \/ \E s \in DOMAIN sessions : Switches(s)
  \/ \E s \in 0 .. MaxSession : CreatesSlot(s)
  \/ \E w \in DOMAIN slots : Joins(w) \/ Leaves(w)
  \/ \E o \in Ops : EngineStep(o) \/ TakesIn(o)
  \/ Crash \/ Restart

\* Jobs and timers run, calls of a port return or run into their time limit, and
\* a Core that went down is started again.
Fairness ==
  /\ \A o \in Ops : WF_vars(EngineStep(o)) /\ WF_vars(TakesIn(o))
  /\ WF_vars(Restart)

Spec == Init /\ [][Next]_vars /\ Fairness

-----------------------------------------------------------------------------
(* Properties.                                                              *)

\* The session, the activation and the binding a run was started for stay in
\* place while it runs: nothing it says is thrown away as stale.  They are
\* changed by four operations that look at different things: safeToSwitch,
\* roleCharter.update, the commit of a transfer, and the pause in tick.
RunKeepsItsSession ==
  run.live =>
    /\ sessions[run.session].state = "ACTIVE"
    /\ activation = [session |-> run.session, epoch |-> run.epoch]
    /\ binding.epoch = run.epoch

\* What a role did in a session before it was handed on is known to its
\* successor: no run ends in the source after it was read, over retries and
\* restarts (tick pauses the role while the operation is not settled).
NothingIsForgotten ==
  \A o \in DOMAIN ops :
    ops[o].state = "COMMITTED" => ops[o].seen = sessions[ops[o].from].turns

\* The text is given to a target at most once, whatever is lost or repeated:
\* once sending was recorded, a restart or a retry only reads (run, settleSeeded).
SeededAtMostOnce == \A o \in Ops : seed[o].taken <= 1

\* A session becomes the active one by a transfer only if it holds what the
\* transfer was to bring: an uncertain result is never taken for a success.
CommittedIsSeeded ==
  \A o \in DOMAIN ops : ops[o].state = "COMMITTED" => seed[o].taken > 0

\* Every transfer is committed, has failed, or says that a person has to look at
\* it: none is left behind without a job and without a word.
TransferEnds ==
  \A o \in Ops :
    (o \in DOMAIN ops) ~>
       (o \in DOMAIN ops
        /\ (ops[o].state \in {"COMMITTED", "FAILED"} \/ ops[o].error = "unresolved"))

\* What safeToSwitch is there for: no task waits for a session that is history,
\* where it could never be started.
QueueIsDrained ==
  \A t \in DOMAIN tasks :
    tasks[t].state = "QUEUED" /\ tasks[t].session # 0 => IsActive(tasks[t].session)
=============================================================================
