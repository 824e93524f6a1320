-------------------------- MODULE WorkSessionsProofs --------------------------
(***************************************************************************)
(* For every set of harnesses and every number of sessions, transfers,      *)
(* tasks, slots, failures and crashes: runs keep their session, transfers   *)
(* forget nothing, feed their target once and succeed only if they did.     *)
(*                                                                          *)
(* RoleInv says when a role may run: a live run works in the newest session *)
(* under the present binding, and nothing runs while a transfer is under    *)
(* way.  TransferInv ties each step of a job to what its operation has      *)
(* recorded, and what is recorded to what the target was given.             *)
(***************************************************************************)
EXTENDS WorkSessions, SequenceTheorems, TLAPS

USE WorkSessionsAssumption DEF WorkSessionsAssumption
USE DEF roleVars, joinVars, boundVars

Session == [harness : Harness, state : {"ACTIVE", "ARCHIVED"},
            ref : {"none", "saved", "inherited"}, turns : Nat]

TaskRow == [session : 0 .. MaxSession,
            state : {"QUEUED", "ACTIVE", "DONE", "CANCELLED", "NEEDS_ATTENTION"}]

Transfer == [from : 1 .. MaxSession, to : Harness, state : OpStates,
             session : 0 .. MaxSession, seen : Nat, target : BOOLEAN,
             sent : BOOLEAN, confirmed : BOOLEAN, attempts : Nat,
             retries : 0 .. MaxRetry, error : {"none", "ambiguous", "unresolved"}]

Slot == [kind : {"managed", "outside"}, state : {"OPEN", "BOUND", "CLOSED"},
         session : 0 .. MaxSession]

Membership == [slot : Nat, session : Nat, state : {"ACTIVE", "ENDED"}]

Jobs == {"idle", "queued", "forking", "verifying", "exporting", "sizing",
         "initialising", "sending", "awaiting", "settling", "confirming", "timer"}

Seed == [flying : BOOLEAN, taken : Nat]

\* Rows are only added to the tables, and refer to rows that are there.
TypeInv ==
  /\ binding \in [harness : Harness, epoch : Nat]
  /\ boot \in {"PENDING", "DELIVERING", "DELIVERED", "FAILED", "UNKNOWN"}
  /\ sessions \in Seq(Session) /\ Len(sessions) \in 1 .. MaxSession
  /\ activation \in [session : 0 .. MaxSession, epoch : Nat]
  /\ tasks \in Seq(TaskRow) /\ Len(tasks) <= MaxTask
  /\ run \in [task : 0 .. MaxTask, session : 0 .. MaxSession, epoch : Nat,
              live : BOOLEAN]
  /\ slots \in Seq(Slot)
  /\ members \in Seq(Membership)
  /\ \A m \in DOMAIN members : /\ members[m].slot \in DOMAIN slots
                               /\ members[m].session \in DOMAIN sessions
  /\ ops \in Seq(Transfer) /\ Len(ops) <= MaxOp
  /\ core \in {"up", "down"}
  /\ job \in [Ops -> Jobs]
  /\ seed \in [Ops -> Seed]
  /\ troubles \in 0 .. MaxTrouble
  /\ crashes \in 0 .. MaxCrash

\* The active session is the newest one.
NewestIsActive ==
  \A s \in DOMAIN sessions : sessions[s].state = "ACTIVE" => s = Len(sessions)

\* No run while a transfer is under way, live or lost.
PausedIsQuiet == Paused => run = NoRun

\* A live run works in the active session, under its harness and binding.
RunFits ==
  run.live =>
    /\ run.task \in DOMAIN tasks
    /\ run.session \in DOMAIN sessions
    /\ sessions[run.session].state = "ACTIVE"
    /\ sessions[run.session].harness = binding.harness
    /\ activation = [session |-> run.session, epoch |-> run.epoch]
    /\ binding.epoch = run.epoch

\* The harness has one slot of its own at a time.
ManagedSlotIsOne ==
  \A v, w \in DOMAIN slots :
    /\ slots[v].kind = "managed" /\ slots[v].state # "CLOSED"
    /\ slots[w].kind = "managed" /\ slots[w].state # "CLOSED"
    => v = w

RoleInv == ManagedSlotIsOne /\ NewestIsActive /\ PausedIsQuiet /\ RunFits

\* What holds of an operation p with its job at step w and its seed e: how far it
\* has come when the job is there, what the target was given by what p has
\* recorded, and what was read of the source, which is history when p is over.
OpFits(p, w, e) ==
  LET source == sessions[p.from]
      fork == p.to = source.harness
  IN  /\ p.from \in DOMAIN sessions /\ p.from < MaxSession
      /\ e.taken <= 1
      /\ e.flying => e.taken = 0
      /\ p.target => p.state \in Unsettled
      /\ p.sent => p.target /\ p.state \in {"EXPORTED", "SEEDED"}
      /\ p.state \in {"EXPORTED", "SEEDED", "COMMITTED"} => p.seen = source.turns
      /\ fork /\ p.target => p.seen = source.turns
      /\ p.state = "COMMITTED" => source.state = "ARCHIVED" /\ e.taken > 0
      /\ p.state \in Unsettled =>
           /\ p.confirmed => e.taken > 0
           /\ fork => ~e.flying /\ (~p.target => e.taken = 0)
           /\ ~fork /\ ~p.sent => ~e.flying /\ e.taken = 0
      /\ w # "idle" => p.state \in Unsettled
      /\ w = "forking" => fork /\ p.state # "SEEDED"
      /\ w = "verifying" => fork /\ p.target
      /\ w = "exporting" => ~fork /\ ~p.sent /\ p.state # "SEEDED"
      /\ w \in {"sizing", "initialising", "sending"} =>
           ~fork /\ ~p.sent /\ p.state = "EXPORTED"
      /\ w = "sending" => p.target
      /\ w = "awaiting" => ~fork /\ p.sent /\ p.state = "EXPORTED"
      /\ w \in {"settling", "confirming"} => p.state = "SEEDED"

TransferInv ==
  \A o \in Ops :
    IF o \in DOMAIN ops THEN OpFits(ops[o], job[o], seed[o])
    ELSE job[o] = "idle" /\ ~seed[o].flying /\ seed[o].taken = 0

-----------------------------------------------------------------------------
(* Tables.                                                                   *)

\* A table keeps its length and its type when a row is replaced.
LEMMA RowReplaced ==
  ASSUME NEW S, NEW s \in Seq(S), NEW i \in DOMAIN s, NEW e \in S
  PROVE  /\ [s EXCEPT ![i] = e] \in Seq(S)
         /\ Len([s EXCEPT ![i] = e]) = Len(s)
         /\ DOMAIN [s EXCEPT ![i] = e] = DOMAIN s
         /\ [s EXCEPT ![i] = e][i] = e
         /\ \A j \in DOMAIN s : j # i => [s EXCEPT ![i] = e][j] = s[j]
BY ExceptSeq, LenProperties

\* A table of the same rows.
LEMMA RowsMapped ==
  ASSUME NEW S, NEW T, NEW s \in Seq(S), NEW f \in [DOMAIN s -> T]
  PROVE  f \in Seq(T) /\ Len(f) = Len(s)
<1>1. DOMAIN s = 1 .. Len(s) /\ Len(s) \in Nat
  BY LenProperties
<1> QED BY <1>1

\* A row is added at the end.
LEMMA RowAdded ==
  ASSUME NEW S, NEW s \in Seq(S), NEW e \in S
  PROVE  /\ Append(s, e) \in Seq(S)
         /\ Len(Append(s, e)) = Len(s) + 1
         /\ Len(s) \in Nat /\ DOMAIN s = 1 .. Len(s)
         /\ DOMAIN Append(s, e) = 1 .. Len(s) + 1
         /\ Append(s, e)[Len(s) + 1] = e
         /\ \A i \in DOMAIN s : Append(s, e)[i] = s[i] /\ i \in DOMAIN Append(s, e)
                                /\ i # Len(s) + 1
<1>1. Len(s) \in Nat /\ DOMAIN s = 1 .. Len(s)
  BY LenProperties
<1>2. /\ Append(s, e) \in Seq(S) /\ Len(Append(s, e)) = Len(s) + 1
      /\ Append(s, e)[Len(s) + 1] = e
      /\ \A i \in 1 .. Len(s) : Append(s, e)[i] = s[i]
  BY AppendProperties
<1>3. DOMAIN Append(s, e) = 1 .. Len(s) + 1
  BY <1>2, LenProperties
<1>4. \A i \in 1 .. Len(s) : i \in 1 .. Len(s) + 1 /\ i # Len(s) + 1
  BY <1>1
<1> QED BY <1>1, <1>2, <1>3, <1>4

\* The places of a table and its rows.
LEMMA Rows ==
  ASSUME NEW S, NEW s \in Seq(S)
  PROVE  /\ Len(s) \in Nat /\ DOMAIN s = 1 .. Len(s)
         /\ \A i \in DOMAIN s : s[i] \in S /\ i \in Nat /\ 1 <= i /\ i <= Len(s)
<1>1. Len(s) \in Nat /\ DOMAIN s = 1 .. Len(s)
  BY LenProperties
<1>2. \A i \in 1 .. Len(s) : s[i] \in S
  BY ElementOfSeq
<1>3. \A i \in 1 .. Len(s) : i \in Nat /\ 1 <= i /\ i <= Len(s)
  BY <1>1
<1> QED BY <1>1, <1>2, <1>3

\* The rows of the tables.
LEMMA RowTypes ==
  ASSUME TypeInv
  PROVE  /\ DOMAIN sessions = 1 .. Len(sessions) /\ Len(sessions) \in 1 .. MaxSession
         /\ \A s \in DOMAIN sessions : sessions[s] \in Session
                                       /\ s \in 1 .. MaxSession
         /\ DOMAIN tasks = 1 .. Len(tasks) /\ Len(tasks) \in 0 .. MaxTask
         /\ \A t \in DOMAIN tasks : tasks[t] \in TaskRow /\ t \in 1 .. MaxTask
         /\ DOMAIN slots = 1 .. Len(slots) /\ Len(slots) \in Nat
         /\ \A w \in DOMAIN slots : slots[w] \in Slot /\ w \in Nat \ {0}
         /\ DOMAIN members = 1 .. Len(members) /\ Len(members) \in Nat
         /\ \A m \in DOMAIN members : members[m] \in Membership
         /\ DOMAIN ops = 1 .. Len(ops) /\ Len(ops) \in 0 .. MaxOp
         /\ \A o \in DOMAIN ops : ops[o] \in Transfer /\ o \in Ops
<1>1. /\ DOMAIN sessions = 1 .. Len(sessions) /\ Len(sessions) \in 1 .. MaxSession
      /\ \A s \in DOMAIN sessions : sessions[s] \in Session /\ s \in 1 .. MaxSession
  <2>1. sessions \in Seq(Session) /\ Len(sessions) \in 1 .. MaxSession
    BY DEF TypeInv
  <2> QED BY <2>1, Rows
<1>2. /\ DOMAIN tasks = 1 .. Len(tasks) /\ Len(tasks) \in 0 .. MaxTask
      /\ \A t \in DOMAIN tasks : tasks[t] \in TaskRow /\ t \in 1 .. MaxTask
  <2>1. tasks \in Seq(TaskRow) /\ Len(tasks) <= MaxTask
    BY DEF TypeInv
  <2> QED BY <2>1, Rows
<1>3. /\ DOMAIN slots = 1 .. Len(slots) /\ Len(slots) \in Nat
      /\ \A w \in DOMAIN slots : slots[w] \in Slot /\ w \in Nat \ {0}
  <2>1. slots \in Seq(Slot)
    BY DEF TypeInv
  <2> QED BY <2>1, Rows
<1>4. /\ DOMAIN members = 1 .. Len(members) /\ Len(members) \in Nat
      /\ \A m \in DOMAIN members : members[m] \in Membership
  <2>1. members \in Seq(Membership)
    BY DEF TypeInv
  <2> QED BY <2>1, Rows
<1>5. /\ DOMAIN ops = 1 .. Len(ops) /\ Len(ops) \in 0 .. MaxOp
      /\ \A o \in DOMAIN ops : ops[o] \in Transfer /\ o \in Ops
  <2>1. ops \in Seq(Transfer) /\ Len(ops) <= MaxOp
    BY DEF TypeInv
  <2> QED BY <2>1, Rows DEF Ops
<1> QED BY <1>1, <1>2, <1>3, <1>4, <1>5

\* The active session is the newest, or there is none (Active).
LEMMA ActiveSession ==
  ASSUME TypeInv, NewestIsActive
  PROVE  /\ Active \in 0 .. Len(sessions) /\ Active \in 0 .. MaxSession
         /\ Active # 0 => IsActive(Active) /\ Active = Len(sessions)
         /\ \A s : IsActive(s) => s = Active
<1>1. \A s : IsActive(s) => s = Len(sessions) /\ s \in 1 .. Len(sessions)
  BY RowTypes DEF IsActive, NewestIsActive
<1>2. CASE \E s \in DOMAIN sessions : IsActive(s)
  <2>1. IsActive(Active)
    BY <1>2 DEF Active
  <2> QED BY <1>1, <2>1, RowTypes
<1>3. CASE ~ \E s \in DOMAIN sessions : IsActive(s)
  <2>1. Active = 0
    BY <1>3 DEF Active
  <2>2. \A s : ~IsActive(s)
    BY <1>3 DEF IsActive
  <2> QED BY <2>1, <2>2, RowTypes
<1> QED BY <1>2, <1>3

\* Sessions become history and stay it, and keep what they were about.
SessionsStay ==
  /\ DOMAIN sessions \subseteq DOMAIN sessions'
  /\ \A s \in DOMAIN sessions :
       /\ sessions'[s].harness = sessions[s].harness
       /\ sessions'[s].turns = sessions[s].turns
       /\ sessions[s].state = "ARCHIVED" => sessions'[s].state = "ARCHIVED"

\* A session is archived (Archived).
LEMMA ArchivedSession ==
  ASSUME TypeInv, NEW s
  PROVE  /\ Archived(s) \in Seq(Session) /\ Len(Archived(s)) = Len(sessions)
         /\ DOMAIN Archived(s) = DOMAIN sessions
         /\ \A t \in DOMAIN sessions :
              /\ Archived(s)[t].harness = sessions[t].harness
              /\ Archived(s)[t].turns = sessions[t].turns
              /\ Archived(s)[t].state = IF t = s THEN "ARCHIVED" ELSE sessions[t].state
<1>1. ASSUME NEW t \in DOMAIN sessions
      PROVE  /\ Archived(s)[t] \in Session
             /\ Archived(s)[t].harness = sessions[t].harness
             /\ Archived(s)[t].turns = sessions[t].turns
             /\ Archived(s)[t].state = IF t = s THEN "ARCHIVED" ELSE sessions[t].state
  <2>1. sessions[t] \in Session
    BY RowTypes
  <2>2. Archived(s)[t] = IF t = s THEN [sessions[t] EXCEPT !.state = "ARCHIVED"]
                         ELSE sessions[t]
    BY DEF Archived
  <2> QED BY <2>1, <2>2 DEF Session
<1>2. Archived(s) \in [DOMAIN sessions -> Session]
  <2>1. DOMAIN Archived(s) = DOMAIN sessions
    BY DEF Archived
  <2>2. Archived(s) = [t \in DOMAIN sessions |-> Archived(s)[t]]
    BY DEF Archived
  <2> QED BY <1>1, <2>1, <2>2
<1>3. sessions \in Seq(Session)
  BY DEF TypeInv
<1> QED BY <1>1, <1>2, <1>3, RowsMapped

\* A session that takes the place of the active one is the only active one.
LEMMA SessionSucceeds ==
  ASSUME TypeInv, NewestIsActive, NEW h \in Harness,
         NEW ref \in {"none", "saved", "inherited"}, Len(sessions) < MaxSession,
         sessions' = Append(Archived(Active), NewSession(h, ref))
  PROVE  /\ sessions' \in Seq(Session) /\ Len(sessions') = Len(sessions) + 1
         /\ Len(sessions') \in 1 .. MaxSession
         /\ SessionsStay /\ NewestIsActive'
         /\ \A s \in DOMAIN sessions : sessions'[s].state = "ARCHIVED"
         /\ Len(sessions) + 1 \in DOMAIN sessions'
         /\ sessions'[Len(sessions) + 1] = NewSession(h, ref)
<1>1. NewSession(h, ref) \in Session /\ NewSession(h, ref).state = "ACTIVE"
  BY DEF NewSession, Session
<1>2. /\ Archived(Active) \in Seq(Session) /\ Len(Archived(Active)) = Len(sessions)
      /\ DOMAIN Archived(Active) = DOMAIN sessions
      /\ \A t \in DOMAIN sessions :
           /\ Archived(Active)[t].harness = sessions[t].harness
           /\ Archived(Active)[t].turns = sessions[t].turns
           /\ Archived(Active)[t].state = IF t = Active THEN "ARCHIVED"
                                          ELSE sessions[t].state
  BY ArchivedSession
<1>3. \A t \in DOMAIN sessions : Archived(Active)[t].state = "ARCHIVED"
  <2>1. \A t \in DOMAIN sessions : t # Active => sessions[t].state # "ACTIVE"
    BY ActiveSession DEF IsActive
  <2>2. \A t \in DOMAIN sessions : sessions[t].state \in {"ACTIVE", "ARCHIVED"}
    BY RowTypes DEF Session
  <2> QED BY <1>2, <2>1, <2>2
<1>4. Len(sessions) \in 1 .. MaxSession /\ Len(sessions) + 1 \in 1 .. MaxSession
  BY RowTypes
<1>5. /\ sessions' \in Seq(Session) /\ Len(sessions') = Len(sessions) + 1
      /\ DOMAIN sessions' = 1 .. Len(sessions) + 1
      /\ sessions'[Len(sessions) + 1] = NewSession(h, ref)
      /\ \A t \in DOMAIN sessions : sessions'[t] = Archived(Active)[t]
                                    /\ t \in DOMAIN sessions'
                                    /\ t # Len(sessions) + 1
  BY <1>1, <1>2, RowAdded
<1>6. Len(sessions) + 1 \in DOMAIN sessions'
  BY <1>4, <1>5
<1>7. SessionsStay
  BY <1>2, <1>3, <1>5 DEF SessionsStay
<1>8. NewestIsActive'
  <2>1. \A t \in DOMAIN sessions' : t \in DOMAIN sessions \/ t = Len(sessions) + 1
    BY <1>4, <1>5, RowTypes
  <2> QED BY <1>3, <1>5, <2>1 DEF NewestIsActive
<1> QED BY <1>3, <1>4, <1>5, <1>6, <1>7, <1>8

-----------------------------------------------------------------------------
(* Frames: what keeps the invariants of the role and of transfers.           *)

\* A step that leaves sessions, slots and the binding alone keeps the role as it
\* is, if it starts nothing and pauses the role only when nothing runs.
LEMMA RoleStays ==
  ASSUME RoleInv, UNCHANGED <<sessions, slots, run, activation, binding>>,
         DOMAIN tasks \subseteq DOMAIN tasks', Paused' => run = NoRun
  PROVE  RoleInv'
<1>1. ManagedSlotIsOne' /\ NewestIsActive'
  BY DEF RoleInv, ManagedSlotIsOne, NewestIsActive
<1>2. PausedIsQuiet'
  BY DEF PausedIsQuiet, NoRun
<1>3. RunFits'
  BY DEF RoleInv, RunFits
<1> QED BY <1>1, <1>2, <1>3 DEF RoleInv

\* An operation that is left alone fits as before, as long as sessions stay.
LEMMA OpStays ==
  ASSUME SessionsStay, NEW p, NEW w, NEW e, OpFits(p, w, e)
  PROVE  /\ p.from \in DOMAIN sessions'
         /\ sessions'[p.from].harness = sessions[p.from].harness
         /\ sessions'[p.from].turns = sessions[p.from].turns
         /\ sessions[p.from].state = "ARCHIVED" => sessions'[p.from].state = "ARCHIVED"
BY DEF SessionsStay, OpFits

\* An operation whose row, job and seed are left alone.
LEMMA FitStays ==
  ASSUME SessionsStay, NEW o, OpFits(ops[o], job[o], seed[o]),
         ops'[o] = ops[o], job'[o] = job[o], seed'[o] = seed[o]
  PROVE  OpFits(ops[o], job[o], seed[o])'
<1>1. /\ ops[o].from \in DOMAIN sessions'
      /\ sessions'[ops[o].from].harness = sessions[ops[o].from].harness
      /\ sessions'[ops[o].from].turns = sessions[ops[o].from].turns
      /\ sessions[ops[o].from].state = "ARCHIVED" =>
           sessions'[ops[o].from].state = "ARCHIVED"
  BY OpStays
<1> QED BY <1>1 DEF OpFits

\* Transfers that a step leaves alone.
LEMMA TransfersStay ==
  ASSUME TransferInv, SessionsStay, UNCHANGED <<ops, job, seed>>
  PROVE  TransferInv'
<1>1. ASSUME NEW o \in Ops, o \in DOMAIN ops
      PROVE  OpFits(ops[o], job[o], seed[o])'
  <2>1. OpFits(ops[o], job[o], seed[o])
    BY <1>1 DEF TransferInv
  <2>2. ops'[o] = ops[o] /\ job'[o] = job[o] /\ seed'[o] = seed[o]
    OBVIOUS
  <2> QED BY <2>1, <2>2, FitStays
<1>2. ASSUME NEW o \in Ops, o \notin DOMAIN ops
      PROVE  job'[o] = "idle" /\ ~seed'[o].flying /\ seed'[o].taken = 0
  BY <1>2 DEF TransferInv
<1> QED BY <1>1, <1>2 DEF TransferInv

\* Sessions that a step leaves alone stay.
LEMMA SessionsUnchanged ==
  ASSUME sessions' = sessions
  PROVE  SessionsStay
BY DEF SessionsStay

\* The types of tables a step leaves alone.
LEMMA TypesKept ==
  ASSUME TypeInv, UNCHANGED <<sessions, slots, members, ops, job, seed, core>>,
         binding' \in [harness : Harness, epoch : Nat],
         boot' \in {"PENDING", "DELIVERING", "DELIVERED", "FAILED", "UNKNOWN"},
         activation' \in [session : 0 .. MaxSession, epoch : Nat],
         tasks' \in Seq(TaskRow), Len(tasks') <= MaxTask,
         run' \in [task : 0 .. MaxTask, session : 0 .. MaxSession, epoch : Nat,
                   live : BOOLEAN],
         troubles' \in 0 .. MaxTrouble, crashes' \in 0 .. MaxCrash
  PROVE  TypeInv'
BY DEF TypeInv

-----------------------------------------------------------------------------
(* Steps of the engine.                                                      *)

\* The row, the job and the seed of one operation are changed, and nothing else.
Moves(o, p, w, e) ==
  /\ ops' = [ops EXCEPT ![o] = p]
  /\ job' = [job EXCEPT ![o] = w]
  /\ seed' = [seed EXCEPT ![o] = e]
  /\ UNCHANGED <<roleVars, joinVars, sessions, core, crashes>>

Inv == TypeInv /\ RoleInv /\ TransferInv

\* A step of one operation keeps the invariant if the operation still fits and
\* what was over is not taken up again.
LEMMA MoveKeeps ==
  ASSUME Inv, NEW o \in DOMAIN ops, NEW p \in Transfer, NEW w \in Jobs, NEW e \in Seed,
         Moves(o, p, w, e), OpFits(p, w, e), troubles' \in 0 .. MaxTrouble,
         p.state \in Unsettled => ops[o].state \in Unsettled
  PROVE  Inv'
<1> USE DEF Inv
<1>1. o \in Ops
  BY RowTypes
<1>2. /\ ops' \in Seq(Transfer) /\ Len(ops') = Len(ops) /\ DOMAIN ops' = DOMAIN ops
      /\ ops'[o] = p /\ \A q \in DOMAIN ops : q # o => ops'[q] = ops[q]
  <2>1. ops \in Seq(Transfer)
    BY DEF TypeInv
  <2> QED BY <2>1, RowReplaced DEF Moves
<1>3. /\ job \in [Ops -> Jobs] /\ seed \in [Ops -> Seed]
  BY DEF TypeInv
<1>4. /\ job' \in [Ops -> Jobs] /\ job'[o] = w
      /\ \A q \in Ops : q # o => job'[q] = job[q]
  BY <1>1, <1>3 DEF Moves
<1>5. /\ seed' \in [Ops -> Seed] /\ seed'[o] = e
      /\ \A q \in Ops : q # o => seed'[q] = seed[q]
  BY <1>1, <1>3 DEF Moves
<1>6. TypeInv'
  <2>1. Len(ops') <= MaxOp
    BY <1>2 DEF TypeInv
  <2> QED BY <1>2, <1>4, <1>5, <2>1 DEF TypeInv, Moves
<1>7. RoleInv'
  <2>1. Paused' => Paused
    BY <1>2 DEF Paused
  <2>2. Paused' => run = NoRun
    BY <2>1 DEF RoleInv, PausedIsQuiet
  <2> QED BY <2>2, RoleStays DEF Moves
<1>8. SessionsStay
  BY SessionsUnchanged DEF Moves
<1>9. ASSUME NEW q \in Ops, q \in DOMAIN ops'
      PROVE  OpFits(ops[q], job[q], seed[q])'
  <2>1. CASE q = o
    <3>1. sessions' = sessions
      BY DEF Moves
    <3> QED BY <1>2, <1>4, <1>5, <2>1, <3>1 DEF OpFits
  <2>2. CASE q # o
    <3>1. OpFits(ops[q], job[q], seed[q])
      BY <1>2, <1>9 DEF TransferInv
    <3>2. ops'[q] = ops[q] /\ job'[q] = job[q] /\ seed'[q] = seed[q]
      BY <1>2, <1>4, <1>5, <1>9, <2>2
    <3> QED BY <1>8, <3>1, <3>2, FitStays
  <2> QED BY <2>1, <2>2
<1>10. ASSUME NEW q \in Ops, q \notin DOMAIN ops'
       PROVE  job'[q] = "idle" /\ ~seed'[q].flying /\ seed'[q].taken = 0
  <2>1. q # o /\ q \notin DOMAIN ops
    BY <1>2, <1>10
  <2> QED BY <1>4, <1>5, <2>1 DEF TransferInv
<1>11. TransferInv'
  BY <1>9, <1>10 DEF TransferInv
<1> QED BY <1>6, <1>7, <1>11

\* A job that does its next step belongs to an operation that is not settled.
LEMMA DoingFits ==
  ASSUME Inv, NEW o \in Ops, NEW what \in Jobs \ {"idle"}, Doing(o, what)
  PROVE  /\ o \in DOMAIN ops /\ job[o] = what /\ ops[o] \in Transfer
         /\ seed[o] \in Seed /\ OpFits(ops[o], what, seed[o])
         /\ ops[o].state \in Unsettled
         /\ troubles \in 0 .. MaxTrouble
         /\ ops[o].from \in DOMAIN sessions
         /\ sessions[ops[o].from] \in Session
<1>1. o \in DOMAIN ops /\ job[o] = what
  BY DEF Doing
<1>2. ops[o] \in Transfer
  BY <1>1, RowTypes DEF Inv
<1>3. OpFits(ops[o], what, seed[o])
  BY <1>1 DEF Inv, TransferInv
<1>4. ops[o].state \in Unsettled /\ ops[o].from \in DOMAIN sessions
  BY <1>3 DEF OpFits
<1>5. seed[o] \in Seed /\ troubles \in 0 .. MaxTrouble
  BY DEF Inv, TypeInv
<1>6. sessions[ops[o].from] \in Session
  BY <1>4, RowTypes DEF Inv
<1> QED BY <1>1, <1>2, <1>3, <1>4, <1>5, <1>6

\* What is left of an operation that is over (Over).
LEMMA OverRecord ==
  ASSUME NEW p \in Transfer, NEW state \in OpStates
  PROVE  /\ Over(p, state) \in Transfer
         /\ Over(p, state).from = p.from /\ Over(p, state).to = p.to
         /\ Over(p, state).seen = p.seen /\ Over(p, state).state = state
         /\ Over(p, state).target = FALSE /\ Over(p, state).sent = FALSE
<1> DEFINE q == [p EXCEPT !.state = state, !.target = FALSE, !.sent = FALSE]
           r == [q EXCEPT !.confirmed = FALSE, !.attempts = 0]
           s == [r EXCEPT !.retries = 0, !.error = "none"]
<1>1. q \in Transfer /\ q.from = p.from /\ q.to = p.to /\ q.seen = p.seen
      /\ q.state = state /\ q.target = FALSE /\ q.sent = FALSE
  BY DEF Transfer
<1>2. r \in Transfer /\ r.from = q.from /\ r.to = q.to /\ r.seen = q.seen
      /\ r.state = q.state /\ r.target = q.target /\ r.sent = q.sent
  <2> HIDE DEF q
  <2> QED BY <1>1 DEF Transfer
<1>3. s \in Transfer /\ s.from = r.from /\ s.to = r.to /\ s.seen = r.seen
      /\ s.state = r.state /\ s.target = r.target /\ s.sent = r.sent
  <2>1. 0 \in 0 .. MaxRetry
    OBVIOUS
  <2> HIDE DEF r
  <2> QED BY <1>2, <2>1 DEF Transfer
<1>4. Over(p, state) = s
  BY DEF Over, Transfer
<1> QED BY <1>1, <1>2, <1>3, <1>4

\* An operation that failed fits, and asks nothing of the session it was for.
LEMMA FailKeeps ==
  ASSUME Inv, NEW o \in DOMAIN ops, Fail(o), NEW e \in Seed, seed' = [seed EXCEPT ![o] = e],
         e.taken <= 1, e.flying => e.taken = 0,
         UNCHANGED <<roleVars, joinVars, sessions, core, crashes>>,
         troubles' \in 0 .. MaxTrouble
  PROVE  Inv'
<1> DEFINE p == Over(ops[o], "FAILED")
<1>1. ops[o] \in Transfer /\ o \in Ops
  BY RowTypes DEF Inv
<1>2. p \in Transfer /\ p.from = ops[o].from /\ p.state = "FAILED" /\ p.target = FALSE
      /\ p.sent = FALSE
  BY <1>1, OverRecord DEF OpStates
<1>3. p.from \in DOMAIN sessions /\ p.from < MaxSession
  BY <1>1, <1>2 DEF Inv, TransferInv, OpFits
<1>4. OpFits(p, "idle", e)
  BY <1>2, <1>3 DEF OpFits, Unsettled
<1>5. Moves(o, p, "idle", e)
  BY DEF Fail, Moves, Then
<1>6. p.state \notin Unsettled
  BY <1>2 DEF Unsettled
<1>7. "idle" \in Jobs
  BY DEF Jobs
<1> QED BY <1>2, <1>4, <1>5, <1>6, <1>7, MoveKeeps

\* A retry or its end changes nothing that an operation is judged by.
LEMMA RetryKeeps ==
  ASSUME Inv, NEW o \in DOMAIN ops, NEW p \in Transfer, NEW w \in Jobs,
         p.state \in Unsettled, OpFits(p, w, seed[o]), Retry(o, p), seed' = seed,
         ops[o].state \in Unsettled,
         UNCHANGED <<roleVars, joinVars, sessions, core, crashes>>,
         troubles' \in 0 .. MaxTrouble
  PROVE  Inv'
<1>1. o \in Ops /\ seed[o] \in Seed /\ seed' = [seed EXCEPT ![o] = seed[o]]
  BY RowTypes DEF Inv, TypeInv
<1>2. CASE p.retries < MaxRetry
  <2> DEFINE q == [p EXCEPT !.retries = @ + 1]
  <2>0. \A r \in 0 .. MaxRetry : r < MaxRetry => r + 1 \in 0 .. MaxRetry
    OBVIOUS
  <2>1. q \in Transfer
    <3>1. p.retries + 1 \in 0 .. MaxRetry
      BY <1>2, <2>0 DEF Transfer
    <3> QED BY <3>1 DEF Transfer
  <2>2. OpFits(q, "timer", seed[o])
    BY DEF OpFits, Transfer
  <2>3. Moves(o, q, "timer", seed[o])
    <3>1. ops' = [ops EXCEPT ![o] = q] /\ job' = [job EXCEPT ![o] = "timer"]
      BY <1>2 DEF Retry, Then
    <3> QED BY <1>1, <3>1 DEF Moves
  <2>4. "timer" \in Jobs
    BY DEF Jobs
  <2> HIDE DEF q
  <2> QED BY <1>1, <2>1, <2>2, <2>3, <2>4, MoveKeeps
<1>3. CASE ~(p.retries < MaxRetry)
  <2> DEFINE q == [p EXCEPT !.error = "unresolved"]
  <2>1. q \in Transfer
    BY DEF Transfer
  <2>2. OpFits(q, "idle", seed[o])
    BY DEF OpFits, Transfer
  <2>3. Moves(o, q, "idle", seed[o])
    <3>1. ops' = [ops EXCEPT ![o] = q] /\ job' = [job EXCEPT ![o] = "idle"]
      BY <1>3 DEF Retry, Then
    <3> QED BY <1>1, <3>1 DEF Moves
  <2>4. "idle" \in Jobs
    BY DEF Jobs
  <2> HIDE DEF q
  <2> QED BY <1>1, <2>1, <2>2, <2>3, <2>4, MoveKeeps
<1> QED BY <1>2, <1>3

\* An operation whose target may have been fed is only settled.
LEMMA SeededKeeps ==
  ASSUME Inv, NEW o \in DOMAIN ops, NEW p \in Transfer, NEW w \in Jobs, NEW e \in Seed,
         p.state \in Unsettled, OpFits(p, w, e), Seeded(o, p),
         p.seen = sessions[p.from].turns,
         seed' = [seed EXCEPT ![o] = e], ops[o].state \in Unsettled,
         UNCHANGED <<roleVars, joinVars, sessions, core, crashes>>,
         troubles' \in 0 .. MaxTrouble
  PROVE  Inv'
<1> DEFINE q == [p EXCEPT !.state = "SEEDED"]
<1>1. q \in Transfer
  BY DEF Transfer, OpStates
<1>2. OpFits(q, "settling", e)
  BY DEF OpFits, Transfer, Unsettled
<1>3. Moves(o, q, "settling", e)
  BY DEF Seeded, Moves, Then
<1>4. "settling" \in Jobs
  BY DEF Jobs
<1> HIDE DEF q
<1> QED BY <1>1, <1>2, <1>3, <1>4, MoveKeeps

\* A job goes on to another step of the same operation.
LEMMA ThenKeeps ==
  ASSUME Inv, NEW o \in DOMAIN ops, NEW w \in Jobs, Then(o, w), ops' = ops, seed' = seed,
         OpFits(ops[o], w, seed[o]),
         UNCHANGED <<roleVars, joinVars, sessions, core, crashes>>,
         troubles' \in 0 .. MaxTrouble
  PROVE  Inv'
<1>1. ops[o] \in Transfer /\ o \in Ops
  BY RowTypes DEF Inv
<1>2. seed[o] \in Seed /\ seed' = [seed EXCEPT ![o] = seed[o]]
  BY <1>1 DEF Inv, TypeInv
<1>3. ops' = [ops EXCEPT ![o] = ops[o]]
  <2>1. ops \in Seq(Transfer)
    BY DEF Inv, TypeInv
  <2> QED BY <2>1
<1>4. Moves(o, ops[o], w, seed[o])
  BY <1>2, <1>3 DEF Moves, Then
<1> QED BY <1>1, <1>2, <1>4, MoveKeeps

\* Begins: what is known of the operation decides where its job starts.
LEMMA BeginsKeeps ==
  ASSUME Inv, NEW o \in Ops, Begins(o)
  PROVE  Inv'
<1> DEFINE p == ops[o]
<1>0. Doing(o, "queued") /\ "queued" \in Jobs \ {"idle"}
  BY DEF Begins, Jobs
<1>1. /\ o \in DOMAIN ops /\ p \in Transfer /\ seed[o] \in Seed
      /\ OpFits(p, "queued", seed[o]) /\ p.state \in Unsettled
      /\ troubles \in 0 .. MaxTrouble
  BY <1>0, DoingFits
<1>2. /\ UNCHANGED <<roleVars, joinVars, sessions, core, crashes>>
      /\ seed' = seed /\ troubles' \in 0 .. MaxTrouble
      /\ seed' = [seed EXCEPT ![o] = seed[o]]
  <2>1. seed \in [Ops -> Seed]
    BY DEF Inv, TypeInv
  <2> QED BY <1>1, <2>1 DEF Begins
<1>3. seed[o].taken <= 1 /\ (seed[o].flying => seed[o].taken = 0)
  BY <1>1 DEF OpFits
<1>4. CASE p.state = "SEEDED" /\ Then(o, "settling") /\ ops' = ops
  <2>1. OpFits(p, "settling", seed[o])
    BY <1>1, <1>4 DEF OpFits
  <2> QED BY <1>1, <1>2, <1>4, <2>1, ThenKeeps DEF Jobs
<1>5. CASE Fail(o)
  BY <1>1, <1>2, <1>3, <1>5, FailKeeps
<1>6. CASE Fork(o) /\ p.state \in {"PREPARING", "EXPORTED"} /\ Then(o, "forking") /\ ops' = ops
  <2>1. OpFits(p, "forking", seed[o])
    BY <1>1, <1>6 DEF OpFits, Fork
  <2> QED BY <1>1, <1>2, <1>6, <2>1, ThenKeeps DEF Jobs
<1>7. CASE p.state = "EXPORTED" /\ p.target /\ p.sent /\ Seeded(o, p)
  <2>1. p.seen = sessions[p.from].turns
    BY <1>1, <1>7 DEF OpFits
  <2> QED BY <1>0, <1>1, <1>2, <1>7, <2>1, SeededKeeps
<1>8. CASE /\ ~Fork(o) /\ p.state \in {"PREPARING", "EXPORTED"}
           /\ ~(p.state = "EXPORTED" /\ p.target /\ p.sent)
           /\ Then(o, "exporting") /\ ops' = ops
  <2>1. ~p.sent
    BY <1>1, <1>8 DEF OpFits
  <2>2. OpFits(p, "exporting", seed[o])
    BY <1>1, <1>8, <2>1 DEF OpFits, Fork
  <2> QED BY <1>1, <1>2, <1>8, <2>2, ThenKeeps DEF Jobs
<1> QED BY <1>4, <1>5, <1>6, <1>7, <1>8 DEF Begins

\* Forks: the child is recorded with what the parent knew when it was made.
LEMMA ForksKeeps ==
  ASSUME Inv, NEW o \in Ops, Forks(o)
  PROVE  Inv'
<1> DEFINE p == ops[o]
<1>0. Doing(o, "forking") /\ "forking" \in Jobs \ {"idle"}
  BY DEF Forks, Jobs
<1>1. /\ o \in DOMAIN ops /\ p \in Transfer /\ seed[o] \in Seed
      /\ OpFits(p, "forking", seed[o]) /\ p.state \in Unsettled
      /\ troubles \in 0 .. MaxTrouble /\ sessions[p.from] \in Session
  BY <1>0, DoingFits
<1>2. /\ UNCHANGED <<roleVars, joinVars, sessions, core, crashes>>
      /\ seed = [seed EXCEPT ![o] = seed[o]]
  <2>1. seed \in [Ops -> Seed]
    BY DEF Inv, TypeInv
  <2> QED BY <1>1, <2>1 DEF Forks
<1>3. seed[o].taken <= 1 /\ (seed[o].flying => seed[o].taken = 0)
  BY <1>1 DEF OpFits
<1>4. \A n \in 0 .. MaxTrouble : n < MaxTrouble => n + 1 \in 0 .. MaxTrouble
  OBVIOUS
<1>5. CASE p.target /\ Then(o, "verifying") /\ UNCHANGED <<ops, seed, troubles>>
  <2>1. OpFits(p, "verifying", seed[o])
    BY <1>1, <1>5 DEF OpFits
  <2> QED BY <1>1, <1>2, <1>5, <2>1, ThenKeeps DEF Jobs
<1>6. ASSUME ~p.target,
             ops' = [ops EXCEPT ![o].target = TRUE, ![o].seen = sessions[p.from].turns],
             Then(o, "verifying"), troubles' \in 0 .. MaxTrouble,
             NEW e \in Seed, seed' = [seed EXCEPT ![o] = e], e.taken <= 1, ~e.flying
      PROVE  Inv'
  <2> DEFINE q == [p EXCEPT !.target = TRUE, !.seen = sessions[p.from].turns]
  <2>1. q \in Transfer
    BY <1>1 DEF Transfer, Session
  <2>2. OpFits(q, "verifying", e)
    BY <1>1, <1>6 DEF OpFits, Transfer, Session
  <2>3. ops' = [ops EXCEPT ![o] = q]
    BY <1>1, <1>6
  <2>4. Moves(o, q, "verifying", e)
    BY <1>2, <1>6, <2>3 DEF Moves, Then
  <2>5. "verifying" \in Jobs
    BY DEF Jobs
  <2> HIDE DEF q
  <2> QED BY <1>1, <1>6, <2>1, <2>2, <2>4, <2>5, MoveKeeps
<1>7. CASE /\ ~p.target
           /\ ops' = [ops EXCEPT ![o].target = TRUE, ![o].seen = sessions[p.from].turns]
           /\ Then(o, "verifying")
           /\ \/ seed' = [seed EXCEPT ![o].taken = @ + 1] /\ troubles' = troubles
              \/ seed' = seed /\ Trouble
  <2>1. ~seed[o].flying /\ seed[o].taken = 0
    BY <1>1, <1>7 DEF OpFits
  <2>2. CASE seed' = [seed EXCEPT ![o].taken = @ + 1] /\ troubles' = troubles
    <3> DEFINE e == [seed[o] EXCEPT !.taken = @ + 1]
    <3>1. e \in Seed /\ e.taken <= 1 /\ ~e.flying
      BY <1>1, <2>1 DEF Seed
    <3>2. seed' = [seed EXCEPT ![o] = e]
      BY <2>2
    <3>3. troubles' \in 0 .. MaxTrouble
      BY <1>1, <2>2
    <3> HIDE DEF e
    <3> QED BY <1>6, <1>7, <3>1, <3>2, <3>3
  <2>3. CASE seed' = seed /\ Trouble
    <3> DEFINE e == seed[o]
    <3>1. e \in Seed /\ e.taken <= 1 /\ ~e.flying
      BY <1>1, <2>1
    <3>2. seed' = [seed EXCEPT ![o] = e]
      BY <1>2, <2>3
    <3>3. troubles' \in 0 .. MaxTrouble
      BY <1>1, <1>4, <2>3 DEF Trouble
    <3> HIDE DEF e
    <3> QED BY <1>6, <1>7, <3>1, <3>2, <3>3
  <2> QED BY <1>7, <2>2, <2>3
<1>8. CASE /\ Trouble /\ seed' = seed
           /\ \/ Retry(o, p)
              \/ ops' = [ops EXCEPT ![o].error = "unresolved"] /\ Then(o, "idle")
              \/ Fail(o)
  <2>1. troubles' \in 0 .. MaxTrouble /\ seed' = [seed EXCEPT ![o] = seed[o]]
    BY <1>1, <1>2, <1>4, <1>8 DEF Trouble
  <2>2. CASE Retry(o, p)
    BY <1>0, <1>1, <1>2, <1>8, <2>1, <2>2, RetryKeeps
  <2>3. CASE ops' = [ops EXCEPT ![o].error = "unresolved"] /\ Then(o, "idle")
    <3> DEFINE q == [p EXCEPT !.error = "unresolved"]
    <3>1. q \in Transfer /\ OpFits(q, "idle", seed[o])
      BY <1>1 DEF Transfer, OpFits
    <3>2. Moves(o, q, "idle", seed[o])
      BY <1>2, <2>1, <2>3 DEF Moves, Then
    <3>3. "idle" \in Jobs
      BY DEF Jobs
    <3> HIDE DEF q
    <3> QED BY <1>1, <2>1, <3>1, <3>2, <3>3, MoveKeeps
  <2>4. CASE Fail(o)
    BY <1>1, <1>2, <1>3, <2>1, <2>4, FailKeeps
  <2> QED BY <1>8, <2>2, <2>3, <2>4
<1> QED BY <1>5, <1>7, <1>8 DEF Forks

\* Verifies: a child that is there holds what its parent knew when it was made.
LEMMA VerifiesKeeps ==
  ASSUME Inv, NEW o \in Ops, Verifies(o)
  PROVE  Inv'
<1> DEFINE p == ops[o]
<1>0. Doing(o, "verifying") /\ "verifying" \in Jobs \ {"idle"}
  BY DEF Verifies, Jobs
<1>1. /\ o \in DOMAIN ops /\ p \in Transfer /\ seed[o] \in Seed
      /\ OpFits(p, "verifying", seed[o]) /\ p.state \in Unsettled
      /\ troubles \in 0 .. MaxTrouble /\ sessions[p.from] \in Session
  BY <1>0, DoingFits
<1>2. /\ seed = [seed EXCEPT ![o] = seed[o]]
      /\ Trouble => troubles' \in 0 .. MaxTrouble
  <2>1. seed \in [Ops -> Seed]
    BY DEF Inv, TypeInv
  <2>2. \A n \in 0 .. MaxTrouble : n < MaxTrouble => n + 1 \in 0 .. MaxTrouble
    OBVIOUS
  <2> QED BY <1>1, <2>1, <2>2 DEF Trouble
<1>3. seed[o].taken <= 1 /\ (seed[o].flying => seed[o].taken = 0)
  BY <1>1 DEF OpFits
<1>4. UNCHANGED <<roleVars, joinVars, sessions, core, crashes>> /\ seed' = seed
  BY DEF Verifies
<1>5. p.seen = sessions[p.from].turns
  BY <1>1 DEF OpFits
<1>6. CASE /\ seed[o].taken > 0 /\ troubles' = troubles
           /\ Seeded(o, [p EXCEPT !.confirmed = TRUE, !.error = "none"])
  <2> DEFINE q == [p EXCEPT !.confirmed = TRUE, !.error = "none"]
  <2>1. q \in Transfer /\ q.state \in Unsettled /\ q.seen = sessions[q.from].turns
    BY <1>1, <1>5 DEF Transfer
  <2>2. OpFits(q, "verifying", seed[o])
    BY <1>1, <1>6 DEF OpFits, Transfer
  <2>3. Seeded(o, q)
    BY <1>6
  <2>4. "verifying" \in Jobs
    BY DEF Jobs
  <2> HIDE DEF q
  <2> QED BY <1>1, <1>2, <1>4, <1>6, <2>1, <2>2, <2>3, <2>4, SeededKeeps
<1>7. CASE /\ Seeded(o, [p EXCEPT !.error = "ambiguous"])
           /\ Trouble \/ troubles' = troubles
  <2> DEFINE q == [p EXCEPT !.error = "ambiguous"]
  <2>1. q \in Transfer /\ q.state \in Unsettled /\ q.seen = sessions[q.from].turns
    BY <1>1, <1>5 DEF Transfer
  <2>2. OpFits(q, "verifying", seed[o])
    BY <1>1, <1>7 DEF OpFits, Transfer
  <2>3. Seeded(o, q)
    BY <1>7
  <2>4. "verifying" \in Jobs
    BY DEF Jobs
  <2> HIDE DEF q
  <2> QED BY <1>1, <1>2, <1>4, <1>7, <2>1, <2>2, <2>3, <2>4, SeededKeeps
<1> QED BY <1>6, <1>7 DEF Verifies

\* Exports: the source is read to its end.
LEMMA ExportsKeeps ==
  ASSUME Inv, NEW o \in Ops, Exports(o)
  PROVE  Inv'
<1> DEFINE p == ops[o]
<1>0. Doing(o, "exporting") /\ "exporting" \in Jobs \ {"idle"}
  BY DEF Exports, Jobs
<1>1. /\ o \in DOMAIN ops /\ p \in Transfer /\ seed[o] \in Seed
      /\ OpFits(p, "exporting", seed[o]) /\ p.state \in Unsettled
      /\ troubles \in 0 .. MaxTrouble /\ sessions[p.from] \in Session
  BY <1>0, DoingFits
<1>2. /\ seed = [seed EXCEPT ![o] = seed[o]]
      /\ Trouble => troubles' \in 0 .. MaxTrouble
  <2>1. seed \in [Ops -> Seed]
    BY DEF Inv, TypeInv
  <2>2. \A n \in 0 .. MaxTrouble : n < MaxTrouble => n + 1 \in 0 .. MaxTrouble
    OBVIOUS
  <2> QED BY <1>1, <2>1, <2>2 DEF Trouble
<1>3. seed[o].taken <= 1 /\ (seed[o].flying => seed[o].taken = 0)
  BY <1>1 DEF OpFits
<1>4. UNCHANGED <<roleVars, joinVars, sessions, core, crashes>> /\ seed' = seed
  BY DEF Exports
<1>5. CASE /\ ops' = [ops EXCEPT ![o].state = "EXPORTED", ![o].seen = sessions[p.from].turns]
           /\ Then(o, "sizing") /\ troubles' = troubles
  <2> DEFINE q == [p EXCEPT !.state = "EXPORTED", !.seen = sessions[p.from].turns]
  <2>1. q \in Transfer
    BY <1>1 DEF Transfer, OpStates, Session
  <2>2. OpFits(q, "sizing", seed[o])
    BY <1>1, <1>4, <1>5 DEF OpFits, Transfer, Unsettled, Session
  <2>3. ops' = [ops EXCEPT ![o] = q] /\ job' = [job EXCEPT ![o] = "sizing"]
    BY <1>4, <1>5 DEF Then
  <2>4. Moves(o, q, "sizing", seed[o]) /\ "sizing" \in Jobs
    BY <1>2, <1>4, <1>5, <2>3 DEF Moves, Jobs
  <2> HIDE DEF q
  <2> QED BY <1>1, <1>2, <1>4, <1>5, <2>1, <2>2, <2>4, MoveKeeps
<1>6. CASE Trouble /\ Fail(o)
  BY <1>1, <1>2, <1>3, <1>4, <1>6, FailKeeps
<1> QED BY <1>5, <1>6 DEF Exports

\* Sizes: the target may be there after it.
LEMMA SizesKeeps ==
  ASSUME Inv, NEW o \in Ops, Sizes(o)
  PROVE  Inv'
<1> DEFINE p == ops[o]
<1>0. Doing(o, "sizing") /\ "sizing" \in Jobs \ {"idle"}
  BY DEF Sizes, Jobs
<1>1. /\ o \in DOMAIN ops /\ p \in Transfer /\ seed[o] \in Seed
      /\ OpFits(p, "sizing", seed[o]) /\ p.state \in Unsettled
      /\ troubles \in 0 .. MaxTrouble /\ sessions[p.from] \in Session
  BY <1>0, DoingFits
<1>2. /\ seed = [seed EXCEPT ![o] = seed[o]]
      /\ Trouble => troubles' \in 0 .. MaxTrouble
  <2>1. seed \in [Ops -> Seed]
    BY DEF Inv, TypeInv
  <2>2. \A n \in 0 .. MaxTrouble : n < MaxTrouble => n + 1 \in 0 .. MaxTrouble
    OBVIOUS
  <2> QED BY <1>1, <2>1, <2>2 DEF Trouble
<1>3. seed[o].taken <= 1 /\ (seed[o].flying => seed[o].taken = 0)
  BY <1>1 DEF OpFits
<1>4. UNCHANGED <<roleVars, joinVars, sessions, core, crashes>> /\ seed' = seed /\ troubles' = troubles
  BY DEF Sizes
<1>5. ASSUME NEW target \in {p.target, TRUE}, ops' = [ops EXCEPT ![o].target = target],
             Then(o, "initialising")
      PROVE  Inv'
  <2>0. target \in BOOLEAN
    BY <1>1 DEF Transfer
  <2> DEFINE q == [p EXCEPT !.target = target]
  <2>1. q \in Transfer
    BY <1>1, <2>0 DEF Transfer, OpStates, Session
  <2>2. OpFits(q, "initialising", seed[o])
    BY <1>1, <1>4, <1>5, <2>0 DEF OpFits, Transfer, Unsettled
  <2>3. ops' = [ops EXCEPT ![o] = q] /\ job' = [job EXCEPT ![o] = "initialising"]
    BY <1>4, <1>5 DEF Then
  <2>4. Moves(o, q, "initialising", seed[o]) /\ "initialising" \in Jobs
    BY <1>2, <1>4, <1>5, <2>3 DEF Moves, Jobs
  <2> HIDE DEF q
  <2> QED BY <1>1, <1>2, <1>4, <1>5, <2>1, <2>2, <2>4, MoveKeeps
<1>6. CASE Fail(o)
  BY <1>1, <1>2, <1>3, <1>4, <1>6, FailKeeps
<1> QED BY <1>5, <1>6 DEF Sizes

\* InitialisesTarget: nothing was sent to the target yet.
LEMMA InitialisesTargetKeeps ==
  ASSUME Inv, NEW o \in Ops, InitialisesTarget(o)
  PROVE  Inv'
<1> DEFINE p == ops[o]
<1>0. Doing(o, "initialising") /\ "initialising" \in Jobs \ {"idle"}
  BY DEF InitialisesTarget, Jobs
<1>1. /\ o \in DOMAIN ops /\ p \in Transfer /\ seed[o] \in Seed
      /\ OpFits(p, "initialising", seed[o]) /\ p.state \in Unsettled
      /\ troubles \in 0 .. MaxTrouble /\ sessions[p.from] \in Session
  BY <1>0, DoingFits
<1>2. /\ seed = [seed EXCEPT ![o] = seed[o]]
      /\ Trouble => troubles' \in 0 .. MaxTrouble
  <2>1. seed \in [Ops -> Seed]
    BY DEF Inv, TypeInv
  <2>2. \A n \in 0 .. MaxTrouble : n < MaxTrouble => n + 1 \in 0 .. MaxTrouble
    OBVIOUS
  <2> QED BY <1>1, <2>1, <2>2 DEF Trouble
<1>3. seed[o].taken <= 1 /\ (seed[o].flying => seed[o].taken = 0)
  BY <1>1 DEF OpFits
<1>4. UNCHANGED <<roleVars, joinVars, sessions, core, crashes>> /\ seed' = seed
  BY DEF InitialisesTarget
<1>5. p.seen = sessions[p.from].turns
  BY <1>1 DEF OpFits
<1>6. CASE ops' = [ops EXCEPT ![o].target = TRUE] /\ Then(o, "sending") /\ troubles' = troubles
  <2> DEFINE q == [p EXCEPT !.target = TRUE]
  <2>1. q \in Transfer
    BY <1>1 DEF Transfer, OpStates, Session
  <2>2. OpFits(q, "sending", seed[o])
    BY <1>1, <1>4, <1>6 DEF OpFits, Transfer, Unsettled
  <2>3. ops' = [ops EXCEPT ![o] = q] /\ job' = [job EXCEPT ![o] = "sending"]
    BY <1>4, <1>6 DEF Then
  <2>4. Moves(o, q, "sending", seed[o]) /\ "sending" \in Jobs
    BY <1>2, <1>4, <1>6, <2>3 DEF Moves, Jobs
  <2> HIDE DEF q
  <2> QED BY <1>1, <1>2, <1>4, <1>6, <2>1, <2>2, <2>4, MoveKeeps
<1>7. CASE /\ p.target /\ seed[o].taken > 0 /\ troubles' = troubles
           /\ Seeded(o, [p EXCEPT !.confirmed = TRUE, !.error = "none"])
  <2> DEFINE q == [p EXCEPT !.confirmed = TRUE, !.error = "none"]
  <2>1. q \in Transfer /\ q.state \in Unsettled /\ q.seen = sessions[q.from].turns
    BY <1>1, <1>5 DEF Transfer
  <2>2. OpFits(q, "initialising", seed[o])
    BY <1>1, <1>7 DEF OpFits, Transfer
  <2>3. Seeded(o, q)
    BY <1>7
  <2>4. "initialising" \in Jobs
    BY DEF Jobs
  <2> HIDE DEF q
  <2> QED BY <1>1, <1>2, <1>4, <1>7, <2>1, <2>2, <2>3, <2>4, SeededKeeps
<1>8. CASE Trouble /\ Seeded(o, [p EXCEPT !.error = "ambiguous"])
  <2> DEFINE q == [p EXCEPT !.error = "ambiguous"]
  <2>1. q \in Transfer /\ q.state \in Unsettled /\ q.seen = sessions[q.from].turns
    BY <1>1, <1>5 DEF Transfer
  <2>2. OpFits(q, "initialising", seed[o])
    BY <1>1, <1>8 DEF OpFits, Transfer
  <2>3. Seeded(o, q)
    BY <1>8
  <2>4. "initialising" \in Jobs
    BY DEF Jobs
  <2> HIDE DEF q
  <2> QED BY <1>1, <1>2, <1>4, <1>8, <2>1, <2>2, <2>3, <2>4, SeededKeeps
<1>9. CASE Trouble /\ Retry(o, p)
  BY <1>0, <1>1, <1>2, <1>4, <1>9, RetryKeeps
<1>10. CASE Trouble /\ Fail(o)
  BY <1>1, <1>2, <1>3, <1>4, <1>10, FailKeeps
<1> QED BY <1>6, <1>7, <1>8, <1>9, <1>10 DEF InitialisesTarget

\* Sends: what is sent was recorded, and nothing was taken in before.
LEMMA SendsKeeps ==
  ASSUME Inv, NEW o \in Ops, Sends(o)
  PROVE  Inv'
<1> DEFINE p == ops[o]
<1>0. Doing(o, "sending") /\ "sending" \in Jobs \ {"idle"}
  BY DEF Sends, Jobs
<1>1. /\ o \in DOMAIN ops /\ p \in Transfer /\ seed[o] \in Seed
      /\ OpFits(p, "sending", seed[o]) /\ p.state \in Unsettled
      /\ troubles \in 0 .. MaxTrouble /\ sessions[p.from] \in Session
  BY <1>0, DoingFits
<1>2. /\ seed = [seed EXCEPT ![o] = seed[o]]
      /\ Trouble => troubles' \in 0 .. MaxTrouble
  <2>1. seed \in [Ops -> Seed]
    BY DEF Inv, TypeInv
  <2>2. \A n \in 0 .. MaxTrouble : n < MaxTrouble => n + 1 \in 0 .. MaxTrouble
    OBVIOUS
  <2> QED BY <1>1, <2>1, <2>2 DEF Trouble
<1>3. seed[o].taken <= 1 /\ (seed[o].flying => seed[o].taken = 0)
  BY <1>1 DEF OpFits
<1>4. UNCHANGED <<roleVars, joinVars, sessions, core, crashes>> /\ troubles' = troubles
  BY DEF Sends
<1> DEFINE e == [seed[o] EXCEPT !.flying = TRUE]
<1>5. e \in Seed /\ e.flying /\ e.taken = 0
  BY <1>1 DEF Seed, OpFits
<1>6. seed' = [seed EXCEPT ![o] = e]
  BY DEF Sends
<1> HIDE DEF e
<1>7. CASE ops' = [ops EXCEPT ![o].sent = TRUE] /\ Then(o, "awaiting")
  <2> DEFINE q == [p EXCEPT !.sent = TRUE]
  <2>1. q \in Transfer
    BY <1>1 DEF Transfer, OpStates, Session
  <2>2. OpFits(q, "awaiting", e)
    BY <1>1, <1>4, <1>5, <1>7 DEF OpFits, Transfer, Unsettled
  <2>3. ops' = [ops EXCEPT ![o] = q] /\ job' = [job EXCEPT ![o] = "awaiting"]
    BY <1>7 DEF Then
  <2>4. Moves(o, q, "awaiting", e) /\ "awaiting" \in Jobs
    BY <1>6, <1>4, <1>5, <1>7, <2>3 DEF Moves, Jobs
  <2> HIDE DEF q
  <2> QED BY <1>1, <1>2, <1>4, <1>5, <1>7, <2>1, <2>2, <2>4, MoveKeeps
<1> QED BY <1>7 DEF Sends

\* Hears: what was taken in is confirmed, and anything else is uncertain.
LEMMA HearsKeeps ==
  ASSUME Inv, NEW o \in Ops, Hears(o)
  PROVE  Inv'
<1> DEFINE p == ops[o]
<1>0. Doing(o, "awaiting") /\ "awaiting" \in Jobs \ {"idle"}
  BY DEF Hears, Jobs
<1>1. /\ o \in DOMAIN ops /\ p \in Transfer /\ seed[o] \in Seed
      /\ OpFits(p, "awaiting", seed[o]) /\ p.state \in Unsettled
      /\ troubles \in 0 .. MaxTrouble /\ sessions[p.from] \in Session
  BY <1>0, DoingFits
<1>2. /\ seed = [seed EXCEPT ![o] = seed[o]]
      /\ Trouble => troubles' \in 0 .. MaxTrouble
  <2>1. seed \in [Ops -> Seed]
    BY DEF Inv, TypeInv
  <2>2. \A n \in 0 .. MaxTrouble : n < MaxTrouble => n + 1 \in 0 .. MaxTrouble
    OBVIOUS
  <2> QED BY <1>1, <2>1, <2>2 DEF Trouble
<1>3. seed[o].taken <= 1 /\ (seed[o].flying => seed[o].taken = 0)
  BY <1>1 DEF OpFits
<1>4. UNCHANGED <<roleVars, joinVars, sessions, core, crashes>>
  BY DEF Hears
<1>5. p.seen = sessions[p.from].turns
  BY <1>1 DEF OpFits
<1>6. CASE /\ seed[o].taken > 0 /\ troubles' = troubles /\ seed' = seed
           /\ Seeded(o, [p EXCEPT !.confirmed = TRUE, !.error = "none"])
  <2> DEFINE q == [p EXCEPT !.confirmed = TRUE, !.error = "none"]
  <2>1. q \in Transfer /\ q.state \in Unsettled /\ q.seen = sessions[q.from].turns
    BY <1>1, <1>5 DEF Transfer
  <2>2. OpFits(q, "awaiting", seed[o])
    BY <1>1, <1>6 DEF OpFits, Transfer
  <2>3. Seeded(o, q)
    BY <1>6
  <2>4. "awaiting" \in Jobs
    BY DEF Jobs
  <2> HIDE DEF q
  <2> QED BY <1>1, <1>2, <1>4, <1>6, <2>1, <2>2, <2>3, <2>4, SeededKeeps
<1>7. ASSUME Seeded(o, [p EXCEPT !.error = "ambiguous"]), Trouble, NEW e \in Seed,
             seed' = [seed EXCEPT ![o] = e], e.taken = seed[o].taken,
             e.flying => seed[o].flying
      PROVE  Inv'
  <2> DEFINE q == [p EXCEPT !.error = "ambiguous"]
  <2>1. q \in Transfer /\ q.state \in Unsettled /\ q.seen = sessions[q.from].turns
    BY <1>1, <1>5 DEF Transfer
  <2>2. OpFits(q, "awaiting", e)
    BY <1>1, <1>7 DEF OpFits, Transfer
  <2>3. Seeded(o, q)
    BY <1>7
  <2>4. "awaiting" \in Jobs
    BY DEF Jobs
  <2> HIDE DEF q
  <2> QED BY <1>1, <1>2, <1>4, <1>7, <2>1, <2>2, <2>3, <2>4, SeededKeeps
<1>8. CASE Seeded(o, [p EXCEPT !.error = "ambiguous"]) /\ Trouble /\ seed' = seed
  <2> DEFINE e == seed[o]
  <2>1. e \in Seed /\ seed' = [seed EXCEPT ![o] = e] /\ e.taken = seed[o].taken
        /\ (e.flying => seed[o].flying)
    BY <1>1, <1>2, <1>8
  <2> HIDE DEF e
  <2> QED BY <1>7, <1>8, <2>1
<1>9. CASE /\ Seeded(o, [p EXCEPT !.error = "ambiguous"]) /\ Trouble
           /\ seed' = [seed EXCEPT ![o].flying = FALSE]
  <2> DEFINE e == [seed[o] EXCEPT !.flying = FALSE]
  <2>1. e \in Seed /\ e.taken = seed[o].taken /\ ~e.flying
    BY <1>1 DEF Seed
  <2>2. seed' = [seed EXCEPT ![o] = e]
    BY <1>9
  <2> HIDE DEF e
  <2> QED BY <1>7, <1>9, <2>1, <2>2
<1> QED BY <1>6, <1>8, <1>9 DEF Hears

\* TimerFires: the job starts again from what was recorded.
LEMMA TimerFiresKeeps ==
  ASSUME Inv, NEW o \in Ops, TimerFires(o)
  PROVE  Inv'
<1> DEFINE p == ops[o]
<1>0. Doing(o, "timer") /\ "timer" \in Jobs \ {"idle"}
  BY DEF TimerFires, Jobs
<1>1. /\ o \in DOMAIN ops /\ p \in Transfer /\ seed[o] \in Seed
      /\ OpFits(p, "timer", seed[o]) /\ p.state \in Unsettled
      /\ troubles \in 0 .. MaxTrouble /\ sessions[p.from] \in Session
  BY <1>0, DoingFits
<1>2. /\ seed = [seed EXCEPT ![o] = seed[o]]
      /\ Trouble => troubles' \in 0 .. MaxTrouble
  <2>1. seed \in [Ops -> Seed]
    BY DEF Inv, TypeInv
  <2>2. \A n \in 0 .. MaxTrouble : n < MaxTrouble => n + 1 \in 0 .. MaxTrouble
    OBVIOUS
  <2> QED BY <1>1, <2>1, <2>2 DEF Trouble
<1>3. seed[o].taken <= 1 /\ (seed[o].flying => seed[o].taken = 0)
  BY <1>1 DEF OpFits
<1>4. UNCHANGED <<roleVars, joinVars, sessions, core, crashes>> /\ seed' = seed /\ troubles' = troubles
      /\ ops' = ops /\ Then(o, "queued")
  BY DEF TimerFires
<1>5. OpFits(p, "queued", seed[o])
  BY <1>1 DEF OpFits
<1> QED BY <1>1, <1>4, <1>5, ThenKeeps DEF Jobs

\* TakesIn: what is taken in was on its way, and only one seed ever is.
LEMMA TakesInKeeps ==
  ASSUME Inv, NEW o \in Ops, TakesIn(o)
  PROVE  Inv'
<1> DEFINE p == ops[o]
           w == job[o]
           e == [flying |-> FALSE, taken |-> seed[o].taken + 1]
<1>1. seed[o] \in Seed /\ seed[o].flying
  BY DEF Inv, TypeInv, TakesIn
<1>2. o \in DOMAIN ops
  BY <1>1 DEF Inv, TransferInv
<1>3. OpFits(p, w, seed[o])
  BY <1>2 DEF Inv, TransferInv
<1>4. seed[o].taken = 0
  BY <1>1, <1>3 DEF OpFits
<1>5. e \in Seed /\ e.taken = 1 /\ ~e.flying
  BY <1>1, <1>4 DEF Seed
<1>6. OpFits(p, w, e)
  <2>1. ASSUME p.state \in Unsettled
        PROVE  p.to # sessions[p.from].harness /\ p.sent
    BY <1>1, <1>3, <2>1 DEF OpFits
  <2> HIDE DEF e, w
  <2> QED BY <1>3, <1>5, <2>1 DEF OpFits
<1>7. p \in Transfer /\ w \in Jobs /\ troubles' \in 0 .. MaxTrouble
  BY <1>2, RowTypes DEF Inv, TypeInv, TakesIn
<1>8. Moves(o, p, w, e)
  <2>1. ops = [ops EXCEPT ![o] = p]
    <3>1. ops \in Seq(Transfer)
      BY DEF Inv, TypeInv
    <3> QED BY <3>1
  <2>2. job = [job EXCEPT ![o] = w]
    BY DEF Inv, TypeInv
  <2> QED BY <2>1, <2>2 DEF Moves, TakesIn
<1> HIDE DEF p, w, e
<1> QED BY <1>2, <1>5, <1>6, <1>7, <1>8, MoveKeeps DEF p

-----------------------------------------------------------------------------
(* A session takes the place of another.                                     *)

\* A member joins a table whose rows may be ended.
LEMMA MembersTyped ==
  ASSUME TypeInv, NEW old \in Seq(Membership), NEW row \in Membership,
         Len(old) = Len(members),
         \A m \in DOMAIN members : /\ old[m].slot = members[m].slot
                                   /\ old[m].session = members[m].session,
         DOMAIN slots \subseteq DOMAIN slots', DOMAIN sessions \subseteq DOMAIN sessions',
         row.slot \in DOMAIN slots', row.session \in DOMAIN sessions',
         members' = Append(old, row)
  PROVE  /\ members' \in Seq(Membership)
         /\ \A m \in DOMAIN members' : /\ members'[m].slot \in DOMAIN slots'
                                       /\ members'[m].session \in DOMAIN sessions'
<1>1. DOMAIN old = DOMAIN members /\ DOMAIN members = 1 .. Len(members)
      /\ Len(members) \in Nat
  BY Rows, RowTypes
<1>2. /\ members' \in Seq(Membership)
      /\ DOMAIN members' = 1 .. Len(members) + 1
      /\ members'[Len(members) + 1] = row
      /\ \A m \in DOMAIN members : members'[m] = old[m]
  BY <1>1, RowAdded
<1>3. ASSUME NEW m \in DOMAIN members'
      PROVE  /\ members'[m].slot \in DOMAIN slots'
             /\ members'[m].session \in DOMAIN sessions'
  <2>1. m \in DOMAIN members \/ m = Len(members) + 1
    BY <1>1, <1>2
  <2>2. CASE m \in DOMAIN members
    <3>1. members[m].slot \in DOMAIN slots /\ members[m].session \in DOMAIN sessions
      BY <2>2 DEF TypeInv
    <3> QED BY <1>2, <2>2, <3>1
  <2>3. CASE m = Len(members) + 1
    BY <1>2, <2>3
  <2> QED BY <2>1, <2>2, <2>3
<1> QED BY <1>2, <1>3

\* Memberships are ended, all of them or some.
LEMMA MembersEnded ==
  ASSUME TypeInv, NEW ended,
         ended = [m \in DOMAIN members |-> [members[m] EXCEPT !.state = "ENDED"]]
  PROVE  /\ ended \in Seq(Membership) /\ Len(ended) = Len(members)
         /\ \A m \in DOMAIN members : /\ ended[m].slot = members[m].slot
                                      /\ ended[m].session = members[m].session
<1>1. \A m \in DOMAIN members : members[m] \in Membership
  BY RowTypes
<1>2. \A m \in DOMAIN members : /\ ended[m] \in Membership
                                /\ ended[m].slot = members[m].slot
                                /\ ended[m].session = members[m].session
  BY <1>1 DEF Membership
<1>3. ended \in [DOMAIN members -> Membership]
  BY <1>2
<1>4. members \in Seq(Membership)
  BY DEF TypeInv
<1> QED BY <1>2, <1>3, <1>4, RowsMapped, SMTT(30)

\* bindManagedSession: the harness keeps one slot, whichever session it gets.
LEMMA ManagedBound ==
  ASSUME TypeInv, ManagedSlotIsOne, NEW s \in 1 .. MaxSession, BindsManaged(s),
         DOMAIN sessions \subseteq DOMAIN sessions', s \in DOMAIN sessions'
  PROVE  /\ slots' \in Seq(Slot) /\ members' \in Seq(Membership)
         /\ \A m \in DOMAIN members' : /\ members'[m].slot \in DOMAIN slots'
                                       /\ members'[m].session \in DOMAIN sessions'
         /\ ManagedSlotIsOne'
<1> DEFINE open == {w \in DOMAIN slots : slots[w].kind = "managed" /\ slots[w].state # "CLOSED"}
           slot == IF open = {} THEN Len(slots) + 1 ELSE CHOOSE w \in open : \A v \in open : v <= w
           row  == [kind |-> "managed", state |-> "BOUND", session |-> s]
           bound == [slot |-> slot, session |-> s, state |-> "ACTIVE"]
           ended == [m \in DOMAIN members |-> [members[m] EXCEPT !.state = "ENDED"]]
<1>1. row \in Slot /\ row.kind = "managed"
  BY DEF Slot
<1>2. /\ slots' = IF open = {} THEN Append(slots, row) ELSE [slots EXCEPT ![slot] = row]
      /\ members' = Append(ended, bound)
  BY DEF BindsManaged
<1>3. DOMAIN slots = 1 .. Len(slots) /\ Len(slots) \in Nat /\ slots \in Seq(Slot)
  BY RowTypes DEF TypeInv
<1>4. /\ slots' \in Seq(Slot) /\ DOMAIN slots \subseteq DOMAIN slots'
      /\ slot \in DOMAIN slots' /\ ManagedSlotIsOne'
  <2>1. CASE open = {}
    <3>1. slot = Len(slots) + 1 /\ slots' = Append(slots, row)
      BY <1>2, <2>1
    <3>2. /\ slots' \in Seq(Slot) /\ DOMAIN slots' = 1 .. Len(slots) + 1
          /\ \A w \in DOMAIN slots : slots'[w] = slots[w] /\ w \in DOMAIN slots'
      BY <1>1, <1>3, <3>1, RowAdded
    <3>3. slot \in DOMAIN slots'
      BY <1>3, <3>1, <3>2
    <3>4. \A w \in DOMAIN slots' : w \in DOMAIN slots \/ w = Len(slots) + 1
      BY <1>3, <3>2
    <3>5. \A w \in DOMAIN slots' :
            slots'[w].kind = "managed" /\ slots'[w].state # "CLOSED" => w = Len(slots) + 1
      <4>1. \A w \in DOMAIN slots : ~(slots[w].kind = "managed" /\ slots[w].state # "CLOSED")
        BY <2>1
      <4> QED BY <3>2, <3>4, <4>1
    <3>6. ManagedSlotIsOne'
      BY <3>5 DEF ManagedSlotIsOne
    <3> QED BY <3>2, <3>3, <3>6
  <2>2. CASE open # {}
    <3>1. PICK x \in open : TRUE
      BY <2>2
    <3>2. open = {x}
      BY <3>1 DEF ManagedSlotIsOne
    <3>3. x \in Nat
      BY <1>3, <3>1
    <3>4. \E w \in open : \A v \in open : v <= w
      BY <3>2, <3>3
    <3>5. slot \in open
      BY <2>2, <3>4
    <3>6. slot = x /\ x \in DOMAIN slots
      BY <3>1, <3>2, <3>5
    <3>7. slots' = [slots EXCEPT ![x] = row]
      BY <1>2, <2>2, <3>6
    <3>8. /\ slots' \in Seq(Slot) /\ DOMAIN slots' = DOMAIN slots
          /\ \A w \in DOMAIN slots : w # x => slots'[w] = slots[w]
      BY <1>1, <1>3, <3>6, <3>7, RowReplaced
    <3>9. \A w \in DOMAIN slots' :
            slots'[w].kind = "managed" /\ slots'[w].state # "CLOSED" => w = x
      <4>1. \A w \in DOMAIN slots :
              slots[w].kind = "managed" /\ slots[w].state # "CLOSED" => w = x
        BY <3>2
      <4> QED BY <3>8, <4>1
    <3>10. ManagedSlotIsOne'
      BY <3>9 DEF ManagedSlotIsOne
    <3> QED BY <3>6, <3>8, <3>10
  <2> QED BY <2>1, <2>2
<1>5. slot \in Nat
  <2>1. slot \in 1 .. Len(slots')
    BY <1>4, Rows
  <2>2. Len(slots') \in Nat
    BY <1>4, Rows
  <2> QED BY <2>1, <2>2
<1> HIDE DEF slot
<1>6. bound \in Membership /\ bound.slot = slot /\ bound.session = s
  BY <1>5 DEF Membership
<1>7. /\ ended \in Seq(Membership) /\ Len(ended) = Len(members)
      /\ \A m \in DOMAIN members : /\ ended[m].slot = members[m].slot
                                   /\ ended[m].session = members[m].session
  BY MembersEnded
<1> HIDE DEF ended, bound
<1>8. /\ members' \in Seq(Membership)
      /\ \A m \in DOMAIN members' : /\ members'[m].slot \in DOMAIN slots'
                                    /\ members'[m].session \in DOMAIN sessions'
  BY <1>2, <1>4, <1>6, <1>7, MembersTyped
<1> QED BY <1>4, <1>8

\* A session succeeds the active one, while nothing runs: what is known of the
\* role and of the transfers that are left alone stays true.
LEMMA SucceedsKeeps ==
  ASSUME TypeInv, RoleInv, NEW h \in Harness, NEW ref \in {"none", "saved", "inherited"},
         Len(sessions) < MaxSession, Succeeds(h, ref), run = NoRun, run' = run
  PROVE  /\ binding' \in [harness : Harness, epoch : Nat]
         /\ boot' \in {"PENDING", "DELIVERING", "DELIVERED", "FAILED", "UNKNOWN"}
         /\ sessions' \in Seq(Session) /\ Len(sessions') \in 1 .. MaxSession
         /\ Len(sessions') = Len(sessions) + 1
         /\ activation' \in [session : 0 .. MaxSession, epoch : Nat]
         /\ slots' \in Seq(Slot) /\ members' \in Seq(Membership)
         /\ \A m \in DOMAIN members' : /\ members'[m].slot \in DOMAIN slots'
                                       /\ members'[m].session \in DOMAIN sessions'
         /\ \A s \in DOMAIN sessions : sessions'[s].state = "ARCHIVED"
         /\ SessionsStay /\ RoleInv'
<1>1. /\ sessions' = Append(Archived(Active), NewSession(h, ref)) /\ Transition(h)
      /\ activation' = [session |-> Len(sessions) + 1, epoch |-> binding'.epoch]
      /\ BindsManaged(Len(sessions) + 1)
  BY DEF Succeeds
<1>2. /\ sessions' \in Seq(Session) /\ Len(sessions') = Len(sessions) + 1
      /\ Len(sessions') \in 1 .. MaxSession /\ SessionsStay /\ NewestIsActive'
      /\ \A s \in DOMAIN sessions : sessions'[s].state = "ARCHIVED"
      /\ Len(sessions) + 1 \in DOMAIN sessions'
  BY <1>1, SessionSucceeds DEF RoleInv
<1>3. /\ binding' \in [harness : Harness, epoch : Nat]
      /\ boot' \in {"PENDING", "DELIVERING", "DELIVERED", "FAILED", "UNKNOWN"}
  <2>1. binding \in [harness : Harness, epoch : Nat] /\ binding.epoch + 1 \in Nat
    <3>1. binding \in [harness : Harness, epoch : Nat]
      BY DEF TypeInv
    <3> QED BY <3>1
  <2>2. CASE h = binding.harness
    BY <1>1, <2>2 DEF Transition, TypeInv
  <2>3. CASE h # binding.harness
    BY <1>1, <2>1, <2>3 DEF Transition
  <2> QED BY <2>2, <2>3
<1>4. activation' \in [session : 0 .. MaxSession, epoch : Nat]
  <2>1. Len(sessions) + 1 \in 0 .. MaxSession
    BY <1>2, RowTypes
  <2> QED BY <1>1, <1>3, <2>1
<1>5. DOMAIN sessions \subseteq DOMAIN sessions' /\ Len(sessions) + 1 \in 1 .. MaxSession
  BY <1>2 DEF SessionsStay
<1>6. /\ slots' \in Seq(Slot) /\ members' \in Seq(Membership)
      /\ \A m \in DOMAIN members' : /\ members'[m].slot \in DOMAIN slots'
                                    /\ members'[m].session \in DOMAIN sessions'
      /\ ManagedSlotIsOne'
  BY <1>1, <1>2, <1>5, ManagedBound DEF RoleInv
<1>7. RoleInv'
  <2>1. PausedIsQuiet'
    BY DEF PausedIsQuiet, NoRun
  <2>2. RunFits'
    BY DEF RunFits, NoRun
  <2> QED BY <1>2, <1>6, <2>1, <2>2 DEF RoleInv
<1> QED BY <1>2, <1>3, <1>4, <1>6, <1>7

\* CommitOrRace: only the session a transfer was made from is replaced, by a
\* target that holds what that session knew.
LEMMA CommitKeeps ==
  ASSUME Inv, NEW o \in DOMAIN ops, NEW p \in Transfer, NEW w \in Jobs,
         OpFits(p, w, seed[o]), p.state = "SEEDED", seed[o].taken > 0,
         ops[o].state \in Unsettled, CommitOrRace(o, p), UNCHANGED <<core, seed, crashes>>
  PROVE  Inv'
<1>1. o \in Ops /\ seed[o] \in Seed /\ seed = [seed EXCEPT ![o] = seed[o]]
  BY RowTypes DEF Inv, TypeInv
<1>2. seed[o].taken <= 1 /\ (seed[o].flying => seed[o].taken = 0)
  BY DEF OpFits
<1>3. troubles \in 0 .. MaxTrouble /\ (Trouble => troubles' \in 0 .. MaxTrouble)
  <2>1. troubles \in 0 .. MaxTrouble
    BY DEF Inv, TypeInv
  <2>2. \A n \in 0 .. MaxTrouble : n < MaxTrouble => n + 1 \in 0 .. MaxTrouble
    OBVIOUS
  <2> QED BY <2>1, <2>2 DEF Trouble
<1>4. CASE /\ Active = p.from /\ Succeeds(p.to, "inherited")
           /\ ops' = [ops EXCEPT ![o] = [Over(p, "COMMITTED") EXCEPT
                                           !.session = Len(sessions) + 1]]
           /\ Then(o, "idle") /\ UNCHANGED <<tasks, run, troubles>>
  <2>1. p.from \in DOMAIN sessions /\ p.from < MaxSession
        /\ p.seen = sessions[p.from].turns /\ p.from \in 1 .. MaxSession
        /\ p.to \in Harness
    BY DEF OpFits, Transfer
  <2>2. Len(sessions) < MaxSession /\ Len(sessions) + 1 \in 0 .. MaxSession
    <3>1. Active = Len(sessions)
      BY <1>4, <2>1, ActiveSession DEF Inv, RoleInv
    <3>2. Len(sessions) \in 1 .. MaxSession
      BY DEF Inv, TypeInv
    <3> QED BY <1>4, <2>1, <3>1, <3>2
  <2>3. run = NoRun
    BY DEF Inv, RoleInv, PausedIsQuiet, Paused
  <2>4. /\ binding' \in [harness : Harness, epoch : Nat]
        /\ boot' \in {"PENDING", "DELIVERING", "DELIVERED", "FAILED", "UNKNOWN"}
        /\ sessions' \in Seq(Session) /\ Len(sessions') \in 1 .. MaxSession
        /\ activation' \in [session : 0 .. MaxSession, epoch : Nat]
        /\ slots' \in Seq(Slot) /\ members' \in Seq(Membership)
        /\ \A m \in DOMAIN members' : /\ members'[m].slot \in DOMAIN slots'
                                      /\ members'[m].session \in DOMAIN sessions'
        /\ \A s \in DOMAIN sessions : sessions'[s].state = "ARCHIVED"
        /\ SessionsStay /\ RoleInv'
    BY <1>4, <2>1, <2>2, <2>3, SucceedsKeeps DEF Inv
  <2> DEFINE q == [Over(p, "COMMITTED") EXCEPT !.session = Len(sessions) + 1]
  <2>5. /\ q \in Transfer /\ q.from = p.from /\ q.to = p.to /\ q.seen = p.seen
        /\ q.state = "COMMITTED" /\ q.target = FALSE /\ q.sent = FALSE
    <3>1. /\ Over(p, "COMMITTED") \in Transfer /\ Over(p, "COMMITTED").from = p.from
          /\ Over(p, "COMMITTED").to = p.to /\ Over(p, "COMMITTED").seen = p.seen
          /\ Over(p, "COMMITTED").state = "COMMITTED"
          /\ Over(p, "COMMITTED").target = FALSE /\ Over(p, "COMMITTED").sent = FALSE
      BY OverRecord DEF OpStates
    <3> QED BY <2>2, <3>1 DEF Transfer
  <2>6. ops' = [ops EXCEPT ![o] = q]
    BY <1>4
  <2> HIDE DEF q
  <2>7. /\ ops' \in Seq(Transfer) /\ Len(ops') = Len(ops) /\ DOMAIN ops' = DOMAIN ops
        /\ ops'[o] = q /\ \A r \in DOMAIN ops : r # o => ops'[r] = ops[r]
    <3>1. ops \in Seq(Transfer)
      BY DEF Inv, TypeInv
    <3> QED BY <2>5, <2>6, <3>1, RowReplaced
  <2>8. /\ job' \in [Ops -> Jobs] /\ job'[o] = "idle"
        /\ \A r \in Ops : r # o => job'[r] = job[r]
    <3>1. job \in [Ops -> Jobs] /\ "idle" \in Jobs
      BY DEF Inv, TypeInv, Jobs
    <3> QED BY <1>1, <1>4, <3>1 DEF Then
  <2>9. TypeInv'
    <3>1. Len(ops') <= MaxOp
      BY <2>7 DEF Inv, TypeInv
    <3> QED BY <1>4, <2>4, <2>7, <2>8, <3>1 DEF Inv, TypeInv
  <2>10. ASSUME NEW r \in Ops, r \in DOMAIN ops'
         PROVE  OpFits(ops[r], job[r], seed[r])'
    <3>1. CASE r = o
      <4>1. /\ p.from \in DOMAIN sessions' /\ sessions'[p.from].turns = sessions[p.from].turns
            /\ sessions'[p.from].state = "ARCHIVED"
        BY <2>1, <2>4 DEF SessionsStay
      <4>2. ops'[r] = q /\ job'[r] = "idle" /\ seed'[r] = seed[o]
        BY <2>7, <2>8, <3>1
      <4>3. /\ p.seen = sessions'[p.from].turns /\ p.from < MaxSession
        BY <2>1, <4>1
      <4> QED BY <1>2, <2>5, <4>1, <4>2, <4>3 DEF OpFits, Unsettled
    <3>2. CASE r # o
      <4>1. OpFits(ops[r], job[r], seed[r])
        BY <2>7, <2>10 DEF Inv, TransferInv
      <4>2. ops'[r] = ops[r] /\ job'[r] = job[r] /\ seed'[r] = seed[r]
        BY <2>7, <2>8, <2>10, <3>2
      <4> QED BY <2>4, <4>1, <4>2, FitStays
    <3> QED BY <3>1, <3>2
  <2>11. ASSUME NEW r \in Ops, r \notin DOMAIN ops'
         PROVE  job'[r] = "idle" /\ ~seed'[r].flying /\ seed'[r].taken = 0
    <3>1. r # o /\ r \notin DOMAIN ops
      BY <2>7, <2>11
    <3> QED BY <2>8, <3>1 DEF Inv, TransferInv
  <2>12. TransferInv'
    BY <2>10, <2>11 DEF TransferInv
  <2> QED BY <2>4, <2>9, <2>12 DEF Inv
<1>5. CASE /\ Fail(o) /\ UNCHANGED <<roleVars, joinVars, sessions>>
           /\ Trouble \/ troubles' = troubles
  BY <1>1, <1>2, <1>3, <1>5, FailKeeps
<1> QED BY <1>4, <1>5 DEF CommitOrRace

\* Settles: what is confirmed is committed, and anything else is read.
LEMMA SettlesKeeps ==
  ASSUME Inv, NEW o \in Ops, Settles(o)
  PROVE  Inv'
<1> DEFINE p == ops[o]
<1>0. Doing(o, "settling") /\ "settling" \in Jobs \ {"idle"}
  BY DEF Settles, Jobs
<1>1. /\ o \in DOMAIN ops /\ p \in Transfer /\ seed[o] \in Seed
      /\ OpFits(p, "settling", seed[o]) /\ p.state \in Unsettled
      /\ troubles \in 0 .. MaxTrouble /\ sessions[p.from] \in Session
  BY <1>0, DoingFits
<1>2. /\ seed = [seed EXCEPT ![o] = seed[o]]
      /\ Trouble => troubles' \in 0 .. MaxTrouble
  <2>1. seed \in [Ops -> Seed]
    BY DEF Inv, TypeInv
  <2>2. \A n \in 0 .. MaxTrouble : n < MaxTrouble => n + 1 \in 0 .. MaxTrouble
    OBVIOUS
  <2> QED BY <1>1, <2>1, <2>2 DEF Trouble
<1>3. seed[o].taken <= 1 /\ (seed[o].flying => seed[o].taken = 0)
  BY <1>1 DEF OpFits
<1>4. p.state = "SEEDED" /\ UNCHANGED <<core, seed, crashes>>
  BY <1>1 DEF OpFits, Settles
<1>5. CASE p.confirmed /\ CommitOrRace(o, p)
  <2>1. seed[o].taken > 0
    BY <1>1, <1>5 DEF OpFits
  <2> QED BY <1>0, <1>1, <1>4, <1>5, <2>1, CommitKeeps
<1>6. CASE /\ ops' = [ops EXCEPT ![o].attempts = @ + 1] /\ Then(o, "confirming")
           /\ UNCHANGED <<roleVars, joinVars, sessions, troubles>>
  <2> DEFINE q == [p EXCEPT !.attempts = @ + 1]
  <2>1. q \in Transfer
    BY <1>1 DEF Transfer, OpStates, Session
  <2>2. OpFits(q, "confirming", seed[o])
    BY <1>1, <1>4, <1>6 DEF OpFits, Transfer, Unsettled
  <2>3. ops' = [ops EXCEPT ![o] = q] /\ job' = [job EXCEPT ![o] = "confirming"]
    BY <1>4, <1>6 DEF Then
  <2>4. Moves(o, q, "confirming", seed[o]) /\ "confirming" \in Jobs
    BY <1>2, <1>4, <1>6, <2>3 DEF Moves, Jobs
  <2> HIDE DEF q
  <2> QED BY <1>1, <1>2, <1>4, <1>6, <2>1, <2>2, <2>4, MoveKeeps
<1> QED BY <1>5, <1>6 DEF Settles

\* Confirms: only a target that holds the seed is committed.
LEMMA ConfirmsKeeps ==
  ASSUME Inv, NEW o \in Ops, Confirms(o)
  PROVE  Inv'
<1> DEFINE p == ops[o]
<1>0. Doing(o, "confirming") /\ "confirming" \in Jobs \ {"idle"}
  BY DEF Confirms, Jobs
<1>1. /\ o \in DOMAIN ops /\ p \in Transfer /\ seed[o] \in Seed
      /\ OpFits(p, "confirming", seed[o]) /\ p.state \in Unsettled
      /\ troubles \in 0 .. MaxTrouble /\ sessions[p.from] \in Session
  BY <1>0, DoingFits
<1>2. /\ seed = [seed EXCEPT ![o] = seed[o]]
      /\ Trouble => troubles' \in 0 .. MaxTrouble
  <2>1. seed \in [Ops -> Seed]
    BY DEF Inv, TypeInv
  <2>2. \A n \in 0 .. MaxTrouble : n < MaxTrouble => n + 1 \in 0 .. MaxTrouble
    OBVIOUS
  <2> QED BY <1>1, <2>1, <2>2 DEF Trouble
<1>3. seed[o].taken <= 1 /\ (seed[o].flying => seed[o].taken = 0)
  BY <1>1 DEF OpFits
<1>4. p.state = "SEEDED" /\ UNCHANGED <<core, seed, crashes>>
  BY <1>1 DEF OpFits, Confirms
<1>5. CASE seed[o].taken > 0 /\ CommitOrRace(o, [p EXCEPT !.confirmed = TRUE])
  <2> DEFINE q == [p EXCEPT !.confirmed = TRUE]
  <2>1. q \in Transfer /\ q.state = "SEEDED" /\ OpFits(q, "confirming", seed[o])
    BY <1>1, <1>4, <1>5 DEF Transfer, OpFits
  <2>2. CommitOrRace(o, q)
    BY <1>5
  <2> HIDE DEF q
  <2> QED BY <1>0, <1>1, <1>4, <1>5, <2>1, <2>2, CommitKeeps
<1>6. CASE /\ Retry(o, [p EXCEPT !.error = "ambiguous"])
           /\ UNCHANGED <<roleVars, joinVars, sessions>>
           /\ Trouble \/ troubles' = troubles
  <2> DEFINE q == [p EXCEPT !.error = "ambiguous"]
  <2>1. q \in Transfer /\ q.state \in Unsettled /\ OpFits(q, "confirming", seed[o])
    BY <1>1, <1>4 DEF Transfer, OpFits
  <2>2. Retry(o, q)
    BY <1>6
  <2> HIDE DEF q
  <2> QED BY <1>0, <1>1, <1>2, <1>4, <1>6, <2>1, <2>2, RetryKeeps
<1>7. CASE /\ ops' = [ops EXCEPT ![o].error = "unresolved"] /\ Then(o, "idle")
           /\ UNCHANGED <<roleVars, joinVars, sessions>>
           /\ Trouble \/ troubles' = troubles
  <2> DEFINE q == [p EXCEPT !.error = "unresolved"]
  <2>1. q \in Transfer
    BY <1>1 DEF Transfer, OpStates, Session
  <2>2. OpFits(q, "idle", seed[o])
    BY <1>1, <1>4, <1>7 DEF OpFits, Transfer, Unsettled
  <2>3. ops' = [ops EXCEPT ![o] = q] /\ job' = [job EXCEPT ![o] = "idle"]
    BY <1>4, <1>7 DEF Then
  <2>4. Moves(o, q, "idle", seed[o]) /\ "idle" \in Jobs
    BY <1>2, <1>4, <1>7, <2>3 DEF Moves, Jobs
  <2> HIDE DEF q
  <2> QED BY <1>1, <1>2, <1>4, <1>7, <2>1, <2>2, <2>4, MoveKeeps
<1> QED BY <1>5, <1>6, <1>7 DEF Confirms

\* Every step of the engine keeps the invariant.
LEMMA EngineKeeps ==
  ASSUME Inv, NEW o \in Ops, EngineStep(o) \/ TakesIn(o)
  PROVE  Inv'
BY BeginsKeeps, ForksKeeps, VerifiesKeeps, ExportsKeeps, SizesKeeps, InitialisesTargetKeeps,
   SendsKeeps, HearsKeeps, SettlesKeeps, ConfirmsKeeps, TimerFiresKeeps, TakesInKeeps
   DEF EngineStep

-----------------------------------------------------------------------------
(* Steps of the role.                                                        *)

\* Another failure or update of the charter stays within its bound.
LEMMA TroubleTyped ==
  ASSUME TypeInv, Trouble
  PROVE  troubles' \in 0 .. MaxTrouble
<1>1. troubles \in 0 .. MaxTrouble
  BY DEF TypeInv
<1>2. \A n \in 0 .. MaxTrouble : n < MaxTrouble => n + 1 \in 0 .. MaxTrouble
  OBVIOUS
<1> QED BY <1>1, <1>2 DEF Trouble

\* A step that touches neither sessions, slots nor transfers keeps the
\* invariant if it keeps types and the run fits.
LEMMA RoleStepKeeps ==
  ASSUME Inv, UNCHANGED <<sessions, slots, members, ops, job, seed>>, TypeInv',
         RunFits', Paused => run' = NoRun
  PROVE  Inv'
<1>1. SessionsStay
  BY SessionsUnchanged
<1>2. TransferInv'
  BY <1>1, TransfersStay DEF Inv
<1>3. ManagedSlotIsOne' /\ NewestIsActive'
  BY DEF Inv, RoleInv, ManagedSlotIsOne, NewestIsActive
<1>4. PausedIsQuiet'
  BY DEF PausedIsQuiet, Paused, NoRun
<1> QED BY <1>2, <1>3, <1>4 DEF Inv, RoleInv

\* Submits.
LEMMA SubmitsKeeps ==
  ASSUME Inv, Submits
  PROVE  Inv'
<1> DEFINE row == [session |-> Active, state |-> "QUEUED"]
<1>1. row \in TaskRow
  BY ActiveSession DEF Inv, RoleInv, TaskRow
<1>2. /\ tasks \in Seq(TaskRow) /\ Len(tasks) \in 0 .. MaxTask /\ Len(tasks) < MaxTask
      /\ tasks' = Append(tasks, row)
  BY RowTypes DEF Inv, TypeInv, Submits
<1> HIDE DEF row
<1>3. /\ tasks' \in Seq(TaskRow) /\ Len(tasks') = Len(tasks) + 1
      /\ DOMAIN tasks \subseteq DOMAIN tasks'
  BY <1>1, <1>2, RowAdded
<1>4. TypeInv'
  <2>1. Len(tasks') <= MaxTask
    BY <1>2, <1>3
  <2> QED BY <1>3, <2>1, TypesKept DEF Submits, Inv, TypeInv
<1>5. RunFits'
  BY <1>3 DEF Submits, Inv, RoleInv, RunFits
<1>6. Paused => run' = NoRun
  BY DEF Submits, Inv, RoleInv, PausedIsQuiet
<1> QED BY <1>4, <1>5, <1>6, RoleStepKeeps DEF Submits

\* Cancels.
LEMMA CancelsKeeps ==
  ASSUME Inv, NEW t \in DOMAIN tasks, Cancels(t)
  PROVE  Inv'
<1> DEFINE row == [tasks[t] EXCEPT !.state = "CANCELLED"]
<1>1. tasks[t] \in TaskRow
  BY RowTypes DEF Inv
<1>2. row \in TaskRow /\ tasks' = [tasks EXCEPT ![t] = row] /\ tasks \in Seq(TaskRow)
  BY <1>1 DEF TaskRow, Cancels, Inv, TypeInv
<1> HIDE DEF row
<1>3. tasks' \in Seq(TaskRow) /\ Len(tasks') = Len(tasks) /\ DOMAIN tasks' = DOMAIN tasks
  BY <1>2, RowReplaced
<1>4. TypeInv'
  BY <1>3, TypesKept DEF Cancels, Inv, TypeInv
<1>5. RunFits'
  BY <1>3 DEF Cancels, Inv, RoleInv, RunFits
<1>6. Paused => run' = NoRun
  BY DEF Cancels, Inv, RoleInv, PausedIsQuiet
<1> QED BY <1>4, <1>5, <1>6, RoleStepKeeps DEF Cancels

\* CharterUpdates: not while something runs.
LEMMA CharterUpdatesKeeps ==
  ASSUME Inv, NEW h \in Harness, CharterUpdates(h)
  PROVE  Inv'
<1>1. troubles' \in 0 .. MaxTrouble
  BY TroubleTyped DEF CharterUpdates, Inv
<1>2. binding' \in [harness : Harness, epoch : Nat]
  <2>1. binding \in [harness : Harness, epoch : Nat]
    BY DEF Inv, TypeInv
  <2>2. binding.epoch + 1 \in Nat
    BY <2>1
  <2> QED BY <2>2 DEF CharterUpdates
<1>3. TypeInv'
  BY <1>1, <1>2, TypesKept DEF CharterUpdates, Inv, TypeInv
<1>4. RunFits' /\ (Paused => run' = NoRun)
  BY DEF CharterUpdates, RunFits, NoRun
<1> QED BY <1>3, <1>4, RoleStepKeeps DEF CharterUpdates

\* The charter is delivered.
LEMMA InitialisesKeeps ==
  ASSUME Inv, Initialises \/ InitialisationEnds
  PROVE  Inv'
<1>1. /\ boot' \in {"PENDING", "DELIVERING", "DELIVERED", "FAILED", "UNKNOWN"}
      /\ UNCHANGED <<binding, sessions, activation, tasks, run, joinVars, ops, core, job,
                     seed, boundVars>>
  BY DEF Initialises, InitialisationEnds
<1>2. TypeInv'
  BY <1>1, TypesKept DEF Inv, TypeInv
<1>3. RunFits' /\ (Paused => run' = NoRun)
  BY <1>1 DEF Inv, RoleInv, RunFits, PausedIsQuiet
<1> QED BY <1>1, <1>2, <1>3, RoleStepKeeps

\* Dispatch: a run is started in the active session under the binding, while no
\* transfer is under way.
LEMMA DispatchKeeps ==
  ASSUME Inv, NEW t \in DOMAIN tasks, Dispatch(t)
  PROVE  Inv'
<1> DEFINE row == [tasks[t] EXCEPT !.state = "ACTIVE"]
           s == tasks[t].session
<1>1. tasks[t] \in TaskRow /\ t \in 1 .. MaxTask
  BY RowTypes DEF Inv
<1>2. row \in TaskRow /\ tasks' = [tasks EXCEPT ![t] = row] /\ tasks \in Seq(TaskRow)
  BY <1>1 DEF TaskRow, Dispatch, Inv, TypeInv
<1>3. s \in 0 .. MaxSession /\ t \in 0 .. MaxTask
  BY <1>1 DEF TaskRow
<1> HIDE DEF row
<1>4. tasks' \in Seq(TaskRow) /\ Len(tasks') = Len(tasks) /\ DOMAIN tasks' = DOMAIN tasks
  BY <1>2, RowReplaced
<1>5. /\ activation' = [session |-> s, epoch |-> binding.epoch]
      /\ run' = [task |-> t, session |-> s, epoch |-> binding.epoch, live |-> TRUE]
      /\ IsActive(s) /\ sessions[s].harness = binding.harness /\ ~Paused
      /\ UNCHANGED <<binding, boot, sessions, joinVars, ops, core, job, seed, boundVars>>
  BY DEF Dispatch
<1> HIDE DEF s
<1>6. TypeInv'
  <2>1. binding.epoch \in Nat
    BY DEF Inv, TypeInv
  <2>2. activation' \in [session : 0 .. MaxSession, epoch : Nat]
    BY <1>3, <1>5, <2>1
  <2>3. run' \in [task : 0 .. MaxTask, session : 0 .. MaxSession, epoch : Nat, live : BOOLEAN]
    BY <1>3, <1>5, <2>1
  <2> QED BY <1>4, <1>5, <2>2, <2>3, TypesKept DEF Inv, TypeInv
<1>7. RunFits'
  BY <1>4, <1>5 DEF RunFits, IsActive
<1> QED BY <1>5, <1>6, <1>7, RoleStepKeeps

\* SavesSession: only the reference of the session is new.
LEMMA SavesSessionKeeps ==
  ASSUME Inv, SavesSession
  PROVE  Inv'
<1> DEFINE s == run.session
           row == [sessions[s] EXCEPT !.ref = "saved"]
<1>1. s \in DOMAIN sessions /\ run.live
  BY DEF SavesSession, Inv, RoleInv, RunFits
<1>2. sessions[s] \in Session
  BY <1>1, RowTypes DEF Inv
<1>3. /\ row \in Session /\ row.harness = sessions[s].harness
      /\ row.turns = sessions[s].turns /\ row.state = sessions[s].state
  BY <1>2 DEF Session
<1>4. sessions' = [sessions EXCEPT ![s] = row] /\ sessions \in Seq(Session)
      /\ UNCHANGED <<roleVars, joinVars, ops, core, job, seed, boundVars>>
  BY DEF SavesSession, Inv, TypeInv
<1> HIDE DEF row, s
<1>5. /\ sessions' \in Seq(Session) /\ Len(sessions') = Len(sessions)
      /\ DOMAIN sessions' = DOMAIN sessions /\ sessions'[s] = row
      /\ \A u \in DOMAIN sessions : u # s => sessions'[u] = sessions[u]
  BY <1>1, <1>3, <1>4, RowReplaced
<1>6. \A u \in DOMAIN sessions : /\ sessions'[u].harness = sessions[u].harness
                                 /\ sessions'[u].turns = sessions[u].turns
                                 /\ sessions'[u].state = sessions[u].state
  BY <1>3, <1>5
<1>7. SessionsStay
  BY <1>5, <1>6 DEF SessionsStay
<1>8. TransferInv'
  BY <1>4, <1>7, TransfersStay DEF Inv
<1>9. TypeInv'
  BY <1>4, <1>5 DEF Inv, TypeInv
<1>10. RoleInv'
  <2>1. ManagedSlotIsOne' /\ NewestIsActive'
    BY <1>4, <1>5, <1>6 DEF Inv, RoleInv, ManagedSlotIsOne, NewestIsActive
  <2>2. PausedIsQuiet'
    BY <1>4 DEF Inv, RoleInv, PausedIsQuiet, Paused, NoRun
  <2>3. RunFits'
    BY <1>4, <1>5, <1>6 DEF Inv, RoleInv, RunFits
  <2> QED BY <2>1, <2>2, <2>3 DEF RoleInv
<1> QED BY <1>8, <1>9, <1>10 DEF Inv

\* RunEnds: the session a run ends in is active, and no transfer is under way
\* that has read it.
LEMMA RunEndsKeeps ==
  ASSUME Inv, RunEnds
  PROVE  Inv'
<1> DEFINE s == run.session
           row == [sessions[s] EXCEPT !.turns = @ + 1]
           done == [tasks[run.task] EXCEPT !.state = "DONE"]
<1>1. /\ s \in DOMAIN sessions /\ run.live /\ run.task \in DOMAIN tasks
      /\ sessions[s].state = "ACTIVE"
  BY DEF RunEnds, Inv, RoleInv, RunFits
<1>2. sessions[s] \in Session /\ tasks[run.task] \in TaskRow
  BY <1>1, RowTypes DEF Inv
<1>3. row \in Session /\ row.harness = sessions[s].harness /\ row.state = sessions[s].state
  BY <1>2 DEF Session
<1>4. done \in TaskRow
  BY <1>2 DEF TaskRow
<1>5. /\ sessions' = [sessions EXCEPT ![s] = row] /\ sessions \in Seq(Session)
      /\ tasks' = [tasks EXCEPT ![run.task] = done] /\ tasks \in Seq(TaskRow)
      /\ run' = NoRun
      /\ UNCHANGED <<binding, boot, activation, joinVars, ops, core, job, seed, boundVars>>
  BY DEF RunEnds, Inv, TypeInv
<1> HIDE DEF row, s, done
<1>6. /\ sessions' \in Seq(Session) /\ Len(sessions') = Len(sessions)
      /\ DOMAIN sessions' = DOMAIN sessions /\ sessions'[s] = row
      /\ \A u \in DOMAIN sessions : u # s => sessions'[u] = sessions[u]
  BY <1>1, <1>3, <1>5, RowReplaced
<1>7. tasks' \in Seq(TaskRow) /\ Len(tasks') = Len(tasks)
  BY <1>1, <1>4, <1>5, RowReplaced
<1>8. NoRun \in [task : 0 .. MaxTask, session : 0 .. MaxSession, epoch : Nat, live : BOOLEAN]
      /\ ~NoRun.live
  BY DEF NoRun
<1>9. TypeInv'
  BY <1>5, <1>6, <1>7, <1>8 DEF Inv, TypeInv
<1>10. RoleInv'
  <2>1. \A u \in DOMAIN sessions : sessions'[u].state = sessions[u].state
    BY <1>3, <1>6
  <2>2. ManagedSlotIsOne' /\ NewestIsActive'
    BY <1>5, <1>6, <2>1 DEF Inv, RoleInv, ManagedSlotIsOne, NewestIsActive
  <2>3. PausedIsQuiet' /\ RunFits'
    BY <1>5, <1>8 DEF PausedIsQuiet, RunFits, NoRun
  <2> QED BY <2>2, <2>3 DEF RoleInv
<1>11. ASSUME NEW o \in Ops, o \in DOMAIN ops
       PROVE  OpFits(ops[o], job[o], seed[o])'
  <2>1. OpFits(ops[o], job[o], seed[o])
    BY <1>11 DEF Inv, TransferInv
  <2>2. ops[o].state \notin Unsettled
    <3>1. run # NoRun
      BY <1>1, <1>8
    <3> QED BY <1>11, <3>1 DEF Inv, RoleInv, PausedIsQuiet, Paused
  <2>3. /\ ops[o].from \in DOMAIN sessions'
        /\ sessions'[ops[o].from].harness = sessions[ops[o].from].harness
        /\ sessions'[ops[o].from].state = sessions[ops[o].from].state
    BY <1>3, <1>6, <2>1 DEF OpFits
  <2>4. ops[o].state = "COMMITTED" => sessions'[ops[o].from].turns = sessions[ops[o].from].turns
    <3>1. ASSUME ops[o].state = "COMMITTED"
          PROVE  ops[o].from # s
      BY <1>1, <2>1, <3>1 DEF OpFits
    <3> QED BY <1>6, <2>1, <3>1 DEF OpFits
  <2>5. ~ops[o].target
    BY <2>1, <2>2 DEF OpFits
  <2>6. ops[o].state \notin {"EXPORTED", "SEEDED"}
    BY <2>2 DEF Unsettled
  <2> QED BY <1>5, <2>1, <2>2, <2>3, <2>4, <2>5, <2>6 DEF OpFits
<1>12. TransferInv'
  <2>1. ASSUME NEW o \in Ops, o \notin DOMAIN ops'
        PROVE  job'[o] = "idle" /\ ~seed'[o].flying /\ seed'[o].taken = 0
    BY <1>5, <2>1 DEF Inv, TransferInv
  <2> QED BY <1>5, <1>11, <2>1 DEF TransferInv
<1> QED BY <1>9, <1>10, <1>12 DEF Inv

-----------------------------------------------------------------------------
(* Sessions, slots and participants.                                         *)

\* CreatesBlank.
LEMMA CreatesBlankKeeps ==
  ASSUME Inv, NEW h \in Harness, CreatesBlank(h)
  PROVE  Inv'
<1>1. /\ Len(sessions) < MaxSession /\ Succeeds(h, "none") /\ run = NoRun /\ run' = run
      /\ UNCHANGED <<tasks, run, ops, core, job, seed, boundVars>>
  BY DEF CreatesBlank, Room, SafeToSwitch
<1>2. /\ binding' \in [harness : Harness, epoch : Nat]
      /\ boot' \in {"PENDING", "DELIVERING", "DELIVERED", "FAILED", "UNKNOWN"}
      /\ sessions' \in Seq(Session) /\ Len(sessions') \in 1 .. MaxSession
      /\ activation' \in [session : 0 .. MaxSession, epoch : Nat]
      /\ slots' \in Seq(Slot) /\ members' \in Seq(Membership)
      /\ \A m \in DOMAIN members' : /\ members'[m].slot \in DOMAIN slots'
                                    /\ members'[m].session \in DOMAIN sessions'
      /\ SessionsStay /\ RoleInv'
  BY <1>1, SucceedsKeeps DEF Inv
<1>3. TypeInv'
  BY <1>1, <1>2 DEF Inv, TypeInv
<1>4. TransferInv'
  BY <1>1, <1>2, TransfersStay DEF Inv
<1> QED BY <1>2, <1>3, <1>4 DEF Inv

\* CreatesInherit: a transfer starts from the newest session, while nothing runs.
LEMMA CreatesInheritKeeps ==
  ASSUME Inv, NEW h \in Harness, CreatesInherit(h)
  PROVE  Inv'
<1> DEFINE row == [from |-> Active, to |-> h, state |-> "PREPARING",
                   session |-> 0, seen |-> 0, target |-> FALSE, sent |-> FALSE,
                   confirmed |-> FALSE, attempts |-> 0, retries |-> 0, error |-> "none"]
           n == Len(ops) + 1
<1>1. /\ Active # 0 /\ Len(sessions) < MaxSession /\ Len(ops) < MaxOp /\ run = NoRun
      /\ ops' = Append(ops, row) /\ job' = [job EXCEPT ![n] = "queued"]
      /\ UNCHANGED <<roleVars, joinVars, sessions, core, seed, boundVars>>
  BY DEF CreatesInherit, Room, SafeToSwitch
<1>2. Active \in DOMAIN sessions /\ Active \in 1 .. MaxSession /\ Active < MaxSession
  BY <1>1, ActiveSession, RowTypes DEF Inv, RoleInv, IsActive
<1>3. row \in Transfer
  BY <1>2 DEF Transfer, OpStates
<1>4. /\ row.from = Active /\ row.state = "PREPARING" /\ ~row.target /\ ~row.sent
      /\ ~row.confirmed
  OBVIOUS
<1> HIDE DEF row
<1>5. Len(ops) \in 0 .. MaxOp /\ DOMAIN ops = 1 .. Len(ops) /\ ops \in Seq(Transfer)
  BY RowTypes DEF Inv, TypeInv
<1>6. /\ ops' \in Seq(Transfer) /\ Len(ops') = n /\ DOMAIN ops' = 1 .. n
      /\ ops'[n] = row
      /\ \A q \in DOMAIN ops : ops'[q] = ops[q] /\ q \in DOMAIN ops' /\ q # n
  BY <1>1, <1>3, <1>5, RowAdded
<1>7. /\ n \in Ops /\ n \notin DOMAIN ops /\ Len(ops') <= MaxOp
      /\ \A q \in DOMAIN ops' : q \in DOMAIN ops \/ q = n
  BY <1>1, <1>5, <1>6 DEF Ops
<1>8. job \in [Ops -> Jobs] /\ "queued" \in Jobs
  BY DEF Inv, TypeInv, Jobs
<1>9. job' \in [Ops -> Jobs] /\ job'[n] = "queued" /\ \A q \in Ops : q # n => job'[q] = job[q]
  BY <1>1, <1>7, <1>8
<1> HIDE DEF n
<1>10. TypeInv'
  BY <1>1, <1>6, <1>7, <1>9 DEF Inv, TypeInv
<1>11. RoleInv'
  BY <1>1, RoleStays DEF Inv
<1>12. SessionsStay
  BY <1>1, SessionsUnchanged
<1>13. ASSUME NEW o \in Ops, o \in DOMAIN ops'
       PROVE  OpFits(ops[o], job[o], seed[o])'
  <2>1. CASE o = n
    <3>1. ~seed[n].flying /\ seed[n].taken = 0
      BY <1>7 DEF Inv, TransferInv
    <3>2. /\ ops'[o] = row /\ job'[o] = "queued" /\ seed'[o] = seed[n]
          /\ sessions' = sessions
      BY <1>1, <1>6, <1>9, <2>1
    <3> QED BY <1>2, <1>4, <3>1, <3>2 DEF OpFits, Unsettled
  <2>2. CASE o # n
    <3>1. o \in DOMAIN ops /\ OpFits(ops[o], job[o], seed[o])
      BY <1>7, <1>13, <2>2 DEF Inv, TransferInv
    <3>2. ops'[o] = ops[o] /\ job'[o] = job[o] /\ seed'[o] = seed[o]
      BY <1>1, <1>6, <1>9, <2>2, <3>1
    <3> QED BY <1>12, <3>1, <3>2, FitStays
  <2> QED BY <2>1, <2>2
<1>14. ASSUME NEW o \in Ops, o \notin DOMAIN ops'
       PROVE  job'[o] = "idle" /\ ~seed'[o].flying /\ seed'[o].taken = 0
  <2>1. o # n /\ o \notin DOMAIN ops
    <3>1. n \in DOMAIN ops'
      BY <1>5, <1>6, <1>7 DEF n
    <3> QED BY <1>6, <1>14, <3>1
  <2> QED BY <1>1, <1>9, <2>1 DEF Inv, TransferInv
<1>15. TransferInv'
  BY <1>13, <1>14 DEF TransferInv
<1> QED BY <1>10, <1>11, <1>15 DEF Inv

\* Switches: to the session a run is in, which has the harness of the binding.
LEMMA SwitchesKeeps ==
  ASSUME Inv, NEW s \in DOMAIN sessions, Switches(s)
  PROVE  Inv'
<1> DEFINE h == sessions[s].harness
<1>1. /\ sessions[s].state = "ACTIVE" /\ Transition(h)
      /\ activation' = [session |-> s, epoch |-> binding'.epoch]
      /\ UNCHANGED <<sessions, tasks, run, joinVars, ops, core, job, seed, boundVars>>
  BY DEF Switches
<1>2. h \in Harness /\ s \in 0 .. MaxSession
  BY RowTypes DEF Inv, Session
<1>3. binding \in [harness : Harness, epoch : Nat]
  BY DEF Inv, TypeInv
<1>4. binding.epoch \in Nat /\ binding.epoch + 1 \in Nat
  BY <1>3
<1>5. /\ binding' \in [harness : Harness, epoch : Nat]
      /\ boot' \in {"PENDING", "DELIVERING", "DELIVERED", "FAILED", "UNKNOWN"}
  <2>1. CASE h = binding.harness
    BY <1>1, <2>1 DEF Transition, Inv, TypeInv
  <2>2. CASE h # binding.harness
    BY <1>1, <1>2, <1>4, <2>2 DEF Transition
  <2> QED BY <2>1, <2>2
<1>6. TypeInv'
  <2>1. activation' \in [session : 0 .. MaxSession, epoch : Nat]
    BY <1>1, <1>2, <1>5
  <2> QED BY <1>1, <1>5, <2>1, TypesKept DEF Inv, TypeInv
<1>7. RunFits'
  <2>1. ASSUME run.live
        PROVE  run.session = s /\ binding' = binding
    <3>1. /\ run.session \in DOMAIN sessions /\ sessions[run.session].state = "ACTIVE"
          /\ sessions[run.session].harness = binding.harness
      BY <2>1 DEF Inv, RoleInv, RunFits
    <3>2. run.session = s
      BY <1>1, <3>1 DEF Inv, RoleInv, NewestIsActive
    <3> QED BY <1>1, <3>1, <3>2 DEF Transition
  <2> QED BY <1>1, <2>1 DEF Inv, RoleInv, RunFits
<1>8. Paused => run' = NoRun
  BY <1>1 DEF Inv, RoleInv, PausedIsQuiet
<1> QED BY <1>1, <1>6, <1>7, <1>8, RoleStepKeeps

\* CreatesSlot: the slot is of somebody outside.
LEMMA CreatesSlotKeeps ==
  ASSUME Inv, NEW s \in 0 .. MaxSession, CreatesSlot(s)
  PROVE  Inv'
<1> DEFINE row == [kind |-> "outside", state |-> "OPEN", session |-> s]
<1>1. row \in Slot /\ row.kind = "outside"
  BY DEF Slot
<1>2. /\ slots' = Append(slots, row) /\ slots \in Seq(Slot)
      /\ UNCHANGED <<roleVars, sessions, members, ops, core, job, seed, boundVars>>
  BY DEF CreatesSlot, Inv, TypeInv
<1> HIDE DEF row
<1>3. /\ slots' \in Seq(Slot) /\ DOMAIN slots' = 1 .. Len(slots) + 1
      /\ Len(slots) \in Nat /\ DOMAIN slots = 1 .. Len(slots)
      /\ slots'[Len(slots) + 1] = row
      /\ \A w \in DOMAIN slots : slots'[w] = slots[w] /\ w \in DOMAIN slots'
  BY <1>1, <1>2, RowAdded
<1>4. TypeInv'
  BY <1>2, <1>3 DEF Inv, TypeInv
<1>5. ManagedSlotIsOne'
  <2>1. \A w \in DOMAIN slots' : w \in DOMAIN slots \/ w = Len(slots) + 1
    BY <1>3
  <2>2. \A w \in DOMAIN slots' : slots'[w].kind = "managed" =>
          w \in DOMAIN slots /\ slots'[w] = slots[w]
    BY <1>1, <1>3, <2>1
  <2> QED BY <2>2 DEF Inv, RoleInv, ManagedSlotIsOne
<1>6. NewestIsActive' /\ PausedIsQuiet' /\ RunFits'
  BY <1>2 DEF Inv, RoleInv, NewestIsActive, PausedIsQuiet, Paused, RunFits, NoRun
<1>7. TransferInv'
  BY <1>2, TransfersStay, SessionsUnchanged DEF Inv
<1> QED BY <1>4, <1>5, <1>6, <1>7 DEF Inv, RoleInv

\* Binds: a participant takes an open slot.
LEMMA BindsTyped ==
  ASSUME TypeInv, ManagedSlotIsOne, NEW w \in DOMAIN slots, slots[w].state = "OPEN",
         NEW s \in 1 .. MaxSession, Binds(w, s),
         DOMAIN sessions \subseteq DOMAIN sessions', s \in DOMAIN sessions'
  PROVE  /\ slots' \in Seq(Slot) /\ members' \in Seq(Membership)
         /\ \A m \in DOMAIN members' : /\ members'[m].slot \in DOMAIN slots'
                                       /\ members'[m].session \in DOMAIN sessions'
         /\ ManagedSlotIsOne'
<1> DEFINE row == [slots[w] EXCEPT !.state = "BOUND", !.session = s]
           bound == [slot |-> w, session |-> s, state |-> "ACTIVE"]
<1>1. slots[w] \in Slot /\ w \in Nat
  BY RowTypes
<1>2. row \in Slot /\ row.kind = slots[w].kind /\ bound \in Membership
      /\ bound.slot = w /\ bound.session = s
  <2>1. s \in 0 .. MaxSession /\ s \in Nat
    OBVIOUS
  <2>2. row \in Slot /\ row.kind = slots[w].kind
    BY <1>1, <2>1 DEF Slot
  <2>3. bound \in Membership /\ bound.slot = w /\ bound.session = s
    BY <1>1, <2>1 DEF Membership
  <2> QED BY <2>2, <2>3
<1>3. /\ slots' = [slots EXCEPT ![w] = row] /\ slots \in Seq(Slot)
      /\ members' = Append(members, bound) /\ members \in Seq(Membership)
  BY DEF Binds, TypeInv
<1> HIDE DEF row, bound
<1>4. /\ slots' \in Seq(Slot) /\ DOMAIN slots' = DOMAIN slots /\ slots'[w] = row
      /\ \A v \in DOMAIN slots : v # w => slots'[v] = slots[v]
  BY <1>2, <1>3, RowReplaced
<1>5. /\ members' \in Seq(Membership)
      /\ \A m \in DOMAIN members' : /\ members'[m].slot \in DOMAIN slots'
                                    /\ members'[m].session \in DOMAIN sessions'
  BY <1>2, <1>3, <1>4, MembersTyped
<1>6. ManagedSlotIsOne'
  <2>1. \A v \in DOMAIN slots' :
          /\ slots'[v].kind = slots[v].kind
          /\ slots'[v].state # "CLOSED" => slots[v].state # "CLOSED"
    BY <1>2, <1>4
  <2> QED BY <1>4, <2>1 DEF ManagedSlotIsOne
<1> QED BY <1>4, <1>5, <1>6

\* Joins: nobody takes the place of a session something runs in.
LEMMA JoinsKeeps ==
  ASSUME Inv, NEW w \in DOMAIN slots, Joins(w)
  PROVE  Inv'
<1> DEFINE s == SessionFor(w)
           new == Len(sessions) + 1
<1>1. /\ slots[w].state = "OPEN"
      /\ UNCHANGED <<binding, boot, run, ops, core, job, seed, boundVars>>
  BY DEF Joins
<1>2. CASE IsActive(s) /\ Binds(w, s) /\ UNCHANGED <<sessions, activation, tasks>>
  <2>1. s \in DOMAIN sessions /\ s \in 1 .. MaxSession
    BY <1>2, RowTypes DEF IsActive, Inv
  <2> HIDE DEF s
  <2>2. /\ slots' \in Seq(Slot) /\ members' \in Seq(Membership)
        /\ \A m \in DOMAIN members' : /\ members'[m].slot \in DOMAIN slots'
                                      /\ members'[m].session \in DOMAIN sessions'
        /\ ManagedSlotIsOne'
    BY <1>1, <1>2, <2>1, BindsTyped DEF Inv, RoleInv
  <2>3. TypeInv'
    BY <1>1, <1>2, <2>2 DEF Inv, TypeInv
  <2>4. NewestIsActive' /\ PausedIsQuiet' /\ RunFits'
    BY <1>1, <1>2 DEF Inv, RoleInv, NewestIsActive, PausedIsQuiet, Paused, RunFits, NoRun
  <2>5. TransferInv'
    BY <1>1, <1>2, TransfersStay, SessionsUnchanged DEF Inv
  <2> QED BY <2>2, <2>3, <2>4, <2>5 DEF Inv, RoleInv
<1>3. CASE OpensSession(new) /\ Binds(w, new)
  <2>1. /\ Len(sessions) < MaxSession /\ (Active # 0 => Drained(Active))
        /\ sessions' = Append(Archived(Active), NewSession(binding.harness, "none"))
        /\ EndsActivation(Active)
        /\ tasks' = [t \in DOMAIN tasks |->
                       IF tasks[t].session = 0 /\ tasks[t].state = "QUEUED"
                       THEN [tasks[t] EXCEPT !.session = new] ELSE tasks[t]]
    BY <1>3 DEF OpensSession, Room
  <2>2. binding.harness \in Harness
    BY DEF Inv, TypeInv
  <2>3. /\ sessions' \in Seq(Session) /\ Len(sessions') = Len(sessions) + 1
        /\ Len(sessions') \in 1 .. MaxSession /\ SessionsStay /\ NewestIsActive'
        /\ new \in DOMAIN sessions'
    BY <2>1, <2>2, SessionSucceeds DEF Inv, RoleInv
  <2>4. new \in 1 .. MaxSession /\ DOMAIN sessions \subseteq DOMAIN sessions'
    BY <2>3 DEF SessionsStay
  <2>5. /\ slots' \in Seq(Slot) /\ members' \in Seq(Membership)
        /\ \A m \in DOMAIN members' : /\ members'[m].slot \in DOMAIN slots'
                                      /\ members'[m].session \in DOMAIN sessions'
        /\ ManagedSlotIsOne'
    BY <1>1, <1>3, <2>3, <2>4, BindsTyped DEF Inv, RoleInv
  <2>6. tasks' \in Seq(TaskRow) /\ Len(tasks') = Len(tasks)
    <3>1. ASSUME NEW t \in DOMAIN tasks
          PROVE  tasks'[t] \in TaskRow
      <4>1. tasks[t] \in TaskRow /\ new \in 0 .. MaxSession
        BY <2>4, RowTypes DEF Inv
      <4>2. tasks'[t] = IF tasks[t].session = 0 /\ tasks[t].state = "QUEUED"
                        THEN [tasks[t] EXCEPT !.session = new] ELSE tasks[t]
        BY <2>1
      <4> QED BY <4>1, <4>2 DEF TaskRow
    <3>2. tasks' \in [DOMAIN tasks -> TaskRow]
      BY <2>1, <3>1
    <3>3. tasks \in Seq(TaskRow)
      BY DEF Inv, TypeInv
    <3> QED BY <3>2, <3>3, RowsMapped
  <2>7. activation' \in [session : 0 .. MaxSession, epoch : Nat]
    BY <2>1 DEF EndsActivation, Inv, TypeInv
  <2>8. TypeInv'
    BY <1>1, <2>3, <2>5, <2>6, <2>7 DEF Inv, TypeInv
  <2>9. ~run.live
    <3>1. ASSUME run.live
          PROVE  FALSE
      <4>1. IsActive(run.session)
        BY <3>1 DEF IsActive, Inv, RoleInv, RunFits
      <4>2. run.session = Active /\ Active # 0
        BY <4>1, ActiveSession, RowTypes DEF Inv, RoleInv, IsActive
      <4>3. run # NoRun
        BY <3>1 DEF NoRun
      <4> QED BY <2>1, <4>2, <4>3 DEF Drained
    <3> QED BY <3>1
  <2>10. PausedIsQuiet' /\ RunFits'
    BY <1>1, <2>9 DEF Inv, RoleInv, PausedIsQuiet, Paused, RunFits, NoRun
  <2>11. TransferInv'
    BY <1>1, <2>3, TransfersStay DEF Inv
  <2> QED BY <2>3, <2>5, <2>8, <2>10, <2>11 DEF Inv, RoleInv
<1> QED BY <1>2, <1>3 DEF Joins

\* Leaves: the session that goes with the slot is not the one of the run.
LEMMA LeavesKeeps ==
  ASSUME Inv, NEW w \in DOMAIN slots, Leaves(w)
  PROVE  Inv'
<1> DEFINE s == slots[w].session
           row == [slots[w] EXCEPT !.state = "CLOSED"]
<1>1. /\ s # 0 => Drained(s)
      /\ sessions' = Archived(s)
      /\ IF s = 0 THEN activation' = activation ELSE EndsActivation(s)
      /\ slots' = [slots EXCEPT ![w] = row] /\ slots \in Seq(Slot)
      /\ members' = [m \in DOMAIN members |-> IF members[m].slot = w
                       THEN [members[m] EXCEPT !.state = "ENDED"] ELSE members[m]]
      /\ UNCHANGED <<binding, boot, tasks, run, ops, core, job, seed, boundVars>>
  BY DEF Leaves, Inv, TypeInv
<1>2. slots[w] \in Slot
  BY RowTypes DEF Inv
<1>3. row \in Slot /\ row.state = "CLOSED"
  BY <1>2 DEF Slot
<1> HIDE DEF row, s
<1>4. /\ slots' \in Seq(Slot) /\ DOMAIN slots' = DOMAIN slots /\ slots'[w] = row
      /\ \A v \in DOMAIN slots : v # w => slots'[v] = slots[v]
  BY <1>1, <1>3, RowReplaced
<1>5. /\ sessions' \in Seq(Session) /\ Len(sessions') = Len(sessions)
      /\ DOMAIN sessions' = DOMAIN sessions
      /\ \A t \in DOMAIN sessions :
           /\ sessions'[t].harness = sessions[t].harness
           /\ sessions'[t].turns = sessions[t].turns
           /\ sessions'[t].state = IF t = s THEN "ARCHIVED" ELSE sessions[t].state
  BY <1>1, ArchivedSession DEF Inv
<1>6. SessionsStay
  BY <1>5 DEF SessionsStay
<1>7. /\ members' \in Seq(Membership) /\ DOMAIN members' = DOMAIN members
      /\ \A m \in DOMAIN members : /\ members'[m].slot = members[m].slot
                                   /\ members'[m].session = members[m].session
  <2>1. \A m \in DOMAIN members : members[m] \in Membership
    BY RowTypes DEF Inv
  <2>2. \A m \in DOMAIN members : /\ members'[m] \in Membership
                                  /\ members'[m].slot = members[m].slot
                                  /\ members'[m].session = members[m].session
    BY <1>1, <2>1 DEF Membership
  <2>3. members' \in [DOMAIN members -> Membership] /\ members \in Seq(Membership)
    BY <1>1, <2>2 DEF Inv, TypeInv
  <2> QED BY <2>2, <2>3, RowsMapped
<1>8. activation' \in [session : 0 .. MaxSession, epoch : Nat]
  <2>1. activation \in [session : 0 .. MaxSession, epoch : Nat]
    BY DEF Inv, TypeInv
  <2>2. [session |-> 0, epoch |-> 0] \in [session : 0 .. MaxSession, epoch : Nat]
    OBVIOUS
  <2>3. activation' = activation \/ activation' = [session |-> 0, epoch |-> 0]
    BY <1>1 DEF EndsActivation
  <2> QED BY <2>1, <2>2, <2>3
<1>9. TypeInv'
  <2>1. \A m \in DOMAIN members' : /\ members'[m].slot \in DOMAIN slots'
                                   /\ members'[m].session \in DOMAIN sessions'
    BY <1>4, <1>5, <1>7 DEF Inv, TypeInv
  <2> QED BY <1>1, <1>4, <1>5, <1>7, <1>8, <2>1 DEF Inv, TypeInv
<1>10. ManagedSlotIsOne' /\ NewestIsActive'
  <2>1. \A v \in DOMAIN slots' : slots'[v].state # "CLOSED" => slots'[v] = slots[v]
    BY <1>3, <1>4
  <2>2. ManagedSlotIsOne'
    BY <1>4, <2>1 DEF Inv, RoleInv, ManagedSlotIsOne
  <2>3. NewestIsActive'
    BY <1>5 DEF Inv, RoleInv, NewestIsActive
  <2> QED BY <2>2, <2>3
<1>11. PausedIsQuiet'
  BY <1>1 DEF Inv, RoleInv, PausedIsQuiet, Paused, NoRun
<1>12. RunFits'
  <2>1. ASSUME run.live
        PROVE  run.session # s /\ activation' = activation
    <3>1. /\ run # NoRun /\ run.session \in DOMAIN sessions
          /\ activation = [session |-> run.session, epoch |-> run.epoch]
      BY <2>1 DEF Inv, RoleInv, RunFits, NoRun
    <3>2. run.session # 0
      BY <3>1, RowTypes DEF Inv
    <3>3. run.session # s
      BY <1>1, <3>1, <3>2 DEF Drained
    <3> QED BY <1>1, <3>1, <3>3 DEF EndsActivation
  <2> QED BY <1>1, <1>5, <2>1 DEF Inv, RoleInv, RunFits
<1>13. TransferInv'
  BY <1>1, <1>6, TransfersStay DEF Inv
<1> QED BY <1>9, <1>10, <1>11, <1>12, <1>13 DEF Inv, RoleInv

-----------------------------------------------------------------------------
(* Crash and restart.                                                        *)

\* An operation whose job is forgotten or taken up again from the start.
LEMMA JobForgotten ==
  ASSUME NEW p, NEW w, NEW v, NEW e, OpFits(p, w, e),
         v = "idle" \/ (v = "queued" /\ p.state \in Unsettled)
  PROVE  OpFits(p, v, e)
BY DEF OpFits

\* Transfers after all jobs were forgotten, or those not settled were taken up.
LEMMA JobsReset ==
  ASSUME Inv, UNCHANGED <<sessions, ops, seed>>,
         job' = [o \in Ops |-> "idle"]
         \/ job' = [o \in Ops |-> IF o \in DOMAIN ops /\ ops[o].state \in Unsettled
                                  THEN "queued" ELSE "idle"]
  PROVE  TransferInv' /\ job' \in [Ops -> Jobs]
<1>1. \A o \in Ops :
        \/ job'[o] = "idle"
        \/ /\ job'[o] = "queued" /\ o \in DOMAIN ops
           /\ ops[o].state \in Unsettled
  <2>1. CASE job' = [o \in Ops |-> "idle"]
    BY <2>1
  <2>2. CASE job' = [o \in Ops |-> IF o \in DOMAIN ops /\ ops[o].state \in Unsettled
                                   THEN "queued" ELSE "idle"]
    <3>1. ASSUME NEW o \in Ops
          PROVE  job'[o] = IF o \in DOMAIN ops /\ ops[o].state \in Unsettled
                           THEN "queued" ELSE "idle"
      BY <2>2
    <3> QED BY <3>1
  <2> QED BY <2>1, <2>2
<1>2. job' \in [Ops -> Jobs]
  BY <1>1 DEF Jobs
<1>3. ASSUME NEW o \in Ops, o \in DOMAIN ops'
      PROVE  OpFits(ops[o], job[o], seed[o])'
  <2>1. OpFits(ops[o], job[o], seed[o])
    BY <1>3 DEF Inv, TransferInv
  <2>2. OpFits(ops[o], job'[o], seed[o])
    BY <1>1, <2>1, JobForgotten
  <2> QED BY <2>2 DEF OpFits
<1>4. ASSUME NEW o \in Ops, o \notin DOMAIN ops'
      PROVE  job'[o] = "idle" /\ ~seed'[o].flying /\ seed'[o].taken = 0
  BY <1>1, <1>4 DEF Inv, TransferInv
<1> QED BY <1>2, <1>3, <1>4 DEF TransferInv

\* Crash: nothing is live after it.
LEMMA CrashKeeps ==
  ASSUME Inv, Crash
  PROVE  Inv'
<1>1. /\ crashes < MaxCrash /\ crashes' = crashes + 1 /\ core' = "down"
      /\ job' = [o \in Ops |-> "idle"] /\ run' = [run EXCEPT !.live = FALSE]
      /\ tasks' = IF run.live THEN [tasks EXCEPT ![run.task].state = "NEEDS_ATTENTION"]
                  ELSE tasks
      /\ boot' = IF boot = "DELIVERING" THEN "UNKNOWN" ELSE boot
      /\ UNCHANGED <<binding, sessions, activation, joinVars, ops, seed, troubles>>
  BY DEF Crash
<1>2. tasks' \in Seq(TaskRow) /\ Len(tasks') <= MaxTask
  <2>1. tasks \in Seq(TaskRow) /\ Len(tasks) <= MaxTask
    BY DEF Inv, TypeInv
  <2>2. CASE run.live
    <3> DEFINE row == [tasks[run.task] EXCEPT !.state = "NEEDS_ATTENTION"]
    <3>1. run.task \in DOMAIN tasks
      BY <2>2 DEF Inv, RoleInv, RunFits
    <3>2. tasks[run.task] \in TaskRow
      BY <3>1, RowTypes DEF Inv
    <3>3. row \in TaskRow
      BY <3>2 DEF TaskRow
    <3>4. tasks' = [tasks EXCEPT ![run.task] = row]
      BY <1>1, <2>2
    <3> HIDE DEF row
    <3> QED BY <2>1, <3>1, <3>3, <3>4, RowReplaced
  <2>3. CASE ~run.live
    BY <1>1, <2>1, <2>3
  <2> QED BY <2>2, <2>3
<1>3. /\ run' \in [task : 0 .. MaxTask, session : 0 .. MaxSession, epoch : Nat, live : BOOLEAN]
      /\ ~run'.live /\ (run = NoRun => run' = NoRun)
  <2>1. run \in [task : 0 .. MaxTask, session : 0 .. MaxSession, epoch : Nat, live : BOOLEAN]
    BY DEF Inv, TypeInv
  <2>2. run' = [run EXCEPT !.live = FALSE]
    BY <1>1
  <2>3. run = NoRun => run' = NoRun
    <3>1. ASSUME run = NoRun
          PROVE  run'.task = 0 /\ run'.session = 0 /\ run'.epoch = 0 /\ run'.live = FALSE
      BY <2>1, <2>2, <3>1 DEF NoRun
    <3>2. run' \in [task : 0 .. MaxTask, session : 0 .. MaxSession, epoch : Nat,
                    live : BOOLEAN]
      BY <2>1, <2>2
    <3> QED BY <3>1, <3>2 DEF NoRun
  <2>4. run' \in [task : 0 .. MaxTask, session : 0 .. MaxSession, epoch : Nat, live : BOOLEAN]
    BY <2>1, <2>2
  <2>5. ~run'.live
    BY <2>1, <2>2
  <2> QED BY <2>3, <2>4, <2>5
<1>4. crashes' \in 0 .. MaxCrash
  <2>1. crashes \in 0 .. MaxCrash
    BY DEF Inv, TypeInv
  <2>2. \A n \in 0 .. MaxCrash : n < MaxCrash => n + 1 \in 0 .. MaxCrash
    OBVIOUS
  <2> QED BY <1>1, <2>1, <2>2
<1>5. boot' \in {"PENDING", "DELIVERING", "DELIVERED", "FAILED", "UNKNOWN"}
  BY <1>1 DEF Inv, TypeInv
<1>6. TransferInv' /\ job' \in [Ops -> Jobs]
  BY <1>1, JobsReset
<1>7. TypeInv'
  BY <1>1, <1>2, <1>3, <1>4, <1>5, <1>6 DEF Inv, TypeInv
<1>8. ManagedSlotIsOne' /\ NewestIsActive'
  BY <1>1 DEF Inv, RoleInv, ManagedSlotIsOne, NewestIsActive
<1>9. PausedIsQuiet'
  BY <1>1, <1>3 DEF Inv, RoleInv, PausedIsQuiet, Paused, NoRun
<1>10. RunFits'
  BY <1>3 DEF RunFits
<1> QED BY <1>6, <1>7, <1>8, <1>9, <1>10 DEF Inv, RoleInv

\* Restart: every operation that is not settled has a job again.
LEMMA RestartKeeps ==
  ASSUME Inv, Restart
  PROVE  Inv'
<1>1. /\ core' = "up"
      /\ job' = [o \in Ops |-> IF o \in DOMAIN ops /\ ops[o].state \in Unsettled
                               THEN "queued" ELSE "idle"]
      /\ UNCHANGED <<roleVars, joinVars, sessions, ops, seed, boundVars>>
  BY DEF Restart
<1>2. TransferInv' /\ job' \in [Ops -> Jobs]
  BY <1>1, JobsReset
<1>3. TypeInv'
  BY <1>1, <1>2 DEF Inv, TypeInv
<1>4. Paused' => run = NoRun
  BY <1>1 DEF Inv, RoleInv, PausedIsQuiet, Paused
<1>5. RoleInv'
  BY <1>1, <1>4, RoleStays DEF Inv
<1> QED BY <1>2, <1>3, <1>5 DEF Inv

-----------------------------------------------------------------------------
(* The invariant and what it says.                                           *)

\* The first state.
LEMMA InvInit == Init => Inv
<1> SUFFICES ASSUME Init PROVE Inv
  OBVIOUS
<1> DEFINE first == [harness |-> First, state |-> "ACTIVE", ref |-> "none", turns |-> 0]
<1>1. first \in Session
  BY DEF Session
<1>2. sessions = <<first>> /\ tasks = <<>> /\ slots = <<>> /\ members = <<>> /\ ops = <<>>
  BY DEF Init
<1> HIDE DEF first
<1>3. sessions \in Seq(Session) /\ Len(sessions) = 1 /\ DOMAIN sessions = 1 .. 1
  BY <1>1, <1>2
<1>4. /\ tasks \in Seq(TaskRow) /\ Len(tasks) = 0
      /\ ops \in Seq(Transfer) /\ Len(ops) = 0
      /\ slots \in Seq(Slot) /\ members \in Seq(Membership)
      /\ DOMAIN slots = {} /\ DOMAIN members = {} /\ DOMAIN ops = {}
  BY <1>2
<1>5. job \in [Ops -> Jobs] /\ \A o \in Ops : job[o] = "idle"
  BY DEF Init, Jobs
<1>6. seed \in [Ops -> Seed] /\ \A o \in Ops : ~seed[o].flying /\ seed[o].taken = 0
  BY DEF Init, Seed
<1>7. run \in [task : 0 .. MaxTask, session : 0 .. MaxSession, epoch : Nat, live : BOOLEAN]
      /\ ~run.live /\ run = NoRun
  BY DEF Init, NoRun
<1>8. TypeInv
  <2>1. Len(sessions) \in 1 .. MaxSession /\ Len(tasks) <= MaxTask /\ Len(ops) <= MaxOp
    BY <1>3, <1>4
  <2> QED BY <1>3, <1>4, <1>5, <1>6, <1>7, <2>1 DEF Init, TypeInv
<1>9. RoleInv
  <2>1. ManagedSlotIsOne /\ PausedIsQuiet /\ RunFits
    BY <1>4, <1>7 DEF ManagedSlotIsOne, PausedIsQuiet, RunFits
  <2>2. NewestIsActive
    BY <1>3 DEF NewestIsActive
  <2> QED BY <2>1, <2>2 DEF RoleInv
<1>10. TransferInv
  BY <1>4, <1>5, <1>6 DEF TransferInv
<1> QED BY <1>8, <1>9, <1>10 DEF Inv

\* Every step keeps the invariant.
LEMMA InvNext == Inv /\ [Next]_vars => Inv'
<1> SUFFICES ASSUME Inv, [Next]_vars PROVE Inv'
  OBVIOUS
<1>1. CASE UNCHANGED vars
  <2>1. TypeInv'
    BY <1>1 DEF vars, Inv, TypeInv
  <2>2. Paused' => run = NoRun
    BY <1>1 DEF vars, Inv, RoleInv, PausedIsQuiet, Paused
  <2>3. RoleInv'
    BY <1>1, <2>2, RoleStays DEF vars, Inv
  <2>4. TransferInv'
    BY <1>1, TransfersStay, SessionsUnchanged DEF vars, Inv
  <2> QED BY <2>1, <2>3, <2>4 DEF Inv
<1>2. CASE Submits \/ Initialises \/ InitialisationEnds \/ SavesSession \/ RunEnds
           \/ Crash \/ Restart
  BY <1>2, SubmitsKeeps, InitialisesKeeps, SavesSessionKeeps, RunEndsKeeps, CrashKeeps,
     RestartKeeps
<1>3. CASE \E t \in DOMAIN tasks : Cancels(t) \/ Dispatch(t)
  BY <1>3, CancelsKeeps, DispatchKeeps
<1>4. CASE \E h \in Harness : CharterUpdates(h) \/ CreatesBlank(h) \/ CreatesInherit(h)
  BY <1>4, CharterUpdatesKeeps, CreatesBlankKeeps, CreatesInheritKeeps
<1>5. CASE \E s \in DOMAIN sessions : Switches(s)
  BY <1>5, SwitchesKeeps
<1>6. CASE \E s \in 0 .. MaxSession : CreatesSlot(s)
  BY <1>6, CreatesSlotKeeps
<1>7. CASE \E w \in DOMAIN slots : Joins(w) \/ Leaves(w)
  BY <1>7, JoinsKeeps, LeavesKeeps
<1>8. CASE \E o \in Ops : EngineStep(o) \/ TakesIn(o)
  BY <1>8, EngineKeeps
<1> QED BY <1>1, <1>2, <1>3, <1>4, <1>5, <1>6, <1>7, <1>8 DEF Next

\* The invariant holds in every state of every behaviour.
THEOREM SessionsKeepInv == Spec => []Inv
BY InvInit, InvNext, PTL DEF Spec

\* The tables have the types the schema gives them, and refer to rows there are
\* (role_sessions, context_transfer_ops, work_session_slots, participant_bindings).
THEOREM SessionTypes == Spec => []TypeOK
<1>1. Inv => TypeOK
  <2> SUFFICES ASSUME Inv PROVE TypeOK
    OBVIOUS
  <2>1. /\ \A s \in DOMAIN sessions : sessions[s] \in Session
        /\ \A t \in DOMAIN tasks : tasks[t] \in TaskRow
        /\ \A w \in DOMAIN slots : slots[w] \in Slot
        /\ \A m \in DOMAIN members : members[m] \in Membership
        /\ \A o \in DOMAIN ops : ops[o] \in Transfer
    BY RowTypes DEF Inv
  <2>2. \A m \in DOMAIN members :
          members[m] \in [slot : DOMAIN slots, session : DOMAIN sessions,
                          state : {"ACTIVE", "ENDED"}]
    <3>1. \A m \in DOMAIN members : /\ members[m].slot \in DOMAIN slots
                                    /\ members[m].session \in DOMAIN sessions
      BY DEF Inv, TypeInv
    <3> QED BY <2>1, <3>1 DEF Membership
  <2> QED BY <2>1, <2>2 DEF TypeOK, Inv, TypeInv, Session, TaskRow, Slot, Transfer, Jobs, Seed
<1> QED BY <1>1, SessionsKeepInv, PTL

\* The session, the activation and the binding of a live run stay in place,
\* whatever is created, switched to, joined, left, updated or committed meanwhile
\* (safeToSwitch, roleCharter.update, commitTransfer, tick).
THEOREM RunsKeepTheirSession == Spec => []RunKeepsItsSession
<1>1. Inv => RunKeepsItsSession
  BY DEF Inv, RoleInv, RunFits, RunKeepsItsSession
<1> QED BY <1>1, SessionsKeepInv, PTL

\* No run ends in the source of a transfer after the source was read, over any
\* number of retries, crashes and restarts.
THEOREM TransfersForgetNothing == Spec => []NothingIsForgotten
<1>1. Inv => NothingIsForgotten
  <2> SUFFICES ASSUME Inv, NEW o \in DOMAIN ops, ops[o].state = "COMMITTED"
               PROVE  ops[o].seen = sessions[ops[o].from].turns
    BY DEF NothingIsForgotten
  <2>1. OpFits(ops[o], job[o], seed[o])
    BY RowTypes DEF Inv, TransferInv
  <2> QED BY <2>1 DEF OpFits
<1> QED BY <1>1, SessionsKeepInv, PTL

\* A target is fed at most once: once sending is recorded every retry and every
\* restart only reads (run, settleSeeded, recordInputDispatch).
THEOREM TargetsAreFedOnce == Spec => []SeededAtMostOnce
<1>1. Inv => SeededAtMostOnce
  <2> SUFFICES ASSUME Inv, NEW o \in Ops PROVE seed[o].taken <= 1
    BY DEF SeededAtMostOnce
  <2>1. CASE o \in DOMAIN ops
    BY <2>1 DEF Inv, TransferInv, OpFits
  <2>2. CASE o \notin DOMAIN ops
    BY <2>2 DEF Inv, TransferInv
  <2> QED BY <2>1, <2>2
<1> QED BY <1>1, SessionsKeepInv, PTL

\* A session becomes the active one by a transfer only if it holds what the
\* transfer was to bring (settleSeeded, commitTransfer).
THEOREM CommittedTargetsAreFed == Spec => []CommittedIsSeeded
<1>1. Inv => CommittedIsSeeded
  <2> SUFFICES ASSUME Inv, NEW o \in DOMAIN ops, ops[o].state = "COMMITTED"
               PROVE  seed[o].taken > 0
    BY DEF CommittedIsSeeded
  <2>1. OpFits(ops[o], job[o], seed[o])
    BY RowTypes DEF Inv, TransferInv
  <2> QED BY <2>1 DEF OpFits
<1> QED BY <1>1, SessionsKeepInv, PTL
=============================================================================
