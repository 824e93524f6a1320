------------------------------- MODULE Commands -------------------------------
(***************************************************************************)
(* How a client changes the Core: connections, the control lease, the       *)
(* command ledger and participant grants of                                 *)
(* packages/core-service/application.ts, external API calls with their      *)
(* journal (packages/storage/external-api-journal.ts,                       *)
(* packages/management-gateway/external-api-registry.ts), and the client    *)
(* side of packages/management-gateway/index.ts over one pipe.              *)
(*                                                                          *)
(* The lease, the replies to control requests and the attachments live in   *)
(* the memory of the Core; the revision, the ledger, the journal and the    *)
(* grants are in its database.  Frames of a connection are handled one      *)
(* after the other, and the next waits while an external call runs.  A      *)
(* client has one request under way and may give up on it; a late reply is  *)
(* ignored, and it may send the same request again, on any connection.  A   *)
(* reply is read when the frame is handled, unless the client has given up  *)
(* or gone before: until then it sends nothing, so that a reply that gets   *)
(* lost on its way shows nothing more.                                      *)
(*                                                                          *)
(* A ledger entry stands for the hash of a request: of what it hashes only  *)
(* the expected revision can differ between two sendings of an operation.   *)
(*                                                                          *)
(* Definitions whose name ends in _bug are not part of the model: each is   *)
(* the definition that follows it with a plausible mistake in it.           *)
(***************************************************************************)
EXTENDS Naturals, Sequences, FiniteSets

CONSTANTS
  Client,    \* clients, each with one connection at a time
  Gateway,   \* those that control the Core; the others take part in a chat
  Op,        \* operations, each with an operation id its author keeps
  AuthorOf,  \* the client an operation belongs to
  KindOf,    \* "write", "input" (conversation.sendUserInput) or "call"
  None,      \* no value
  LeaseTime, \* clock steps a lease lasts (30 s)
  MaxRenew,  \* renewals of a gateway for one acquisition (30)
  MaxConn,   \* bound: connections
  MaxSend,   \* bound: requests of each client, renewals apart
  MaxTrouble,\* bound: storage failures, connections and replies lost
  MaxCrash   \* bound: crashes

ASSUME CommandsAssumption ==
  /\ AuthorOf \in [Op -> Client]
  /\ KindOf \in [Op -> {"write", "input", "call"}]
  /\ Gateway \subseteq Client
  /\ None \notin Client \cup Op
  /\ LeaseTime \in Nat \ {0}
  /\ MaxSend \in [Client -> Nat]
  /\ {MaxRenew, MaxConn, MaxTrouble, MaxCrash} \subseteq Nat

Conn == 1 .. MaxConn

\* Operation ids of requests without an op, new with each request of a client.
Ids == UNION {1 .. MaxSend[c] : c \in Client}

VARIABLES
  revision,   \* app_meta.revision
  ledger,     \* the expected revision of each recorded operation, or None
  journal,    \* external_api_calls.state
  grant,      \* generation of the newest grant and whether it is ACTIVE
  core,       \* "up" or "down"
  open,       \* the client of each connection of the Core
  lease,      \* holder, id and time left of the control lease, or None
  control,    \* the control ledger: replies to control requests by connection
  attach,     \* the participant attachment of the role
  running,    \* the call a connection waits for and whether it took effect
  conn,       \* the connection a client uses, 0 when it has none
  believed,   \* the lease id a gateway holds, 0 when it has none
  renewals,   \* renewals since the lease was acquired
  waiting,    \* the request a client waits for
  lost,       \* the last request it has given up on
  told,       \* what its author was last told of an operation
  pipe,       \* frames of a connection that are not handled yet
  applied,    \* how often an operation has taken effect
  sent,       \* requests of each client so far
  conns,      \* connections so far
  troubles,   \* storage failures, lost connections and replies so far
  crashes     \* crashes so far

tableVars  == <<revision, ledger, journal, grant>>
memoryVars == <<open, lease, control, attach, running>>
clientVars == <<conn, believed, renewals, waiting, lost, told>>
readVars   == <<believed, renewals, waiting, told>>
boundVars  == <<sent, conns, troubles, crashes>>
vars == <<revision, ledger, journal, grant, core, open, lease, control, attach,
          running, conn, believed, renewals, waiting, lost, told, pipe,
          applied, sent, conns, troubles, crashes>>

\* n is the operation id of a request without an op.  exp is the expected
\* revision; of an attachment it is the generation of the grant.
Requests == [what : {"acquire", "renew", "release", "issue", "revoke", "attach",
                     "run"},
             op : Op \cup {None}, n : {0} \cup Ids,
             exp : Nat, lease : {0} \cup Ids]

ASSUME NoneAssumption == None \notin Nat \cup Requests

Init ==
  /\ revision = 0
  /\ ledger = [o \in Op |-> None]
  /\ journal = [o \in Op |-> "none"]
  /\ grant = [generation |-> 0, active |-> FALSE]
  /\ core = "up"
  /\ open = [k \in Conn |-> None]
  /\ lease = None
  /\ control = {}
  /\ attach = None
  /\ running = [k \in Conn |-> None]
  /\ conn = [c \in Client |-> 0]
  /\ believed = [c \in Client |-> 0]
  /\ renewals = [c \in Client |-> 0]
  /\ waiting = [c \in Client |-> None]
  /\ lost = [c \in Client |-> None]
  /\ told = [o \in Op |-> "nothing"]
  /\ pipe = [k \in Conn |-> <<>>]
  /\ applied = [o \in Op |-> 0]
  /\ sent = [c \in Client |-> 0]
  /\ conns = 0
  /\ troubles = 0
  /\ crashes = 0

-----------------------------------------------------------------------------
(* The client: a gateway, its lease and its one request under way.           *)

Sends(c, r) ==
  /\ conn[c] # 0 /\ waiting[c] = None
  /\ waiting' = [waiting EXCEPT ![c] = r]
  /\ pipe' = [pipe EXCEPT ![conn[c]] = Append(@, r)]

\* A new request with the revision the client reads now.
NewRequest(c, what, op, exp) ==
  [what |-> what, op |-> op, n |-> IF op = None THEN sent[c] + 1 ELSE 0,
   exp |-> exp, lease |-> believed[c]]

Counted(c) == sent[c] < MaxSend[c] /\ sent' = [sent EXCEPT ![c] = @ + 1]

Trouble == troubles < MaxTrouble /\ troubles' = troubles + 1

Connect(c) ==
  /\ core = "up" /\ conn[c] = 0 /\ conns < MaxConn
  /\ conns' = conns + 1
  /\ conn' = [conn EXCEPT ![c] = conns + 1]
  /\ open' = [open EXCEPT ![conns + 1] = c]
  /\ UNCHANGED <<tableVars, core, lease, control, attach, running, believed, renewals,
                 waiting, lost, told, pipe, applied, sent, troubles, crashes>>

\* Control requests: a gateway acquires when it has no lease, and needs one for
\* the others.
Controls(c, what) ==
  /\ c \in Gateway
  /\ what = "revoke" => grant.generation > 0
  /\ (what = "acquire") = (believed[c] = 0)
  /\ Counted(c)
  /\ Sends(c, NewRequest(c, what, None, revision))
  /\ UNCHANGED <<tableVars, core, memoryVars, conn, believed, renewals, lost, told,
                 applied, conns, troubles, crashes>>

\* A participant presents the token of a grant it was given.
Attaches(c, generation) ==
  /\ c \notin Gateway
  /\ Counted(c)
  /\ Sends(c, NewRequest(c, "attach", None, generation))
  /\ UNCHANGED <<tableVars, core, memoryVars, conn, believed, renewals, lost, told,
                 applied, conns, troubles, crashes>>

\* An operation is sent with the present revision as the expected one: for the
\* first time, or again by a client that has read the state anew.
Runs(c, o) ==
  /\ AuthorOf[o] = c /\ told[o] # "ok"
  /\ KindOf[o] # "input" => believed[c] # 0
  /\ Counted(c)
  /\ Sends(c, NewRequest(c, "run", o, IF KindOf[o] = "call" THEN 0 ELSE revision))
  /\ told' = [told EXCEPT ![o] = "nothing"]
  /\ UNCHANGED <<tableVars, core, memoryVars, conn, believed, renewals, lost,
                 applied, conns, troubles, crashes>>

\* The request it has given up on is sent again as it was, under the lease the
\* gateway holds now; only a release names the lease it was about.
Retries(c) ==
  /\ lost[c] # None
  /\ Counted(c)
  /\ Sends(c, [lost[c] EXCEPT !.lease = IF lost[c].what = "release" THEN @
                                        ELSE believed[c]])
  /\ lost' = [lost EXCEPT ![c] = None]
  /\ told' = IF lost[c].op = None THEN told
             ELSE [told EXCEPT ![lost[c].op] = "nothing"]
  /\ UNCHANGED <<tableVars, core, memoryVars, conn, believed, renewals,
                 applied, conns, troubles, crashes>>

\* The renewal timer of the gateway, in turn with its other requests.
Renews(c) ==
  /\ believed[c] # 0 /\ renewals[c] < MaxRenew
  /\ renewals' = [renewals EXCEPT ![c] = @ + 1]
  /\ Sends(c, [NewRequest(c, "renew", None, revision) EXCEPT !.n = 0])
  /\ UNCHANGED <<tableVars, core, memoryVars, conn, believed, lost, told,
                 applied, boundVars>>

\* After its last renewal a gateway gives the lease up.
LetsGo(c) ==
  /\ believed[c] # 0 /\ waiting[c] = None /\ renewals[c] = MaxRenew
  /\ believed' = [believed EXCEPT ![c] = 0]
  /\ UNCHANGED <<tableVars, core, memoryVars, conn, renewals, waiting, lost, told,
                 pipe, applied, boundVars>>

\* What the client remembers of a request it no longer waits for.
LostBy(c) == IF waiting[c] = None \/ waiting[c].what = "renew" THEN lost[c]
             ELSE waiting[c]

\* REQUEST_TIMEOUT: the outcome is not known, the connection stays.
GivesUp(c) ==
  /\ waiting[c] # None /\ Trouble
  /\ waiting' = [waiting EXCEPT ![c] = None]
  /\ lost' = [lost EXCEPT ![c] = LostBy(c)]
  /\ believed' = IF waiting[c].what = "renew" THEN [believed EXCEPT ![c] = 0]
                 ELSE believed
  /\ UNCHANGED <<tableVars, core, memoryVars, conn, renewals, told, pipe,
                 applied, sent, conns, crashes>>

Disconnects(c) ==
  /\ conn[c] # 0 /\ Trouble
  /\ conn' = [conn EXCEPT ![c] = 0]
  /\ believed' = [believed EXCEPT ![c] = 0]
  /\ waiting' = [waiting EXCEPT ![c] = None]
  /\ lost' = [lost EXCEPT ![c] = LostBy(c)]
  /\ UNCHANGED <<tableVars, core, memoryVars, renewals, told, pipe, applied,
                 sent, conns, crashes>>

-----------------------------------------------------------------------------
(* The Core handles the next frame of a connection.                          *)

Frame(k) == Head(pipe[k])

Handling(k, whats) ==
  /\ core = "up" /\ open[k] # None /\ pipe[k] # <<>> /\ running[k] = None
  /\ Frame(k).what \in whats

\* Its client still waits for the reply to the frame: it is the last one it sent.
Awaited(k) == /\ conn[open[k]] = k /\ waiting[open[k]] # None
              /\ Len(pipe[k]) = 1

Reads(c, verdict, id) ==
  LET r  == waiting[c]
      ok == verdict = "ok"
  IN  /\ waiting' = [waiting EXCEPT ![c] = None]
      /\ believed' = [believed EXCEPT ![c] =
           IF r.what = "acquire" /\ ok THEN id
           ELSE IF r.what = (IF ok THEN "release" ELSE "renew") THEN 0
           ELSE @]
      /\ renewals' = IF r.what = "acquire" /\ ok
                     THEN [renewals EXCEPT ![c] = 0] ELSE renewals
      /\ told' = IF r.op # None /\ verdict \in {"ok", "revision_conflict"}
                 THEN [told EXCEPT ![r.op] = verdict] ELSE told

\* The frame is done; its reply is read by a client that still waits for it.
Replies(k, verdict, id) ==
  /\ pipe' = [pipe EXCEPT ![k] = Tail(@)]
  /\ IF Awaited(k) THEN Reads(open[k], verdict, id) ELSE UNCHANGED readVars

\* Somebody has the control lease.
Leased == lease # None /\ lease.left > 0

\* checkLease
Holds(k, id) == Leased /\ lease.conn = k /\ lease.id = id

\* The reply the control ledger has for a frame.
Known(k) == {e \in control : e.conn = k /\ e.n = Frame(k).n}

Recorded(k, id) == control' = control \cup {[conn |-> k, n |-> Frame(k).n, id |-> id]}

Acquire(k) ==
  /\ Handling(k, {"acquire"})
  /\ \/ /\ Known(k) # {}
        /\ \E e \in Known(k) : Replies(k, IF Holds(k, e.id) THEN "ok"
                                          ELSE "lease_required", e.id)
        /\ UNCHANGED <<lease, control>>
     \/ /\ Known(k) = {} /\ Frame(k).exp # revision
        /\ Replies(k, "revision_conflict", 0)
        /\ UNCHANGED <<lease, control>>
     \/ /\ Known(k) = {} /\ Frame(k).exp = revision
        /\ Leased
        /\ Replies(k, "busy", 0)
        /\ UNCHANGED <<lease, control>>
     \/ /\ Known(k) = {} /\ Frame(k).exp = revision
        /\ ~Leased
        /\ lease' = [conn |-> k, id |-> Frame(k).n, left |-> LeaseTime]
        /\ Recorded(k, Frame(k).n)
        /\ Replies(k, "ok", Frame(k).n)
  /\ UNCHANGED <<tableVars, core, open, attach, running, conn, lost, applied, boundVars>>

\* The operation ids of renewals are never used twice.
Renew(k) ==
  /\ Handling(k, {"renew"})
  /\ \/ /\ Frame(k).exp # revision
        /\ Replies(k, "revision_conflict", 0)
        /\ lease' = lease
     \/ /\ Frame(k).exp = revision /\ ~Holds(k, Frame(k).lease)
        /\ Replies(k, "lease_required", 0)
        /\ lease' = lease
     \/ /\ Frame(k).exp = revision /\ Holds(k, Frame(k).lease)
        /\ lease' = [lease EXCEPT !.left = LeaseTime]
        /\ Replies(k, "ok", lease.id)
  /\ UNCHANGED <<tableVars, core, open, control, attach, running, conn, lost, applied,
                 boundVars>>

Release(k) ==
  /\ Handling(k, {"release"})
  /\ \/ /\ Known(k) # {}
        /\ Replies(k, "ok", 0)
        /\ UNCHANGED <<lease, control>>
     \/ /\ Known(k) = {} /\ Frame(k).exp # revision
        /\ Replies(k, "revision_conflict", 0)
        /\ UNCHANGED <<lease, control>>
     \/ /\ Known(k) = {} /\ Frame(k).exp = revision /\ ~Holds(k, Frame(k).lease)
        /\ Replies(k, "lease_required", 0)
        /\ UNCHANGED <<lease, control>>
     \/ /\ Known(k) = {} /\ Frame(k).exp = revision /\ Holds(k, Frame(k).lease)
        /\ lease' = None
        /\ Recorded(k, 0)
        /\ Replies(k, "ok", 0)
  /\ UNCHANGED <<tableVars, core, open, attach, running, conn, lost, applied, boundVars>>

\* A grant is issued or revoked by the controller; a new one revokes the last.
Grants(k) ==
  /\ Handling(k, {"issue", "revoke"})
  /\ IF ~Holds(k, Frame(k).lease) \/ (Frame(k).what = "revoke" /\ grant.generation = 0)
     THEN Replies(k, "lease_required", 0) /\ UNCHANGED <<grant, attach>>
     ELSE /\ Replies(k, "ok", 0)
          /\ IF Frame(k).what = "issue"
             THEN /\ grant' = [generation |-> grant.generation + 1, active |-> TRUE]
                  /\ attach' = attach
             ELSE /\ grant' = [grant EXCEPT !.active = FALSE]
                  /\ attach' = IF /\ attach # None
                                  /\ attach.generation = grant.generation
                               THEN None ELSE attach
  /\ UNCHANGED <<revision, ledger, journal, core, open, lease, control, running,
                 conn, lost, applied, boundVars>>

\* The role has one attachment; a new one takes the place of the last.
Attach(k) ==
  /\ Handling(k, {"attach"})
  /\ IF grant.active /\ Frame(k).exp = grant.generation
     THEN /\ attach' = [conn |-> k, generation |-> grant.generation]
          /\ Replies(k, "ok", 0)
     ELSE attach' = attach /\ Replies(k, "grant_revoked", 0)
  /\ UNCHANGED <<tableVars, core, open, lease, control, running, conn, lost, applied,
                 boundVars>>

Attached_bug(k) == attach # None /\ attach.conn = k

\* A participant writes through its attachment and not through the lease.
Attached(k) ==
  /\ attach # None /\ attach.conn = k
  /\ grant.active /\ attach.generation = grant.generation

MayRun(k) == \/ Holds(k, Frame(k).lease)
             \/ KindOf[Frame(k).op] = "input" /\ Attached(k)

Applies(o) == applied' = [applied EXCEPT ![o] = @ + 1]

Write_bug(k) ==
  /\ Handling(k, {"run"}) /\ KindOf[Frame(k).op] # "call"
  /\ LET o == Frame(k).op
         e == Frame(k).exp
     IN  \/ /\ ~MayRun(k)
            /\ Replies(k, "lease_required", 0)
            /\ UNCHANGED <<revision, ledger, applied, troubles>>
         \/ /\ MayRun(k) /\ e # revision
            /\ Replies(k, "revision_conflict", 0)
            /\ UNCHANGED <<revision, ledger, applied, troubles>>
         \/ /\ MayRun(k) /\ e = revision /\ ledger[o] # None
            /\ Replies(k, IF ledger[o] = e THEN "ok" ELSE "operation_conflict", 0)
            /\ UNCHANGED <<revision, ledger, applied, troubles>>
         \/ /\ MayRun(k) /\ e = revision /\ ledger[o] = None
            /\ revision' = revision + 1
            /\ ledger' = [ledger EXCEPT ![o] = e]
            /\ Applies(o)
            /\ Replies(k, "ok", 0)
            /\ troubles' = troubles
  /\ UNCHANGED <<journal, grant, core, memoryVars, conn, lost, sent, conns, crashes>>

\* mutate: the stored reply, or the change, its ledger row and the next revision
\* in one transaction, which fails as a whole.
Write(k) ==
  /\ Handling(k, {"run"}) /\ KindOf[Frame(k).op] # "call"
  /\ LET o == Frame(k).op
         e == Frame(k).exp
     IN  \/ /\ ~MayRun(k)
            /\ Replies(k, "lease_required", 0)
            /\ UNCHANGED <<revision, ledger, applied, troubles>>
         \/ /\ MayRun(k) /\ ledger[o] # None
            /\ Replies(k, IF ledger[o] = e THEN "ok" ELSE "operation_conflict", 0)
            /\ UNCHANGED <<revision, ledger, applied, troubles>>
         \/ /\ MayRun(k) /\ ledger[o] = None /\ e # revision
            /\ Replies(k, "revision_conflict", 0)
            /\ UNCHANGED <<revision, ledger, applied, troubles>>
         \/ /\ MayRun(k) /\ ledger[o] = None /\ e = revision
            /\ revision' = revision + 1
            /\ ledger' = [ledger EXCEPT ![o] = e]
            /\ Applies(o)
            /\ Replies(k, "ok", 0)
            /\ troubles' = troubles
         \/ /\ MayRun(k) /\ ledger[o] = None /\ e = revision
            /\ Trouble
            /\ Replies(k, "error", 0)
            /\ UNCHANGED <<revision, ledger, applied>>
  /\ UNCHANGED <<journal, grant, core, memoryVars, conn, lost, sent, conns, crashes>>

\* An external call: claimed in the journal before it is made.  A claim without
\* a result is never claimed again.
Call(k) ==
  /\ Handling(k, {"run"}) /\ KindOf[Frame(k).op] = "call"
  /\ LET o == Frame(k).op
     IN  \/ /\ ~Holds(k, Frame(k).lease)
            /\ Replies(k, "lease_required", 0)
            /\ UNCHANGED <<journal, running>>
         \/ /\ Holds(k, Frame(k).lease) /\ journal[o] # "none"
            /\ Replies(k, IF journal[o] = "succeeded" THEN "ok" ELSE "unknown", 0)
            /\ UNCHANGED <<journal, running>>
         \/ /\ Holds(k, Frame(k).lease) /\ journal[o] = "none"
            /\ journal' = [journal EXCEPT ![o] = "in_flight"]
            /\ running' = [running EXCEPT ![k] = [op |-> o, done |-> FALSE]]
            /\ UNCHANGED <<pipe, readVars>>
  /\ UNCHANGED <<revision, ledger, grant, core, open, lease, control, attach,
                 conn, lost, applied, boundVars>>

\* The service does what it was asked for.
CallTakesEffect(k) ==
  /\ running[k] # None /\ ~running[k].done
  /\ running' = [running EXCEPT ![k].done = TRUE]
  /\ Applies(running[k].op)
  /\ UNCHANGED <<tableVars, core, open, lease, control, attach, clientVars, pipe,
                 boundVars>>

Settled(k, state) ==
  /\ running' = [running EXCEPT ![k] = None]
  /\ journal' = [journal EXCEPT ![running[k].op] = state]
  /\ IF open[k] = None THEN UNCHANGED <<pipe, readVars>>
     ELSE Replies(k, IF state = "succeeded" THEN "ok" ELSE "unknown", 0)

\* The result is written before it is told.  The service may refuse, its answer
\* may be lost or rejected; if it cannot be written the claim remains.
CallSettles(k) ==
  /\ running[k] # None
  /\ \/ /\ running[k].done
        /\ Settled(k, "succeeded")
        /\ troubles' = troubles
     \/ /\ Settled(k, "unknown")
        /\ troubles' = troubles
     \/ /\ Trouble
        /\ Settled(k, "in_flight")
  /\ UNCHANGED <<revision, ledger, grant, core, open, lease, control, attach,
                 conn, lost, applied, sent, conns, crashes>>

-----------------------------------------------------------------------------
(* The end of a connection, the clock and the process.                       *)

\* disconnect: frames that were not handled are lost with the connection.
Closes(k) ==
  /\ open[k] # None /\ conn[open[k]] # k
  /\ open' = [open EXCEPT ![k] = None]
  /\ pipe' = [pipe EXCEPT ![k] = <<>>]
  /\ lease' = IF lease # None /\ lease.conn = k THEN None ELSE lease
  /\ control' = {e \in control : e.conn # k}
  /\ UNCHANGED <<tableVars, core, attach, running, clientVars, applied,
                 boundVars>>

TimePasses ==
  /\ Leased
  /\ lease' = [lease EXCEPT !.left = @ - 1]
  /\ UNCHANGED <<tableVars, core, open, control, attach, running, clientVars, pipe,
                 applied, boundVars>>

Forgotten ==
  /\ open' = [k \in Conn |-> None]
  /\ lease' = None
  /\ control' = {}
  /\ attach' = None
  /\ running' = [k \in Conn |-> None]
  /\ pipe' = [k \in Conn |-> <<>>]
  /\ conn' = [c \in Client |-> 0]
  /\ believed' = [c \in Client |-> 0]
  /\ waiting' = [c \in Client |-> None]
  /\ lost' = [c \in Client |-> LostBy(c)]

Crash ==
  /\ core = "up" /\ crashes < MaxCrash
  /\ core' = "down"
  /\ crashes' = crashes + 1
  /\ Forgotten
  /\ UNCHANGED <<tableVars, renewals, told, applied, sent, conns, troubles>>

Restart_bug ==
  /\ core = "down"
  /\ core' = "up"
  /\ journal' = [o \in Op |-> IF journal[o] = "in_flight" THEN "none" ELSE journal[o]]
  /\ UNCHANGED <<revision, ledger, grant, memoryVars, clientVars, pipe,
                 applied, boundVars>>

\* Nothing is repeated: a claim that was in flight stays as it is.
Restart ==
  /\ core = "down"
  /\ core' = "up"
  /\ UNCHANGED <<tableVars, memoryVars, clientVars, pipe, applied, boundVars>>

-----------------------------------------------------------------------------
Next ==
  \/ \E c \in Client :
       \/ Connect(c)
       \/ \E what \in {"acquire", "release", "issue", "revoke"} : Controls(c, what)
       \/ \E g \in 1 .. grant.generation : Attaches(c, g)
       \/ \E o \in Op : Runs(c, o)
       \/ Retries(c)
       \/ Renews(c)
       \/ LetsGo(c)
       \/ GivesUp(c)
       \/ Disconnects(c)
  \/ \E k \in Conn :
       \/ Acquire(k)
       \/ Renew(k)
       \/ Release(k)
       \/ Grants(k)
       \/ Attach(k)
       \/ Write(k)
       \/ Call(k)
       \/ CallTakesEffect(k)
       \/ CallSettles(k)
       \/ Closes(k)
  \/ TimePasses
  \/ Crash
  \/ Restart

Spec == Init /\ [][Next]_vars

-----------------------------------------------------------------------------
(* Properties.                                                              *)

\* An operation takes effect at most once, however often it is sent, over lost
\* replies, reconnections, crashes and restarts: the command ledger is written
\* with the change (mutate), and a call is claimed before it is made and never
\* claimed again (createExternalApiJournal).
AppliedOnce == \A o \in Op : applied[o] <= 1

\* What an author is told last is true: success means that the operation has
\* taken effect and is recorded, and a revision conflict that it has not and,
\* unless it is sent again, never will, wherever copies of it still wait.
AnswersAreTrue ==
  \A o \in Op :
    /\ told[o] = "ok" =>
         /\ applied[o] = 1
         /\ ledger[o] # None \/ journal[o] = "succeeded"
    /\ told[o] = "revision_conflict" => applied[o] = 0

\* Whoever takes part in a conversation without the control lease does so by the
\* newest grant of the role: a chat that was replaced or revoked writes nothing,
\* also with frames it sent before (participantValid).
ReplacedParticipantIsSilent ==
  [][\A k \in Conn :
       (\E o \in Op : KindOf[o] = "input" /\ applied'[o] > applied[o]
                      /\ pipe'[k] # pipe[k])
         => \/ Holds(k, Frame(k).lease)
            \/ /\ grant.active
               /\ attach = [conn |-> k, generation |-> grant.generation]]_vars
=============================================================================
