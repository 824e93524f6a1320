------------------------------- MODULE Harness -------------------------------
(***************************************************************************)
(* One prompt given to an external agent: the adapters of packages/adapters *)
(* (codex, kimi and dsh, which speak ACP, pi, zcode), the peers that match  *)
(* requests with replies, harness-drivers.ts, and what the native process   *)
(* backend makes of their events.  A process serves one prompt.             *)
(*                                                                          *)
(* The bytes of the agent arrive in chunks.  The messages of a chunk are    *)
(* handled in one go; what awaits a reply goes on after the whole chunk, so *)
(* that a notification can be handled before the reply that precedes it.    *)
(*                                                                          *)
(* The agent is an external program, modelled from what the adapters expect *)
(* of it.  It may tell of an earlier turn of a session it has resumed, ask  *)
(* for a permission, fail a request, keep silent or die.  The identities of *)
(* threads, sessions and turns are reduced to the turn a message is about:  *)
(* that of the prompt, or an old one.                                       *)
(*                                                                          *)
(* Launch, the host, stop evidence and the epochs are in Execution.         *)
(*                                                                          *)
(* Definitions whose name ends in _bug are not part of the model: each is   *)
(* the definition that follows it with a plausible mistake in it.           *)
(***************************************************************************)
EXTENDS Naturals, Sequences

CONSTANTS
  Kinds,      \* harnesses
  EarlyLimit, \* notifications kept until the prompt is acknowledged
  MaxText,    \* bound: texts the agent writes
  MaxOld      \* bound: messages of an old turn

ASSUME HarnessAssumption ==
  /\ Kinds \subseteq {"codex", "kimi", "dsh", "pi", "zcode"}
  /\ {EarlyLimit, MaxText, MaxOld} \subseteq Nat

VARIABLES
  kind,    \* the harness of the execution
  stage,   \* what the ready chain of the backend is waiting for
  be,      \* the backend: what it has reported, and whether it was cancelled
  ad,      \* the adapter: fields of the lifecycle object, with the turn it has
           \* been told, the early notifications, and whether the peer is closed
  pending, \* requests without a reply
  todo,    \* what goes on after the chunk that is being handled
  reading, \* the chunk may have more messages
  grant,   \* the permission the agent has asked for
  down,    \* requests on their way to the agent
  up,      \* messages on their way from the agent
  ag       \* the agent: its turn and how it ended, whether it owes the reply to
           \* the prompt, what it has written, and whether it was told to stop

coreVars == <<kind, stage, be, ad, pending, todo, reading, grant>>
vars == <<coreVars, down, up, ag>>

Outcome == {"succeeded", "failed", "cancelled"}
Ending  == {"done", "failed", "cut", "cancelled", "odd"}

\* What an adapter reads into the way a turn ended: codexSettled, kimiSettled,
\* PiRunEvents, dsh, zcode.  "cut" is a turn that ran into a limit.
Reading(k) ==
  [e \in Ending \cup {"none"} |->
    IF e = "done" THEN "succeeded"
    ELSE IF e \in {"failed", "cancelled"} THEN e
    ELSE IF k = "kimi" /\ e = "cut" THEN "failed"
    ELSE IF k = "dsh" /\ e # "none" THEN "succeeded" ELSE "none"]

\* What the ready chain asks of the agent, in order, before the prompt.
Preparation ==
  [codex |-> <<"initialize", "open">>,
   kimi  |-> <<"initialize", "open", "configure">>,
   dsh   |-> <<"initialize", "open">>,
   pi    |-> <<"open">>,
   zcode |-> <<"open", "subscribe">>][kind]

\* A message of the agent: a reply to request `of', the start or end of a turn,
\* a text, pi's end of a message ("last"), or a question.  It is about the turn of
\* the prompt ("own") or an old one.
Reply(of, ok)      == [what |-> "reply", of |-> of, ok |-> ok,
                       turn |-> "own", ending |-> "none"]
Ended(e)           == [Reply("prompt", TRUE) EXCEPT !.ending = e]
Note(what, t, e)   == [what |-> what, of |-> "none", ok |-> TRUE,
                       turn |-> t, ending |-> e]

\* The process has been started and the lifecycle created: the first request
\* has been sent.
Init ==
  /\ kind \in Kinds
  /\ stage = Head(Preparation)
  /\ be = [accepted |-> FALSE, outcome |-> "none", end |-> "no", cancelled |-> FALSE]
  /\ ad = [active |-> FALSE, turn |-> "none", accepted |-> FALSE, last |-> "none",
           terminal |-> FALSE, cancelled |-> FALSE, sent |-> FALSE,
           uncertain |-> FALSE, closed |-> FALSE, early |-> <<>>]
  /\ pending = {Head(Preparation)}
  /\ todo = <<>> /\ reading = FALSE
  /\ grant = "none"
  /\ down = <<Head(Preparation)>> /\ up = <<>>
  /\ ag = [turn |-> "none", ending |-> "none", last |-> "none",
           owes |-> FALSE, texts |-> 0, old |-> 0, told |-> FALSE]

-----------------------------------------------------------------------------
(* Events of the adapter, and the backend that hears them until the         *)
(* execution has ended.                                                      *)

Accepts == be' = IF be.end = "no" THEN [be EXCEPT !.accepted = TRUE] ELSE be

Breaks == be' = IF be.end = "no" THEN [be EXCEPT !.end = "broken"] ELSE be

Settles(o) ==
  be' = IF be.end = "no" THEN [be EXCEPT !.accepted = TRUE, !.outcome = o, !.end = "clean"]
        ELSE be

\* The peer is closed: requests are rejected and nothing is heard any more.
Disconnects(a) ==
  /\ ad' = [a EXCEPT !.closed = TRUE, !.uncertain = TRUE]
  /\ pending' = {}
  /\ Breaks

\* request, and notify for "cancel": a closed peer takes nothing.
Sends(r) ==
  /\ pending' = IF ad.closed \/ r = "cancel" THEN pending ELSE pending \cup {r}
  /\ down' = IF ad.closed THEN down ELSE Append(down, r)

-----------------------------------------------------------------------------
(* Notifications.                                                            *)

\* A handler throws: in the loop over a chunk the peer disconnects, in the
\* replay of early ones the start fails.
Fails(inChunk) ==
  \/ /\ inChunk \/ kind # "codex"
     /\ Disconnects(ad)
  \/ /\ ~inChunk /\ kind = "codex"
     /\ ad' = [ad EXCEPT !.uncertain = TRUE]
     /\ Breaks /\ UNCHANGED pending

\* There is no turn, it is over, or nothing is known of it any more.
Deaf == ~ad.active \/ ad.terminal \/ ad.uncertain

\* Notifications that come before the reply to the prompt wait for it.
Early == \/ kind = "codex" /\ ad.turn = "none"
         \/ kind = "pi" /\ ~ad.accepted

Keeps(m, inChunk) ==
  \/ /\ Len(ad.early) < EarlyLimit
     /\ ad' = [ad EXCEPT !.early = Append(@, m)]
     /\ UNCHANGED <<be, pending>>
  \/ /\ Len(ad.early) >= EarlyLimit
     /\ Fails(inChunk)

Finishes(e) ==
  /\ ad' = [ad EXCEPT !.terminal = TRUE]
  /\ Settles(Reading(kind)[e])
  /\ UNCHANGED pending

\* A codex without the comparison of turns.
CodexHears_bug(m, inChunk) ==
  \/ /\ m.what = "completed" /\ Reading(kind)[m.ending] # "none"
     /\ Finishes(m.ending)
  \/ /\ m.what = "completed" /\ Reading(kind)[m.ending] = "none"
     /\ Fails(inChunk)
  \/ /\ m.what = "delta"
     /\ Accepts /\ UNCHANGED <<ad, pending>>
  \/ /\ m.what = "started"
     /\ UNCHANGED <<ad, be, pending>>

\* Whatever belongs to another turn breaks the execution; bindTurn disconnects.
CodexHears(m, inChunk) ==
  LET own == m.turn = ad.turn
      unread == m.what = "completed" /\ Reading(kind)[m.ending] = "none"
  IN  \/ ~own /\ m.what # "delta" /\ Disconnects(ad)
      \/ ~own /\ m.what = "delta" /\ Fails(inChunk)
      \/ own /\ unread /\ Fails(inChunk)
      \/ own /\ ~unread /\ m.what = "completed" /\ Finishes(m.ending)
      \/ own /\ m.what = "delta" /\ Accepts /\ UNCHANGED <<ad, pending>>
      \/ own /\ m.what = "started" /\ UNCHANGED <<ad, be, pending>>

\* The last message decides, and agent_settled ends the turn.
PiHears(m, inChunk) ==
  \/ /\ m.what = "last"
     /\ ad' = [ad EXCEPT !.last = m.ending]
     /\ UNCHANGED <<be, pending>>
  \/ /\ m.what = "completed" /\ Reading(kind)[ad.last] # "none"
     /\ Finishes(ad.last)
  \/ /\ m.what = "completed" /\ Reading(kind)[ad.last] = "none"
     /\ Fails(inChunk)
  \/ /\ m.what = "delta"
     /\ Accepts /\ UNCHANGED <<ad, pending>>

\* session/update: kimi and dsh.  The reply to the prompt is the end of the turn.
AcpHears(m) == Accepts /\ UNCHANGED <<ad, pending>>

\* The turn is the one that names the prompt; texts name no turn.
ZcodeHears(m) ==
  \/ /\ m.what = "started" /\ m.turn = "own" /\ ad.turn = "none"
     /\ ad' = [ad EXCEPT !.turn = "own"]
     /\ Accepts /\ UNCHANGED pending
  \/ /\ m.what = "delta" /\ ad.turn # "none"
     /\ Accepts /\ UNCHANGED <<ad, pending>>
  \/ /\ m.what = "completed" /\ m.turn = ad.turn /\ Reading(kind)[m.ending] # "none"
     /\ Finishes(m.ending)
  \/ /\ \/ m.what = "started" /\ (m.turn # "own" \/ ad.turn # "none")
        \/ m.what = "delta" /\ ad.turn = "none"
        \/ m.what = "completed" /\ (m.turn # ad.turn \/ Reading(kind)[m.ending] = "none")
     /\ UNCHANGED <<ad, be, pending>>

Hears(m, inChunk) ==
  \/ Deaf /\ UNCHANGED <<ad, be, pending>>
  \/ ~Deaf /\ Early /\ Keeps(m, inChunk)
  \/ /\ ~Deaf /\ ~Early
     /\ \/ kind = "codex" /\ CodexHears(m, inChunk)
        \/ kind = "pi" /\ PiHears(m, inChunk)
        \/ kind \in {"kimi", "dsh"} /\ AcpHears(m)
        \/ kind = "zcode" /\ ZcodeHears(m)

\* accept: one message of a chunk, the first one if nothing is left to do.
\* zcode answers a permission at once, by the name of the tool.
Receives ==
  /\ ~ad.closed /\ up # <<>> /\ (todo = <<>> \/ reading)
  /\ up' = Tail(up)
  /\ reading' = TRUE
  /\ LET m == Head(up) IN
     \/ /\ m.what = "reply" /\ m.of \in pending
        /\ pending' = pending \ {m.of}
        /\ todo' = Append(todo, m)
        /\ UNCHANGED <<be, ad, grant>>
     \/ /\ m.what = "ask" /\ kind # "zcode"
        /\ todo' = Append(todo, m)
        /\ UNCHANGED <<be, ad, pending, grant>>
     \/ /\ m.what = "ask" /\ kind = "zcode"
        /\ grant' \in {"allowed", "denied"}
        /\ UNCHANGED <<be, ad, pending, todo>>
     \/ /\ m.what \notin {"reply", "ask"}
        /\ Hears(m, TRUE)
        /\ UNCHANGED <<todo, grant>>
  /\ UNCHANGED <<kind, stage, down, ag>>

-----------------------------------------------------------------------------
(* What goes on after a chunk.                                               *)

\* A step of the ready chain throws, and the execution ends as broken.
StartFails(m) ==
  /\ stage' = "failed"
  /\ \/ /\ \/ kind \in {"kimi", "pi"}
           \/ kind = "codex" /\ m.ok
           \/ kind = "dsh" /\ m.of = "prompt"
        /\ Disconnects(ad)
     \/ /\ \/ kind = "codex" /\ ~m.ok
           \/ kind = "dsh" /\ m.of # "prompt"
           \/ kind = "zcode"
        /\ ad' = [ad EXCEPT !.uncertain = @ \/ kind = "codex"]
        /\ Breaks /\ UNCHANGED pending

\* The reply names another session than the one that was to be resumed; dsh
\* does not look.
Foreign(m) == m.turn = "old" /\ kind # "dsh"

\* A step before the prompt was answered: the next one follows, or the session
\* is saved.
Prepares(m) ==
  LET i == CHOOSE j \in DOMAIN Preparation : Preparation[j] = m.of
  IN  \/ /\ ~m.ok \/ Foreign(m)
         /\ StartFails(m)
         /\ UNCHANGED down
      \/ /\ m.ok /\ ~Foreign(m) /\ i < Len(Preparation)
         /\ stage' = Preparation[i + 1]
         /\ Sends(Preparation[i + 1])
         /\ UNCHANGED <<be, ad>>
      \/ /\ m.ok /\ ~Foreign(m) /\ i = Len(Preparation)
         /\ stage' = "saving"
         /\ UNCHANGED <<be, ad, pending, down>>

\* The interrupt that was asked for before the turn had a name is forgotten.
PromptAnswered_bug(m) ==
  \/ /\ ~m.ok \/ (kind = "kimi" /\ Reading(kind)[m.ending] = "none")
     /\ StartFails(m)
     /\ todo' = Tail(todo)
  \/ /\ m.ok /\ kind \in {"kimi", "dsh"} /\ Reading(kind)[m.ending] # "none"
     /\ Finishes(m.ending)
     /\ stage' = "running" /\ todo' = Tail(todo)
  \/ /\ m.ok /\ kind = "zcode"
     /\ stage' = "running" /\ todo' = Tail(todo)
     /\ UNCHANGED <<be, ad, pending>>
  \/ /\ m.ok /\ kind \in {"codex", "pi"}
     /\ ad' = [ad EXCEPT !.turn = m.turn, !.accepted = TRUE, !.early = <<>>]
     /\ Accepts
     /\ stage' = "running" /\ todo' = ad.early \o Tail(todo)
     /\ UNCHANGED pending

\* The prompt was answered: codex and pi handle what came before, and codex
\* sends the interrupt that was asked for in the meantime; for kimi and dsh the
\* turn is over; zcode waits for turn.started.
PromptAnswered(m) ==
  \/ /\ ~m.ok \/ (kind = "kimi" /\ Reading(kind)[m.ending] = "none")
     /\ StartFails(m)
     /\ todo' = Tail(todo)
  \/ /\ m.ok /\ kind \in {"kimi", "dsh"} /\ Reading(kind)[m.ending] # "none"
     /\ Finishes(m.ending)
     /\ stage' = "running" /\ todo' = Tail(todo)
  \/ /\ m.ok /\ kind = "zcode"
     /\ stage' = "running" /\ todo' = Tail(todo)
     /\ UNCHANGED <<be, ad, pending>>
  \/ /\ m.ok /\ kind = "pi" /\ ad.uncertain
     /\ StartFails(m)
     /\ todo' = Tail(todo)
  \/ /\ m.ok /\ (kind = "codex" \/ (kind = "pi" /\ ~ad.uncertain))
     /\ ad' = [ad EXCEPT !.turn = m.turn, !.accepted = TRUE, !.early = <<>>]
     /\ Accepts
     /\ stage' = "running"
     /\ todo' = ad.early \o (IF kind = "codex" THEN <<Note("interrupt", "own", "none")>>
                             ELSE <<>>) \o Tail(todo)
     /\ UNCHANGED pending

\* The answer to something that was sent to cancel the turn.
CancelAnswered(m) ==
  \/ /\ m.ok /\ m.of = "clear"
     /\ Sends("abort")
     /\ UNCHANGED <<be, ad>>
  \/ /\ m.ok /\ m.of # "clear"
     /\ UNCHANGED <<be, ad, pending, down>>
  \/ /\ ~m.ok /\ kind = "pi"
     /\ Disconnects(ad) /\ UNCHANGED down
  \/ /\ ~m.ok /\ kind # "pi"
     /\ ad' = [ad EXCEPT !.uncertain = @ \/ kind = "codex"]
     /\ Breaks /\ UNCHANGED <<pending, down>>

\* A request of the agent has a turn that it can be for.
Answerable == ~Deaf /\ ~ad.closed /\ (kind = "kimi" => ~ad.cancelled)

\* interruptIfRequested
Interruptible == ad.cancelled /\ ~ad.terminal /\ ~ad.uncertain /\ ~ad.sent

Continues ==
  /\ todo # <<>>
  /\ reading' = FALSE
  /\ LET m == Head(todo) IN
     \/ /\ m.what = "reply" /\ m.of \in {Preparation[j] : j \in DOMAIN Preparation}
        /\ Prepares(m)
        /\ todo' = Tail(todo) /\ UNCHANGED grant
     \/ /\ m.what = "reply" /\ m.of = "prompt"
        /\ PromptAnswered(m)
        /\ UNCHANGED <<grant, down>>
     \/ /\ m.what = "reply" /\ m.of \in {"interrupt", "clear", "abort", "stop"}
        /\ CancelAnswered(m)
        /\ todo' = Tail(todo) /\ UNCHANGED <<stage, grant>>
     \/ /\ m.what = "interrupt"
        /\ IF Interruptible THEN Sends("interrupt") /\ ad' = [ad EXCEPT !.sent = TRUE]
           ELSE UNCHANGED <<ad, pending, down>>
        /\ todo' = Tail(todo) /\ UNCHANGED <<stage, be, grant>>
     \/ /\ m.what = "ask"
        /\ grant' = IF Answerable /\ kind # "codex" THEN "asked" ELSE "denied"
        /\ todo' = Tail(todo) /\ UNCHANGED <<stage, be, ad, pending, down>>
     \/ /\ m.what \in {"started", "delta", "last", "completed"}
        /\ Hears(m, FALSE)
        /\ todo' = Tail(todo) /\ UNCHANGED <<stage, grant, down>>
  /\ UNCHANGED <<kind, up, ag>>

-----------------------------------------------------------------------------
(* The backend and timers, between two chunks.                               *)

\* The session has been saved, or could not be: the prompt is sent unless the
\* execution has ended or was cancelled.
Saves ==
  /\ todo = <<>> /\ stage = "saving"
  /\ \/ /\ be.end = "no" /\ ~be.cancelled
        /\ stage' = "prompt"
        /\ ad' = [ad EXCEPT !.active = TRUE]
        /\ Sends("prompt")
        /\ UNCHANGED be
     \/ /\ stage' = "failed"
        /\ Breaks
        /\ UNCHANGED <<ad, pending, down>>
  /\ UNCHANGED <<kind, todo, reading, grant, up, ag>>

\* zcode stops the session; pi empties the queue and aborts; an interrupt needs
\* the name of the turn.
Cancel ==
  /\ todo = <<>> /\ be.end = "no" /\ ~be.cancelled
  /\ be' = [be EXCEPT !.cancelled = TRUE]
  /\ \/ /\ kind = "zcode" /\ stage \in {"subscribe", "saving", "prompt", "running"}
        /\ Sends("stop") /\ UNCHANGED ad
     \/ /\ kind # "zcode" /\ ~Deaf
        /\ ad' = [ad EXCEPT !.cancelled = TRUE, !.sent = kind = "codex" /\ ad.turn # "none"]
        /\ \/ kind = "codex" /\ ad.turn # "none" /\ Sends("interrupt")
           \/ kind = "codex" /\ ad.turn = "none" /\ UNCHANGED <<pending, down>>
           \/ kind = "pi" /\ Sends("clear")
           \/ kind \in {"kimi", "dsh"} /\ Sends("cancel")
     \/ /\ \/ kind = "zcode" /\ stage \in {"open", "failed"}
           \/ kind # "zcode" /\ Deaf
        /\ UNCHANGED <<ad, pending, down>>
  /\ UNCHANGED <<kind, stage, todo, reading, grant, up, ag>>

\* A permission is decided without looking at the turn again.
Decides_bug ==
  /\ todo = <<>> /\ grant = "asked"
  /\ grant' \in {"denied"} \cup (IF ad.closed THEN {} ELSE {"allowed"})
  /\ UNCHANGED <<kind, stage, be, ad, pending, todo, reading, down, up, ag>>

\* The host has decided; a grant for a turn that is over has expired.
Decides ==
  /\ todo = <<>> /\ grant = "asked"
  /\ grant' \in {"denied"} \cup (IF Answerable THEN {"allowed"} ELSE {})
  /\ UNCHANGED <<kind, stage, be, ad, pending, todo, reading, down, up, ag>>

\* A request has waited too long, or could not be written.
Timeout ==
  /\ todo = <<>> /\ pending # {}
  /\ Disconnects(ad)
  /\ UNCHANGED <<kind, stage, todo, reading, grant, down, up, ag>>

\* The wall clock of the execution, or the end of the process.
GivesUp ==
  /\ todo = <<>> /\ be.end = "no"
  /\ Breaks
  /\ UNCHANGED <<kind, stage, ad, pending, todo, reading, grant, down, up, ag>>

\* The process has been stopped.
Stops ==
  /\ todo = <<>> /\ be.end # "no" /\ ~ad.closed
  /\ Disconnects(ad)
  /\ UNCHANGED <<kind, stage, todo, reading, grant, down, up, ag>>

-----------------------------------------------------------------------------
(* The agent.                                                                *)

Interrupts == {"interrupt", "abort", "stop", "cancel"}

\* Something that ends the turn has reached the agent's input.
Interrupted == ag.told \/ \E i \in DOMAIN down : down[i] \in Interrupts

Tells(ms) == up' = up \o ms

\* An old turn is replayed: by kimi and pi before they have opened the session.
Replays ==
  /\ ag.old < MaxOld
  /\ \/ kind \in {"codex", "zcode"}
     \/ kind \in {"kimi", "pi"} /\ down # <<>> /\ Head(down) = "open"
  /\ \/ Tells(<<Note("delta", "old", "none")>>)
     \/ kind # "kimi" /\ \E e \in {"done", "failed"} :
          Tells((IF kind = "pi" THEN <<Note("last", "old", e)>> ELSE <<>>)
                \o <<Note("completed", "old", e)>>)
  /\ ag' = [ag EXCEPT !.old = @ + 1]
  /\ UNCHANGED <<coreVars, down>>

\* The turn of the prompt begins.  With ACP its end is the reply, and the others
\* acknowledge it at once or later.
Begins ==
  LET started == IF kind \in {"codex", "zcode"} THEN <<Note("started", "own", "none")>> ELSE <<>>
  IN  \/ /\ ag' = [ag EXCEPT !.turn = "running", !.owes = TRUE]
         /\ Tells(started)
      \/ /\ kind \notin {"kimi", "dsh"}
         /\ ag' = [ag EXCEPT !.turn = "running"]
         /\ Tells(<<Reply("prompt", TRUE)>> \o started)

Serves ==
  /\ down # <<>>
  /\ down' = Tail(down)
  /\ LET r == Head(down) IN
     \/ /\ r \notin {"prompt", "cancel"}
        /\ \E ok \in BOOLEAN : Tells(<<Reply(r, ok)>>)
        /\ ag' = [ag EXCEPT !.told = @ \/ r \in Interrupts]
     \/ /\ r = "open"
        /\ Tells(<<[Reply(r, TRUE) EXCEPT !.turn = "old"]>>)
        /\ UNCHANGED ag
     \/ /\ r = "cancel"
        /\ ag' = [ag EXCEPT !.told = TRUE]
        /\ UNCHANGED up
     \/ /\ r = "prompt"
        /\ Tells(<<Reply(r, FALSE)>>)
        /\ UNCHANGED ag
     \/ /\ r = "prompt"
        /\ Begins
  /\ UNCHANGED coreVars

Acknowledges ==
  /\ ag.owes /\ kind \notin {"kimi", "dsh"}
  /\ Tells(<<Reply("prompt", TRUE)>>)
  /\ ag' = [ag EXCEPT !.owes = FALSE]
  /\ UNCHANGED <<coreVars, down>>

\* The turn writes a text, or, pi only, ends a message.
Writes ==
  /\ ag.turn = "running" /\ ag.texts < MaxText
  /\ \/ /\ Tells(<<Note("delta", "own", "none")>>)
        /\ ag' = [ag EXCEPT !.texts = @ + 1]
     \/ /\ kind = "pi"
        /\ \E e \in {"done", "failed", "odd"} :
             /\ Tells(<<Note("last", "own", e)>>)
             /\ ag' = [ag EXCEPT !.texts = @ + 1, !.last = e]
  /\ UNCHANGED <<coreVars, down>>

Asks ==
  /\ ag.turn = "running" /\ kind # "pi"
  /\ grant = "none" /\ \A i \in DOMAIN up : up[i].what # "ask"
  /\ \A i \in DOMAIN todo : todo[i].what # "ask"
  /\ Tells(<<Note("ask", "own", "none")>>)
  /\ UNCHANGED <<coreVars, down, ag>>

\* The turn ends: "cancelled" when it was interrupted; pi ends with its last
\* message, of which there may be none.
TurnEnds ==
  /\ ag.turn = "running"
  /\ \E e \in Ending :
       /\ e = "cancelled" => Interrupted
       /\ \/ /\ kind = "pi"
             /\ e \in {"cancelled", ag.last} \cup (IF ag.last = "none" THEN {"odd"} ELSE {})
             /\ Tells((IF e = ag.last \/ e = "odd" THEN <<>>
                       ELSE <<Note("last", "own", e)>>)
                      \o <<Note("completed", "own", e)>>)
          \/ kind \in {"codex", "zcode"} /\ Tells(<<Note("completed", "own", e)>>)
          \/ kind \in {"kimi", "dsh"} /\ Tells(<<Ended(e)>>)
       /\ ag' = [ag EXCEPT !.turn = "ended", !.ending = e]
  /\ UNCHANGED <<coreVars, down>>

-----------------------------------------------------------------------------
Backend == Saves \/ Cancel \/ Decides \/ Timeout \/ GivesUp \/ Stops

\* The agent is followed as long as something of it is heard.  One that dies
\* keeps silent, and the backend gives up.
Agent ==
  /\ ~ad.closed
  /\ Replays \/ Serves \/ Acknowledges \/ Writes \/ Asks \/ TurnEnds

Next == Receives \/ Continues \/ Backend \/ Agent

\* Bytes that have arrived are handled, and every request has a timer.  Nothing
\* is assumed of the agent, of the host or of the wall clock.
Fairness == WF_vars(Receives) /\ WF_vars(Continues) /\ WF_vars(Timeout)

Spec == Init /\ [][Next]_vars /\ Fairness

-----------------------------------------------------------------------------
(* Properties.                                                               *)

\* The coordinator hears of the turn of its prompt and of nothing else, in spite
\* of old turns, replies that are overtaken by notifications, chunks whose end
\* breaks the connection, and errors in between.
Promise == INSTANCE HarnessPromise WITH
  turn   <- ag.turn,
  ending <- Reading(kind)[ag.ending],
  told   <- [accepted |-> be.accepted, outcome |-> be.outcome, end |-> be.end]

KeepsPromise == Promise!Spec

\* A cancellation is not lost between the prompt and its acknowledgement: the
\* turn that runs is told to end, or the execution ends.
CancelReachesAgent ==
  (be.cancelled /\ ag.turn = "running") ~>
    (Interrupted \/ ag.turn = "ended" \/ be.end # "no")

\* kimi is granted no permission after its turn was cancelled or is over,
\* however long the decision took.  The other adapters do not promise this.
GrantsAreTimely ==
  [][kind = "kimi" /\ grant' = "allowed" /\ grant # "allowed" =>
       ~be.cancelled /\ ~ad.terminal /\ be.outcome = "none"]_vars
=============================================================================
