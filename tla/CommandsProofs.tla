---------------------------- MODULE CommandsProofs ----------------------------
(***************************************************************************)
(* For every set of clients and operations and every number of connections, *)
(* requests, failures and crashes: operations take effect at most once, and *)
(* what their authors are told of them is true.                             *)
(*                                                                          *)
(* What took effect is tied to the ledger and the journal (OnceInv), what a *)
(* client waits for to the frames of its connection (LineInv), and the      *)
(* copies of a write that are still on their way to the last word of its    *)
(* author (CopyInv), from which no copy of a write that was refused for its *)
(* revision can ever be carried out.                                        *)
(***************************************************************************)
EXTENDS Commands, SequenceTheorems, TLAPS

USE CommandsAssumption DEF CommandsAssumption
USE DEF tableVars, memoryVars, clientVars, readVars, boundVars

\* Requests with an operation are those that run it.
Request == {r \in Requests : (r.what = "run") = (r.op # None)}

LeaseIds == {0} \cup Ids

TypeInv ==
  /\ revision \in Nat
  /\ ledger \in [Op -> Nat \cup {None}]
  /\ journal \in [Op -> {"none", "in_flight", "succeeded", "unknown"}]
  /\ grant \in [generation : Nat, active : BOOLEAN]
  /\ core \in {"up", "down"}
  /\ open \in [Conn -> Client \cup {None}]
  /\ lease \in [conn : Conn, id : LeaseIds, left : 0 .. LeaseTime] \cup {None}
  /\ control \subseteq [conn : Conn, n : LeaseIds, id : LeaseIds]
  /\ attach \in [conn : Conn, generation : Nat] \cup {None}
  /\ running \in [Conn -> [op : Op, done : BOOLEAN] \cup {None}]
  /\ conn \in [Client -> Conn \cup {0}]
  /\ believed \in [Client -> LeaseIds]
  /\ renewals \in [Client -> 0 .. MaxRenew]
  /\ waiting \in [Client -> Request \cup {None}]
  /\ lost \in [Client -> Request \cup {None}]
  /\ told \in [Op -> {"nothing", "ok", "revision_conflict"}]
  /\ pipe \in [Conn -> Seq(Request)]
  /\ applied \in [Op -> Nat]
  /\ \A c \in Client : sent[c] \in 0 .. MaxSend[c]
  /\ sent \in [Client -> Nat]
  /\ conns \in 0 .. MaxConn
  /\ troubles \in 0 .. MaxTrouble
  /\ crashes \in 0 .. MaxCrash

\* What is recorded of a write is exactly what took effect.
WriteFits(o) ==
  KindOf[o] # "call" => applied[o] = IF ledger[o] = None THEN 0 ELSE 1

\* A call that runs was claimed, and has taken effect once it is done.
RunFits(k) ==
  running[k] # None =>
    /\ KindOf[running[k].op] = "call"
    /\ journal[running[k].op] = "in_flight"
    /\ applied[running[k].op] = IF running[k].done THEN 1 ELSE 0

\* No two connections make the same call.
CallsAreApart ==
  \A k, l \in Conn : running[k] # None /\ running[l] # None
                       /\ running[k].op = running[l].op => k = l

\* A call has no effect before it is claimed, and succeeds only with one.
CallFits(o) ==
  KindOf[o] = "call" =>
    /\ applied[o] <= 1
    /\ journal[o] = "none" => applied[o] = 0
    /\ journal[o] = "succeeded" => applied[o] = 1

OnceInv ==
  /\ \A o \in Op : WriteFits(o) /\ CallFits(o)
  /\ \A k \in Conn : RunFits(k)
  /\ CallsAreApart

Last(k) == pipe[k][Len(pipe[k])]

\* A client's connection is its own.
ConnFits(c) == conn[c] # 0 => conn[c] <= conns /\ open[conn[c]] = c

\* A connection whose call runs has the frame of that call in front.
LineFits(k) ==
  /\ open[k] # None \/ running[k] # None => k <= conns
  /\ open[k] # None /\ running[k] # None =>
       pipe[k] # <<>> /\ Head(pipe[k]).op = running[k].op

\* What a client waits for is the last frame of its connection.
WaitFits(c) ==
  waiting[c] # None =>
    /\ conn[c] # 0
    /\ pipe[conn[c]] # <<>> /\ Last(conn[c]) = waiting[c]
    /\ waiting[c].op # None => AuthorOf[waiting[c].op] = c

LostFits(c) == lost[c] # None /\ lost[c].op # None => AuthorOf[lost[c].op] = c

LineInv ==
  /\ \A c \in Client : ConnFits(c) /\ WaitFits(c) /\ LostFits(c)
  /\ \A k \in Conn : LineFits(k)

WaitsFor(o) == waiting[AuthorOf[o]] # None /\ waiting[AuthorOf[o]].op = o
HasLost(o)  == lost[AuthorOf[o]] # None /\ lost[AuthorOf[o]].op = o

\* The copy of an operation in place i is the one its author waits for.
IsAwaited(o, k, i) ==
  WaitsFor(o) /\ k = conn[AuthorOf[o]] /\ i = Len(pipe[k])

\* No copy of a write expects more than its author's last word, and after a
\* conflict all of them are out of date.
CopyFits(o, k, i) ==
  pipe[k][i].op = o =>
    /\ pipe[k][i].exp <= revision
    /\ told[o] = "revision_conflict" => pipe[k][i].exp < revision
    /\ WaitsFor(o) => pipe[k][i].exp <= waiting[AuthorOf[o]].exp
    /\ HasLost(o) => \/ pipe[k][i].exp <= lost[AuthorOf[o]].exp
                     \/ IsAwaited(o, k, i)

CopiesFit(o) ==
  KindOf[o] # "call" =>
    /\ \A k \in Conn : \A i \in 1 .. Len(pipe[k]) : CopyFits(o, k, i)
    /\ HasLost(o) => lost[AuthorOf[o]].exp <= revision

CopyInv == \A o \in Op : CopiesFit(o)

\* What an author was told, kind by kind.
ToldFits(o) ==
  /\ WaitsFor(o) => told[o] = "nothing"
  /\ told[o] = "ok" => IF KindOf[o] = "call" THEN journal[o] = "succeeded"
                       ELSE ledger[o] # None
  /\ told[o] = "revision_conflict" => KindOf[o] # "call" /\ ledger[o] = None

ToldInv == \A o \in Op : ToldFits(o)

-----------------------------------------------------------------------------
(* Requests and the two ways a frame comes and goes.                         *)

\* A request has the parts it is made of.
LEMMA RequestParts ==
  ASSUME NEW r \in Request
  PROVE  /\ r.op \in Op \cup {None} /\ r.n \in LeaseIds
         /\ r.exp \in Nat /\ r.lease \in LeaseIds
         /\ (r.what = "run") = (r.op # None)
         /\ r # None
BY NoneAssumption DEF Request, Requests, LeaseIds

\* Operation ids are numbers, and none of them is 0.
LEMMA IdsAreNumbers == /\ LeaseIds \subseteq Nat
                       /\ \A c \in Client : \A n \in 0 .. MaxSend[c] : n \in LeaseIds
BY DEF LeaseIds, Ids

\* A request of a client that may still send is one (NewRequest).
LEMMA NewIsRequest ==
  ASSUME TypeInv, NEW c \in Client, sent[c] < MaxSend[c], NEW exp \in Nat,
         NEW o \in Op \cup {None},
         NEW what \in {"acquire", "renew", "release", "issue", "revoke",
                       "attach", "run"},
         (what = "run") = (o # None)
  PROVE  /\ NewRequest(c, what, o, exp) \in Request
         /\ NewRequest(c, what, o, exp).what = what
         /\ NewRequest(c, what, o, exp).op = o
         /\ NewRequest(c, what, o, exp).exp = exp
<1>1. sent[c] + 1 \in LeaseIds /\ 0 \in LeaseIds /\ believed[c] \in LeaseIds
  <2>1. sent[c] \in Nat /\ MaxSend[c] \in Nat
    BY DEF TypeInv
  <2>2. sent[c] + 1 \in 0 .. MaxSend[c] /\ 0 \in 0 .. MaxSend[c]
    BY <2>1
  <2> QED BY <2>2, IdsAreNumbers DEF TypeInv
<1> QED BY <1>1 DEF NewRequest, Request, Requests, LeaseIds

\* A frame that is sent is the last one, and the client waits for it (Sends).
LEMMA SendsFrame ==
  ASSUME TypeInv, NEW c \in Client, NEW r \in Request, Sends(c, r)
  PROVE  /\ waiting' \in [Client -> Request \cup {None}]
         /\ waiting' = [waiting EXCEPT ![c] = r]
         /\ pipe' \in [Conn -> Seq(Request)]
         /\ conn[c] \in Conn
         /\ \A k \in Conn : k # conn[c] => pipe'[k] = pipe[k]
         /\ LET k == conn[c]
            IN  /\ Len(pipe'[k]) = Len(pipe[k]) + 1
                /\ pipe'[k] # <<>>
                /\ pipe'[k][Len(pipe[k]) + 1] = r
                /\ \A i \in 1 .. Len(pipe[k]) : pipe'[k][i] = pipe[k][i]
                /\ pipe[k] # <<>> => Head(pipe'[k]) = Head(pipe[k])
<1>1. conn[c] \in Conn
  BY DEF TypeInv, Sends
<1>2. pipe[conn[c]] \in Seq(Request)
  BY <1>1 DEF TypeInv
<1>3. pipe' = [pipe EXCEPT ![conn[c]] = Append(pipe[conn[c]], r)]
  BY DEF Sends
<1>4. pipe'[conn[c]] = Append(pipe[conn[c]], r)
  BY <1>1, <1>3 DEF TypeInv
<1>5. /\ Append(pipe[conn[c]], r) \in Seq(Request)
      /\ Len(Append(pipe[conn[c]], r)) = Len(pipe[conn[c]]) + 1
      /\ Append(pipe[conn[c]], r)[Len(pipe[conn[c]]) + 1] = r
      /\ \A i \in 1 .. Len(pipe[conn[c]]) :
           Append(pipe[conn[c]], r)[i] = pipe[conn[c]][i]
      /\ Append(pipe[conn[c]], r) # <<>>
  BY <1>2
<1>6. pipe' \in [Conn -> Seq(Request)]
  BY <1>1, <1>3, <1>5 DEF TypeInv
<1>7. waiting' \in [Client -> Request \cup {None}]
      /\ waiting' = [waiting EXCEPT ![c] = r]
  BY DEF Sends, TypeInv
<1>8. \A k \in Conn : k # conn[c] => pipe'[k] = pipe[k]
  BY <1>3 DEF TypeInv
<1>9. pipe[conn[c]] # <<>> => Head(pipe'[conn[c]]) = Head(pipe[conn[c]])
  BY <1>2, <1>4, <1>5
<1> QED BY <1>1, <1>4, <1>5, <1>6, <1>7, <1>8, <1>9

\* A frame that is done leaves, and with it what its client waits for (Replies).
LEMMA RepliesFrame ==
  ASSUME TypeInv, NEW k \in Conn, open[k] # None, pipe[k] # <<>>,
         NEW verdict, NEW id \in LeaseIds, Replies(k, verdict, id)
  PROVE  /\ waiting' \in [Client -> Request \cup {None}]
         /\ believed' \in [Client -> LeaseIds]
         /\ renewals' \in [Client -> 0 .. MaxRenew]
         /\ told' \in [Op -> {"nothing", "ok", "revision_conflict"}]
         /\ pipe' \in [Conn -> Seq(Request)]
         /\ open[k] \in Client
         /\ Frame(k) \in Request /\ Frame(k) = pipe[k][1]
         /\ \A l \in Conn : l # k => pipe'[l] = pipe[l]
         /\ Len(pipe[k]) \in Nat \ {0} /\ Len(pipe'[k]) = Len(pipe[k]) - 1
         /\ \A i \in 1 .. Len(pipe'[k]) : pipe'[k][i] = pipe[k][i + 1]
<1>1. pipe[k] \in Seq(Request) /\ open[k] \in Client
  BY DEF TypeInv
<1>2. /\ Tail(pipe[k]) \in Seq(Request)
      /\ Len(pipe[k]) \in Nat \ {0}
      /\ Len(Tail(pipe[k])) = Len(pipe[k]) - 1
      /\ \A i \in 1 .. Len(Tail(pipe[k])) : Tail(pipe[k])[i] = pipe[k][i + 1]
      /\ Head(pipe[k]) \in Request
      /\ Head(pipe[k]) = pipe[k][1]
  BY <1>1, HeadTailProperties, EmptySeq
<1>3. pipe' = [pipe EXCEPT ![k] = Tail(pipe[k])]
  BY DEF Replies
<1>4. pipe'[k] = Tail(pipe[k]) /\ pipe' \in [Conn -> Seq(Request)]
      /\ \A l \in Conn : l # k => pipe'[l] = pipe[l]
  BY <1>2, <1>3 DEF TypeInv
<1>5. /\ waiting' \in [Client -> Request \cup {None}]
      /\ believed' \in [Client -> LeaseIds]
      /\ renewals' \in [Client -> 0 .. MaxRenew]
      /\ told' \in [Op -> {"nothing", "ok", "revision_conflict"}]
  <2>1. CASE ~Awaited(k)
    BY <2>1 DEF Replies, TypeInv
  <2>2. CASE Awaited(k)
    <3>1. Reads(open[k], verdict, id)
      BY <2>2 DEF Replies
    <3>2. waiting' \in [Client -> Request \cup {None}]
      BY <3>1, <1>1 DEF Reads, TypeInv
    <3>3. 0 \in LeaseIds
      BY DEF LeaseIds
    <3>4. believed' \in [Client -> LeaseIds]
      BY <3>1, <3>3, <1>1 DEF Reads, TypeInv
    <3>5. renewals' \in [Client -> 0 .. MaxRenew]
      <4>1. 0 \in 0 .. MaxRenew
        OBVIOUS
      <4>2. renewals' = [renewals EXCEPT ![open[k]] = 0] \/ renewals' = renewals
        BY <3>1 DEF Reads
      <4> QED BY <4>1, <4>2, <1>1 DEF TypeInv
    <3>6. told' \in [Op -> {"nothing", "ok", "revision_conflict"}]
      BY <3>1, <1>1 DEF Reads, TypeInv
    <3> QED BY <3>2, <3>4, <3>5, <3>6
  <2> QED BY <2>1, <2>2
<1> QED BY <1>1, <1>2, <1>4, <1>5 DEF Frame

-----------------------------------------------------------------------------
(* Types.                                                                    *)

\* Every value starts out as one of its type (Init).
LEMMA TypesInit == Init => TypeInv
<1> SUFFICES ASSUME Init PROVE TypeInv
  OBVIOUS
<1>1. 0 \in LeaseIds /\ <<>> \in Seq(Request)
  BY EmptySeq DEF LeaseIds
<1>2. \A c \in Client : sent[c] \in 0 .. MaxSend[c]
  BY DEF Init
<1> QED BY <1>1, <1>2 DEF Init, TypeInv

\* A client that connects gets a connection nobody used.
LEMMA ConnectTypes ==
  ASSUME TypeInv, NEW c \in Client, Connect(c)
  PROVE  TypeInv'
<1>1. conns + 1 \in Conn /\ conns' \in 0 .. MaxConn
  BY DEF TypeInv, Connect, Conn
<1>2. conn' \in [Client -> Conn \cup {0}] /\ open' \in [Conn -> Client \cup {None}]
  BY <1>1 DEF TypeInv, Connect
<1> QED BY <1>1, <1>2 DEF TypeInv, Connect

\* A request that is counted is one of those its client may send.
LEMMA CountedTypes ==
  ASSUME TypeInv, NEW c \in Client, Counted(c)
  PROVE  /\ sent' \in [Client -> Nat]
         /\ \A d \in Client : sent'[d] \in 0 .. MaxSend[d]
         /\ sent[c] < MaxSend[c]
<1>1. sent[c] \in Nat /\ MaxSend[c] \in Nat /\ sent[c] < MaxSend[c]
  BY DEF TypeInv, Counted
<1>2. sent' = [sent EXCEPT ![c] = sent[c] + 1]
  BY DEF Counted
<1>3. sent' \in [Client -> Nat]
  BY <1>1, <1>2 DEF TypeInv
<1>4. ASSUME NEW d \in Client
      PROVE  sent'[d] \in 0 .. MaxSend[d]
  <2>1. MaxSend[d] \in Nat /\ sent[d] \in 0 .. MaxSend[d]
    BY DEF TypeInv
  <2>2. CASE d = c
    BY <2>2, <1>1, <1>2 DEF TypeInv
  <2>3. CASE d # c
    BY <2>1, <2>3, <1>2 DEF TypeInv
  <2> QED BY <2>2, <2>3
<1> QED BY <1>1, <1>3, <1>4

\* What a client sends is a request, also when it sends it again.
LEMMA SendingTypes ==
  ASSUME TypeInv, NEW c \in Client,
         \/ \E what \in {"acquire", "release", "issue", "revoke"} : Controls(c, what)
         \/ \E g \in 1 .. grant.generation : Attaches(c, g)
         \/ \E o \in Op : Runs(c, o)
         \/ Retries(c)
         \/ Renews(c)
  PROVE  TypeInv'
<1>1. ASSUME NEW what \in {"acquire", "release", "issue", "revoke"},
             Controls(c, what)
      PROVE  TypeInv'
  <2>1. revision \in Nat
    BY DEF TypeInv
  <2>2. NewRequest(c, what, None, revision) \in Request
    BY <1>1, <2>1, NewIsRequest, CountedTypes DEF Controls
  <2>3. waiting' \in [Client -> Request \cup {None}] /\ pipe' \in [Conn -> Seq(Request)]
    BY <1>1, <2>2, SendsFrame DEF Controls
  <2> QED BY <1>1, <2>3, CountedTypes DEF Controls, TypeInv
<1>2. ASSUME NEW g \in 1 .. grant.generation, Attaches(c, g)
      PROVE  TypeInv'
  <2>1. g \in Nat
    OBVIOUS
  <2>2. NewRequest(c, "attach", None, g) \in Request
    BY <1>2, <2>1, NewIsRequest, CountedTypes DEF Attaches
  <2>3. waiting' \in [Client -> Request \cup {None}] /\ pipe' \in [Conn -> Seq(Request)]
    BY <1>2, <2>2, SendsFrame DEF Attaches
  <2> QED BY <1>2, <2>3, CountedTypes DEF Attaches, TypeInv
<1>3. ASSUME NEW o \in Op, Runs(c, o)
      PROVE  TypeInv'
  <2>1. (IF KindOf[o] = "call" THEN 0 ELSE revision) \in Nat
    BY DEF TypeInv
  <2>2. NewRequest(c, "run", o, IF KindOf[o] = "call" THEN 0 ELSE revision) \in Request
    BY <1>3, <2>1, NewIsRequest, CountedTypes DEF Runs
  <2>3. waiting' \in [Client -> Request \cup {None}] /\ pipe' \in [Conn -> Seq(Request)]
    BY <1>3, <2>2, SendsFrame DEF Runs
  <2>4. told' \in [Op -> {"nothing", "ok", "revision_conflict"}]
    BY <1>3 DEF Runs, TypeInv
  <2> QED BY <1>3, <2>3, <2>4, CountedTypes DEF Runs, TypeInv
<1>4. ASSUME Retries(c)
      PROVE  TypeInv'
  <2> DEFINE r == [lost[c] EXCEPT !.lease = IF lost[c].what = "release" THEN @
                                            ELSE believed[c]]
  <2>1. r \in Request
    <3>1. lost[c] \in Request /\ believed[c] \in LeaseIds
      BY <1>4 DEF Retries, TypeInv
    <3> QED BY <3>1 DEF Request, Requests, LeaseIds
  <2>2. waiting' \in [Client -> Request \cup {None}] /\ pipe' \in [Conn -> Seq(Request)]
    <3>1. Sends(c, r)
      BY <1>4 DEF Retries
    <3> HIDE DEF r
    <3> QED BY <2>1, <3>1, SendsFrame
  <2>3. lost' \in [Client -> Request \cup {None}]
    BY <1>4 DEF Retries, TypeInv
  <2>4. told' \in [Op -> {"nothing", "ok", "revision_conflict"}]
    BY <1>4 DEF Retries, TypeInv
  <2> QED BY <1>4, <2>2, <2>3, <2>4, CountedTypes DEF Retries, TypeInv
<1>5. ASSUME Renews(c)
      PROVE  TypeInv'
  <2> DEFINE r == [NewRequest(c, "renew", None, revision) EXCEPT !.n = 0]
  <2>1. r \in Request
    BY <1>5 DEF NewRequest, TypeInv, Request, Requests, LeaseIds
  <2>2. waiting' \in [Client -> Request \cup {None}] /\ pipe' \in [Conn -> Seq(Request)]
    <3>1. Sends(c, r)
      BY <1>5 DEF Renews
    <3> HIDE DEF r
    <3> QED BY <2>1, <3>1, SendsFrame
  <2>3. renewals' \in [Client -> 0 .. MaxRenew]
    <3>1. renewals[c] \in 0 .. MaxRenew /\ renewals[c] < MaxRenew
      BY <1>5 DEF Renews, TypeInv
    <3>2. renewals[c] + 1 \in 0 .. MaxRenew
      BY <3>1
    <3> QED BY <1>5, <3>2 DEF Renews, TypeInv
  <2> QED BY <1>5, <2>2, <2>3 DEF Renews, TypeInv
<1> QED BY <1>1, <1>2, <1>3, <1>4, <1>5

\* A client that lets go, gives up or goes away loses values of their types.
LEMMA LosingTypes ==
  ASSUME TypeInv, NEW c \in Client, LetsGo(c) \/ GivesUp(c) \/ Disconnects(c)
  PROVE  TypeInv'
<1>1. 0 \in LeaseIds /\ LostBy(c) \in Request \cup {None}
  BY DEF LeaseIds, LostBy, TypeInv
<1>2. CASE LetsGo(c)
  BY <1>1, <1>2 DEF LetsGo, TypeInv
<1>3. CASE GivesUp(c)
  <2>1. troubles' \in 0 .. MaxTrouble
    BY <1>3 DEF GivesUp, Trouble, TypeInv
  <2>2. /\ waiting' \in [Client -> Request \cup {None}]
        /\ lost' \in [Client -> Request \cup {None}]
        /\ believed' \in [Client -> LeaseIds]
    BY <1>1, <1>3 DEF GivesUp, TypeInv
  <2> QED BY <1>3, <2>1, <2>2 DEF GivesUp, TypeInv
<1>4. CASE Disconnects(c)
  <2>1. troubles' \in 0 .. MaxTrouble
    BY <1>4 DEF Disconnects, Trouble, TypeInv
  <2>2. /\ waiting' \in [Client -> Request \cup {None}]
        /\ lost' \in [Client -> Request \cup {None}]
        /\ believed' \in [Client -> LeaseIds]
        /\ conn' \in [Client -> Conn \cup {0}]
    BY <1>1, <1>4 DEF Disconnects, TypeInv
  <2> QED BY <1>4, <2>1, <2>2 DEF Disconnects, TypeInv
<1> QED BY <1>2, <1>3, <1>4

\* The ids the Core writes down are those of the frames it handles.
LEMMA HandlingFrame ==
  ASSUME TypeInv, NEW k \in Conn, NEW whats, Handling(k, whats)
  PROVE  /\ open[k] \in Client /\ open[k] # None
         /\ pipe[k] # <<>> /\ pipe[k] \in Seq(Request)
         /\ Frame(k) \in Request /\ Frame(k).what \in whats
         /\ Frame(k).n \in LeaseIds /\ Frame(k).exp \in Nat
         /\ Frame(k).op \in Op \cup {None}
         /\ (Frame(k).what = "run") = (Frame(k).op # None)
         /\ 0 \in LeaseIds
<1>1. pipe[k] \in Seq(Request) /\ pipe[k] # <<>> /\ open[k] \in Client
      /\ open[k] # None /\ Frame(k).what \in whats
  BY DEF Handling, TypeInv
<1>2. Frame(k) \in Request
  BY <1>1, HeadTailProperties DEF Frame
<1>3. 0 \in LeaseIds
  BY DEF LeaseIds
<1> QED BY <1>1, <1>2, <1>3, RequestParts

\* An operation that takes effect is counted (Applies).
LEMMA AppliesTypes ==
  ASSUME TypeInv, NEW o \in Op, Applies(o)
  PROVE  /\ applied' \in [Op -> Nat]
         /\ applied'[o] = applied[o] + 1
         /\ \A p \in Op : p # o => applied'[p] = applied[p]
<1>1. applied \in [Op -> Nat] /\ applied[o] + 1 \in Nat
  BY DEF TypeInv
<1>2. applied' = [applied EXCEPT ![o] = applied[o] + 1]
  BY DEF Applies
<1> QED BY <1>1, <1>2

\* Failures are counted up to their bound (Trouble).
LEMMA TroubleTypes ==
  ASSUME TypeInv, Trouble \/ troubles' = troubles
  PROVE  troubles' \in 0 .. MaxTrouble
BY DEF Trouble, TypeInv

\* Acquire, renew and release leave a lease of its type.
LEMMA LeaseTypes ==
  ASSUME TypeInv, NEW k \in Conn, Acquire(k) \/ Renew(k) \/ Release(k)
  PROVE  TypeInv'
<1>1. CASE Acquire(k)
  <2>1. /\ open[k] # None /\ pipe[k] # <<>> /\ Frame(k).n \in LeaseIds
        /\ 0 \in LeaseIds
    BY <1>1, HandlingFrame DEF Acquire
  <2>2. PICK id \in LeaseIds : \E verdict : Replies(k, verdict, id)
    <3>1. \A e \in Known(k) : e.id \in LeaseIds
      BY DEF Known, TypeInv
    <3>2. \/ \E e \in Known(k) : \E verdict : Replies(k, verdict, e.id)
          \/ \E verdict : Replies(k, verdict, 0)
          \/ \E verdict : Replies(k, verdict, Frame(k).n)
      BY <1>1 DEF Acquire
    <3> QED BY <2>1, <3>1, <3>2
  <2>3. LeaseTime \in 0 .. LeaseTime
    OBVIOUS
  <2>4. lease' \in [conn : Conn, id : LeaseIds, left : 0 .. LeaseTime] \cup {None}
    BY <1>1, <2>1, <2>3 DEF Acquire, TypeInv
  <2>5. control' \subseteq [conn : Conn, n : LeaseIds, id : LeaseIds]
    BY <1>1, <2>1 DEF Acquire, Recorded, TypeInv
  <2>6. UNCHANGED <<tableVars, core, open, attach, running, conn, lost, applied,
                    boundVars>>
    BY <1>1 DEF Acquire
  <2> QED BY <2>1, <2>2, <2>4, <2>5, <2>6, RepliesFrame DEF TypeInv
<1>2. CASE Renew(k)
  <2>1. open[k] # None /\ pipe[k] # <<>> /\ 0 \in LeaseIds
    BY <1>2, HandlingFrame DEF Renew
  <2>2. PICK id \in LeaseIds : \E verdict : Replies(k, verdict, id)
    <3>1. Holds(k, Frame(k).lease) => lease.id \in LeaseIds
      BY DEF Holds, Leased, TypeInv
    <3>2. \/ \E verdict : Replies(k, verdict, 0)
          \/ Holds(k, Frame(k).lease) /\ \E verdict : Replies(k, verdict, lease.id)
      BY <1>2 DEF Renew
    <3> QED BY <2>1, <3>1, <3>2
  <2>3. LeaseTime \in 0 .. LeaseTime
    OBVIOUS
  <2>4. lease' \in [conn : Conn, id : LeaseIds, left : 0 .. LeaseTime] \cup {None}
    <3>1. CASE Holds(k, Frame(k).lease) /\ lease' = [lease EXCEPT !.left = LeaseTime]
      BY <3>1, <2>3 DEF Holds, Leased, TypeInv
    <3>2. CASE lease' = lease
      BY <3>2 DEF TypeInv
    <3> QED BY <1>2, <3>1, <3>2 DEF Renew
  <2>5. UNCHANGED <<tableVars, core, open, control, attach, running, conn, lost,
                    applied, boundVars>>
    BY <1>2 DEF Renew
  <2> QED BY <2>1, <2>2, <2>4, <2>5, RepliesFrame DEF TypeInv
<1>3. CASE Release(k)
  <2>1. /\ open[k] # None /\ pipe[k] # <<>> /\ Frame(k).n \in LeaseIds
        /\ 0 \in LeaseIds
    BY <1>3, HandlingFrame DEF Release
  <2>2. PICK verdict : Replies(k, verdict, 0)
    BY <1>3 DEF Release
  <2>3. lease' \in [conn : Conn, id : LeaseIds, left : 0 .. LeaseTime] \cup {None}
    BY <1>3 DEF Release, TypeInv
  <2>4. control' \subseteq [conn : Conn, n : LeaseIds, id : LeaseIds]
    BY <1>3, <2>1 DEF Release, Recorded, TypeInv
  <2>5. UNCHANGED <<tableVars, core, open, attach, running, conn, lost, applied,
                    boundVars>>
    BY <1>3 DEF Release
  <2> QED BY <2>1, <2>2, <2>3, <2>4, <2>5, RepliesFrame DEF TypeInv
<1> QED BY <1>1, <1>2, <1>3

\* Grants and attachments.
LEMMA GrantTypes ==
  ASSUME TypeInv, NEW k \in Conn, Grants(k) \/ Attach(k)
  PROVE  TypeInv'
<1>1. CASE Grants(k)
  <2>1. open[k] # None /\ pipe[k] # <<>> /\ 0 \in LeaseIds
    BY <1>1, HandlingFrame DEF Grants
  <2>2. PICK verdict : Replies(k, verdict, 0)
    BY <1>1 DEF Grants
  <2>3. grant' \in [generation : Nat, active : BOOLEAN]
    <3>1. \/ grant' = grant
          \/ grant' = [generation |-> grant.generation + 1, active |-> TRUE]
          \/ grant' = [grant EXCEPT !.active = FALSE]
      BY <1>1 DEF Grants
    <3>2. grant \in [generation : Nat, active : BOOLEAN]
      BY DEF TypeInv
    <3>3. grant.generation + 1 \in Nat /\ grant.generation \in Nat
      BY <3>2
    <3>4. CASE grant' = [generation |-> grant.generation + 1, active |-> TRUE]
      BY <3>3, <3>4
    <3>5. CASE grant' = [grant EXCEPT !.active = FALSE]
      BY <3>2, <3>5
    <3> QED BY <3>1, <3>2, <3>4, <3>5
  <2>4. attach' \in [conn : Conn, generation : Nat] \cup {None}
    BY <1>1 DEF Grants, TypeInv
  <2>5. UNCHANGED <<revision, ledger, journal, core, open, lease, control, running,
                    conn, lost, applied, boundVars>>
    BY <1>1 DEF Grants
  <2> QED BY <2>1, <2>2, <2>3, <2>4, <2>5, RepliesFrame DEF TypeInv
<1>2. CASE Attach(k)
  <2>1. open[k] # None /\ pipe[k] # <<>> /\ 0 \in LeaseIds
    BY <1>2, HandlingFrame DEF Attach
  <2>2. PICK verdict : Replies(k, verdict, 0)
    BY <1>2 DEF Attach
  <2>3. attach' \in [conn : Conn, generation : Nat] \cup {None}
    BY <1>2 DEF Attach, TypeInv
  <2>4. UNCHANGED <<tableVars, core, open, lease, control, running, conn, lost,
                    applied, boundVars>>
    BY <1>2 DEF Attach
  <2> QED BY <2>1, <2>2, <2>3, <2>4, RepliesFrame DEF TypeInv
<1> QED BY <1>1, <1>2

\* A write counts up the revision and what took effect.
LEMMA WriteTypes ==
  ASSUME TypeInv, NEW k \in Conn, Write(k)
  PROVE  TypeInv'
<1>1. /\ open[k] # None /\ pipe[k] # <<>> /\ 0 \in LeaseIds
      /\ Frame(k).op \in Op /\ Frame(k).exp \in Nat
  <2>1. Handling(k, {"run"})
    BY DEF Write
  <2> QED BY <2>1, HandlingFrame
<1>2. PICK verdict : Replies(k, verdict, 0)
  BY DEF Write
<1>3. /\ revision' \in Nat
      /\ ledger' \in [Op -> Nat \cup {None}]
      /\ applied' \in [Op -> Nat]
      /\ troubles' \in 0 .. MaxTrouble
  <2>1. revision' = revision \/ revision' = revision + 1
    BY DEF Write
  <2>2. ledger' = ledger \/ ledger' = [ledger EXCEPT ![Frame(k).op] = Frame(k).exp]
    BY DEF Write
  <2>3. applied' = applied \/ Applies(Frame(k).op)
    BY DEF Write
  <2>4. troubles' = troubles \/ Trouble
    BY DEF Write
  <2>5. revision' \in Nat
    BY <2>1 DEF TypeInv
  <2>6. ledger' \in [Op -> Nat \cup {None}]
    BY <2>2, <1>1 DEF TypeInv
  <2>7. applied' \in [Op -> Nat]
    BY <2>3, <1>1, AppliesTypes DEF TypeInv
  <2>8. troubles' \in 0 .. MaxTrouble
    BY <2>4, TroubleTypes
  <2> QED BY <2>5, <2>6, <2>7, <2>8
<1>4. UNCHANGED <<journal, grant, core, memoryVars, conn, lost, sent, conns, crashes>>
  BY DEF Write
<1> QED BY <1>1, <1>2, <1>3, <1>4, RepliesFrame DEF TypeInv

\* An external call goes from its claim over its effect to its result.
LEMMA CallTypes ==
  ASSUME TypeInv, NEW k \in Conn, Call(k) \/ CallTakesEffect(k) \/ CallSettles(k),
         running[k] # None /\ open[k] # None => pipe[k] # <<>>
  PROVE  TypeInv'
<1>1. CASE Call(k)
  <2>1. /\ open[k] # None /\ pipe[k] # <<>> /\ 0 \in LeaseIds
        /\ Frame(k).op \in Op
    <3>1. Handling(k, {"run"})
      BY <1>1 DEF Call
    <3> QED BY <3>1, HandlingFrame
  <2>2. /\ journal' \in [Op -> {"none", "in_flight", "succeeded", "unknown"}]
        /\ running' \in [Conn -> [op : Op, done : BOOLEAN] \cup {None}]
    <3>1. [op |-> Frame(k).op, done |-> FALSE] \in [op : Op, done : BOOLEAN]
      BY <2>1
    <3>2. \/ UNCHANGED <<journal, running>>
          \/ /\ journal' = [journal EXCEPT ![Frame(k).op] = "in_flight"]
             /\ running' = [running EXCEPT ![k] = [op |-> Frame(k).op, done |-> FALSE]]
      BY <1>1 DEF Call
    <3>3. CASE UNCHANGED <<journal, running>>
      BY <3>3 DEF TypeInv
    <3>4. CASE /\ journal' = [journal EXCEPT ![Frame(k).op] = "in_flight"]
               /\ running' = [running EXCEPT ![k] = [op |-> Frame(k).op, done |-> FALSE]]
      BY <3>1, <3>4 DEF TypeInv
    <3> QED BY <3>2, <3>3, <3>4
  <2>3. UNCHANGED <<revision, ledger, grant, core, open, lease, control, attach,
                    conn, lost, applied, boundVars>>
    BY <1>1 DEF Call
  <2>4. CASE \E verdict : Replies(k, verdict, 0)
    BY <2>1, <2>2, <2>3, <2>4, RepliesFrame DEF TypeInv
  <2>5. CASE UNCHANGED <<pipe, readVars>>
    BY <2>2, <2>3, <2>5 DEF TypeInv
  <2> QED BY <1>1, <2>4, <2>5 DEF Call
<1>2. CASE CallTakesEffect(k)
  <2>1. running[k] \in [op : Op, done : BOOLEAN]
    BY <1>2 DEF CallTakesEffect, TypeInv
  <2>2. running' \in [Conn -> [op : Op, done : BOOLEAN] \cup {None}]
    <3>1. [running[k] EXCEPT !.done = TRUE] \in [op : Op, done : BOOLEAN]
      BY <2>1
    <3>2. running' = [running EXCEPT ![k] = [running[k] EXCEPT !.done = TRUE]]
      BY <1>2 DEF CallTakesEffect
    <3> QED BY <3>1, <3>2 DEF TypeInv
  <2>3. applied' \in [Op -> Nat]
    BY <1>2, <2>1, AppliesTypes DEF CallTakesEffect
  <2> QED BY <1>2, <2>2, <2>3 DEF CallTakesEffect, TypeInv
<1>3. CASE CallSettles(k)
  <2>1. PICK state \in {"succeeded", "unknown", "in_flight"} : Settled(k, state)
    BY <1>3 DEF CallSettles
  <2>2. /\ journal' \in [Op -> {"none", "in_flight", "succeeded", "unknown"}]
        /\ running' \in [Conn -> [op : Op, done : BOOLEAN] \cup {None}]
    BY <2>1 DEF Settled, TypeInv
  <2>3. troubles' \in 0 .. MaxTrouble
    <3>1. troubles' = troubles \/ Trouble
      BY <1>3 DEF CallSettles
    <3> QED BY <3>1, TroubleTypes
  <2>4. UNCHANGED <<revision, ledger, grant, core, open, lease, control, attach,
                    conn, lost, applied, sent, conns, crashes>>
    BY <1>3 DEF CallSettles
  <2>5. CASE open[k] = None
    <3>1. UNCHANGED <<pipe, readVars>>
      BY <2>1, <2>5 DEF Settled
    <3> QED BY <2>2, <2>3, <2>4, <3>1 DEF TypeInv
  <2>6. CASE open[k] # None
    <3>1. PICK verdict : Replies(k, verdict, 0)
      BY <2>1, <2>6 DEF Settled
    <3>2. pipe[k] # <<>> /\ 0 \in LeaseIds
      BY <1>3, <2>6 DEF CallSettles, LeaseIds
    <3> QED BY <2>2, <2>3, <2>4, <2>6, <3>1, <3>2, RepliesFrame DEF TypeInv
  <2> QED BY <2>5, <2>6
<1> QED BY <1>1, <1>2, <1>3

\* The end of a connection, the clock and the process.
LEMMA EndTypes ==
  ASSUME TypeInv,
         \/ \E k \in Conn : Closes(k)
         \/ TimePasses \/ Crash \/ Restart
  PROVE  TypeInv'
<1>0. 0 \in LeaseIds /\ <<>> \in Seq(Request)
  BY EmptySeq DEF LeaseIds
<1>1. ASSUME NEW k \in Conn, Closes(k)
      PROVE  TypeInv'
  <2>1. pipe' \in [Conn -> Seq(Request)] /\ open' \in [Conn -> Client \cup {None}]
    BY <1>0, <1>1 DEF Closes, TypeInv
  <2> QED BY <1>1, <2>1 DEF Closes, TypeInv
<1>2. CASE TimePasses
  <2>1. lease' \in [conn : Conn, id : LeaseIds, left : 0 .. LeaseTime] \cup {None}
    <3>1. lease \in [conn : Conn, id : LeaseIds, left : 0 .. LeaseTime]
          /\ lease.left > 0
      BY <1>2 DEF TimePasses, Leased, TypeInv
    <3>2. lease.left - 1 \in 0 .. LeaseTime
      BY <3>1
    <3> QED BY <1>2, <3>1, <3>2 DEF TimePasses
  <2> QED BY <1>2, <2>1 DEF TimePasses, TypeInv
<1>3. CASE Crash
  <2>1. crashes' \in 0 .. MaxCrash
    BY <1>3 DEF Crash, TypeInv
  <2>2. \A c \in Client : LostBy(c) \in Request \cup {None}
    BY DEF LostBy, TypeInv
  <2>3. lost' \in [Client -> Request \cup {None}]
    BY <1>3, <2>2 DEF Crash, Forgotten
  <2> QED BY <1>0, <1>3, <2>1, <2>3 DEF Crash, Forgotten, TypeInv
<1>4. CASE Restart
  BY <1>4 DEF Restart, TypeInv
<1> QED BY <1>1, <1>2, <1>3, <1>4

-----------------------------------------------------------------------------
(* What clients wait for.                                                    *)

\* At first nobody is connected (Init).
LEMMA LineInit == Init => LineInv
BY DEF Init, LineInv, ConnFits, WaitFits, LostFits, LineFits

\* A client that connects gets a connection nobody used.
LEMMA ConnectLine ==
  ASSUME TypeInv, LineInv, NEW c \in Client, Connect(c)
  PROVE  LineInv'
<1>1. /\ conns \in Nat /\ conns + 1 \in Conn /\ conns' = conns + 1
      /\ conn[c] = 0 /\ Conn \subseteq Nat \ {0}
      /\ conn' = [conn EXCEPT ![c] = conns + 1]
      /\ open' = [open EXCEPT ![conns + 1] = c]
      /\ UNCHANGED <<waiting, lost, pipe, running>>
  BY DEF TypeInv, Connect, Conn
<1>2. ASSUME NEW d \in Client
      PROVE  ConnFits(d)' /\ WaitFits(d)' /\ LostFits(d)'
  <2>1. ConnFits(d) /\ WaitFits(d) /\ LostFits(d)
    BY DEF LineInv
  <2>2. CASE d = c
    <3>1. conn'[d] = conns + 1 /\ open'[conns + 1] = d
      BY <1>1, <2>2 DEF TypeInv
    <3> QED BY <1>1, <2>1, <2>2, <3>1 DEF ConnFits, WaitFits, LostFits
  <2>3. CASE d # c
    <3>1. conn'[d] = conn[d] /\ conn[d] \in Nat
      BY <1>1, <2>3, SMTT(30) DEF TypeInv
    <3>2. conn[d] # 0 => conn[d] <= conns /\ open'[conn[d]] = open[conn[d]]
      BY <1>1, <2>1 DEF ConnFits, TypeInv
    <3> QED BY <1>1, <2>1, <3>1, <3>2 DEF ConnFits, WaitFits, LostFits, Last
  <2> QED BY <2>2, <2>3
<1>3. ASSUME NEW k \in Conn
      PROVE  LineFits(k)'
  <2>1. LineFits(k) /\ k \in Nat
    BY <1>1 DEF LineInv
  <2>2. CASE k = conns + 1
    BY <1>1, <2>1, <2>2 DEF LineFits
  <2>3. CASE k # conns + 1
    <3>1. open'[k] = open[k]
      BY <1>1, <2>3 DEF TypeInv
    <3> QED BY <1>1, <2>1, <3>1 DEF LineFits
  <2> QED BY <2>2, <2>3
<1> QED BY <1>2, <1>3 DEF LineInv

\* A connection belongs to one client.
LEMMA ConnectionsAreApart ==
  ASSUME LineInv, NEW c \in Client, NEW d \in Client, conn[c] # 0, conn[c] = conn[d]
  PROVE  c = d
BY DEF LineInv, ConnFits

\* What a client sends is the last frame of its connection.
LEMMA SendsLine ==
  ASSUME TypeInv, LineInv, NEW c \in Client, NEW r \in Request, Sends(c, r),
         r.op # None => AuthorOf[r.op] = c,
         UNCHANGED <<conn, open, running, conns>>,
         lost' = lost \/ lost' = [lost EXCEPT ![c] = None]
  PROVE  LineInv'
<1>1. /\ waiting' = [waiting EXCEPT ![c] = r]
      /\ conn[c] \in Conn
      /\ \A k \in Conn : k # conn[c] => pipe'[k] = pipe[k]
      /\ Len(pipe'[conn[c]]) = Len(pipe[conn[c]]) + 1
      /\ pipe'[conn[c]] # <<>>
      /\ pipe'[conn[c]][Len(pipe[conn[c]]) + 1] = r
      /\ pipe[conn[c]] # <<>> => Head(pipe'[conn[c]]) = Head(pipe[conn[c]])
  BY SendsFrame
<1>2. ASSUME NEW d \in Client
      PROVE  ConnFits(d)' /\ WaitFits(d)' /\ LostFits(d)'
  <2>1. ConnFits(d) /\ WaitFits(d) /\ LostFits(d)
    BY DEF LineInv
  <2>2. ConnFits(d)'
    BY <2>1 DEF ConnFits
  <2>3. LostFits(d)'
    BY <2>1 DEF LostFits, TypeInv
  <2>4. CASE d = c
    <3>1. waiting'[d] = r /\ conn[d] # 0
      BY <1>1, <2>4 DEF TypeInv, Conn
    <3> QED BY <1>1, <2>2, <2>3, <2>4, <3>1 DEF WaitFits, Last
  <2>5. CASE d # c
    <3>1. waiting'[d] = waiting[d]
      BY <1>1, <2>5 DEF TypeInv
    <3>2. conn[d] # 0 => conn[d] # conn[c] /\ conn[d] \in Conn
      BY <2>5, ConnectionsAreApart DEF TypeInv
    <3>3. conn[d] # 0 => pipe'[conn[d]] = pipe[conn[d]]
      BY <1>1, <3>2
    <3> QED BY <2>1, <2>2, <2>3, <3>1, <3>3 DEF WaitFits, Last
  <2> QED BY <2>4, <2>5
<1>3. ASSUME NEW k \in Conn
      PROVE  LineFits(k)'
  <2>1. LineFits(k)
    BY DEF LineInv
  <2>2. CASE k = conn[c]
    BY <1>1, <2>1, <2>2 DEF LineFits
  <2>3. CASE k # conn[c]
    <3>1. pipe'[k] = pipe[k]
      BY <1>1, <2>3
    <3> QED BY <2>1, <3>1 DEF LineFits
  <2> QED BY <2>2, <2>3
<1> QED BY <1>2, <1>3 DEF LineInv

\* What is awaited is the only frame of the connection of its client.
LEMMA AwaitedFrame ==
  ASSUME TypeInv, LineInv, NEW k \in Conn, open[k] # None, pipe[k] # <<>>, Awaited(k)
  PROVE  /\ open[k] \in Client /\ waiting[open[k]] = Frame(k)
         /\ Frame(k) \in Request
         /\ Frame(k).op # None => AuthorOf[Frame(k).op] = open[k]
<1>1. open[k] \in Client /\ pipe[k] \in Seq(Request)
  BY DEF TypeInv
<1>2. WaitFits(open[k])
  BY <1>1 DEF LineInv
<1>3. waiting[open[k]] = pipe[k][1] /\ Frame(k) = pipe[k][1]
  BY <1>1, <1>2 DEF WaitFits, Last, Awaited, Frame
<1>4. Frame(k) \in Request
  BY <1>1, HeadTailProperties DEF Frame
<1> QED BY <1>1, <1>2, <1>3, <1>4 DEF WaitFits, Awaited

\* Who waits goes on to wait for the last frame when the first is done.
LEMMA RepliesLine ==
  ASSUME TypeInv, LineInv, NEW k \in Conn, open[k] # None, pipe[k] # <<>>,
         NEW verdict, NEW id \in LeaseIds, Replies(k, verdict, id),
         UNCHANGED <<conn, open, lost, conns>>,
         running'[k] = None,
         \A l \in Conn : l # k => running'[l] = running[l]
  PROVE  LineInv'
<1>1. /\ open[k] \in Client
      /\ \A l \in Conn : l # k => pipe'[l] = pipe[l]
      /\ Len(pipe[k]) \in Nat \ {0} /\ Len(pipe'[k]) = Len(pipe[k]) - 1
      /\ \A i \in 1 .. Len(pipe'[k]) : pipe'[k][i] = pipe[k][i + 1]
      /\ pipe'[k] \in Seq(Request)
  BY RepliesFrame DEF TypeInv
<1>2. ASSUME NEW d \in Client
      PROVE  ConnFits(d)' /\ WaitFits(d)' /\ LostFits(d)'
  <2>1. ConnFits(d) /\ WaitFits(d) /\ LostFits(d)
    BY DEF LineInv
  <2>2. ConnFits(d)' /\ LostFits(d)'
    BY <2>1 DEF ConnFits, LostFits
  <2>3. waiting'[d] # None => waiting'[d] = waiting[d]
    BY <1>1 DEF Replies, Reads, TypeInv
  <2>4. CASE conn[d] # k
    <3>1. conn[d] # 0 => conn[d] \in Conn /\ pipe'[conn[d]] = pipe[conn[d]]
      BY <1>1, <2>4, SMTT(30) DEF TypeInv
    <3> QED BY <2>1, <2>2, <2>3, <3>1 DEF WaitFits, Last
  <2>5. CASE conn[d] = k /\ waiting'[d] # None
    <3>1. open[k] = d /\ waiting[d] # None
      BY <2>1, <2>3, <2>5 DEF ConnFits, Conn
    <3>2. ~Awaited(k)
      <4>1. ASSUME Awaited(k) PROVE FALSE
        <5>1. waiting' = [waiting EXCEPT ![d] = None]
          BY <4>1, <3>1 DEF Replies, Reads
        <5> QED BY <5>1, <2>5 DEF TypeInv
      <4> QED BY <4>1
    <3>3. Len(pipe[k]) > 1
      <4>1. Len(pipe[k]) # 1
        BY <2>5, <3>1, <3>2 DEF Awaited
      <4>2. Len(pipe[k]) \in Nat \ {0}
        BY <1>1
      <4>3. \A n \in Nat \ {0} : n # 1 => n > 1
        OBVIOUS
      <4> QED BY <4>1, <4>2, <4>3
    <3>4. /\ Len(pipe'[k]) \in 1 .. Len(pipe'[k]) /\ pipe'[k] # <<>>
          /\ pipe'[k][Len(pipe'[k])] = pipe[k][Len(pipe[k])]
      <4> DEFINE now == Len(pipe[k])  then == Len(pipe'[k])
      <4>1. now \in Nat /\ now > 1 /\ then = now - 1
        BY <1>1, <3>3
      <4>2. then \in 1 .. then /\ then + 1 = now
        <5> HIDE DEF now, then
        <5> QED BY <4>1
      <4>3. pipe'[k][then] = pipe[k][then + 1]
        BY <1>1, <4>2
      <4>4. pipe'[k] # <<>>
        <5>1. pipe'[k] = <<>> => Len(pipe'[k]) = 0
          OBVIOUS
        <5>2. then # 0
          <6> HIDE DEF now, then
          <6> QED BY <4>1
        <5> QED BY <5>1, <5>2
      <4> QED BY <4>2, <4>3, <4>4
    <3> QED BY <2>1, <2>2, <2>3, <2>5, <3>4 DEF WaitFits, Last
  <2>6. CASE waiting'[d] = None
    BY <2>2, <2>6 DEF WaitFits
  <2> QED BY <2>4, <2>5, <2>6
<1>3. ASSUME NEW l \in Conn
      PROVE  LineFits(l)'
  BY <1>1 DEF LineInv, LineFits
<1> QED BY <1>2, <1>3 DEF LineInv

\* A step that leaves all of it alone.
LEMMA LineFrame ==
  ASSUME LineInv, UNCHANGED <<conn, open, waiting, lost, pipe, running, conns>>
  PROVE  LineInv'
BY DEF LineInv, ConnFits, WaitFits, LostFits, LineFits, Last

\* A write expects the revision its author has just read, or it is the one its
\* author has given up on.
IsCurrent(c, r) ==
  r.op # None /\ KindOf[r.op] # "call" =>
    \/ r.exp = revision
    \/ lost[c] # None /\ lost[c].op = r.op /\ r.exp = lost[c].exp

\* Every request that a client sends is its own.
LEMMA SendingLine ==
  ASSUME TypeInv, LineInv, NEW c \in Client,
         \/ \E what \in {"acquire", "release", "issue", "revoke"} : Controls(c, what)
         \/ \E g \in 1 .. grant.generation : Attaches(c, g)
         \/ \E o \in Op : Runs(c, o)
         \/ Retries(c)
         \/ Renews(c)
  PROVE  \E r \in Request : /\ Sends(c, r)
                            /\ r.op # None => AuthorOf[r.op] = c
                            /\ UNCHANGED <<conn, open, running, conns, tableVars>>
                            /\ lost' = lost \/ lost' = [lost EXCEPT ![c] = None]
                            /\ \A o \in Op : told'[o] = IF o = r.op THEN "nothing"
                                                       ELSE told[o]
                            /\ IsCurrent(c, r)
<1>1. ASSUME NEW what \in {"acquire", "release", "issue", "revoke"},
             Controls(c, what)
      PROVE  Sends(c, NewRequest(c, what, None, revision))
             /\ NewRequest(c, what, None, revision) \in Request
             /\ NewRequest(c, what, None, revision).op = None
  <2>1. revision \in Nat
    BY DEF TypeInv
  <2> QED BY <1>1, <2>1, NewIsRequest, CountedTypes DEF Controls
<1>2. ASSUME NEW g \in 1 .. grant.generation, Attaches(c, g)
      PROVE  Sends(c, NewRequest(c, "attach", None, g))
             /\ NewRequest(c, "attach", None, g) \in Request
             /\ NewRequest(c, "attach", None, g).op = None
  <2>1. g \in Nat
    OBVIOUS
  <2> QED BY <1>2, <2>1, NewIsRequest, CountedTypes DEF Attaches
<1>3. ASSUME NEW o \in Op, Runs(c, o)
      PROVE  \E r \in Request : /\ Sends(c, r) /\ r.op = o /\ AuthorOf[o] = c
                                /\ KindOf[o] # "call" => r.exp = revision
  <2>1. (IF KindOf[o] = "call" THEN 0 ELSE revision) \in Nat
    BY DEF TypeInv
  <2> DEFINE r == NewRequest(c, "run", o, IF KindOf[o] = "call" THEN 0 ELSE revision)
  <2>2. r \in Request /\ r.op = o /\ (KindOf[o] # "call" => r.exp = revision)
    BY <1>3, <2>1, NewIsRequest, CountedTypes DEF Runs
  <2>3. Sends(c, r) /\ AuthorOf[o] = c
    BY <1>3 DEF Runs
  <2> HIDE DEF r
  <2> QED BY <2>2, <2>3
<1>4. ASSUME Retries(c)
      PROVE  \E r \in Request : /\ Sends(c, r) /\ r.op = lost[c].op
                                /\ r.exp = lost[c].exp
  <2> DEFINE r == [lost[c] EXCEPT !.lease = IF lost[c].what = "release" THEN @
                                            ELSE believed[c]]
  <2>1. lost[c] \in Request /\ believed[c] \in LeaseIds
    BY <1>4 DEF Retries, TypeInv
  <2>2. r \in Request /\ r.op = lost[c].op /\ r.exp = lost[c].exp
    BY <2>1 DEF Request, Requests, LeaseIds
  <2>3. Sends(c, r)
    BY <1>4 DEF Retries
  <2> HIDE DEF r
  <2> QED BY <2>2, <2>3
<1>5. ASSUME Renews(c)
      PROVE  \E r \in Request : Sends(c, r) /\ r.op = None
  <2> DEFINE r == [NewRequest(c, "renew", None, revision) EXCEPT !.n = 0]
  <2>1. r \in Request /\ r.op = None
    BY <1>5 DEF NewRequest, TypeInv, Request, Requests, LeaseIds
  <2>2. Sends(c, r)
    BY <1>5 DEF Renews
  <2> HIDE DEF r
  <2> QED BY <2>1, <2>2
<1>6. CASE \E what \in {"acquire", "release", "issue", "revoke"} : Controls(c, what)
  <2>1. UNCHANGED <<conn, open, running, conns, lost, told, tableVars>>
    BY <1>6 DEF Controls
  <2> QED BY <1>1, <1>6, <2>1 DEF IsCurrent
<1>7. CASE \E g \in 1 .. grant.generation : Attaches(c, g)
  <2>1. UNCHANGED <<conn, open, running, conns, lost, told, tableVars>>
    BY <1>7 DEF Attaches
  <2> QED BY <1>2, <1>7, <2>1 DEF IsCurrent
<1>8. CASE \E o \in Op : Runs(c, o)
  <2>1. ASSUME NEW o \in Op, Runs(c, o),
               NEW r \in Request, Sends(c, r), r.op = o, AuthorOf[o] = c,
               KindOf[o] # "call" => r.exp = revision
        PROVE  /\ r.op # None => AuthorOf[r.op] = c
               /\ UNCHANGED <<conn, open, running, conns, lost, tableVars>>
               /\ \A q \in Op : told'[q] = IF q = r.op THEN "nothing" ELSE told[q]
               /\ IsCurrent(c, r)
    <3>1. UNCHANGED <<conn, open, running, conns, lost, tableVars>>
          /\ told' = [told EXCEPT ![o] = "nothing"]
      BY <2>1 DEF Runs
    <3>2. \A q \in Op : told'[q] = IF q = r.op THEN "nothing" ELSE told[q]
      BY <2>1, <3>1 DEF TypeInv
    <3>3. IsCurrent(c, r)
      BY <2>1 DEF IsCurrent
    <3> QED BY <2>1, <3>1, <3>2, <3>3
  <2> QED BY <1>3, <1>8, <2>1
<1>9. CASE Retries(c)
  <2>1. /\ UNCHANGED <<conn, open, running, conns, tableVars>>
        /\ lost' = [lost EXCEPT ![c] = None]
        /\ lost[c] # None
        /\ told' = IF lost[c].op = None THEN told
                   ELSE [told EXCEPT ![lost[c].op] = "nothing"]
    BY <1>9 DEF Retries
  <2>2. lost[c].op # None => AuthorOf[lost[c].op] = c
    BY <2>1 DEF LineInv, LostFits
  <2>3. PICK r \in Request : /\ Sends(c, r) /\ r.op = lost[c].op
                            /\ r.exp = lost[c].exp
    BY <1>4, <1>9
  <2>4. \A q \in Op : told'[q] = IF q = r.op THEN "nothing" ELSE told[q]
    BY <2>1, <2>3, SMTT(30) DEF TypeInv
  <2>5. IsCurrent(c, r)
    BY <2>1, <2>3 DEF IsCurrent
  <2> QED BY <2>1, <2>2, <2>3, <2>4, <2>5
<1>10. CASE Renews(c)
  <2>1. UNCHANGED <<conn, open, running, conns, lost, told, tableVars>>
    BY <1>10 DEF Renews
  <2> QED BY <1>5, <1>10, <2>1 DEF IsCurrent
<1> QED BY <1>6, <1>7, <1>8, <1>9, <1>10

\* Nobody waits without a connection, or for what another client sent.
LEMMA LosingLine ==
  ASSUME TypeInv, LineInv, NEW c \in Client, GivesUp(c) \/ Disconnects(c)
  PROVE  LineInv'
<1>1. /\ waiting' = [waiting EXCEPT ![c] = None]
      /\ lost' = [lost EXCEPT ![c] = LostBy(c)]
      /\ conn' = conn \/ conn' = [conn EXCEPT ![c] = 0]
      /\ UNCHANGED <<open, running, pipe, conns>>
  BY DEF GivesUp, Disconnects
<1>2. ASSUME NEW d \in Client
      PROVE  ConnFits(d)' /\ WaitFits(d)' /\ LostFits(d)'
  <2>1. ConnFits(d) /\ WaitFits(d) /\ LostFits(d)
    BY DEF LineInv
  <2>2. CASE d # c
    BY <1>1, <2>1, <2>2 DEF ConnFits, WaitFits, LostFits, Last, TypeInv
  <2>3. CASE d = c
    <3>1. waiting'[d] = None /\ lost'[d] = LostBy(d)
          /\ (conn'[d] = conn[d] \/ conn'[d] = 0)
      BY <1>1, <2>3 DEF TypeInv
    <3> QED BY <1>1, <2>1, <3>1 DEF ConnFits, WaitFits, LostFits, LostBy
  <2> QED BY <2>2, <2>3
<1>3. ASSUME NEW k \in Conn
      PROVE  LineFits(k)'
  BY <1>1 DEF LineInv, LineFits
<1> QED BY <1>2, <1>3 DEF LineInv

\* The frames of a connection go with it, when nobody uses it any more.
LEMMA ClosesLine ==
  ASSUME TypeInv, LineInv, NEW k \in Conn, Closes(k)
  PROVE  LineInv'
<1>1. /\ conn[open[k]] # k /\ open[k] # None
      /\ open' = [open EXCEPT ![k] = None]
      /\ pipe' = [pipe EXCEPT ![k] = <<>>]
      /\ UNCHANGED <<conn, waiting, lost, running, conns>>
  BY DEF Closes
<1>2. ASSUME NEW d \in Client
      PROVE  ConnFits(d)' /\ WaitFits(d)' /\ LostFits(d)'
  <2>1. ConnFits(d) /\ WaitFits(d) /\ LostFits(d)
    BY DEF LineInv
  <2>2. conn[d] # 0 => conn[d] # k /\ conn[d] \in Conn
    BY <1>1, <2>1 DEF ConnFits, TypeInv
  <2>3. conn[d] # 0 => open'[conn[d]] = open[conn[d]] /\ pipe'[conn[d]] = pipe[conn[d]]
    BY <1>1, <2>2 DEF TypeInv
  <2> QED BY <1>1, <2>1, <2>3 DEF ConnFits, WaitFits, LostFits, Last
<1>3. ASSUME NEW l \in Conn
      PROVE  LineFits(l)'
  BY <1>1 DEF LineInv, LineFits, TypeInv
<1> QED BY <1>2, <1>3 DEF LineInv

\* After a crash nobody waits.
LEMMA CrashLine ==
  ASSUME TypeInv, LineInv, Crash
  PROVE  LineInv'
<1>1. ASSUME NEW d \in Client
      PROVE  ConnFits(d)' /\ WaitFits(d)' /\ LostFits(d)'
  <2>1. WaitFits(d) /\ LostFits(d)
    BY DEF LineInv
  <2>2. conn'[d] = 0 /\ waiting'[d] = None /\ lost'[d] = LostBy(d)
    BY DEF Crash, Forgotten
  <2> QED BY <2>1, <2>2 DEF ConnFits, WaitFits, LostFits, LostBy
<1>2. ASSUME NEW k \in Conn
      PROVE  LineFits(k)'
  BY DEF Crash, Forgotten, LineFits
<1> QED BY <1>1, <1>2 DEF LineInv

\* The Core makes a call for the frame in front.
LEMMA CallLine ==
  ASSUME TypeInv, LineInv, NEW k \in Conn,
         Call(k) \/ CallTakesEffect(k) \/ CallSettles(k)
  PROVE  LineInv'
<1>1. CASE Call(k)
  <2>1. /\ open[k] # None /\ pipe[k] # <<>> /\ 0 \in LeaseIds
        /\ Frame(k).op \in Op /\ running[k] = None
    <3>1. Handling(k, {"run"})
      BY <1>1 DEF Call
    <3> QED BY <3>1, HandlingFrame DEF Handling
  <2>2. UNCHANGED <<conn, open, lost, conns>>
    BY <1>1 DEF Call
  <2>3. CASE UNCHANGED running /\ \E verdict : Replies(k, verdict, 0)
    BY <2>1, <2>2, <2>3, RepliesLine
  <2>4. CASE /\ running' = [running EXCEPT ![k] = [op |-> Frame(k).op, done |-> FALSE]]
             /\ UNCHANGED <<pipe, readVars>>
    <3>1. ASSUME NEW l \in Conn
          PROVE  LineFits(l)'
      <4>1. LineFits(l) /\ LineFits(k)
        BY DEF LineInv
      <4>2. CASE l = k
        <5>1. running'[k].op = Frame(k).op /\ k <= conns
          BY <2>1, <2>4, <4>1 DEF LineFits, TypeInv
        <5> QED BY <2>1, <2>2, <2>4, <4>2, <5>1 DEF LineFits, Frame
      <4>3. CASE l # k
        <5>1. running'[l] = running[l]
          BY <2>4, <4>3 DEF TypeInv
        <5> QED BY <2>2, <2>4, <4>1, <5>1 DEF LineFits
      <4> QED BY <4>2, <4>3
    <3> QED BY <2>2, <2>4, <3>1 DEF LineInv, ConnFits, WaitFits, LostFits, Last
  <2> QED BY <1>1, <2>3, <2>4 DEF Call
<1>2. CASE CallTakesEffect(k)
  <2>1. /\ UNCHANGED <<conn, open, waiting, lost, pipe, conns>>
        /\ running[k] # None /\ running[k] \in [op : Op, done : BOOLEAN]
        /\ running' = [running EXCEPT ![k].done = TRUE]
    BY <1>2 DEF CallTakesEffect, TypeInv
  <2>2. running'[k].op = running[k].op
        /\ \A l \in Conn : l # k => running'[l] = running[l]
    BY <2>1 DEF TypeInv
  <2>3. ASSUME NEW l \in Conn
        PROVE  LineFits(l)'
    BY <2>1, <2>2 DEF LineInv, LineFits
  <2> QED BY <2>1, <2>3 DEF LineInv, ConnFits, WaitFits, LostFits, Last
<1>3. CASE CallSettles(k)
  <2>1. PICK state : Settled(k, state)
    BY <1>3 DEF CallSettles
  <2>2. /\ UNCHANGED <<conn, open, lost, conns>>
        /\ running'[k] = None
        /\ \A l \in Conn : l # k => running'[l] = running[l]
    BY <1>3, <2>1 DEF CallSettles, Settled, TypeInv
  <2>3. CASE open[k] = None
    <3>1. UNCHANGED <<waiting, pipe>>
      BY <2>1, <2>3 DEF Settled
    <3>2. ASSUME NEW l \in Conn
          PROVE  LineFits(l)'
      BY <2>2, <3>1 DEF LineInv, LineFits
    <3> QED BY <2>2, <3>1, <3>2 DEF LineInv, ConnFits, WaitFits, LostFits, Last
  <2>4. CASE open[k] # None
    <3>1. PICK verdict : Replies(k, verdict, 0)
      BY <2>1, <2>4 DEF Settled
    <3>2. pipe[k] # <<>> /\ 0 \in LeaseIds
      BY <1>3, <2>4 DEF CallSettles, LineInv, LineFits, LeaseIds
    <3> QED BY <2>2, <2>4, <3>1, <3>2, RepliesLine
  <2> QED BY <2>3, <2>4
<1> QED BY <1>1, <1>2, <1>3

\* The other frames are done when they are handled.
LEMMA HandledFrames ==
  ASSUME TypeInv, NEW k \in Conn,
         Acquire(k) \/ Renew(k) \/ Release(k) \/ Grants(k) \/ Attach(k) \/ Write(k)
  PROVE  /\ open[k] # None /\ pipe[k] # <<>> /\ running[k] = None
         /\ UNCHANGED <<conn, open, lost, conns, running, journal>>
         /\ \E verdict : \E id \in LeaseIds : Replies(k, verdict, id)
<1>1. CASE Acquire(k)
  <2>1. Handling(k, {"acquire"})
    BY <1>1 DEF Acquire
  <2>2. \A e \in Known(k) : e.id \in LeaseIds
    BY DEF Known, TypeInv
  <2>3. \/ \E e \in Known(k) : \E verdict : Replies(k, verdict, e.id)
        \/ \E verdict : Replies(k, verdict, 0)
        \/ \E verdict : Replies(k, verdict, Frame(k).n)
    BY <1>1 DEF Acquire
  <2>4. UNCHANGED <<conn, open, lost, conns, running, journal>>
    BY <1>1 DEF Acquire
  <2> QED BY <2>1, <2>2, <2>3, <2>4, HandlingFrame DEF Handling
<1>2. CASE Renew(k)
  <2>1. Handling(k, {"renew"})
    BY <1>2 DEF Renew
  <2>2. Holds(k, Frame(k).lease) => lease.id \in LeaseIds
    BY DEF Holds, Leased, TypeInv
  <2>3. \/ \E verdict : Replies(k, verdict, 0)
        \/ Holds(k, Frame(k).lease) /\ \E verdict : Replies(k, verdict, lease.id)
    BY <1>2 DEF Renew
  <2>4. UNCHANGED <<conn, open, lost, conns, running, journal>>
    BY <1>2 DEF Renew
  <2> QED BY <2>1, <2>2, <2>3, <2>4, HandlingFrame DEF Handling
<1>3. CASE Release(k)
  <2>1. Handling(k, {"release"}) /\ \E verdict : Replies(k, verdict, 0)
    BY <1>3 DEF Release
  <2>2. UNCHANGED <<conn, open, lost, conns, running, journal>>
    BY <1>3 DEF Release
  <2> QED BY <2>1, <2>2, HandlingFrame DEF Handling
<1>4. CASE Grants(k)
  <2>1. Handling(k, {"issue", "revoke"}) /\ \E verdict : Replies(k, verdict, 0)
    BY <1>4 DEF Grants
  <2>2. UNCHANGED <<conn, open, lost, conns, running, journal>>
    BY <1>4 DEF Grants
  <2> QED BY <2>1, <2>2, HandlingFrame DEF Handling
<1>5. CASE Attach(k)
  <2>1. Handling(k, {"attach"}) /\ \E verdict : Replies(k, verdict, 0)
    BY <1>5 DEF Attach
  <2>2. UNCHANGED <<conn, open, lost, conns, running, journal>>
    BY <1>5 DEF Attach
  <2> QED BY <2>1, <2>2, HandlingFrame DEF Handling
<1>6. CASE Write(k)
  <2>1. Handling(k, {"run"}) /\ \E verdict : Replies(k, verdict, 0)
    BY <1>6 DEF Write
  <2>2. UNCHANGED <<conn, open, lost, conns, running, journal>>
    BY <1>6 DEF Write
  <2> QED BY <2>1, <2>2, HandlingFrame DEF Handling
<1> QED BY <1>1, <1>2, <1>3, <1>4, <1>5, <1>6

\* Types and what clients wait for, together.
LEMMA LineNext == TypeInv /\ LineInv /\ [Next]_vars => TypeInv' /\ LineInv'
<1> SUFFICES ASSUME TypeInv, LineInv, [Next]_vars
             PROVE  TypeInv' /\ LineInv'
  OBVIOUS
<1>1. ASSUME NEW c \in Client,
             \/ \E what \in {"acquire", "release", "issue", "revoke"} : Controls(c, what)
             \/ \E g \in 1 .. grant.generation : Attaches(c, g)
             \/ \E o \in Op : Runs(c, o)
             \/ Retries(c)
             \/ Renews(c)
      PROVE  TypeInv' /\ LineInv'
  BY <1>1, SendingTypes, SendingLine, SendsLine
<1>2. ASSUME NEW c \in Client, Connect(c)
      PROVE  TypeInv' /\ LineInv'
  BY <1>2, ConnectTypes, ConnectLine
<1>3. ASSUME NEW c \in Client, LetsGo(c) \/ GivesUp(c) \/ Disconnects(c)
      PROVE  TypeInv' /\ LineInv'
  <2>1. LetsGo(c) => UNCHANGED <<conn, open, waiting, lost, pipe, running, conns>>
    BY DEF LetsGo
  <2> QED BY <1>3, <2>1, LosingTypes, LosingLine, LineFrame
<1>4. ASSUME NEW k \in Conn,
             \/ Acquire(k) \/ Renew(k) \/ Release(k) \/ Grants(k) \/ Attach(k)
             \/ Write(k)
      PROVE  TypeInv' /\ LineInv'
  <2>1. TypeInv'
    BY <1>4, LeaseTypes, GrantTypes, WriteTypes
  <2>2. LineInv'
    BY <1>4, HandledFrames, RepliesLine
  <2> QED BY <2>1, <2>2
<1>5. ASSUME NEW k \in Conn, Call(k) \/ CallTakesEffect(k) \/ CallSettles(k)
      PROVE  TypeInv' /\ LineInv'
  <2>1. running[k] # None /\ open[k] # None => pipe[k] # <<>>
    BY DEF LineInv, LineFits
  <2> QED BY <1>5, <2>1, CallTypes, CallLine
<1>6. CASE (\E k \in Conn : Closes(k)) \/ TimePasses \/ Crash \/ Restart
  <2>1. TimePasses \/ Restart =>
          UNCHANGED <<conn, open, waiting, lost, pipe, running, conns>>
    BY DEF TimePasses, Restart
  <2> QED BY <1>6, <2>1, EndTypes, ClosesLine, CrashLine, LineFrame
<1>7. CASE UNCHANGED vars
  <2>1. TypeInv'
    BY <1>7 DEF vars, TypeInv
  <2> QED BY <1>7, <2>1, LineFrame DEF vars
<1> QED BY <1>1, <1>2, <1>3, <1>4, <1>5, <1>6, <1>7 DEF Next

-----------------------------------------------------------------------------
(* Effects, the ledger and the journal.                                      *)

\* At first nothing has taken effect (Init).
LEMMA OnceInit == Init => OnceInv
BY DEF Init, OnceInv, WriteFits, CallFits, RunFits, CallsAreApart

\* A step that leaves all of it alone, or ends what ran.
LEMMA OnceFrame ==
  ASSUME OnceInv, UNCHANGED <<applied, ledger, journal>>,
         \A k \in Conn : running'[k] = running[k] \/ running'[k] = None
  PROVE  OnceInv'
<1>1. \A o \in Op : WriteFits(o)' /\ CallFits(o)'
  BY DEF OnceInv, WriteFits, CallFits
<1>2. \A k \in Conn : RunFits(k)'
  BY DEF OnceInv, RunFits
<1>3. CallsAreApart'
  BY DEF OnceInv, CallsAreApart
<1> QED BY <1>1, <1>2, <1>3 DEF OnceInv

\* A write that takes effect enters the ledger with it (mutate).
LEMMA WriteOnce ==
  ASSUME TypeInv, OnceInv, NEW k \in Conn, Write(k)
  PROVE  OnceInv'
<1>1. /\ Frame(k).op \in Op /\ Frame(k).exp \in Nat
      /\ KindOf[Frame(k).op] # "call"
      /\ UNCHANGED <<journal, running>>
  <2>1. Handling(k, {"run"}) /\ KindOf[Frame(k).op] # "call"
        /\ UNCHANGED <<journal, running>>
    BY DEF Write
  <2> QED BY <2>1, HandlingFrame
<1>2. CASE UNCHANGED <<ledger, applied>>
  BY <1>1, <1>2, OnceFrame
<1>3. CASE /\ ledger[Frame(k).op] = None
           /\ ledger' = [ledger EXCEPT ![Frame(k).op] = Frame(k).exp]
           /\ Applies(Frame(k).op)
  <2>1. /\ applied'[Frame(k).op] = applied[Frame(k).op] + 1
        /\ ledger'[Frame(k).op] # None
        /\ \A p \in Op : p # Frame(k).op => applied'[p] = applied[p]
                                          /\ ledger'[p] = ledger[p]
    BY <1>1, <1>3, AppliesTypes, NoneAssumption DEF TypeInv
  <2>2. \A o \in Op : WriteFits(o)'
    BY <1>1, <1>3, <2>1 DEF OnceInv, WriteFits
  <2>3. \A o \in Op : CallFits(o)'
    BY <1>1, <2>1 DEF OnceInv, CallFits
  <2>4. \A l \in Conn : RunFits(l)'
    BY <1>1, <2>1, SMTT(30) DEF OnceInv, RunFits, TypeInv
  <2> QED BY <1>1, <2>2, <2>3, <2>4 DEF OnceInv, CallsAreApart
<1> QED BY <1>2, <1>3 DEF Write

\* A call is made by the one connection that has claimed it.
LEMMA CallOnce ==
  ASSUME TypeInv, OnceInv, NEW k \in Conn, Call(k)
  PROVE  OnceInv'
<1>1. /\ Frame(k).op \in Op /\ KindOf[Frame(k).op] = "call"
      /\ UNCHANGED <<applied, ledger>>
  <2>1. Handling(k, {"run"}) /\ KindOf[Frame(k).op] = "call"
        /\ UNCHANGED <<applied, ledger>>
    BY DEF Call
  <2> QED BY <2>1, HandlingFrame
<1>2. CASE UNCHANGED <<journal, running>>
  BY <1>1, <1>2, OnceFrame
<1>3. CASE /\ journal[Frame(k).op] = "none"
           /\ journal' = [journal EXCEPT ![Frame(k).op] = "in_flight"]
           /\ running' = [running EXCEPT ![k] = [op |-> Frame(k).op, done |-> FALSE]]
  <2>1. /\ journal'[Frame(k).op] = "in_flight"
        /\ \A p \in Op : p # Frame(k).op => journal'[p] = journal[p]
        /\ running'[k].op = Frame(k).op /\ running'[k].done = FALSE
        /\ \A l \in Conn : l # k => running'[l] = running[l]
    BY <1>1, <1>3 DEF TypeInv
  <2>2. applied[Frame(k).op] = 0
    BY <1>1, <1>3 DEF OnceInv, CallFits
  <2>3. \A o \in Op : WriteFits(o)'
    BY <1>1 DEF OnceInv, WriteFits
  <2>4. \A o \in Op : CallFits(o)'
    BY <1>1, <2>1, <2>2 DEF OnceInv, CallFits
  <2>5. \A l \in Conn : l # k /\ running[l] # None =>
          running[l].op # Frame(k).op /\ running[l].op \in Op
    BY <1>3 DEF OnceInv, RunFits, TypeInv
  <2>6. ASSUME NEW l \in Conn
        PROVE  RunFits(l)'
    <3>1. CASE l = k
      BY <1>1, <2>1, <2>2, <3>1 DEF RunFits
    <3>2. CASE l # k
      BY <1>1, <2>1, <2>5, <3>2 DEF OnceInv, RunFits
    <3> QED BY <3>1, <3>2
  <2>7. CallsAreApart'
    BY <2>1, <2>5 DEF OnceInv, CallsAreApart
  <2> QED BY <2>3, <2>4, <2>6, <2>7 DEF OnceInv
<1> QED BY <1>2, <1>3 DEF Call

\* A call that is claimed takes effect once and settles once.
LEMMA EffectOnce ==
  ASSUME TypeInv, OnceInv, NEW k \in Conn, CallTakesEffect(k) \/ CallSettles(k)
  PROVE  OnceInv'
<1>1. running[k] # None /\ running[k] \in [op : Op, done : BOOLEAN]
      /\ ledger' = ledger
  BY DEF TypeInv, CallTakesEffect, CallSettles
<1> DEFINE o == running[k].op
<1>2. /\ o \in Op /\ KindOf[o] = "call" /\ journal[o] = "in_flight"
      /\ applied[o] = IF running[k].done THEN 1 ELSE 0
      /\ \A l \in Conn : l # k /\ running[l] # None => running[l].op # o
                                                      /\ running[l].op \in Op
  BY <1>1 DEF OnceInv, RunFits, CallsAreApart, TypeInv
<1>3. CASE CallTakesEffect(k)
  <2>1. /\ ~running[k].done /\ Applies(o) /\ journal' = journal
        /\ running' = [running EXCEPT ![k] = [running[k] EXCEPT !.done = TRUE]]
    BY <1>3 DEF CallTakesEffect
  <2>2. /\ applied'[o] = 1 /\ \A p \in Op : p # o => applied'[p] = applied[p]
    BY <1>2, <2>1, AppliesTypes
  <2>3. running'[k].op = o /\ running'[k].done = TRUE
        /\ \A l \in Conn : l # k => running'[l] = running[l]
    BY <1>1, <2>1 DEF TypeInv
  <2> HIDE DEF o
  <2>4. \A p \in Op : WriteFits(p)'
    BY <1>1, <1>2, <2>2 DEF OnceInv, WriteFits
  <2>5. \A p \in Op : CallFits(p)'
    BY <1>2, <2>1, <2>2 DEF OnceInv, CallFits
  <2>6. ASSUME NEW l \in Conn
        PROVE  RunFits(l)'
    <3>1. CASE l = k
      BY <1>2, <2>1, <2>2, <2>3, <3>1 DEF RunFits
    <3>2. CASE l # k
      BY <1>2, <2>1, <2>2, <2>3, <3>2 DEF OnceInv, RunFits
    <3> QED BY <3>1, <3>2
  <2>7. CallsAreApart'
    BY <1>2, <2>3 DEF OnceInv, CallsAreApart
  <2> QED BY <2>4, <2>5, <2>6, <2>7 DEF OnceInv
<1>4. CASE CallSettles(k)
  <2>1. PICK state : /\ Settled(k, state) /\ applied' = applied
                     /\ state = "succeeded" => running[k].done
                     /\ state # "none"
    BY <1>4 DEF CallSettles
  <2>2. /\ journal'[o] = state
        /\ \A p \in Op : p # o => journal'[p] = journal[p]
        /\ running'[k] = None
        /\ \A l \in Conn : l # k => running'[l] = running[l]
    BY <1>2, <2>1 DEF Settled, TypeInv
  <2> HIDE DEF o
  <2>3. \A p \in Op : WriteFits(p)'
    BY <1>1, <2>1 DEF OnceInv, WriteFits
  <2>4. \A p \in Op : CallFits(p)'
    BY <1>2, <2>1, <2>2 DEF OnceInv, CallFits
  <2>5. \A l \in Conn : RunFits(l)'
    BY <1>2, <2>1, <2>2 DEF OnceInv, RunFits
  <2>6. CallsAreApart'
    BY <2>2 DEF OnceInv, CallsAreApart
  <2> QED BY <2>3, <2>4, <2>5, <2>6 DEF OnceInv
<1> QED BY <1>3, <1>4

\* What a step of a client leaves alone.
LEMMA ClientSteps ==
  ASSUME NEW c \in Client,
         \/ Connect(c)
         \/ \E what \in {"acquire", "release", "issue", "revoke"} : Controls(c, what)
         \/ \E g \in 1 .. grant.generation : Attaches(c, g)
         \/ \E o \in Op : Runs(c, o)
         \/ Retries(c)
         \/ Renews(c)
         \/ LetsGo(c)
         \/ GivesUp(c)
         \/ Disconnects(c)
  PROVE  UNCHANGED <<tableVars, running, applied, attach>>
BY DEF Connect, Controls, Attaches, Runs, Retries, Renews, LetsGo, GivesUp, Disconnects

\* What takes effect is recorded, in every step.
LEMMA OnceNext == TypeInv /\ LineInv /\ OnceInv /\ [Next]_vars => OnceInv'
<1> SUFFICES ASSUME TypeInv, LineInv, OnceInv, [Next]_vars
             PROVE  OnceInv'
  OBVIOUS
<1>1. ASSUME UNCHANGED <<applied, ledger, journal, running>>
      PROVE  OnceInv'
  BY <1>1, OnceFrame
<1>2. ASSUME NEW k \in Conn,
             Acquire(k) \/ Renew(k) \/ Release(k) \/ Grants(k) \/ Attach(k) \/ Closes(k)
      PROVE  OnceInv'
  BY <1>1, <1>2 DEF Acquire, Renew, Release, Grants, Attach, Closes
<1>3. CASE Crash
  BY <1>3, OnceFrame DEF Crash, Forgotten
<1>4. CASE TimePasses \/ Restart \/ UNCHANGED vars
  BY <1>1, <1>4 DEF TimePasses, Restart, vars
<1>5. ASSUME NEW c \in Client,
             \/ Connect(c)
             \/ \E what \in {"acquire", "release", "issue", "revoke"} : Controls(c, what)
             \/ \E g \in 1 .. grant.generation : Attaches(c, g)
             \/ \E o \in Op : Runs(c, o)
             \/ Retries(c)
             \/ Renews(c)
             \/ LetsGo(c)
             \/ GivesUp(c)
             \/ Disconnects(c)
      PROVE  OnceInv'
  BY <1>1, <1>5, ClientSteps
<1> QED BY <1>2, <1>3, <1>4, <1>5, WriteOnce, CallOnce, EffectOnce DEF Next

-----------------------------------------------------------------------------
(* Copies of writes and what their authors are told.                         *)

\* At first nothing is on its way (Init).
LEMMA AnswerInit == Init => CopyInv /\ ToldInv
<1> SUFFICES ASSUME Init PROVE CopyInv /\ ToldInv
  OBVIOUS
<1>1. \A k \in Conn : Len(pipe[k]) = 0
  BY DEF Init
<1>2. ASSUME NEW o \in Op
      PROVE  ~HasLost(o) /\ ~WaitsFor(o)
  BY DEF Init, HasLost, WaitsFor
<1>3. CopyInv
  BY <1>1, <1>2 DEF CopyInv, CopiesFit
<1> QED BY <1>2, <1>3 DEF Init, ToldInv, ToldFits

\* A step that leaves all of it alone.
LEMMA AnswerFrame ==
  ASSUME CopyInv, ToldInv,
         UNCHANGED <<conn, waiting, lost, pipe, told, revision, ledger, journal>>
  PROVE  CopyInv' /\ ToldInv'
<1>1. ASSUME NEW o \in Op
      PROVE  CopiesFit(o)' /\ ToldFits(o)'
  <2>1. CopiesFit(o) /\ ToldFits(o)
    BY DEF CopyInv, ToldInv
  <2>2. ToldFits(o)'
    BY <2>1 DEF ToldFits, WaitsFor
  <2>3. CopiesFit(o)'
    BY <2>1 DEF CopiesFit, CopyFits, HasLost, WaitsFor, IsAwaited
  <2> QED BY <2>2, <2>3
<1> QED BY <1>1 DEF CopyInv, ToldInv

\* A request for something else does not disturb the copies of a write.
LEMMA SendsOther ==
  ASSUME TypeInv, LineInv, NEW o \in Op, CopiesFit(o),
         NEW c \in Client, NEW r \in Request, Sends(c, r), r.op # o,
         UNCHANGED <<conn, revision>>, told'[o] = told[o],
         lost' = lost \/ lost' = [lost EXCEPT ![c] = None]
  PROVE  CopiesFit(o)'
<1> SUFFICES ASSUME KindOf[o] # "call"
             PROVE  /\ \A k \in Conn : \A i \in 1 .. Len(pipe'[k]) : CopyFits(o, k, i)'
                    /\ HasLost(o)' => lost'[AuthorOf[o]].exp <= revision'
  BY DEF CopiesFit
<1>1. AuthorOf[o] \in Client
  OBVIOUS
<1>2. HasLost(o)' => HasLost(o) /\ lost'[AuthorOf[o]] = lost[AuthorOf[o]]
  BY <1>1 DEF HasLost, TypeInv
<1>3. WaitsFor(o)' => WaitsFor(o) /\ waiting'[AuthorOf[o]] = waiting[AuthorOf[o]]
                      /\ AuthorOf[o] # c
  <2>1. waiting' = [waiting EXCEPT ![c] = r]
    BY DEF Sends
  <2> QED BY <1>1, <2>1 DEF WaitsFor, TypeInv
<1>4. ASSUME NEW k \in Conn, NEW i \in 1 .. Len(pipe'[k])
      PROVE  CopyFits(o, k, i)'
  <2>1. CASE i \in 1 .. Len(pipe[k]) /\ pipe'[k][i] = pipe[k][i]
    <3>1. CopyFits(o, k, i)
      BY <2>1 DEF CopiesFit
    <3>2. IsAwaited(o, k, i) => IsAwaited(o, k, i)'
      <4>1. ASSUME IsAwaited(o, k, i)
            PROVE  IsAwaited(o, k, i)'
        <5>1. WaitsFor(o) /\ k = conn[AuthorOf[o]] /\ i = Len(pipe[k])
          BY <4>1 DEF IsAwaited
        <5>2. waiting[c] = None
          BY DEF Sends
        <5>3. AuthorOf[o] # c
          BY <5>1, <5>2 DEF WaitsFor
        <5>4. k # conn[c]
          <6>1. k # 0
            BY DEF Conn
          <6> QED BY <1>1, <5>1, <5>3, <6>1, ConnectionsAreApart
        <5>5. pipe'[k] = pipe[k] /\ waiting'[AuthorOf[o]] = waiting[AuthorOf[o]]
          <6>1. waiting' = [waiting EXCEPT ![c] = r]
            BY DEF Sends
          <6>2. pipe'[k] = pipe[k]
            BY <5>4, SendsFrame
          <6> QED BY <1>1, <5>3, <6>1, <6>2 DEF TypeInv
        <5> QED BY <5>1, <5>5 DEF IsAwaited, WaitsFor
      <4> QED BY <4>1
    <3> QED BY <1>2, <1>3, <2>1, <3>1, <3>2 DEF CopyFits
  <2>2. CASE pipe'[k][i] = r
    BY <2>2 DEF CopyFits
  <2>3. (i \in 1 .. Len(pipe[k]) /\ pipe'[k][i] = pipe[k][i]) \/ pipe'[k][i] = r
    <3>1. CASE k # conn[c]
      <4>1. pipe'[k] = pipe[k]
        BY <3>1, SendsFrame
      <4> QED BY <4>1
    <3>2. CASE k = conn[c]
      <4>1. /\ Len(pipe'[k]) = Len(pipe[k]) + 1
            /\ pipe'[k][Len(pipe[k]) + 1] = r
            /\ \A j \in 1 .. Len(pipe[k]) : pipe'[k][j] = pipe[k][j]
        BY <3>2, SendsFrame
      <4>2. Len(pipe[k]) \in Nat
        BY DEF TypeInv
      <4>3. i \in 1 .. Len(pipe[k]) \/ i = Len(pipe[k]) + 1
        BY <4>1, <4>2
      <4> QED BY <4>1, <4>3
    <3> QED BY <3>1, <3>2
  <2> QED BY <2>1, <2>2, <2>3
<1>5. HasLost(o)' => lost'[AuthorOf[o]].exp <= revision'
  BY <1>2 DEF CopiesFit
<1> QED BY <1>4, <1>5

\* A write that is sent again expects no less than any copy of it.
LEMMA SendsThis ==
  ASSUME TypeInv, LineInv, NEW o \in Op, CopiesFit(o),
         NEW r \in Request, Sends(AuthorOf[o], r), r.op = o,
         UNCHANGED <<conn, revision>>, told'[o] = "nothing",
         \/ lost' = lost
         \/ lost' = [lost EXCEPT ![AuthorOf[o]] = None],
         KindOf[o] # "call" =>
           /\ r.exp <= revision
           /\ \A k \in Conn : \A i \in 1 .. Len(pipe[k]) :
                pipe[k][i].op = o => pipe[k][i].exp <= r.exp
  PROVE  CopiesFit(o)'
<1> SUFFICES ASSUME KindOf[o] # "call"
             PROVE  /\ \A k \in Conn : \A i \in 1 .. Len(pipe'[k]) : CopyFits(o, k, i)'
                    /\ HasLost(o)' => lost'[AuthorOf[o]].exp <= revision'
  BY DEF CopiesFit
<1> DEFINE c == AuthorOf[o]
<1>1. c \in Client /\ r.exp \in Nat
  BY RequestParts
<1> HIDE DEF c
<1>2. HasLost(o)' => HasLost(o) /\ lost'[c] = lost[c]
  BY <1>1 DEF HasLost, TypeInv, c
<1>3. waiting'[c] = r /\ ~WaitsFor(o)
  BY <1>1 DEF Sends, WaitsFor, TypeInv, c
<1>4. ASSUME NEW k \in Conn, NEW i \in 1 .. Len(pipe'[k])
      PROVE  CopyFits(o, k, i)'
  <2>1. CASE i \in 1 .. Len(pipe[k]) /\ pipe'[k][i] = pipe[k][i]
    <3>1. CopyFits(o, k, i) /\ ~IsAwaited(o, k, i)
      BY <1>3, <2>1 DEF CopiesFit, IsAwaited
    <3>2. pipe[k][i].op = o => pipe[k][i].exp <= r.exp
      BY <2>1
    <3> QED BY <1>2, <1>3, <2>1, <3>1, <3>2 DEF CopyFits, c
  <2>2. CASE k = conn[c] /\ i = Len(pipe'[k]) /\ pipe'[k][i] = r
    <3>1. IsAwaited(o, k, i)'
      BY <1>3, <2>2, RequestParts DEF IsAwaited, WaitsFor, c
    <3> QED BY <1>1, <1>3, <2>2, <3>1 DEF CopyFits, c
  <2>3. \/ i \in 1 .. Len(pipe[k]) /\ pipe'[k][i] = pipe[k][i]
        \/ k = conn[c] /\ i = Len(pipe'[k]) /\ pipe'[k][i] = r
    <3>1. CASE k # conn[c]
      <4>1. pipe'[k] = pipe[k]
        BY <1>1, <3>1, SendsFrame DEF c
      <4> QED BY <4>1
    <3>2. CASE k = conn[c]
      <4>1. /\ Len(pipe'[k]) = Len(pipe[k]) + 1
            /\ pipe'[k][Len(pipe[k]) + 1] = r
            /\ \A j \in 1 .. Len(pipe[k]) : pipe'[k][j] = pipe[k][j]
        BY <1>1, <3>2, SendsFrame DEF c
      <4>2. Len(pipe[k]) \in Nat
        BY DEF TypeInv
      <4>3. i \in 1 .. Len(pipe[k]) \/ i = Len(pipe[k]) + 1
        BY <4>1, <4>2
      <4> QED BY <3>2, <4>1, <4>3
    <3> QED BY <3>1, <3>2
  <2> QED BY <2>1, <2>2, <2>3
<1>5. HasLost(o)' => lost'[AuthorOf[o]].exp <= revision'
  BY <1>2 DEF CopiesFit, c
<1> QED BY <1>4, <1>5

\* A frame that is done leaves the other copies as they are.
LEMMA RepliesCopies ==
  ASSUME TypeInv, LineInv, NEW o \in Op, CopiesFit(o),
         NEW k \in Conn, open[k] # None, pipe[k] # <<>>,
         NEW verdict, NEW id \in LeaseIds, Replies(k, verdict, id),
         UNCHANGED <<conn, lost>>, revision' \in Nat, revision <= revision',
         KindOf[o] # "call" /\ told'[o] = "revision_conflict" =>
           \/ told[o] = "revision_conflict"
           \/ \A l \in Conn : \A i \in 1 .. Len(pipe[l]) :
                pipe[l][i].op = o => pipe[l][i].exp < revision'
  PROVE  CopiesFit(o)'
<1> SUFFICES ASSUME KindOf[o] # "call"
             PROVE  /\ \A l \in Conn : \A i \in 1 .. Len(pipe'[l]) : CopyFits(o, l, i)'
                    /\ HasLost(o)' => lost'[AuthorOf[o]].exp <= revision'
  BY DEF CopiesFit
<1> DEFINE c == AuthorOf[o]
<1>1. c \in Client
  OBVIOUS
<1> HIDE DEF c
<1>2. /\ \A l \in Conn : l # k => pipe'[l] = pipe[l]
      /\ Len(pipe[k]) \in Nat \ {0} /\ Len(pipe'[k]) = Len(pipe[k]) - 1
      /\ \A i \in 1 .. Len(pipe'[k]) : pipe'[k][i] = pipe[k][i + 1]
  BY RepliesFrame
<1>3. /\ ~Awaited(k) \/ open[k] # c => waiting'[c] = waiting[c]
      /\ Awaited(k) /\ open[k] = c => waiting'[c] = None
  BY <1>1 DEF Replies, Reads, TypeInv
<1>4. WaitsFor(o)' => WaitsFor(o) /\ waiting'[c] = waiting[c]
  BY <1>3 DEF WaitsFor, c
<1>5. \A r \in Request : r.exp \in Nat
  BY RequestParts
<1>6. revision \in Nat
  BY DEF TypeInv
<1>7. ASSUME NEW l \in Conn, NEW i \in 1 .. Len(pipe'[l])
      PROVE  CopyFits(o, l, i)'
  <2>1. PICK j \in 1 .. Len(pipe[l]) : /\ pipe'[l][i] = pipe[l][j]
                                      /\ j = IF l = k THEN i + 1 ELSE i
    <3>1. CASE l = k
      <4>1. i + 1 \in 1 .. Len(pipe[l])
        BY <1>2, <3>1
      <4> QED BY <1>2, <3>1, <4>1
    <3>2. CASE l # k
      BY <1>2, <3>2
    <3> QED BY <3>1, <3>2
  <2>2. CopyFits(o, l, j)
    BY DEF CopiesFit
  <2>3. IsAwaited(o, l, j) => IsAwaited(o, l, i)'
    <3>1. ASSUME IsAwaited(o, l, j)
          PROVE  IsAwaited(o, l, i)'
      <4>1. WaitsFor(o) /\ l = conn[c] /\ j = Len(pipe[l])
        BY <3>1 DEF IsAwaited, c
      <4>2. ~(Awaited(k) /\ open[k] = c)
        <5>1. ASSUME Awaited(k), open[k] = c
              PROVE  FALSE
          <6>1. l = k /\ Len(pipe[k]) = 1
            BY <4>1, <5>1 DEF Awaited
          <6> QED BY <1>2, <6>1
        <5> QED BY <5>1
      <4>3. waiting'[c] = waiting[c]
        BY <1>3, <4>2
      <4>4. i = Len(pipe'[l])
        <5>1. CASE l = k
          <6>1. j = i + 1 /\ Len(pipe'[l]) = j - 1 /\ i \in Int
            BY <1>2, <2>1, <4>1, <5>1
          <6> QED BY <6>1
        <5>2. CASE l # k
          BY <1>2, <2>1, <4>1, <5>2
        <5> QED BY <5>1, <5>2
      <4> QED BY <4>1, <4>3, <4>4 DEF IsAwaited, WaitsFor, c
    <3> QED BY <3>1
  <2>4. pipe[l][j] \in Request
    BY ElementOfSeq DEF TypeInv
  <2>5. pipe[l][j].exp \in Nat
    BY <1>5, <2>4
  <2>6. ASSUME pipe[l][j].op = o
        PROVE  /\ pipe[l][j].exp <= revision'
               /\ told'[o] = "revision_conflict" => pipe[l][j].exp < revision'
    <3>1. pipe[l][j].exp <= revision
      BY <2>2, <2>6 DEF CopyFits
    <3>2. told[o] = "revision_conflict" => pipe[l][j].exp < revision
      BY <2>2, <2>6 DEF CopyFits
    <3>3. \A x, y, z \in Nat : y <= z => (x <= y => x <= z) /\ (x < y => x < z)
      OBVIOUS
    <3> QED BY <1>6, <2>5, <2>6, <3>1, <3>2, <3>3
  <2>7. HasLost(o)' => HasLost(o) /\ lost'[c] = lost[c]
    BY DEF HasLost, c
  <2> QED BY <1>4, <2>1, <2>2, <2>3, <2>6, <2>7 DEF CopyFits, c
<1>8. HasLost(o)' => lost'[AuthorOf[o]].exp <= revision'
  <2>1. ASSUME HasLost(o)'
        PROVE  lost'[c].exp <= revision'
    <3>1. lost'[c] = lost[c] /\ lost[c] # None /\ lost[c].exp <= revision
      BY <2>1 DEF HasLost, CopiesFit, c
    <3>2. lost[c].exp \in Nat
      BY <1>1, <1>5, <3>1 DEF TypeInv
    <3>3. \A x, y, z \in Nat : x <= y /\ y <= z => x <= z
      OBVIOUS
    <3> QED BY <1>6, <3>1, <3>2, <3>3
  <2> QED BY <2>1 DEF c
<1> QED BY <1>7, <1>8

\* What a client sends is current, so that nothing it has given up on is more so.
LEMMA SendingAnswers ==
  ASSUME TypeInv, LineInv, CopyInv, ToldInv, NEW c \in Client,
         \/ \E what \in {"acquire", "release", "issue", "revoke"} : Controls(c, what)
         \/ \E g \in 1 .. grant.generation : Attaches(c, g)
         \/ \E o \in Op : Runs(c, o)
         \/ Retries(c)
         \/ Renews(c)
  PROVE  CopyInv' /\ ToldInv'
<1>1. PICK r \in Request :
        /\ Sends(c, r)
        /\ r.op # None => AuthorOf[r.op] = c
        /\ UNCHANGED <<conn, open, running, conns, tableVars>>
        /\ lost' = lost \/ lost' = [lost EXCEPT ![c] = None]
        /\ \A o \in Op : told'[o] = IF o = r.op THEN "nothing" ELSE told[o]
        /\ IsCurrent(c, r)
  BY SendingLine
<1>2. r.op \in Op \cup {None}
  BY RequestParts
<1>3. waiting' = [waiting EXCEPT ![c] = r] /\ waiting[c] = None
  BY <1>1 DEF Sends
<1>4. ASSUME NEW o \in Op
      PROVE  CopiesFit(o)' /\ ToldFits(o)'
  <2>1. CopiesFit(o) /\ ToldFits(o)
    BY DEF CopyInv, ToldInv
  <2>2. CASE r.op # o
    <3>1. CopiesFit(o)'
      BY <1>1, <2>1, <2>2, SendsOther
    <3>2. WaitsFor(o)' => WaitsFor(o)
      BY <1>3, <2>2 DEF WaitsFor, TypeInv
    <3> QED BY <1>1, <2>1, <2>2, <3>1, <3>2 DEF ToldFits
  <2>3. CASE r.op = o
    <3>1. o # None /\ c = AuthorOf[o] /\ told'[o] = "nothing"
      BY <1>1, <2>3
    <3>2. ASSUME KindOf[o] # "call"
          PROVE  /\ r.exp <= revision
                 /\ \A k \in Conn : \A i \in 1 .. Len(pipe[k]) :
                      pipe[k][i].op = o => pipe[k][i].exp <= r.exp
      <4>1. ~WaitsFor(o)
        BY <1>3, <3>1 DEF WaitsFor
      <4>2. CASE r.exp = revision
        BY <2>1, <3>2, <4>2, SMTT(30) DEF CopiesFit, CopyFits, TypeInv
      <4>3. CASE lost[c] # None /\ lost[c].op = r.op /\ r.exp = lost[c].exp
        <5>1. HasLost(o)
          BY <2>3, <3>1, <4>3 DEF HasLost
        <5> QED BY <2>1, <3>1, <3>2, <4>1, <4>3, <5>1 DEF CopiesFit, CopyFits, IsAwaited
      <4> QED BY <1>1, <2>3, <3>1, <3>2, <4>2, <4>3 DEF IsCurrent
    <3>3. CopiesFit(o)'
      BY <1>1, <2>1, <2>3, <3>1, <3>2, SendsThis
    <3> QED BY <3>1, <3>3 DEF ToldFits
  <2> QED BY <2>2, <2>3
<1> QED BY <1>4 DEF CopyInv, ToldInv

\* What a client waits for expects no more than the present revision.
LEMMA WaitingIsPast ==
  ASSUME TypeInv, LineInv, NEW o \in Op, CopiesFit(o), KindOf[o] # "call", WaitsFor(o)
  PROVE  waiting[AuthorOf[o]].exp <= revision
<1> DEFINE c == AuthorOf[o]
           k == conn[c]
<1>1. c \in Client /\ waiting[c] # None /\ waiting[c].op = o
  BY DEF WaitsFor
<1> HIDE DEF c
<1>2. k \in Conn /\ pipe[k] # <<>> /\ pipe[k][Len(pipe[k])] = waiting[c]
  BY <1>1 DEF LineInv, WaitFits, Last, TypeInv
<1>3. Len(pipe[k]) \in 1 .. Len(pipe[k])
  BY <1>2, EmptySeq DEF TypeInv
<1>4. CopyFits(o, k, Len(pipe[k]))
  BY <1>2, <1>3 DEF CopiesFit
<1> QED BY <1>1, <1>2, <1>4 DEF CopyFits, c

\* Who gives up remembers the last word, and all copies are copies of it.
LEMMA LosingAnswers ==
  ASSUME TypeInv, LineInv, CopyInv, ToldInv, NEW c \in Client,
         GivesUp(c) \/ Disconnects(c)
  PROVE  CopyInv' /\ ToldInv'
<1>1. /\ waiting' = [waiting EXCEPT ![c] = None]
      /\ lost' = [lost EXCEPT ![c] = LostBy(c)]
      /\ conn' = conn \/ conn' = [conn EXCEPT ![c] = 0]
      /\ UNCHANGED <<pipe, told, revision, ledger, journal>>
  BY DEF GivesUp, Disconnects
<1>2. ASSUME NEW o \in Op
      PROVE  CopiesFit(o)' /\ ToldFits(o)'
  <2> DEFINE d == AuthorOf[o]
  <2>1. CopiesFit(o) /\ ToldFits(o) /\ d \in Client
    BY DEF CopyInv, ToldInv
  <2> HIDE DEF d
  <2>2. WaitsFor(o)' => WaitsFor(o) /\ waiting'[d] = waiting[d] /\ d # c
    BY <1>1, <2>1 DEF WaitsFor, TypeInv, d
  <2>3. ToldFits(o)'
    BY <1>1, <2>1, <2>2 DEF ToldFits
  <2>4. CASE d # c
    <3>1. /\ waiting'[d] = waiting[d] /\ lost'[d] = lost[d] /\ conn'[d] = conn[d]
      BY <1>1, <2>1, <2>4 DEF TypeInv
    <3> QED BY <1>1, <2>1, <2>3, <3>1
            DEF CopiesFit, CopyFits, HasLost, WaitsFor, IsAwaited, d
  <2>5. CASE d = c
    <3>1. lost'[d] = LostBy(d) /\ ~WaitsFor(o)'
      BY <1>1, <2>1, <2>2, <2>5 DEF TypeInv
    <3>2. CASE WaitsFor(o) /\ lost'[d] = waiting[d]
      <4>1. KindOf[o] # "call" => waiting[d].exp <= revision
        BY <2>1, <3>2, WaitingIsPast DEF d
      <4> QED BY <1>1, <2>1, <2>3, <3>1, <3>2, <4>1
              DEF CopiesFit, CopyFits, HasLost, d
    <3>3. CASE HasLost(o)' /\ lost'[d] = lost[d]
      <4>1. CASE WaitsFor(o)
        <5>1. waiting[d] # None /\ waiting[d].what # "renew"
          BY <2>1, <4>1, RequestParts DEF WaitsFor, TypeInv, d
        <5>2. lost'[d] = waiting[d]
          BY <3>1, <5>1 DEF LostBy
        <5>3. CopiesFit(o)'
          <6>1. KindOf[o] # "call" => waiting[d].exp <= revision
            BY <2>1, <4>1, WaitingIsPast DEF d
          <6> QED BY <1>1, <2>1, <3>1, <4>1, <5>2, <6>1
                  DEF CopiesFit, CopyFits, HasLost, d
        <5> QED BY <2>3, <5>3
      <4>2. CASE ~WaitsFor(o)
        BY <1>1, <2>1, <2>3, <3>1, <3>3, <4>2
           DEF CopiesFit, CopyFits, HasLost, IsAwaited, d
      <4> QED BY <4>1, <4>2
    <3>4. CASE ~HasLost(o)'
      BY <1>1, <2>1, <2>3, <3>1, <3>4 DEF CopiesFit, CopyFits, d
    <3>5. \/ lost'[d] = lost[d]
          \/ waiting[d] # None /\ lost'[d] = waiting[d]
      BY <3>1 DEF LostBy
    <3>6. HasLost(o)' /\ lost'[d] = waiting[d] /\ waiting[d] # None => WaitsFor(o)
      BY DEF HasLost, WaitsFor, d
    <3> QED BY <3>2, <3>3, <3>4, <3>5, <3>6
  <2> QED BY <2>4, <2>5
<1> QED BY <1>2 DEF CopyInv, ToldInv

\* With a connection its copies are gone.
LEMMA ClosesAnswers ==
  ASSUME TypeInv, LineInv, CopyInv, ToldInv, NEW k \in Conn, Closes(k)
  PROVE  CopyInv' /\ ToldInv'
<1>1. /\ pipe' = [pipe EXCEPT ![k] = <<>>]
      /\ UNCHANGED <<conn, waiting, lost, told, revision, ledger, journal>>
  BY DEF Closes
<1>2. ASSUME NEW o \in Op
      PROVE  CopiesFit(o)' /\ ToldFits(o)'
  <2>1. CopiesFit(o) /\ ToldFits(o)
    BY DEF CopyInv, ToldInv
  <2>2. ToldFits(o)'
    BY <1>1, <2>1 DEF ToldFits, WaitsFor
  <2>3. ASSUME NEW l \in Conn
        PROVE  pipe'[l] = pipe[l] \/ Len(pipe'[l]) = 0
    BY <1>1 DEF TypeInv
  <2>4. CopiesFit(o)'
    BY <1>1, <2>1, <2>3 DEF CopiesFit, CopyFits, HasLost, WaitsFor, IsAwaited
  <2> QED BY <2>2, <2>4
<1> QED BY <1>2 DEF CopyInv, ToldInv

\* After a crash there are no copies but those clients remember.
LEMMA CrashAnswers ==
  ASSUME TypeInv, LineInv, CopyInv, ToldInv, Crash
  PROVE  CopyInv' /\ ToldInv'
<1>1. /\ \A l \in Conn : Len(pipe'[l]) = 0
      /\ \A c \in Client : waiting'[c] = None /\ lost'[c] = LostBy(c)
      /\ UNCHANGED <<told, revision, ledger, journal>>
  BY DEF Crash, Forgotten
<1>2. ASSUME NEW o \in Op
      PROVE  CopiesFit(o)' /\ ToldFits(o)'
  <2> DEFINE d == AuthorOf[o]
  <2>1. CopiesFit(o) /\ ToldFits(o) /\ d \in Client
    BY DEF CopyInv, ToldInv
  <2> HIDE DEF d
  <2>2. ToldFits(o)'
    BY <1>1, <2>1 DEF ToldFits, WaitsFor, d
  <2>3. ASSUME HasLost(o)', KindOf[o] # "call"
        PROVE  lost'[d].exp <= revision'
    <3>1. \/ HasLost(o) /\ lost'[d] = lost[d]
          \/ WaitsFor(o) /\ lost'[d] = waiting[d]
      BY <1>1, <2>1, <2>3 DEF HasLost, WaitsFor, LostBy, d
    <3> QED BY <1>1, <2>1, <2>3, <3>1, WaitingIsPast DEF CopiesFit, d
  <2> QED BY <1>1, <2>2, <2>3 DEF CopiesFit, d
<1> QED BY <1>2 DEF CopyInv, ToldInv

\* Only the author of the frame that is done is told, and stops waiting.
LEMMA RepliesTold ==
  ASSUME TypeInv, LineInv, NEW o \in Op,
         NEW k \in Conn, open[k] # None, pipe[k] # <<>>,
         NEW verdict, NEW id \in LeaseIds, Replies(k, verdict, id)
  PROVE  /\ WaitsFor(o)' => WaitsFor(o) /\ told'[o] = told[o]
         /\ told'[o] # told[o] =>
              /\ Frame(k).op = o /\ told'[o] = verdict
              /\ WaitsFor(o) /\ waiting[AuthorOf[o]] = Frame(k)
<1>1. AuthorOf[o] \in Client /\ o # None
  OBVIOUS
<1>2. CASE ~Awaited(k)
  BY <1>2 DEF Replies, WaitsFor
<1>3. CASE Awaited(k)
  <2>1. /\ open[k] \in Client /\ waiting[open[k]] = Frame(k)
        /\ Frame(k).op # None => AuthorOf[Frame(k).op] = open[k]
        /\ Frame(k) # None
    BY <1>3, AwaitedFrame, RequestParts
  <2>2. /\ waiting' = [waiting EXCEPT ![open[k]] = None]
        /\ told' = IF Frame(k).op # None /\ verdict \in {"ok", "revision_conflict"}
                   THEN [told EXCEPT ![Frame(k).op] = verdict] ELSE told
    BY <1>3, <2>1 DEF Replies, Reads
  <2>3. CASE Frame(k).op = o
    <3>1. ~WaitsFor(o)' /\ WaitsFor(o) /\ waiting[AuthorOf[o]] = Frame(k)
      BY <1>1, <2>1, <2>2, <2>3 DEF WaitsFor, TypeInv
    <3>2. told'[o] = verdict \/ told'[o] = told[o]
      BY <2>2, <2>3 DEF TypeInv
    <3> QED BY <2>3, <3>1, <3>2
  <2>4. CASE Frame(k).op # o
    <3>1. told'[o] = told[o]
      BY <2>2, <2>4 DEF TypeInv
    <3>2. WaitsFor(o)' => WaitsFor(o)
      BY <1>1, <2>2 DEF WaitsFor, TypeInv
    <3> QED BY <3>1, <3>2
  <2> QED BY <2>3, <2>4
<1> QED BY <1>2, <1>3

\* What has to be true of a verdict for the answers to stay true.
LEMMA RepliesAnswers ==
  ASSUME TypeInv, LineInv, NEW o \in Op, CopiesFit(o), ToldFits(o),
         NEW k \in Conn, open[k] # None, pipe[k] # <<>>,
         NEW verdict, NEW id \in LeaseIds, Replies(k, verdict, id),
         UNCHANGED <<conn, lost>>, revision' \in Nat, revision <= revision',
         told[o] = "ok" =>
           IF KindOf[o] = "call" THEN journal'[o] = "succeeded" ELSE ledger'[o] # None,
         told[o] = "revision_conflict" => ledger'[o] = None,
         Frame(k).op = o /\ verdict = "ok" =>
           IF KindOf[o] = "call" THEN journal'[o] = "succeeded" ELSE ledger'[o] # None,
         Frame(k).op = o /\ verdict = "revision_conflict" =>
           /\ KindOf[o] # "call" /\ ledger'[o] = None
           /\ Frame(k).exp # revision /\ revision' = revision
  PROVE  CopiesFit(o)' /\ ToldFits(o)'
<1>1. /\ WaitsFor(o)' => WaitsFor(o) /\ told'[o] = told[o]
      /\ told'[o] # told[o] =>
           /\ Frame(k).op = o /\ told'[o] = verdict
           /\ WaitsFor(o) /\ waiting[AuthorOf[o]] = Frame(k)
  BY RepliesTold
<1>2. ToldFits(o)'
  BY <1>1 DEF ToldFits
<1>3. ASSUME KindOf[o] # "call", told'[o] = "revision_conflict",
             told[o] # "revision_conflict"
      PROVE  \A l \in Conn : \A i \in 1 .. Len(pipe[l]) :
               pipe[l][i].op = o => pipe[l][i].exp < revision'
  <2>1. /\ WaitsFor(o) /\ waiting[AuthorOf[o]] = Frame(k)
        /\ Frame(k).exp # revision /\ revision' = revision
    BY <1>1, <1>3
  <2>2. Frame(k).exp <= revision
    BY <1>3, <2>1, WaitingIsPast
  <2>3. Frame(k).exp \in Nat /\ revision \in Nat
    <3>1. Frame(k) \in Request
      BY RepliesFrame
    <3> QED BY <3>1, RequestParts DEF TypeInv
  <2>4. ASSUME NEW l \in Conn, NEW i \in 1 .. Len(pipe[l]), pipe[l][i].op = o
        PROVE  pipe[l][i].exp < revision'
    <3>1. pipe[l][i].exp <= Frame(k).exp
      BY <1>3, <2>1, <2>4 DEF CopiesFit, CopyFits
    <3>2. pipe[l][i].exp \in Nat
      <4>1. pipe[l][i] \in Request
        BY ElementOfSeq DEF TypeInv
      <4> QED BY <4>1, RequestParts
    <3>3. \A x, y, z \in Nat : x <= y /\ y <= z /\ y # z => x < z
      OBVIOUS
    <3> QED BY <2>1, <2>2, <2>3, <3>1, <3>2, <3>3
  <2> QED BY <2>4
<1>4. CopiesFit(o)'
  BY <1>3, RepliesCopies
<1> QED BY <1>2, <1>4

\* Requests about the lease, grants and attachments answer for no operation.
LEMMA ControlAnswers ==
  ASSUME TypeInv, LineInv, CopyInv, ToldInv, NEW k \in Conn,
         Acquire(k) \/ Renew(k) \/ Release(k) \/ Grants(k) \/ Attach(k)
  PROVE  CopyInv' /\ ToldInv'
<1>1. /\ open[k] # None /\ pipe[k] # <<>>
      /\ UNCHANGED <<conn, lost>>
      /\ \E verdict : \E id \in LeaseIds : Replies(k, verdict, id)
  BY HandledFrames
<1>2. Frame(k).op = None
  <2>1. Handling(k, {"acquire"}) \/ Handling(k, {"renew"}) \/ Handling(k, {"release"})
        \/ Handling(k, {"issue", "revoke"}) \/ Handling(k, {"attach"})
    BY DEF Acquire, Renew, Release, Grants, Attach
  <2>2. Frame(k).what # "run"
    BY <2>1 DEF Handling
  <2>3. (Frame(k).what = "run") = (Frame(k).op # None)
    BY <2>1, HandlingFrame
  <2> QED BY <2>2, <2>3
<1>3. UNCHANGED <<revision, ledger, journal>>
  BY DEF Acquire, Renew, Release, Grants, Attach
<1>4. revision' \in Nat /\ revision <= revision'
  BY <1>3 DEF TypeInv
<1>5. ASSUME NEW o \in Op
      PROVE  CopiesFit(o)' /\ ToldFits(o)'
  <2>1. CopiesFit(o) /\ ToldFits(o) /\ Frame(k).op # o
    BY <1>2 DEF CopyInv, ToldInv
  <2>2. /\ told[o] = "ok" => IF KindOf[o] = "call" THEN journal'[o] = "succeeded"
                             ELSE ledger'[o] # None
        /\ told[o] = "revision_conflict" => ledger'[o] = None
    BY <1>3, <2>1 DEF ToldFits
  <2> QED BY <1>1, <1>4, <2>1, <2>2, RepliesAnswers
<1> QED BY <1>5 DEF CopyInv, ToldInv

\* A write is refused for its revision only when no copy of it can be carried
\* out any more, and carried out only when its author was not told so (mutate).
LEMMA WriteAnswers ==
  ASSUME TypeInv, LineInv, CopyInv, ToldInv, NEW k \in Conn, Write(k)
  PROVE  CopyInv' /\ ToldInv'
<1> DEFINE p == Frame(k).op
<1>1. /\ open[k] # None /\ pipe[k] # <<>> /\ 0 \in LeaseIds
      /\ p \in Op /\ KindOf[p] # "call" /\ Frame(k).exp \in Nat
      /\ Frame(k) = pipe[k][1] /\ 1 \in 1 .. Len(pipe[k])
      /\ UNCHANGED <<conn, lost, journal>>
  <2>1. Handling(k, {"run"}) /\ KindOf[p] # "call" /\ UNCHANGED <<conn, lost, journal>>
    BY DEF Write
  <2>2. Frame(k) = pipe[k][1] /\ 1 \in 1 .. Len(pipe[k])
    BY <2>1, HandlingFrame, HeadTailProperties, EmptySeq DEF Frame
  <2> QED BY <2>1, <2>2, HandlingFrame
<1> HIDE DEF p
<1>2. PICK verdict :
        /\ Replies(k, verdict, 0)
        /\ verdict = "ok" => ledger'[p] # None
        /\ verdict = "revision_conflict" =>
             /\ ledger[p] = None /\ Frame(k).exp # revision
             /\ UNCHANGED <<revision, ledger>>
  <2>1. ledger \in [Op -> Nat \cup {None}]
    BY DEF TypeInv
  <2>2. CASE \E verdict \in {"lease_required", "operation_conflict", "error"} :
               Replies(k, verdict, 0)
    BY <2>2
  <2>3. CASE /\ ledger[p] # None /\ Replies(k, "ok", 0) /\ ledger' = ledger
    BY <2>3
  <2>4. CASE /\ ledger[p] = None /\ Frame(k).exp # revision
             /\ Replies(k, "revision_conflict", 0)
             /\ UNCHANGED <<revision, ledger>>
    BY <2>4
  <2>5. CASE /\ ledger' = [ledger EXCEPT ![p] = Frame(k).exp] /\ Replies(k, "ok", 0)
    <3>1. ledger'[p] = Frame(k).exp
      BY <1>1, <2>1, <2>5
    <3> QED BY <1>1, <2>5, <3>1, NoneAssumption
  <2> QED BY <2>2, <2>3, <2>4, <2>5 DEF Write, p
<1>3. revision \in Nat /\ revision' \in Nat /\ revision <= revision'
  BY DEF Write, TypeInv
<1>4. \/ ledger' = ledger
      \/ /\ Frame(k).exp = revision
         /\ ledger' = [ledger EXCEPT ![p] = Frame(k).exp]
  BY DEF Write, p
<1>5. ASSUME NEW o \in Op
      PROVE  CopiesFit(o)' /\ ToldFits(o)'
  <2>1. CopiesFit(o) /\ ToldFits(o) /\ CopiesFit(p)
    BY <1>1 DEF CopyInv, ToldInv
  <2>2. ledger[o] # None => ledger'[o] # None
    BY <1>1, <1>4, NoneAssumption DEF TypeInv
  <2>3. told[o] = "revision_conflict" => ledger'[o] = None
    <3>1. ASSUME told[o] = "revision_conflict", ledger' # ledger
          PROVE  ledger'[o] = None
      <4>1. ledger[o] = None
        BY <2>1, <3>1 DEF ToldFits
      <4>2. p # o
        <5>1. ASSUME p = o PROVE FALSE
          <6>1. Frame(k).exp < revision
            BY <1>1, <2>1, <3>1, <5>1 DEF CopiesFit, CopyFits, p
          <6>2. Frame(k).exp = revision
            BY <1>4, <3>1
          <6> QED BY <1>3, <6>1, <6>2
        <5> QED BY <5>1
      <4> QED BY <1>4, <3>1, <4>1, <4>2 DEF TypeInv
    <3> QED BY <2>1, <3>1 DEF ToldFits
  <2>4. told[o] = "ok" => IF KindOf[o] = "call" THEN journal'[o] = "succeeded"
                          ELSE ledger'[o] # None
    BY <1>1, <2>1, <2>2 DEF ToldFits
  <2>5. Frame(k).op = o /\ verdict = "ok" =>
          IF KindOf[o] = "call" THEN journal'[o] = "succeeded" ELSE ledger'[o] # None
    BY <1>1, <1>2 DEF p
  <2>6. Frame(k).op = o /\ verdict = "revision_conflict" =>
          /\ KindOf[o] # "call" /\ ledger'[o] = None
          /\ Frame(k).exp # revision /\ revision' = revision
    BY <1>1, <1>2 DEF p
  <2> QED BY <1>1, <1>2, <1>3, <2>1, <2>3, <2>4, <2>5, <2>6, RepliesAnswers
<1> QED BY <1>5 DEF CopyInv, ToldInv

\* A step that touches the journal of a call nobody was told about.
LEMMA JournalAnswers ==
  ASSUME CopyInv, ToldInv, NEW p \in Op, journal[p] # "succeeded",
         UNCHANGED <<conn, waiting, lost, pipe, told, revision, ledger>>,
         \A o \in Op : o # p => journal'[o] = journal[o]
  PROVE  CopyInv' /\ ToldInv'
<1>1. ASSUME NEW o \in Op
      PROVE  CopiesFit(o)' /\ ToldFits(o)'
  <2>1. CopiesFit(o) /\ ToldFits(o)
    BY DEF CopyInv, ToldInv
  <2>2. ToldFits(o)'
    BY <2>1 DEF ToldFits, WaitsFor
  <2>3. CopiesFit(o)'
    BY <2>1 DEF CopiesFit, CopyFits, HasLost, WaitsFor, IsAwaited
  <2> QED BY <2>2, <2>3
<1> QED BY <1>1 DEF CopyInv, ToldInv

\* An author is told of the success of a call that is journaled (Call, CallSettles).
LEMMA CallAnswers ==
  ASSUME TypeInv, LineInv, OnceInv, CopyInv, ToldInv, NEW k \in Conn,
         Call(k) \/ CallTakesEffect(k) \/ CallSettles(k)
  PROVE  CopyInv' /\ ToldInv'
<1>0. revision \in Nat /\ 0 \in LeaseIds
  BY DEF TypeInv, LeaseIds
<1>1. ASSUME NEW q \in Op, Frame(k).op = q, KindOf[q] = "call",
             open[k] # None, pipe[k] # <<>>,
             journal[q] # "succeeded" \/ journal' = journal,
             \A o \in Op : o # q => journal'[o] = journal[o],
             UNCHANGED <<conn, lost, revision, ledger>>,
             NEW verdict \in {"ok", "unknown", "lease_required"}, Replies(k, verdict, 0),
             verdict = "ok" => journal'[q] = "succeeded"
      PROVE  CopyInv' /\ ToldInv'
  <2>1. ASSUME NEW o \in Op
        PROVE  CopiesFit(o)' /\ ToldFits(o)'
    <3>1. CopiesFit(o) /\ ToldFits(o)
      BY DEF CopyInv, ToldInv
    <3>2. told[o] = "ok" => IF KindOf[o] = "call" THEN journal'[o] = "succeeded"
                            ELSE ledger'[o] # None
      BY <1>1, <3>1 DEF ToldFits
    <3>3. told[o] = "revision_conflict" => ledger'[o] = None
      BY <1>1, <3>1 DEF ToldFits
    <3>4. /\ Frame(k).op = o /\ verdict = "ok" =>
               IF KindOf[o] = "call" THEN journal'[o] = "succeeded" ELSE ledger'[o] # None
          /\ verdict # "revision_conflict"
      BY <1>1
    <3>5. UNCHANGED <<conn, lost>> /\ revision' \in Nat /\ revision <= revision'
      BY <1>0, <1>1
    <3> QED BY <1>0, <1>1, <3>1, <3>2, <3>3, <3>4, <3>5, RepliesAnswers
  <2> QED BY <2>1 DEF CopyInv, ToldInv
<1>2. CASE Call(k)
  <2> DEFINE q == Frame(k).op
  <2>1. /\ open[k] # None /\ pipe[k] # <<>>
        /\ q \in Op /\ KindOf[q] = "call"
        /\ UNCHANGED <<conn, lost, revision, ledger>>
    <3>1. Handling(k, {"run"}) /\ KindOf[q] = "call"
          /\ UNCHANGED <<conn, lost, revision, ledger>>
      BY <1>2 DEF Call
    <3> QED BY <3>1, HandlingFrame
  <2>2. CASE Replies(k, "lease_required", 0) /\ journal' = journal
    BY <1>1, <2>1, <2>2
  <2>3. CASE Replies(k, "ok", 0) /\ journal[q] = "succeeded" /\ journal' = journal
    BY <1>1, <2>1, <2>3
  <2>4. CASE Replies(k, "unknown", 0) /\ journal' = journal
    BY <1>1, <2>1, <2>4
  <2>5. CASE /\ journal[q] = "none" /\ journal' = [journal EXCEPT ![q] = "in_flight"]
             /\ UNCHANGED <<pipe, readVars>>
    <3>1. \A o \in Op : o # q => journal'[o] = journal[o]
      BY <2>5 DEF TypeInv
    <3>2. UNCHANGED <<conn, waiting, lost, pipe, told, revision, ledger>>
      BY <2>1, <2>5
    <3> QED BY <2>1, <2>5, <3>1, <3>2, JournalAnswers
  <2>6. \/ Replies(k, "lease_required", 0) /\ journal' = journal
        \/ Replies(k, "ok", 0) /\ journal[q] = "succeeded" /\ journal' = journal
        \/ Replies(k, "unknown", 0) /\ journal' = journal
        \/ /\ journal[q] = "none" /\ journal' = [journal EXCEPT ![q] = "in_flight"]
           /\ UNCHANGED <<pipe, readVars>>
    BY <1>2 DEF Call
  <2> QED BY <2>2, <2>3, <2>4, <2>5, <2>6
<1>3. CASE CallTakesEffect(k)
  BY <1>3, AnswerFrame DEF CallTakesEffect
<1>4. CASE CallSettles(k)
  <2> DEFINE q == running[k].op
  <2>1. /\ running[k] # None /\ q \in Op /\ KindOf[q] = "call"
        /\ journal[q] = "in_flight"
        /\ UNCHANGED <<conn, lost, revision, ledger>>
    <3>1. running[k] # None /\ UNCHANGED <<conn, lost, revision, ledger>>
      BY <1>4 DEF CallSettles
    <3> QED BY <3>1 DEF OnceInv, RunFits, TypeInv
  <2>2. PICK state \in {"succeeded", "unknown", "in_flight"} : Settled(k, state)
    BY <1>4 DEF CallSettles
  <2>3. /\ journal'[q] = state
        /\ \A o \in Op : o # q => journal'[o] = journal[o]
    BY <2>1, <2>2 DEF Settled, TypeInv
  <2>4. CASE open[k] = None
    <3>1. UNCHANGED <<waiting, pipe, told>>
      BY <2>2, <2>4 DEF Settled
    <3> QED BY <2>1, <2>3, <3>1, JournalAnswers
  <2>5. CASE open[k] # None
    <3>1. pipe[k] # <<>> /\ Frame(k).op = q
      BY <2>1, <2>5 DEF LineInv, LineFits, Frame
    <3>2. PICK verdict \in {"ok", "unknown"} :
            Replies(k, verdict, 0) /\ (verdict = "ok" => state = "succeeded")
      BY <2>2, <2>5 DEF Settled
    <3>3. verdict = "ok" => journal'[q] = "succeeded"
      BY <2>3, <3>2
    <3> HIDE DEF q
    <3> QED BY <1>1, <2>1, <2>3, <2>5, <3>1, <3>2, <3>3
  <2> QED BY <2>4, <2>5
<1> QED BY <1>2, <1>3, <1>4

\* What authors were told stays true, in every step.
LEMMA AnswerNext ==
  TypeInv /\ LineInv /\ OnceInv /\ CopyInv /\ ToldInv /\ [Next]_vars
    => CopyInv' /\ ToldInv'
<1> SUFFICES ASSUME TypeInv, LineInv, OnceInv, CopyInv, ToldInv, [Next]_vars
             PROVE  CopyInv' /\ ToldInv'
  OBVIOUS
<1>1. ASSUME NEW c \in Client, Connect(c)
      PROVE  CopyInv' /\ ToldInv'
  <2>1. /\ conn' = [conn EXCEPT ![c] = conns + 1] /\ conn[c] = 0
        /\ UNCHANGED <<waiting, lost, pipe, told, revision, ledger, journal>>
    BY <1>1 DEF Connect
  <2>2. waiting[c] = None
    BY <2>1 DEF LineInv, WaitFits
  <2>3. ASSUME NEW o \in Op
        PROVE  CopiesFit(o)' /\ ToldFits(o)'
    <3>1. CopiesFit(o) /\ ToldFits(o)
      BY DEF CopyInv, ToldInv
    <3>2. ToldFits(o)'
      BY <2>1, <3>1 DEF ToldFits, WaitsFor
    <3>3. WaitsFor(o) => conn'[AuthorOf[o]] = conn[AuthorOf[o]]
      BY <2>1, <2>2 DEF WaitsFor, TypeInv
    <3>4. CopiesFit(o)'
      BY <2>1, <3>1, <3>3 DEF CopiesFit, CopyFits, HasLost, WaitsFor, IsAwaited
    <3> QED BY <3>2, <3>4
  <2> QED BY <2>3 DEF CopyInv, ToldInv
<1>2. ASSUME NEW c \in Client, LetsGo(c)
      PROVE  CopyInv' /\ ToldInv'
  BY <1>2, AnswerFrame DEF LetsGo
<1>3. CASE TimePasses \/ Restart \/ UNCHANGED vars
  BY <1>3, AnswerFrame DEF TimePasses, Restart, vars
<1> QED BY <1>1, <1>2, <1>3, SendingAnswers, LosingAnswers, ControlAnswers, WriteAnswers,
           CallAnswers, ClosesAnswers, CrashAnswers DEF Next

-----------------------------------------------------------------------------
(* The results.                                                              *)

\* The inductive invariant.
CommandsInv == TypeInv /\ LineInv /\ OnceInv /\ CopyInv /\ ToldInv

\* The inductive invariant holds in every state.
LEMMA CommandsInvariant == Spec => []CommandsInv
<1>1. Init => CommandsInv
  BY TypesInit, LineInit, OnceInit, AnswerInit DEF CommandsInv
<1>2. CommandsInv /\ [Next]_vars => CommandsInv'
  BY LineNext, OnceNext, AnswerNext DEF CommandsInv
<1> QED BY <1>1, <1>2, PTL DEF Spec

\* An operation takes effect at most once, however often and over whatever
\* connections it is sent, and through every crash (AppliedOnce): the ledger and
\* the journal are exact about what took effect.
THEOREM OperationsApplyOnce == Spec => []AppliedOnce
<1>1. CommandsInv => AppliedOnce
  <2> SUFFICES ASSUME CommandsInv, NEW o \in Op
               PROVE  applied[o] <= 1
    BY DEF AppliedOnce
  <2>1. WriteFits(o) /\ CallFits(o)
    BY DEF CommandsInv, OnceInv
  <2>2. 0 <= 1 /\ 1 <= 1
    OBVIOUS
  <2> QED BY <2>1, <2>2 DEF WriteFits, CallFits
<1> QED BY <1>1, CommandsInvariant, PTL

\* What an author is told last is true (AnswersAreTrue): no copy of a write that
\* was refused for its revision is carried out later, wherever it still waits.
THEOREM AnswersAreAlwaysTrue == Spec => []AnswersAreTrue
<1>1. CommandsInv => AnswersAreTrue
  <2> SUFFICES ASSUME CommandsInv, NEW o \in Op
               PROVE  /\ told[o] = "ok" =>
                           /\ applied[o] = 1
                           /\ ledger[o] # None \/ journal[o] = "succeeded"
                      /\ told[o] = "revision_conflict" => applied[o] = 0
    BY DEF AnswersAreTrue
  <2>1. WriteFits(o) /\ CallFits(o) /\ ToldFits(o)
    BY DEF CommandsInv, OnceInv, ToldInv
  <2> QED BY <2>1 DEF WriteFits, CallFits, ToldFits
<1> QED BY <1>1, CommandsInvariant, PTL

\* A write of a conversation is carried out for the holder of the lease or for
\* the newest attachment of the role only.
LEMMA InputIsAllowed ==
  ASSUME TypeInv, Next, NEW k \in Conn, pipe'[k] # pipe[k],
         NEW o \in Op, KindOf[o] = "input", applied'[o] > applied[o]
  PROVE  \/ Holds(k, Frame(k).lease)
         \/ /\ grant.active
            /\ attach = [conn |-> k, generation |-> grant.generation]
<1>1. applied' # applied
  <2>1. applied[o] \in Nat
    BY DEF TypeInv
  <2>2. \A n \in Nat : ~(n > n)
    OBVIOUS
  <2> QED BY <2>1, <2>2
<1>2. PICK l \in Conn : Write(l)
  <2>1. \A l \in Conn : CallTakesEffect(l) => pipe' = pipe
    BY DEF CallTakesEffect
  <2>2. \A c \in Client :
          \/ Connect(c)
          \/ \E what \in {"acquire", "release", "issue", "revoke"} : Controls(c, what)
          \/ \E g \in 1 .. grant.generation : Attaches(c, g)
          \/ \E q \in Op : Runs(c, q)
          \/ Retries(c) \/ Renews(c) \/ LetsGo(c) \/ GivesUp(c) \/ Disconnects(c)
          => applied' = applied
    BY ClientSteps
  <2>3. \A l \in Conn :
          \/ Acquire(l) \/ Renew(l) \/ Release(l) \/ Grants(l) \/ Attach(l)
          \/ Call(l) \/ CallSettles(l) \/ Closes(l)
          => applied' = applied
    BY DEF Acquire, Renew, Release, Grants, Attach, Call, CallSettles, Closes
  <2>4. TimePasses \/ Crash \/ Restart => applied' = applied
    BY DEF TimePasses, Crash, Restart
  <2> QED BY <1>1, <2>1, <2>2, <2>3, <2>4 DEF Next
<1>3. l = k
  <2>1. pipe' = [pipe EXCEPT ![l] = Tail(@)]
    BY <1>2 DEF Write, Replies
  <2> QED BY <2>1 DEF TypeInv
<1>4. MayRun(k)
  BY <1>1, <1>2, <1>3 DEF Write
<1>5. Attached(k) => grant.active /\ attach = [conn |-> k, generation |-> grant.generation]
  BY DEF Attached, TypeInv
<1> QED BY <1>4, <1>5 DEF MayRun

\* A participant that was replaced or revoked writes nothing, also with frames
\* it sent before (ReplacedParticipantIsSilent).
THEOREM ReplacedParticipantsAreSilent == Spec => ReplacedParticipantIsSilent
<1>1. TypeInv /\ [Next]_vars =>
        [\A k \in Conn :
           (\E o \in Op : KindOf[o] = "input" /\ applied'[o] > applied[o]
                          /\ pipe'[k] # pipe[k])
             => \/ Holds(k, Frame(k).lease)
                \/ /\ grant.active
                   /\ attach = [conn |-> k, generation |-> grant.generation]]_vars
  BY InputIsAllowed
<1>2. CommandsInv => TypeInv
  BY DEF CommandsInv
<1> QED BY <1>1, <1>2, CommandsInvariant, PTL DEF Spec, ReplacedParticipantIsSilent
=============================================================================
