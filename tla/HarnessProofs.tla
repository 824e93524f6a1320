----------------------------- MODULE HarnessProofs -----------------------------
(***************************************************************************)
(* Theorems about the harness adapters, for every set of harnesses, any     *)
(* number of early notifications, texts and messages of old turns: nothing  *)
(* but the turn of the prompt is reported to the coordinator, and kimi is   *)
(* granted no permission for a turn that is over.                           *)
(***************************************************************************)
EXTENDS Harness, SequenceTheorems, TLAPS

USE HarnessAssumption DEF HarnessAssumption
USE DEF coreVars

-----------------------------------------------------------------------------
(* The values of the variables.                                              *)

\* Requests before the prompt, those up to it, and all of them.
Chain    == {"initialize", "open", "configure", "subscribe"}
Line     == Chain \cup {"prompt"}
Requests == Line \cup Interrupts \cup {"clear"}

Notes == {"started", "delta", "last", "completed"}

Message == [what   : Notes \cup {"reply", "ask"},
            of     : Requests \cup {"none"},
            ok     : BOOLEAN,
            turn   : {"own", "old"},
            ending : Ending \cup {"none"}]

\* What goes on after a chunk: a message, or the interrupt that was asked for.
Errand == Message \cup {Note("interrupt", "own", "none")}

BackendStates ==
  [accepted : BOOLEAN, outcome : Outcome \cup {"none"},
   end : {"no", "broken", "clean"}, cancelled : BOOLEAN]

AdapterStates ==
  [active : BOOLEAN, turn : {"none", "own"}, accepted : BOOLEAN,
   last : Ending \cup {"none"}, terminal : BOOLEAN, cancelled : BOOLEAN,
   sent : BOOLEAN, uncertain : BOOLEAN, closed : BOOLEAN, early : Seq(Message)]

AgentStates ==
  [turn : {"none", "running", "ended"}, ending : Ending \cup {"none"},
   last : Ending \cup {"none"}, owes : BOOLEAN, texts : Nat, old : Nat,
   told : BOOLEAN]

TypeInv ==
  /\ kind \in Kinds
  /\ stage \in Line \cup {"saving", "running", "failed"}
  /\ be \in BackendStates /\ ad \in AdapterStates /\ ag \in AgentStates
  /\ pending \subseteq Requests
  /\ todo \in Seq(Errand)
  /\ reading \in BOOLEAN
  /\ down \in Seq(Requests)
  /\ up \in Seq(Message)

-----------------------------------------------------------------------------
(* The ready chain.                                                          *)

IsReply(m, rs) == m.what = "reply" /\ m.of \in rs

\* The chain has one request under way at a time, the one of its stage.
ChainInv ==
  /\ pending \cap Line \subseteq {stage}
  /\ \A i \in DOMAIN todo :
       IsReply(todo[i], Line) => todo[i].of = stage /\ todo[i].of \notin pending
  /\ \A i, j \in DOMAIN todo :
       IsReply(todo[i], Line) /\ IsReply(todo[j], Line) => i = j

Has(q, rs)    == \E i \in DOMAIN q : q[i] \in rs
Brings(q, rs) == \E i \in DOMAIN q : IsReply(q[i], rs)

\* The request that opens the session is in one place.
OpenInv ==
  /\ Has(down, {"open"}) \/ Brings(up, {"open"}) \/ Brings(todo, {"open"})
       => stage = "open"
  /\ \A i, j \in DOMAIN down : down[i] = "open" /\ down[j] = "open" => i = j
  /\ \A i, j \in DOMAIN up :
       IsReply(up[i], {"open"}) /\ IsReply(up[j], {"open"}) => i = j
  /\ Has(down, {"open"}) => ~ Brings(up, {"open"}) /\ ~ Brings(todo, {"open"})
  /\ Brings(up, {"open"}) => ~ Brings(todo, {"open"})

\* The prompt is sent once, and the turn begins with it.
PromptInv ==
  /\ \A i, j \in DOMAIN down : down[i] = "prompt" /\ down[j] = "prompt" => i = j
  /\ Has(down, {"prompt"}) => ag.turn = "none"
  /\ stage \in Chain \cup {"saving"} =>
       ag.turn = "none" /\ ~ Has(down, {"prompt"}) /\ ~ ad.active
  /\ ad.accepted => stage = "running"

-----------------------------------------------------------------------------
(* What messages are about.                                                  *)

IsOld(m) == m.what \in Notes /\ m.turn = "old"

Fits(m) ==
  /\ m.what \in Notes /\ m.turn = "own" => ag.turn # "none"
  /\ m.what = "completed" /\ m.turn = "own" => ag.turn = "ended"
  /\ m.what = "completed" /\ m.turn = "own" /\ kind \in {"codex", "zcode"}
       => m.ending = ag.ending
  /\ IsReply(m, {"prompt"}) => m.turn = "own"
  /\ IsReply(m, {"prompt"}) /\ m.ok => ag.turn # "none"
  /\ IsReply(m, {"prompt"}) /\ m.ok /\ kind \in {"kimi", "dsh"}
       => ag.turn = "ended" /\ m.ending = ag.ending
  /\ kind = "dsh" => ~ IsOld(m)

Around == {up[i] : i \in DOMAIN up} \cup {todo[i] : i \in DOMAIN todo}
            \cup {ad.early[i] : i \in DOMAIN ad.early}

MessageInv == \A m \in Around : Fits(m)

AgentInv ==
  /\ ag.turn # "ended" => ag.ending = "none"
  /\ ag.turn = "none" => ag.last = "none" /\ ~ ag.owes

\* Old turns are replayed before the session is open.
OldInv ==
  kind \in {"kimi", "pi"} /\ ~ ad.closed =>
    \A i \in DOMAIN up : IsOld(up[i]) =>
      \/ down # <<>> /\ Head(down) = "open"
      \/ \E j \in DOMAIN up : j > i /\ IsReply(up[j], {"open"})

\* What came too early, and what is left of it when the prompt is acknowledged.
EarlyInv ==
  /\ kind \notin {"codex", "pi"} => ad.early = <<>>
  /\ \A i \in DOMAIN todo : todo[i].what \in Notes =>
       /\ ~ reading
       /\ kind \in {"codex", "pi"}
       /\ kind = "pi" => ad.accepted /\ ~ IsOld(todo[i])
  /\ \A i \in DOMAIN ad.early : ad.early[i].what \in Notes
                                  /\ (kind = "pi" => ~ IsOld(ad.early[i]))
  /\ kind = "pi" /\ ad.accepted => ad.early = <<>>
  /\ ~ ad.active => ad.last = "none" /\ ad.early = <<>>
  /\ ad.turn # "none" => ag.turn # "none"

\* What ends an execution and what cancels it.
EndInv ==
  /\ be.outcome # "none" => ad.terminal
  /\ kind = "kimi" /\ be.cancelled => ad.cancelled \/ Deaf
  /\ ad.closed => ad.uncertain

-----------------------------------------------------------------------------
(* pi: the last message decides.                                             *)

\* Whoever takes d for the last message of pi takes e for it after the first n
\* messages of q.
Leads(q, n, d, e) ==
  \/ /\ e = d
     /\ \A i \in 1 .. n : q[i].what # "last"
  \/ \E j \in 1 .. n : /\ q[j].what = "last" /\ q[j].ending = e
                       /\ \A i \in j + 1 .. n : q[i].what # "last"

\* What has been received and not been handled.
Unheard == IF ad.accepted THEN todo ELSE ad.early

\* What the adapter will take for the last message when it has handled what it
\* has received and the first n messages that are on their way.
Reaches(n, e) ==
  \E c \in Ending \cup {"none"} :
    Leads(Unheard, Len(Unheard), ad.last, c) /\ Leads(up, n, c, e)

SameReading(e) == Reading(kind)[e] = Reading(kind)[ag.ending]

PiInv ==
  kind = "pi" /\ ~ Deaf /\ ~ ad.closed =>
    /\ ag.turn # "ended" => Reaches(Len(up), ag.last)
    /\ \A i \in DOMAIN up : up[i].what = "completed" =>
         \E e \in Ending \cup {"none"} : Reaches(i - 1, e) /\ SameReading(e)
    /\ \A i \in DOMAIN Unheard : Unheard[i].what = "completed" =>
         \E e \in Ending \cup {"none"} :
           Leads(Unheard, i - 1, ad.last, e) /\ SameReading(e)

BaseInv ==
  /\ TypeInv /\ ChainInv /\ OpenInv /\ PromptInv
  /\ MessageInv /\ AgentInv /\ OldInv /\ EarlyInv /\ EndInv

HarnessInv == BaseInv /\ PiInv

-----------------------------------------------------------------------------
(* Readings and sequences.                                                   *)

LEMMA Readings ==
  ASSUME NEW k \in Kinds, NEW e \in Ending \cup {"none"}
  PROVE  /\ Reading(k)[e] \in Outcome \cup {"none"}
         /\ Reading(k)["none"] = "none"
         /\ k = "pi" => Reading(k)["odd"] = "none"
BY DEF Reading, Ending, Outcome

\* The chain of each harness is made of different requests, and the first one
\* of it is what an execution starts with.
LEMMA ChainOrder ==
  ASSUME kind \in Kinds
  PROVE  /\ Len(Preparation) \in 1 .. 3 /\ DOMAIN Preparation = 1 .. Len(Preparation)
         /\ \A i \in DOMAIN Preparation : Preparation[i] \in Chain
         /\ \A i, j \in DOMAIN Preparation : Preparation[i] = Preparation[j] => i = j
         /\ Head(Preparation) = Preparation[1]
<1>1. kind \in {"codex", "kimi", "dsh", "pi", "zcode"}
  OBVIOUS
<1>2. CASE kind = "codex"
  <2>1. Preparation = <<"initialize", "open">>
    BY <1>2 DEF Preparation
  <2> QED BY <2>1 DEF Chain
<1>3. CASE kind = "kimi"
  <2>1. Preparation = <<"initialize", "open", "configure">>
    BY <1>3 DEF Preparation
  <2> QED BY <2>1 DEF Chain
<1>4. CASE kind = "dsh"
  <2>1. Preparation = <<"initialize", "open">>
    BY <1>4 DEF Preparation
  <2> QED BY <2>1 DEF Chain
<1>5. CASE kind = "pi"
  <2>1. Preparation = <<"open">>
    BY <1>5 DEF Preparation
  <2> QED BY <2>1 DEF Chain
<1>6. CASE kind = "zcode"
  <2>1. Preparation = <<"open", "subscribe">>
    BY <1>6 DEF Preparation
  <2> QED BY <2>1 DEF Chain
<1> QED BY <1>1, <1>2, <1>3, <1>4, <1>5, <1>6

LEMMA TailFacts ==
  ASSUME NEW S, NEW q \in Seq(S), q # <<>>
  PROVE  /\ Head(q) \in S /\ Head(q) = q[1] /\ 1 \in DOMAIN q
         /\ Len(q) \in Nat \ {0} /\ DOMAIN q = 1 .. Len(q)
         /\ Tail(q) \in Seq(S) /\ Len(Tail(q)) = Len(q) - 1
         /\ DOMAIN Tail(q) = 1 .. Len(q) - 1
         /\ \A i \in DOMAIN Tail(q) : i + 1 \in DOMAIN q /\ Tail(q)[i] = q[i + 1]
         /\ \A i \in DOMAIN q : i # 1 => i - 1 \in DOMAIN Tail(q) /\ Tail(q)[i - 1] = q[i]
<1>1. /\ Head(q) \in S /\ Tail(q) \in Seq(S) /\ Len(Tail(q)) = Len(q) - 1
      /\ \A i \in 1 .. Len(Tail(q)) : Tail(q)[i] = q[i + 1]
  BY HeadTailProperties
<1>2. Len(q) \in Nat /\ Len(q) # 0 /\ DOMAIN q = 1 .. Len(q) /\ Head(q) = q[1]
  BY EmptySeq
<1>3. DOMAIN Tail(q) = 1 .. Len(q) - 1
  BY <1>1, <1>2
<1> QED BY <1>1, <1>2, <1>3

LEMMA AppendFacts ==
  ASSUME NEW S, NEW q \in Seq(S), NEW m \in S
  PROVE  /\ Append(q, m) \in Seq(S) /\ Len(Append(q, m)) = Len(q) + 1
         /\ Len(q) \in Nat /\ DOMAIN q = 1 .. Len(q)
         /\ DOMAIN Append(q, m) = 1 .. Len(q) + 1
         /\ \A i \in DOMAIN q : Append(q, m)[i] = q[i]
         /\ Append(q, m)[Len(q) + 1] = m
         /\ \A i \in DOMAIN Append(q, m) : i \in DOMAIN q \/ i = Len(q) + 1
BY AppendProperties

LEMMA ConcatFacts ==
  ASSUME NEW S, NEW p \in Seq(S), NEW q \in Seq(S)
  PROVE  /\ p \o q \in Seq(S) /\ Len(p \o q) = Len(p) + Len(q)
         /\ Len(p) \in Nat /\ DOMAIN p = 1 .. Len(p)
         /\ Len(q) \in Nat /\ DOMAIN q = 1 .. Len(q)
         /\ DOMAIN (p \o q) = 1 .. Len(p) + Len(q)
         /\ \A i \in DOMAIN p : i \in DOMAIN (p \o q) /\ (p \o q)[i] = p[i]
         /\ \A i \in DOMAIN (p \o q) :
              i \in DOMAIN p \/ (i - Len(p) \in DOMAIN q /\ (p \o q)[i] = q[i - Len(p)])
<1>1. /\ p \o q \in Seq(S) /\ Len(p \o q) = Len(p) + Len(q)
      /\ \A i \in 1 .. Len(p) + Len(q) :
           (p \o q)[i] = IF i <= Len(p) THEN p[i] ELSE q[i - Len(p)]
  BY ConcatProperties
<1>2. /\ Len(p) \in Nat /\ DOMAIN p = 1 .. Len(p)
      /\ Len(q) \in Nat /\ DOMAIN q = 1 .. Len(q)
  OBVIOUS
<1>3. DOMAIN (p \o q) = 1 .. Len(p) + Len(q)
  BY <1>1, <1>2
<1> QED BY <1>1, <1>2, <1>3

\* No message, one and two.
LEMMA Told ==
  ASSUME NEW a \in Message, NEW b \in Message
  PROVE  /\ <<>> \in Seq(Message) /\ <<a>> \in Seq(Message)
         /\ <<a>> \o <<b>> \in Seq(Message)
         /\ <<>> \o <<a>> = <<a>> /\ <<a>> \o <<>> = <<a>>
         /\ Len(<<a>>) = 1 /\ <<a>>[1] = a /\ DOMAIN <<a>> = 1 .. 1
         /\ \A i \in DOMAIN <<a>> : <<a>>[i] = a
         /\ Len(<<a>> \o <<b>>) = 2 /\ DOMAIN (<<a>> \o <<b>>) = 1 .. 2
         /\ (<<a>> \o <<b>>)[1] = a /\ (<<a>> \o <<b>>)[2] = b
<1>1. <<>> \in Seq(Message) /\ <<a>> \in Seq(Message) /\ <<b>> \in Seq(Message)
  OBVIOUS
<1>2. <<>> \o <<a>> = <<a>> /\ <<a>> \o <<>> = <<a>>
  BY <1>1, ConcatEmptySeq
<1>3. /\ Len(<<a>>) = 1 /\ <<a>>[1] = a /\ DOMAIN <<a>> = 1 .. 1
      /\ Len(<<b>>) = 1 /\ <<b>>[1] = b
      /\ \A i \in DOMAIN <<a>> : <<a>>[i] = a
  OBVIOUS
<1> DEFINE ab == <<a>> \o <<b>>
<1>4. /\ ab \in Seq(Message) /\ Len(ab) = 2
      /\ ab[1] = a /\ ab[2] = b
  BY <1>1, <1>3, ConcatProperties
<1>5. DOMAIN ab = 1 .. 2
  BY <1>4
<1> QED BY <1>1, <1>2, <1>3, <1>4, <1>5

-----------------------------------------------------------------------------
(* What a run of last messages leads to.                                     *)

LEMMA LeadsSame ==
  ASSUME NEW p, NEW q, NEW n \in Nat, NEW d, NEW e, \A i \in 1 .. n : p[i] = q[i],
         Leads(p, n, d, e)
  PROVE  Leads(q, n, d, e)
BY DEF Leads

\* Messages that are not "last" do not count.
LEMMA LeadsStay ==
  ASSUME NEW q, NEW n \in Nat, NEW k \in 0 .. n, NEW d, NEW e, Leads(q, k, d, e),
         \A i \in k + 1 .. n : q[i].what # "last"
  PROVE  Leads(q, n, d, e)
<1>1. CASE e = d /\ \A i \in 1 .. k : q[i].what # "last"
  <2>1. \A i \in 1 .. n : i \in 1 .. k \/ i \in k + 1 .. n
    OBVIOUS
  <2> QED BY <1>1, <2>1 DEF Leads
<1>2. ASSUME NEW j \in 1 .. k, q[j].what = "last", q[j].ending = e,
             \A i \in j + 1 .. k : q[i].what # "last"
      PROVE  Leads(q, n, d, e)
  <2>1. j \in 1 .. n /\ \A i \in j + 1 .. n : i \in j + 1 .. k \/ i \in k + 1 .. n
    OBVIOUS
  <2> QED BY <1>2, <2>1 DEF Leads
<1> QED BY <1>1, <1>2 DEF Leads

LEMMA LeadsLast ==
  ASSUME NEW q, NEW n \in Nat, NEW d, q[n + 1].what = "last"
  PROVE  Leads(q, n + 1, d, q[n + 1].ending)
<1>1. n + 1 \in 1 .. n + 1 /\ (n + 1) + 1 .. n + 1 = {}
  OBVIOUS
<1> QED BY <1>1 DEF Leads

LEMMA LeadsNowhere ==
  ASSUME NEW q, NEW n \in Nat, NEW d, NEW e, \A i \in 1 .. n : q[i].what # "last"
  PROVE  Leads(q, n, d, e) <=> e = d
BY DEF Leads

\* The first message, handled.
Handled(m, d) == IF m.what = "last" THEN m.ending ELSE d

LEMMA LeadsOn ==
  ASSUME NEW p, NEW q, NEW n \in Nat, NEW d, NEW e,
         \A i \in 1 .. n : p[i] = q[i + 1], Leads(q, n + 1, d, e)
  PROVE  Leads(p, n, Handled(q[1], d), e)
<1>1. CASE e = d /\ \A i \in 1 .. n + 1 : q[i].what # "last"
  <2>1. 1 \in 1 .. n + 1 /\ \A i \in 1 .. n : i + 1 \in 1 .. n + 1
    OBVIOUS
  <2> QED BY <1>1, <2>1 DEF Leads, Handled
<1>2. ASSUME NEW j \in 1 .. n + 1, q[j].what = "last", q[j].ending = e,
             \A i \in j + 1 .. n + 1 : q[i].what # "last"
      PROVE  Leads(p, n, Handled(q[1], d), e)
  <2>1. CASE j = 1
    <3>1. \A i \in 1 .. n : i + 1 \in j + 1 .. n + 1
      BY <2>1
    <3> QED BY <1>2, <2>1, <3>1 DEF Leads, Handled
  <2>2. CASE j # 1
    <3>1. /\ j - 1 \in 1 .. n /\ (j - 1) + 1 = j
          /\ \A i \in (j - 1) + 1 .. n : i \in 1 .. n /\ i + 1 \in j + 1 .. n + 1
      BY <2>2
    <3>2. p[j - 1].what = "last" /\ p[j - 1].ending = e
      BY <1>2, <3>1
    <3>3. \A i \in (j - 1) + 1 .. n : p[i].what # "last"
      BY <1>2, <3>1
    <3> QED BY <3>1, <3>2, <3>3 DEF Leads
  <2> QED BY <2>1, <2>2
<1> QED BY <1>1, <1>2 DEF Leads

-----------------------------------------------------------------------------
(* What the events of the adapter change.                                    *)

\* What is over stays over, for the adapter and the backend.
Grows ==
  /\ ad' \in AdapterStates /\ be' \in BackendStates
  /\ ad'.active = ad.active
  /\ ad.terminal => ad'.terminal
  /\ ad.uncertain => ad'.uncertain
  /\ ad.closed => ad'.closed
  /\ ad'.closed => ad.closed \/ ad'.uncertain
  /\ ad.cancelled => ad'.cancelled
  /\ be'.cancelled = be.cancelled
  /\ be'.outcome # "none" => be.outcome # "none" \/ ad'.terminal

\* The adapter has heard nothing new of the turn.
SameEar == /\ ad'.accepted = ad.accepted /\ ad'.turn = ad.turn
           /\ ad'.early = ad.early /\ ad'.last = ad.last

LEMMA BackendEffects ==
  ASSUME TypeInv
  PROVE  /\ Accepts \/ Breaks => /\ be' \in BackendStates /\ be'.cancelled = be.cancelled
                                 /\ be'.outcome = be.outcome
         /\ \A o \in Outcome : Settles(o) => /\ be' \in BackendStates
                                             /\ be'.cancelled = be.cancelled
<1>1. be \in BackendStates
  BY DEF TypeInv
<1> QED BY <1>1 DEF Accepts, Breaks, Settles, BackendStates

LEMMA DisconnectsEffect ==
  ASSUME TypeInv, Disconnects(ad)
  PROVE  /\ Grows /\ SameEar /\ pending' = {}
         /\ ad'.closed /\ ad'.uncertain
<1>1. ad \in AdapterStates /\ ad' = [[ad EXCEPT !.closed = TRUE] EXCEPT !.uncertain = TRUE]
      /\ Breaks /\ pending' = {}
  BY DEF Disconnects, TypeInv
<1>2. /\ ad' \in AdapterStates /\ SameEar /\ ad'.closed /\ ad'.uncertain
      /\ ad'.active = ad.active /\ ad'.terminal = ad.terminal
      /\ ad'.cancelled = ad.cancelled
  BY <1>1 DEF AdapterStates, SameEar
<1> QED BY <1>1, <1>2, BackendEffects DEF Grows

LEMMA FailsEffect ==
  ASSUME TypeInv, NEW inChunk, Fails(inChunk)
  PROVE  /\ Grows /\ SameEar /\ pending' \subseteq pending
         /\ ad'.uncertain /\ (inChunk \/ kind # "codex" => ad'.closed)
<1>1. CASE Disconnects(ad)
  BY <1>1, DisconnectsEffect
<1>2. CASE ~inChunk /\ kind = "codex" /\ ad' = [ad EXCEPT !.uncertain = TRUE]
           /\ Breaks /\ UNCHANGED pending
  <2>1. ad \in AdapterStates
    BY DEF TypeInv
  <2>2. /\ ad' \in AdapterStates /\ SameEar /\ ad'.uncertain
        /\ ad'.active = ad.active /\ ad'.terminal = ad.terminal
        /\ ad'.cancelled = ad.cancelled /\ ad'.closed = ad.closed
    BY <1>2, <2>1 DEF AdapterStates, SameEar
  <2> QED BY <1>2, <2>2, BackendEffects DEF Grows
<1> QED BY <1>1, <1>2 DEF Fails

LEMMA FinishesEffect ==
  ASSUME TypeInv, NEW e \in Ending \cup {"none"}, Reading(kind)[e] # "none", Finishes(e)
  PROVE  /\ Grows /\ SameEar /\ pending' = pending /\ ad'.terminal
         /\ ad' = [ad EXCEPT !.terminal = TRUE]
<1>1. ad \in AdapterStates /\ ad' = [ad EXCEPT !.terminal = TRUE] /\ pending' = pending
  BY DEF Finishes, TypeInv
<1>2. /\ ad' \in AdapterStates /\ SameEar /\ ad'.terminal
      /\ ad'.active = ad.active /\ ad'.uncertain = ad.uncertain
      /\ ad'.cancelled = ad.cancelled /\ ad'.closed = ad.closed
  BY <1>1 DEF AdapterStates, SameEar
<1>3. be' \in BackendStates /\ be'.cancelled = be.cancelled
  <2>1. Reading(kind)[e] \in Outcome
    BY Readings DEF TypeInv
  <2> QED BY <2>1, BackendEffects DEF Finishes
<1> QED BY <1>1, <1>2, <1>3 DEF Grows

LEMMA AcceptsEffect ==
  ASSUME TypeInv, Accepts, UNCHANGED <<ad, pending>>
  PROVE  Grows /\ SameEar /\ pending' = pending
BY BackendEffects DEF Grows, SameEar, TypeInv

LEMMA NothingEffect ==
  ASSUME TypeInv, UNCHANGED <<ad, be, pending>>
  PROVE  Grows /\ SameEar /\ pending' = pending
BY DEF Grows, SameEar, TypeInv

\* What the adapter has heard of message m, if it goes on hearing.
Noted(m) ==
  IF Early
  THEN ad'.early = Append(ad.early, m) /\ ad'.turn = ad.turn /\ ad'.last = ad.last
  ELSE /\ ad'.early = ad.early
       /\ kind = "pi" => /\ m.what # "completed"
                         /\ ad'.last = Handled(m, ad.last)
       /\ kind # "pi" => ad'.last = ad.last
       /\ ad'.turn # ad.turn => /\ kind = "zcode" /\ m.what = "started" /\ m.turn = "own"

Hearing == ~ Deaf /\ ~ ad.closed

LEMMA HearsEffect ==
  ASSUME TypeInv, NEW m \in Message, m.what \in Notes, NEW inChunk \in BOOLEAN,
         Hears(m, inChunk)
  PROVE  /\ Grows /\ pending' \subseteq pending /\ ad'.accepted = ad.accepted
         /\ SameEar \/ (~ Deaf /\ Noted(m))
         /\ Hearing' => ~ Deaf /\ Noted(m)
<1>1. ad \in AdapterStates /\ kind \in Kinds
  BY DEF TypeInv
<1>2. m.ending \in Ending \cup {"none"} /\ ad.last \in Ending \cup {"none"}
  BY <1>1 DEF Message, AdapterStates
<1>3. \A e \in Ending \cup {"none"} :
        Reading(kind)[e] # "none" /\ Finishes(e) =>
          Grows /\ SameEar /\ pending' = pending /\ ~ Hearing'
  BY FinishesEffect DEF Hearing, Deaf
<1>4. Fails(inChunk) =>
        Grows /\ SameEar /\ pending' \subseteq pending /\ ~ Hearing'
  BY FailsEffect DEF Hearing, Deaf
<1>5. Disconnects(ad) =>
        Grows /\ SameEar /\ pending' \subseteq pending /\ ~ Hearing'
  BY DisconnectsEffect DEF Hearing, Deaf
<1>6. CASE Deaf /\ UNCHANGED <<ad, be, pending>>
  <2>1. ~ Hearing'
    BY <1>6 DEF Hearing, Deaf
  <2> QED BY <1>6, <2>1, NothingEffect DEF SameEar
<1>7. CASE ~ Deaf /\ Early /\ Keeps(m, inChunk)
  <2>1. CASE ad' = [ad EXCEPT !.early = Append(@, m)] /\ UNCHANGED <<be, pending>>
    <3>1. Append(ad.early, m) \in Seq(Message)
      BY <1>1 DEF AdapterStates
    <3>2. /\ ad' \in AdapterStates /\ ad'.early = Append(ad.early, m)
          /\ ad'.turn = ad.turn /\ ad'.last = ad.last /\ ad'.accepted = ad.accepted
          /\ ad'.active = ad.active /\ ad'.terminal = ad.terminal
          /\ ad'.uncertain = ad.uncertain /\ ad'.closed = ad.closed
          /\ ad'.cancelled = ad.cancelled
      BY <1>1, <2>1, <3>1 DEF AdapterStates
    <3> QED BY <1>7, <2>1, <3>2 DEF Grows, Noted, TypeInv
  <2>2. CASE Fails(inChunk)
    BY <1>4, <2>2 DEF SameEar
  <2> QED BY <1>7, <2>1, <2>2 DEF Keeps
<1>8. ASSUME ~ Deaf, ~ Early, kind # "pi" \/ m.what = "delta", SameEar
      PROVE  Noted(m)
  BY <1>8 DEF SameEar, Noted, Handled
<1>9. CASE ~ Deaf /\ ~ Early /\ kind = "codex" /\ CodexHears(m, inChunk)
  <2>1. Accepts /\ UNCHANGED <<ad, pending>> => SameEar /\ Grows /\ pending' = pending
    BY AcceptsEffect
  <2>2. UNCHANGED <<ad, be, pending>> => SameEar /\ Grows /\ pending' = pending
    BY NothingEffect
  <2>3. SameEar /\ Grows /\ pending' \subseteq pending
    BY <1>2, <1>3, <1>4, <1>5, <1>9, <2>1, <2>2 DEF CodexHears
  <2>4. Noted(m)
    BY <1>8, <1>9, <2>3
  <2> QED BY <1>9, <2>3, <2>4 DEF SameEar
<1>10. CASE ~ Deaf /\ ~ Early /\ kind \in {"kimi", "dsh"} /\ AcpHears(m)
  <2>1. SameEar /\ Grows /\ pending' = pending
    BY <1>10, AcceptsEffect DEF AcpHears
  <2> QED BY <1>8, <1>10, <2>1 DEF SameEar
<1>11. CASE ~ Deaf /\ ~ Early /\ kind = "pi" /\ PiHears(m, inChunk)
  <2>1. CASE m.what = "last" /\ ad' = [ad EXCEPT !.last = m.ending]
             /\ UNCHANGED <<be, pending>>
    <3>1. /\ ad' \in AdapterStates /\ ad'.early = ad.early
          /\ ad'.turn = ad.turn /\ ad'.last = m.ending /\ ad'.accepted = ad.accepted
          /\ ad'.active = ad.active /\ ad'.terminal = ad.terminal
          /\ ad'.uncertain = ad.uncertain /\ ad'.closed = ad.closed
          /\ ad'.cancelled = ad.cancelled
      BY <1>1, <1>2, <2>1 DEF AdapterStates
    <3> QED BY <1>11, <2>1, <3>1 DEF Grows, Noted, TypeInv, Handled
  <2>2. CASE m.what = "completed"
    BY <1>2, <1>3, <1>4, <1>11, <2>2 DEF PiHears, SameEar
  <2>3. CASE m.what = "delta" /\ Accepts /\ UNCHANGED <<ad, pending>>
    BY <1>8, <1>11, <2>3, AcceptsEffect DEF SameEar
  <2> QED BY <1>11, <2>1, <2>2, <2>3 DEF PiHears
<1>12. CASE ~ Deaf /\ ~ Early /\ kind = "zcode" /\ ZcodeHears(m)
  <2>1. CASE /\ m.what = "started" /\ m.turn = "own" /\ ad' = [ad EXCEPT !.turn = "own"]
             /\ Accepts /\ UNCHANGED pending
    <3>1. /\ ad' \in AdapterStates /\ ad'.early = ad.early
          /\ ad'.last = ad.last /\ ad'.accepted = ad.accepted
          /\ ad'.active = ad.active /\ ad'.terminal = ad.terminal
          /\ ad'.uncertain = ad.uncertain /\ ad'.closed = ad.closed
          /\ ad'.cancelled = ad.cancelled
      BY <1>1, <2>1 DEF AdapterStates
    <3> QED BY <1>12, <2>1, <3>1, BackendEffects DEF Grows, Noted
  <2>2. CASE Accepts /\ UNCHANGED <<ad, pending>>
    BY <1>8, <1>12, <2>2, AcceptsEffect DEF SameEar
  <2>3. CASE Reading(kind)[m.ending] # "none" /\ Finishes(m.ending)
    BY <1>2, <1>3, <1>12, <2>3 DEF SameEar
  <2>4. CASE UNCHANGED <<ad, be, pending>>
    BY <1>8, <1>12, <2>4, NothingEffect DEF SameEar
  <2> QED BY <1>12, <2>1, <2>2, <2>3, <2>4 DEF ZcodeHears
<1> QED BY <1>6, <1>7, <1>9, <1>10, <1>11, <1>12 DEF Hears

-----------------------------------------------------------------------------
(* Frames: what most steps leave as it is.                                   *)

LEMMA SendsEffect ==
  ASSUME TypeInv, NEW r \in Requests, Sends(r)
  PROVE  /\ pending' \subseteq pending \cup {r} /\ pending' \subseteq Requests
         /\ down' = down \/ down' = Append(down, r)
         /\ down' \in Seq(Requests)
BY DEF Sends, TypeInv

\* A codex that has lost its turn out of sight goes on hearing nothing of it.
LEMMA DoubtsEffect ==
  ASSUME TypeInv, ad' = [ad EXCEPT !.uncertain = @ \/ kind = "codex"], Breaks
  PROVE  Grows /\ SameEar
<1>1. ad \in AdapterStates /\ (ad.uncertain \/ kind = "codex") \in BOOLEAN
  BY DEF TypeInv
<1>2. ad' \in AdapterStates /\ SameEar
  BY <1>1 DEF AdapterStates, SameEar
<1>3. /\ ad'.uncertain = (ad.uncertain \/ kind = "codex")
      /\ ad'.active = ad.active /\ ad'.terminal = ad.terminal
      /\ ad'.cancelled = ad.cancelled /\ ad'.closed = ad.closed
  BY <1>1 DEF AdapterStates
<1> QED BY <1>2, <1>3, BackendEffects DEF Grows

LEMMA StartFailsEffect ==
  ASSUME TypeInv, NEW m \in Message, StartFails(m)
  PROVE  /\ Grows /\ SameEar /\ pending' \subseteq pending /\ stage' = "failed"
         /\ kind = "pi" => ad'.closed
<1>1. CASE Disconnects(ad) /\ stage' = "failed"
  BY <1>1, DisconnectsEffect
<1>2. CASE /\ ad' = [ad EXCEPT !.uncertain = @ \/ kind = "codex"]
           /\ Breaks /\ UNCHANGED pending /\ stage' = "failed" /\ kind # "pi"
  BY <1>2, DoubtsEffect
<1> QED BY <1>1, <1>2 DEF StartFails

\* EndInv is about what is over, and what is over stays over.
LEMMA EndFrame ==
  ASSUME EndInv, Grows, kind' = kind
  PROVE  EndInv'
BY DEF EndInv, Grows, Deaf

LEMMA MessageFrame ==
  ASSUME MessageInv, UNCHANGED <<kind, ag>>,
         Around' \subseteq Around \cup {Note("interrupt", "own", "none")}
  PROVE  MessageInv'
<1>1. \A m : Fits(m)' <=> Fits(m)
  BY DEF Fits, IsOld, IsReply
<1>2. Fits(Note("interrupt", "own", "none"))
  BY DEF Fits, IsOld, IsReply, Notes, Note, Reply
<1> QED BY <1>1, <1>2 DEF MessageInv

\* The tasks of the chain are where they were, except for those that are done.
TodoShifts ==
  \E s \in Int : \A i \in DOMAIN todo' :
    IsReply(todo'[i], Line) => i + s \in DOMAIN todo /\ todo'[i] = todo[i + s]

LEMMA TodoSteps ==
  ASSUME TypeInv
  PROVE  /\ todo' = todo => TodoShifts
         /\ todo # <<>> /\ todo' = Tail(todo) => TodoShifts
         /\ \A m \in Errand : todo' = Append(todo, m) /\ ~ IsReply(m, Line) => TodoShifts
<1>1. todo \in Seq(Errand)
  BY DEF TypeInv
<1>2. ASSUME todo' = todo PROVE TodoShifts
  <2>1. \A i \in DOMAIN todo' : i + 0 \in DOMAIN todo /\ todo'[i] = todo[i + 0]
    BY <1>1, <1>2
  <2> QED BY <2>1 DEF TodoShifts
<1>3. ASSUME todo # <<>>, todo' = Tail(todo) PROVE TodoShifts
  BY <1>1, <1>3, TailFacts DEF TodoShifts
<1>4. ASSUME NEW m \in Errand, todo' = Append(todo, m), ~ IsReply(m, Line)
      PROVE TodoShifts
  <2>1. \A i \in DOMAIN todo' : IsReply(todo'[i], Line) =>
          i + 0 \in DOMAIN todo /\ todo'[i] = todo[i + 0]
    BY <1>1, <1>4, AppendFacts
  <2> QED BY <2>1 DEF TodoShifts
<1> QED BY <1>2, <1>3, <1>4

\* What is on its way to the agent stays there, and nothing of the chain follows.
Prolongs ==
  /\ \A i \in DOMAIN down : i \in DOMAIN down' /\ down'[i] = down[i]
  /\ \A i \in DOMAIN down' : down'[i] \in Line => i \in DOMAIN down
  /\ down # <<>> => down' # <<>> /\ Head(down') = Head(down)

LEMMA DownSteps ==
  ASSUME TypeInv
  PROVE  /\ down' = down => Prolongs
         /\ \A r \in Requests : down' = Append(down, r) =>
              /\ \A i \in DOMAIN down : i \in DOMAIN down' /\ down'[i] = down[i]
              /\ \A i \in DOMAIN down' : i \in DOMAIN down \/ down'[i] = r
              /\ down # <<>> => down' # <<>> /\ Head(down') = Head(down)
              /\ r \notin Line => Prolongs
<1>1. down \in Seq(Requests)
  BY DEF TypeInv
<1>2. ASSUME NEW r \in Requests, down' = Append(down, r)
      PROVE  /\ \A i \in DOMAIN down : i \in DOMAIN down' /\ down'[i] = down[i]
             /\ \A i \in DOMAIN down' : i \in DOMAIN down \/ down'[i] = r
             /\ down # <<>> => down' # <<>> /\ Head(down') = Head(down)
  <2>1. /\ down' \in Seq(Requests) /\ DOMAIN down' = 1 .. Len(down) + 1
        /\ DOMAIN down = 1 .. Len(down) /\ Len(down) \in Nat
        /\ \A i \in DOMAIN down : down'[i] = down[i]
        /\ down'[Len(down) + 1] = r
        /\ \A i \in DOMAIN down' : i \in DOMAIN down \/ i = Len(down) + 1
    BY <1>1, <1>2, AppendFacts
  <2>2. ASSUME down # <<>> PROVE down' # <<>> /\ Head(down') = Head(down)
    <3>1. down' # <<>> /\ 1 \in DOMAIN down /\ Head(down) = down[1]
      BY <1>1, <2>1, <2>2, TailFacts
    <3>2. Head(down') = down'[1]
      BY <2>1, <3>1, TailFacts
    <3> QED BY <2>1, <3>1, <3>2
  <2> QED BY <2>1, <2>2
<1> QED BY <1>2 DEF Prolongs

\* What is on its way from the agent, when nothing or the first message is taken.
UpMoves == up' = up \/ (up # <<>> /\ up' = Tail(up))

UpShifts(k) ==
  /\ Len(up') = Len(up) - k /\ Len(up) \in Nat /\ Len(up') \in Nat
  /\ DOMAIN up = 1 .. Len(up) /\ DOMAIN up' = 1 .. Len(up')
  /\ \A i \in DOMAIN up' : i + k \in DOMAIN up /\ up'[i] = up[i + k]
  /\ \A i \in DOMAIN up : i > k => i - k \in DOMAIN up' /\ up'[i - k] = up[i]

LEMMA UpSteps ==
  ASSUME TypeInv
  PROVE  /\ up' = up => UpShifts(0)
         /\ up # <<>> /\ up' = Tail(up) => UpShifts(1)
         /\ UpMoves => up' \in Seq(Message)
<1>1. up \in Seq(Message)
  BY DEF TypeInv
<1>2. up' = up => UpShifts(0)
  BY <1>1 DEF UpShifts
<1>3. ASSUME up # <<>>, up' = Tail(up) PROVE UpShifts(1) /\ up' \in Seq(Message)
  BY <1>1, <1>3, TailFacts DEF UpShifts
<1> QED BY <1>1, <1>2, <1>3 DEF UpMoves

LEMMA OldFrame ==
  ASSUME TypeInv, OldInv, kind' = kind, ad.closed => ad'.closed, UpMoves,
         down # <<>> => down' # <<>> /\ Head(down') = Head(down)
  PROVE  OldInv'
<1> SUFFICES ASSUME kind \in {"kimi", "pi"}, ~ ad.closed, NEW i \in DOMAIN up',
                    IsOld(up'[i])
             PROVE  \/ down' # <<>> /\ Head(down') = "open"
                    \/ \E j \in DOMAIN up' : j > i /\ IsReply(up'[j], {"open"})
  BY DEF OldInv, IsOld, IsReply
<1>1. PICK k \in {0, 1} : UpShifts(k)
  BY UpSteps DEF UpMoves
<1>2. i + k \in DOMAIN up /\ IsOld(up[i + k]) /\ i \in Nat \ {0}
  BY <1>1 DEF UpShifts
<1>3. ASSUME NEW j \in DOMAIN up, j > i + k, IsReply(up[j], {"open"})
      PROVE  j - k \in DOMAIN up' /\ j - k > i /\ IsReply(up'[j - k], {"open"})
  BY <1>1, <1>2, <1>3 DEF UpShifts
<1> QED BY <1>2, <1>3 DEF OldInv

LEMMA PromptFrame ==
  ASSUME PromptInv, UNCHANGED <<stage, ag>>, Prolongs, ad'.active = ad.active,
         ad'.accepted => ad.accepted
  PROVE  PromptInv'
BY DEF PromptInv, Prolongs, Has, Line

LEMMA AgentFrame ==
  ASSUME AgentInv, UNCHANGED ag
  PROVE  AgentInv'
BY DEF AgentInv

\* Steps outside of the ready chain.
LEMMA ChainFrame ==
  ASSUME TypeInv, ChainInv, OpenInv, UNCHANGED stage, TodoShifts, Prolongs, UpMoves,
         todo' \in Seq(Errand), pending' \cap Line \subseteq pending
  PROVE  ChainInv' /\ OpenInv'
<1>1. PICK s \in Int : \A i \in DOMAIN todo' :
         IsReply(todo'[i], Line) => i + s \in DOMAIN todo /\ todo'[i] = todo[i + s]
  BY DEF TodoShifts
<1>2. PICK k \in {0, 1} : UpShifts(k)
  BY UpSteps DEF UpMoves
<1>3. \A m : IsReply(m, {"open"}) => IsReply(m, Line)
  BY DEF IsReply, Line, Chain
<1>4. ChainInv'
  <2>1. \A i \in DOMAIN todo' : IsReply(todo'[i], Line)
          => todo'[i].of = stage' /\ todo'[i].of \notin pending'
    BY <1>1 DEF ChainInv, IsReply
  <2>2. ASSUME NEW i \in DOMAIN todo', NEW j \in DOMAIN todo',
               IsReply(todo'[i], Line), IsReply(todo'[j], Line)
        PROVE  i = j
    <3>1. i + s = j + s
      BY <1>1, <2>2 DEF ChainInv
    <3>2. i \in Int /\ j \in Int
      BY <2>2
    <3> QED BY <3>1, <3>2
  <2> QED BY <2>1, <2>2 DEF ChainInv
<1>5. /\ Has(down, {"open"})' => Has(down, {"open"})
      /\ Brings(up, {"open"})' => Brings(up, {"open"})
      /\ Brings(todo, {"open"})' => Brings(todo, {"open"})
  BY <1>1, <1>2, <1>3 DEF Has, Brings, Prolongs, UpShifts, Line, Chain
<1>6. \A i, j \in DOMAIN down' : down'[i] = "open" /\ down'[j] = "open" => i = j
  BY DEF OpenInv, Prolongs, Line, Chain
<1>7. ASSUME NEW i \in DOMAIN up', NEW j \in DOMAIN up',
             IsReply(up'[i], {"open"}), IsReply(up'[j], {"open"})
      PROVE  i = j
  BY <1>2, <1>7 DEF OpenInv, UpShifts
<1>8. OpenInv'
  BY <1>5, <1>6, <1>7 DEF OpenInv
<1> QED BY <1>4, <1>8

LEMMA EarlyFrame ==
  ASSUME TypeInv, EarlyInv, UNCHANGED <<kind, ag>>, SameEar, ad'.active = ad.active,
         \A i \in DOMAIN todo' : todo'[i].what \in Notes =>
           /\ ~ reading' /\ \E j \in DOMAIN todo : todo'[i] = todo[j]
  PROVE  EarlyInv'
<1>1. ad'.early = ad.early /\ ad'.accepted = ad.accepted /\ ad'.last = ad.last
      /\ ad'.turn = ad.turn
  BY DEF SameEar
<1> QED BY <1>1 DEF EarlyInv, IsOld

-----------------------------------------------------------------------------
(* pi: what steps do to the run of last messages.                            *)

UnheardFits ==
  \A i \in DOMAIN Unheard : Unheard[i].what = "completed" =>
    \E e \in Ending \cup {"none"} : Leads(Unheard, i - 1, ad.last, e) /\ SameReading(e)

\* What is taken from the agent is added to what has not been handled, or handled.
LEMMA PiShift ==
  ASSUME TypeInv, PiInv, Hearing, UNCHANGED <<kind, ag>>, NEW k \in {0, 1}, UpShifts(k),
         \A c \in Ending \cup {"none"} :
           Leads(Unheard, Len(Unheard), ad.last, c) =>
             Leads(Unheard', Len(Unheard'), ad'.last,
                   IF k = 1 THEN Handled(up[1], c) ELSE c),
         kind = "pi" => UnheardFits'
  PROVE  PiInv'
<1> SUFFICES ASSUME kind = "pi" PROVE PiInv'
  BY DEF PiInv
<1>1. /\ ag.turn # "ended" => Reaches(Len(up), ag.last)
      /\ \A i \in DOMAIN up : up[i].what = "completed" =>
           \E e \in Ending \cup {"none"} : Reaches(i - 1, e) /\ SameReading(e)
  BY DEF PiInv, Hearing
<1>2. up \in Seq(Message) /\ Len(up) \in Nat
  BY DEF TypeInv
<1>3. \A e : SameReading(e)' <=> SameReading(e)
  BY DEF SameReading
<1>4. ASSUME NEW n \in Nat, k <= n, n <= Len(up), NEW e, Reaches(n, e)
      PROVE  Reaches(n - k, e)'
  <2>1. PICK c \in Ending \cup {"none"} :
          Leads(Unheard, Len(Unheard), ad.last, c) /\ Leads(up, n, c, e)
    BY <1>4 DEF Reaches
  <2>2. CASE k = 0
    <3>1. \A i \in 1 .. n : up[i] = up'[i]
      BY <1>2, <1>4, <2>2 DEF UpShifts
    <3>2. Leads(up', n, c, e)
      BY <2>1, <3>1, LeadsSame
    <3> QED BY <1>4, <2>1, <2>2, <3>2 DEF Reaches
  <2>3. CASE k = 1
    <3> DEFINE h == Handled(up[1], c)
    <3>0. 1 \in DOMAIN up /\ up[1] \in Message
      BY <1>2, <1>4, <2>3
    <3>1. h \in Ending \cup {"none"}
      BY <3>0 DEF Handled, Message
    <3>2. n - 1 \in Nat /\ (n - 1) + 1 = n /\ \A i \in 1 .. n - 1 : up'[i] = up[i + 1]
      BY <1>2, <1>4, <2>3 DEF UpShifts
    <3>3. Leads(up, (n - 1) + 1, c, e)
      BY <2>1, <3>2
    <3>4. Leads(up', n - 1, h, e)
      BY <3>2, <3>3, LeadsOn
    <3>5. Leads(Unheard', Len(Unheard'), ad'.last, h)
      BY <2>1, <2>3
    <3> HIDE DEF h
    <3> QED BY <2>3, <3>1, <3>4, <3>5 DEF Reaches
  <2> QED BY <2>2, <2>3
<1>5. ASSUME ag.turn # "ended" PROVE Reaches(Len(up), ag.last)'
  <2>1. CASE k <= Len(up)
    BY <1>1, <1>2, <1>4, <1>5, <2>1 DEF UpShifts
  <2>2. CASE ~ (k <= Len(up))
    BY <1>2, <2>2 DEF UpShifts
  <2> QED BY <2>1, <2>2
<1>6. ASSUME NEW i \in DOMAIN up', up'[i].what = "completed"
      PROVE  \E e \in Ending \cup {"none"} : Reaches(i - 1, e)' /\ SameReading(e)'
  <2>1. /\ i + k \in DOMAIN up /\ up[i + k].what = "completed"
        /\ (i + k) - 1 \in Nat /\ k <= (i + k) - 1 /\ (i + k) - 1 <= Len(up)
        /\ ((i + k) - 1) - k = i - 1
    BY <1>6 DEF UpShifts
  <2>2. PICK e \in Ending \cup {"none"} : Reaches((i + k) - 1, e) /\ SameReading(e)
    BY <1>1, <2>1
  <2>3. Reaches(((i + k) - 1) - k, e)'
    BY <1>4, <2>1, <2>2
  <2> QED BY <1>3, <2>1, <2>2, <2>3
<1> QED BY <1>5, <1>6 DEF PiInv, UnheardFits

\* Nothing but replies and questions is taken or handled.
LEMMA PiRest ==
  ASSUME TypeInv, PiInv, Hearing, UNCHANGED <<kind, ag>>, NEW k \in {0, 1}, UpShifts(k),
         Unheard' = Unheard, ad'.last = ad.last,
         k = 1 => up[1].what # "last"
  PROVE  PiInv'
<1>1. kind = "pi" => UnheardFits
  BY DEF PiInv, UnheardFits, Hearing
<1>2. kind = "pi" => UnheardFits'
  BY <1>1 DEF UnheardFits, SameReading
<1>3. \A c : k = 1 => Handled(up[1], c) = c
  BY DEF Handled
<1>4. \A c \in Ending \cup {"none"} :
        Leads(Unheard, Len(Unheard), ad.last, c) =>
          Leads(Unheard', Len(Unheard'), ad'.last,
                IF k = 1 THEN Handled(up[1], c) ELSE c)
  BY <1>3
<1> QED BY <1>2, <1>4, PiShift

\* Something that is not the last message is added to what has not been handled.
LEMMA PiAdds ==
  ASSUME TypeInv, PiInv, Hearing, UNCHANGED <<kind, ag>>, UpShifts(1), 1 \in DOMAIN up,
         Unheard \in Seq(Errand), up[1] \in Errand,
         Unheard' = Append(Unheard, up[1]), ad'.last = ad.last
  PROVE  PiInv'
<1> DEFINE W == Unheard
           m == up[1]
<1>1. /\ Len(W) \in Nat /\ Len(W') = Len(W) + 1 /\ DOMAIN W = 1 .. Len(W)
      /\ DOMAIN W' = 1 .. Len(W) + 1
      /\ \A i \in DOMAIN W : W'[i] = W[i]
      /\ W'[Len(W) + 1] = m
  BY AppendFacts
<1> HIDE DEF W, m
<1>2. /\ Unheard = W /\ Unheard' = W' /\ up[1] = m
      /\ up \in Seq(Message) /\ m \in Message
  BY DEF W, m, TypeInv
<1>3. ASSUME NEW n \in 0 .. Len(W), NEW c, Leads(W, n, ad.last, c)
      PROVE  Leads(W', n, ad'.last, c)
  <2>1. \A i \in 1 .. n : W[i] = W'[i]
    BY <1>1
  <2> QED BY <1>1, <1>3, <2>1, LeadsSame
<1>4. ASSUME NEW c \in Ending \cup {"none"}, Leads(W, Len(W), ad.last, c)
      PROVE  Leads(W', Len(W'), ad'.last, Handled(m, c))
  <2>1. CASE m.what = "last"
    BY <1>1, <2>1, LeadsLast DEF Handled
  <2>2. CASE m.what # "last"
    <3>1. Leads(W', Len(W), ad'.last, c)
      BY <1>1, <1>3, <1>4
    <3>2. /\ Len(W) \in 0 .. Len(W') /\ Len(W') \in Nat
          /\ \A i \in Len(W) + 1 .. Len(W') : W'[i].what # "last"
      BY <1>1, <2>2
    <3>3. Leads(W', Len(W'), ad'.last, c)
      BY <3>1, <3>2, LeadsStay
    <3> QED BY <2>2, <3>3 DEF Handled
  <2> QED BY <2>1, <2>2
<1>5. ASSUME kind = "pi" PROVE UnheardFits'
  <2> SUFFICES ASSUME NEW i \in DOMAIN W', W'[i].what = "completed"
               PROVE  \E e \in Ending \cup {"none"} :
                        Leads(W', i - 1, ad'.last, e) /\ SameReading(e)
    BY <1>2 DEF UnheardFits, SameReading
  <2>1. CASE i \in DOMAIN W
    <3>1. PICK e \in Ending \cup {"none"} : Leads(W, i - 1, ad.last, e) /\ SameReading(e)
      BY <1>1, <1>2, <1>5, <2>1 DEF PiInv, Hearing
    <3>2. i - 1 \in 0 .. Len(W)
      BY <1>1, <2>1
    <3> QED BY <1>3, <3>1, <3>2
  <2>2. CASE i = Len(W) + 1
    <3>1. PICK e \in Ending \cup {"none"} : Reaches(1 - 1, e) /\ SameReading(e)
      BY <1>1, <1>2, <1>5, <2>2 DEF PiInv, Hearing
    <3>2. PICK c \in Ending \cup {"none"} :
            Leads(W, Len(W), ad.last, c) /\ Leads(up, 1 - 1, c, e)
      BY <1>2, <3>1 DEF Reaches
    <3>3. e = c
      BY <3>2 DEF Leads
    <3>4. Leads(W', i - 1, ad'.last, e)
      BY <1>1, <1>3, <2>2, <3>2, <3>3
    <3> QED BY <3>1, <3>4
  <2> QED BY <1>1, <2>1, <2>2
<1>6. \A c \in Ending \cup {"none"} :
        Leads(Unheard, Len(Unheard), ad.last, c) =>
          Leads(Unheard', Len(Unheard'), ad'.last,
                IF 1 = 1 THEN Handled(up[1], c) ELSE c)
  BY <1>2, <1>4
<1> QED BY <1>5, <1>6, PiShift

\* What has not been handled goes on: the first of it is handled.
LEMMA PiGoesOn ==
  ASSUME TypeInv, PiInv, Hearing, UNCHANGED <<kind, ag, up>>,
         Unheard \in Seq(Errand), Unheard # <<>>, Unheard' = Tail(Unheard),
         ad'.last = Handled(Unheard[1], ad.last)
  PROVE  PiInv'
<1> DEFINE W == Unheard
<1>1. /\ Len(W) \in Nat \ {0} /\ Len(W') = Len(W) - 1 /\ DOMAIN W = 1 .. Len(W)
      /\ DOMAIN W' = 1 .. Len(W) - 1
      /\ \A i \in DOMAIN W' : i + 1 \in DOMAIN W /\ W'[i] = W[i + 1]
  BY TailFacts
<1> HIDE DEF W
<1>2. Unheard = W /\ Unheard' = W' /\ UpShifts(0)
  BY UpSteps DEF W
<1>3. ASSUME NEW n \in 1 .. Len(W), NEW c, Leads(W, n, ad.last, c)
      PROVE  Leads(W', n - 1, ad'.last, c)
  <2>1. n - 1 \in Nat /\ (n - 1) + 1 = n /\ \A i \in 1 .. n - 1 : W'[i] = W[i + 1]
    BY <1>1
  <2>2. Leads(W, (n - 1) + 1, ad.last, c)
    BY <1>3, <2>1
  <2>3. Leads(W', n - 1, Handled(W[1], ad.last), c)
    BY <2>1, <2>2, LeadsOn
  <2> QED BY <1>2, <2>3
<1>4. ASSUME kind = "pi" PROVE UnheardFits'
  <2> SUFFICES ASSUME NEW i \in DOMAIN W', W'[i].what = "completed"
               PROVE  \E e \in Ending \cup {"none"} :
                        Leads(W', i - 1, ad'.last, e) /\ SameReading(e)
    BY <1>2 DEF UnheardFits, SameReading
  <2>1. PICK e \in Ending \cup {"none"} :
          Leads(W, (i + 1) - 1, ad.last, e) /\ SameReading(e)
    BY <1>1, <1>2, <1>4 DEF PiInv, Hearing
  <2>0. i \in 1 .. Len(W) - 1 /\ Len(W) \in Nat
    BY <1>1
  <2>2. i \in 1 .. Len(W) /\ (i + 1) - 1 = i
    BY <2>0
  <2>3. Leads(W, i, ad.last, e)
    BY <2>1, <2>2
  <2>4. Leads(W', i - 1, ad'.last, e)
    BY <1>3, <2>2, <2>3
  <2> QED BY <2>1, <2>4
<1>5. \A c \in Ending \cup {"none"} :
        Leads(Unheard, Len(Unheard), ad.last, c) =>
          Leads(Unheard', Len(Unheard'), ad'.last,
                IF 0 = 1 THEN Handled(up[1], c) ELSE c)
  <2>1. Len(W) \in 1 .. Len(W) /\ Len(W') = Len(W) - 1
    BY <1>1
  <2>2. \A c : Leads(W, Len(W), ad.last, c) => Leads(W', Len(W) - 1, ad'.last, c)
    BY <1>3, <2>1
  <2>3. \A c : Leads(Unheard, Len(Unheard), ad.last, c)
                => Leads(Unheard', Len(Unheard'), ad'.last, c)
    BY <1>2, <2>1, <2>2
  <2> QED BY <2>3
<1> QED BY <1>2, <1>4, <1>5, PiShift

-----------------------------------------------------------------------------
(* Steps that add nothing to what the adapter has heard of the turn.         *)

TodoFits ==
  /\ todo' \in Seq(Errand) /\ reading' \in BOOLEAN
  /\ \A i \in DOMAIN todo' : \/ \E j \in DOMAIN todo : todo'[i] = todo[j]
                             \/ \E j \in DOMAIN up : todo'[i] = up[j]
                             \/ todo'[i] = Note("interrupt", "own", "none")
  /\ \A i \in DOMAIN todo' : todo'[i].what \in Notes =>
       ~ reading' /\ \E j \in DOMAIN todo : todo'[i] = todo[j]

LEMMA QuietStep ==
  ASSUME BaseInv, UNCHANGED <<kind, stage, ag>>, SameEar, EndInv',
         ad' \in AdapterStates, be' \in BackendStates,
         ad'.active = ad.active, ad.closed => ad'.closed,
         TodoShifts, TodoFits, Prolongs, UpMoves, down' \in Seq(Requests),
         pending' \subseteq Requests, pending' \cap Line \subseteq pending
  PROVE  BaseInv'
<1>1. up' \in Seq(Message) /\ \E k \in {0, 1} : UpShifts(k)
  BY UpSteps DEF UpMoves, BaseInv
<1>2. TypeInv'
  BY <1>1 DEF TypeInv, BaseInv, TodoFits
<1>3. ChainInv' /\ OpenInv'
  BY ChainFrame DEF BaseInv, TodoFits
<1>4. PromptInv' /\ AgentInv' /\ OldInv'
  BY PromptFrame, AgentFrame, OldFrame DEF BaseInv, SameEar, Prolongs
<1>5. EarlyInv'
  BY EarlyFrame DEF BaseInv, TodoFits
<1>6. Around' \subseteq Around \cup {Note("interrupt", "own", "none")}
  <2>1. \A i \in DOMAIN up' : \E j \in DOMAIN up : up'[i] = up[j]
    BY <1>1 DEF UpShifts
  <2>2. ad'.early = ad.early
    BY DEF SameEar
  <2> QED BY <2>1, <2>2 DEF Around, TodoFits
<1>7. MessageInv'
  BY <1>6, MessageFrame DEF BaseInv
<1> QED BY <1>2, <1>3, <1>4, <1>5, <1>7 DEF BaseInv

\* Notes are not handled while a chunk may have more of them.
LEMMA NoNotes ==
  ASSUME BaseInv, todo = <<>> \/ reading
  PROVE  \A i \in DOMAIN todo : todo[i].what \notin Notes
BY DEF BaseInv, EarlyInv

LEMMA TodoTakes ==
  ASSUME BaseInv, up # <<>>, todo = <<>> \/ reading, reading' \in BOOLEAN
  PROVE  /\ Head(up) \in Message /\ Head(up) = up[1] /\ 1 \in DOMAIN up
         /\ todo' = todo => TodoFits
         /\ todo' = Append(todo, Head(up)) /\ Head(up).what \notin Notes => TodoFits
<1>1. /\ up \in Seq(Message) /\ todo \in Seq(Errand)
      /\ Head(up) \in Message /\ Head(up) = up[1] /\ 1 \in DOMAIN up
  BY TailFacts DEF BaseInv, TypeInv
<1>2. todo' = todo => TodoFits
  BY <1>1, NoNotes DEF TodoFits
<1>3. ASSUME todo' = Append(todo, Head(up)), Head(up).what \notin Notes PROVE TodoFits
  <2>1. Head(up) \in Errand
    BY <1>1 DEF Errand
  <2>2. /\ todo' \in Seq(Errand)
        /\ \A i \in DOMAIN todo : todo'[i] = todo[i]
        /\ todo'[Len(todo) + 1] = Head(up)
        /\ \A i \in DOMAIN todo' : i \in DOMAIN todo \/ i = Len(todo) + 1
    BY <1>1, <1>3, <2>1, AppendFacts
  <2>3. \A i \in DOMAIN todo' : \/ \E j \in DOMAIN todo : todo'[i] = todo[j]
                                \/ \E j \in DOMAIN up : todo'[i] = up[j]
    BY <1>1, <2>2
  <2>4. \A i \in DOMAIN todo' : todo'[i].what \notin Notes
    BY <1>3, <2>2, NoNotes
  <2> QED BY <2>2, <2>3, <2>4 DEF TodoFits
<1> QED BY <1>1, <1>2, <1>3

LEMMA TodoGoesOn ==
  ASSUME BaseInv, reading' = FALSE \/ reading' = reading,
         todo' = todo \/ (todo # <<>> /\ todo' = Tail(todo))
  PROVE  TodoFits /\ TodoShifts
<1>1. todo \in Seq(Errand) /\ reading \in BOOLEAN /\ TypeInv
  BY DEF BaseInv, TypeInv
<1>2. todo' \in Seq(Errand) /\ \A i \in DOMAIN todo' : \E j \in DOMAIN todo : todo'[i] = todo[j]
  BY <1>1, TailFacts
<1>3. ~ reading \/ \A i \in DOMAIN todo : todo[i].what \notin Notes
  BY NoNotes
<1>4. \A i \in DOMAIN todo' : todo'[i].what \in Notes =>
        ~ reading' /\ \E j \in DOMAIN todo : todo'[i] = todo[j]
  BY <1>2, <1>3
<1> QED BY <1>1, <1>2, <1>4, TodoSteps DEF TodoFits

\* The run of last messages when nothing of it is handled.
LEMMA PiQuiet ==
  ASSUME HarnessInv, UNCHANGED <<kind, ag>>, SameEar, Hearing' => Hearing,
         \/ up' = up /\ todo' = todo
         \/ kind # "pi"
         \/ /\ up' = up /\ todo # <<>> /\ todo' = Tail(todo)
            /\ Head(todo).what \notin Notes
         \/ /\ up # <<>> /\ up' = Tail(up) /\ todo' = Append(todo, Head(up))
            /\ Head(up).what \notin Notes
  PROVE  PiInv'
<1> SUFFICES ASSUME kind = "pi", Hearing PROVE PiInv'
  BY DEF PiInv, Hearing
<1>1. TypeInv /\ PiInv /\ todo \in Seq(Errand) /\ up \in Seq(Message)
  BY DEF HarnessInv, BaseInv, TypeInv
<1>2. ad'.last = ad.last /\ ad'.accepted = ad.accepted /\ ad'.early = ad.early
  BY DEF SameEar
<1>3. CASE up' = up /\ (todo' = todo \/ ~ ad.accepted)
  <2>1. Unheard' = Unheard
    BY <1>2, <1>3 DEF Unheard
  <2> QED BY <1>1, <1>2, <1>3, <2>1, UpSteps, PiRest
<1>4. CASE /\ up' = up /\ todo # <<>> /\ todo' = Tail(todo) /\ ad.accepted
           /\ Head(todo).what \notin Notes
  <2>1. Unheard = todo /\ Unheard' = Tail(Unheard)
    BY <1>2, <1>4 DEF Unheard
  <2>2. Head(todo) = todo[1]
    BY <1>1, <1>4, TailFacts
  <2>3. Handled(Unheard[1], ad.last) = ad.last
    BY <1>4, <2>1, <2>2 DEF Handled, Notes
  <2> QED BY <1>1, <1>2, <1>4, <2>1, <2>3, PiGoesOn
<1>5. CASE /\ up # <<>> /\ up' = Tail(up) /\ todo' = Append(todo, Head(up))
           /\ Head(up).what \notin Notes
  <2>1. UpShifts(1) /\ 1 \in DOMAIN up /\ Head(up) = up[1] /\ up[1] \in Errand
    BY <1>1, <1>5, UpSteps, TailFacts DEF Errand
  <2>2. CASE ad.accepted
    <3>1. Unheard = todo /\ Unheard' = Append(Unheard, up[1])
      BY <1>2, <1>5, <2>1, <2>2 DEF Unheard
    <3> QED BY <1>1, <1>2, <2>1, <3>1, PiAdds
  <2>3. CASE ~ ad.accepted
    <3>1. Unheard' = Unheard /\ up[1].what # "last"
      BY <1>2, <1>5, <2>1, <2>3 DEF Unheard, Notes
    <3> QED BY <1>1, <1>2, <2>1, <3>1, PiRest
  <2> QED BY <2>2, <2>3
<1> QED BY <1>3, <1>4, <1>5

-----------------------------------------------------------------------------
(* A notification is handled.                                                *)

LEMMA NoteHeard ==
  ASSUME BaseInv, UNCHANGED <<kind, stage, ag, down>>,
         NEW m \in Message, m.what \in Notes, Fits(m), ~ Deaf => (kind = "pi" => ~ IsOld(m)),
         NEW inChunk \in BOOLEAN, Hears(m, inChunk),
         m \in Around, UpMoves, TodoShifts, TodoFits
  PROVE  BaseInv'
<1>1. TypeInv /\ ad \in AdapterStates
  BY DEF BaseInv, TypeInv
<1>2. /\ Grows /\ pending' \subseteq pending /\ ad'.accepted = ad.accepted
      /\ SameEar \/ (~ Deaf /\ Noted(m))
  BY <1>1, HearsEffect
<1>3. /\ ad' \in AdapterStates /\ be' \in BackendStates /\ ad'.active = ad.active
      /\ ad.closed => ad'.closed
  BY <1>2 DEF Grows
<1>4. EndInv' /\ Prolongs /\ down' \in Seq(Requests) /\ pending' \subseteq Requests
  BY <1>1, <1>2, EndFrame, DownSteps DEF BaseInv, TypeInv
<1>5. CASE SameEar
  BY <1>2, <1>3, <1>4, <1>5, QuietStep
<1>6. CASE ~ Deaf /\ Noted(m)
  <2>1. up' \in Seq(Message) /\ \E k \in {0, 1} : UpShifts(k)
    BY <1>1, UpSteps DEF UpMoves
  <2>2. TypeInv'
    BY <1>1, <1>3, <1>4, <2>1 DEF TypeInv, TodoFits
  <2>3. ChainInv' /\ OpenInv'
    BY <1>1, <1>2, <1>4, ChainFrame DEF BaseInv, TodoFits
  <2>4. PromptInv' /\ AgentInv' /\ OldInv'
    BY <1>1, <1>2, <1>3, <1>4, PromptFrame, AgentFrame, OldFrame DEF BaseInv, Prolongs
  <2>5. ad'.early = ad.early \/ (Early /\ ad'.early = Append(ad.early, m))
    BY <1>6 DEF Noted
  <2>6. /\ \A i \in DOMAIN ad'.early :
             ad'.early[i] = m \/ \E j \in DOMAIN ad.early : ad'.early[i] = ad.early[j]
        /\ ad'.early # ad.early => Early
    <3>1. ad.early \in Seq(Message)
      BY <1>1 DEF AdapterStates
    <3>2. CASE ad'.early = ad.early
      BY <3>2
    <3>3. CASE Early /\ ad'.early = Append(ad.early, m)
      BY <3>1, <3>3, AppendFacts
    <3> QED BY <2>5, <3>2, <3>3
  <2>7. MessageInv'
    <3>1. \A i \in DOMAIN up' : \E j \in DOMAIN up : up'[i] = up[j]
      BY <2>1 DEF UpShifts
    <3>2. Around' \subseteq Around \cup {Note("interrupt", "own", "none")}
      BY <2>6, <3>1 DEF Around, TodoFits
    <3> QED BY <3>2, MessageFrame DEF BaseInv
  <2>8. EarlyInv'
    <3>1. EarlyInv /\ ad.active /\ kind' = kind /\ ag' = ag
      BY <1>6 DEF BaseInv, Deaf
    <3>2. kind' \notin {"codex", "pi"} => ad'.early = <<>>
      BY <2>6, <3>1 DEF EarlyInv, Early
    <3>3. \A i \in DOMAIN todo' : todo'[i].what \in Notes =>
            /\ ~ reading'
            /\ kind' \in {"codex", "pi"}
            /\ kind' = "pi" => ad'.accepted /\ ~ IsOld(todo'[i])
      BY <1>2, <3>1 DEF EarlyInv, TodoFits, IsOld
    <3>4. \A i \in DOMAIN ad'.early : ad'.early[i].what \in Notes
                                        /\ (kind' = "pi" => ~ IsOld(ad'.early[i]))
      BY <1>6, <2>6, <3>1 DEF EarlyInv, IsOld
    <3>5. kind' = "pi" /\ ad'.accepted => ad'.early = <<>>
      BY <1>2, <2>6, <3>1 DEF EarlyInv, Early
    <3>6. ad'.active
      BY <1>3, <3>1
    <3>7. ad'.turn # "none" => ag'.turn # "none"
      BY <1>6, <3>1 DEF EarlyInv, Noted, Fits
    <3> QED BY <3>2, <3>3, <3>4, <3>5, <3>6, <3>7 DEF EarlyInv, IsOld
  <2> QED BY <1>4, <2>2, <2>3, <2>4, <2>7, <2>8 DEF BaseInv
<1> QED BY <1>2, <1>5, <1>6

\* pi knows of no old turn once its session is open.
LEMMA NoOldTurn ==
  ASSUME BaseInv, ~ ad.closed, kind \in {"kimi", "pi"}, stage # "open"
  PROVE  \A i \in DOMAIN up : ~ IsOld(up[i])
<1>1. down # <<>> /\ Head(down) = "open" => Has(down, {"open"})
  BY TailFacts DEF BaseInv, TypeInv, Has
<1> QED BY <1>1 DEF BaseInv, OldInv, OpenInv, Brings

LEMMA ActiveStage ==
  ASSUME BaseInv, ad.active
  PROVE  stage \in {"prompt", "running", "failed"}
BY DEF BaseInv, TypeInv, PromptInv, Line

LEMMA ReceivesNote ==
  ASSUME HarnessInv, ~ ad.closed, up # <<>>, todo = <<>> \/ reading,
         up' = Tail(up), reading' = TRUE, Head(up).what \notin {"reply", "ask"},
         Hears(Head(up), TRUE), UNCHANGED <<todo, grant, kind, stage, down, ag>>
  PROVE  HarnessInv'
<1> DEFINE m == Head(up)
<1>1. BaseInv /\ TypeInv /\ PiInv /\ TodoFits /\ TodoShifts /\ UpMoves /\ UpShifts(1)
      /\ up \in Seq(Message) /\ ad \in AdapterStates
  BY TodoTakes, TodoSteps, UpSteps DEF HarnessInv, BaseInv, TypeInv, UpMoves
<1>2. m \in Message /\ m.what \in Notes /\ m = up[1] /\ 1 \in DOMAIN up /\ m \in Around
  <2>1. m \in Message /\ m = up[1] /\ 1 \in DOMAIN up
    BY <1>1, TailFacts
  <2> QED BY <2>1 DEF Message, Notes, Around
<1>3. Fits(m)
  BY <1>1, <1>2 DEF BaseInv, MessageInv
<1>4. ~ Deaf => (kind = "pi" => ~ IsOld(m))
  BY <1>1, <1>2, ActiveStage, NoOldTurn DEF Deaf
<1> HIDE DEF m
<1>5. Hears(m, TRUE)
  BY DEF m
<1>6. BaseInv'
  BY <1>1, <1>2, <1>3, <1>4, <1>5, NoteHeard
<1>7. PiInv'
  <2> SUFFICES ASSUME kind = "pi", Hearing' PROVE PiInv'
    BY DEF PiInv, Hearing
  <2>1. ~ Deaf /\ Noted(m) /\ ad'.accepted = ad.accepted /\ Hearing
    BY <1>1, <1>2, <1>5, HearsEffect DEF Hearing
  <2>2. CASE Early
    <3>1. /\ ~ ad.accepted /\ ad'.early = Append(ad.early, m) /\ ad'.last = ad.last
      BY <2>1, <2>2 DEF Early, Noted
    <3>2. ad.early \in Seq(Message) /\ ad.early \in Seq(Errand) /\ m \in Errand
      BY <1>1, <1>2 DEF AdapterStates, Errand
    <3>3. Unheard \in Seq(Errand) /\ Unheard' = Append(Unheard, up[1]) /\ up[1] \in Errand
      BY <1>2, <2>1, <3>1, <3>2 DEF Unheard
    <3> QED BY <1>1, <1>2, <2>1, <3>1, <3>3, PiAdds
  <2>3. CASE ~ Early
    <3>1. /\ ad.accepted /\ Unheard = todo /\ Unheard' = todo
          /\ ad'.last = Handled(up[1], ad.last)
      BY <1>2, <2>1, <2>3 DEF Early, Noted, Unheard
    <3>2. Len(todo) \in Nat /\ \A i \in 1 .. Len(todo) : todo[i].what # "last"
                                        /\ todo[i].what # "completed"
      BY <1>1, NoNotes DEF TypeInv, Notes
    <3>3. UnheardFits'
      BY <1>1, <3>1, <3>2 DEF UnheardFits, TypeInv
    <3>4. \A c \in Ending \cup {"none"} :
            Leads(Unheard, Len(Unheard), ad.last, c) =>
              Leads(Unheard', Len(Unheard'), ad'.last,
                    IF 1 = 1 THEN Handled(up[1], c) ELSE c)
      BY <3>1, <3>2, LeadsNowhere
    <3> QED BY <1>1, <2>1, <3>3, <3>4, PiShift
  <2> QED BY <2>2, <2>3
<1> QED BY <1>6, <1>7 DEF HarnessInv

LEMMA ContinuesNote ==
  ASSUME HarnessInv, todo # <<>>, todo' = Tail(todo), reading' = FALSE,
         Head(todo).what \in Notes, Hears(Head(todo), FALSE),
         UNCHANGED <<kind, stage, grant, down, up, ag>>
  PROVE  HarnessInv'
<1> DEFINE m == Head(todo)
<1>1. BaseInv /\ TypeInv /\ PiInv /\ TodoFits /\ TodoShifts /\ UpMoves /\ UpShifts(0)
      /\ todo \in Seq(Errand) /\ ad \in AdapterStates
  BY TodoGoesOn, UpSteps DEF HarnessInv, BaseInv, TypeInv, UpMoves
<1>2. m \in Message /\ m.what \in Notes /\ m = todo[1] /\ 1 \in DOMAIN todo /\ m \in Around
  <2>1. m \in Errand /\ m = todo[1] /\ 1 \in DOMAIN todo
    BY <1>1, TailFacts
  <2>2. m \in Message
    BY <2>1 DEF Errand, Notes, Note, Reply
  <2> QED BY <2>1, <2>2 DEF Around
<1>3. Fits(m) /\ (kind = "pi" => ad.accepted /\ ~ IsOld(m))
  BY <1>1, <1>2 DEF BaseInv, MessageInv, EarlyInv
<1> HIDE DEF m
<1>4. Hears(m, FALSE)
  BY DEF m
<1>5. BaseInv'
  BY <1>1, <1>2, <1>3, <1>4, NoteHeard
<1>6. PiInv'
  <2> SUFFICES ASSUME kind = "pi", Hearing' PROVE PiInv'
    BY DEF PiInv, Hearing
  <2>1. ~ Deaf /\ Noted(m) /\ ad'.accepted = ad.accepted /\ Hearing
    BY <1>1, <1>2, <1>4, HearsEffect DEF Hearing, Grows
  <2>2. ad.accepted /\ ~ Early
    BY <1>3, <2>1 DEF Early
  <2>3. Unheard = todo /\ Unheard' = Tail(Unheard) /\ ad'.last = Handled(Unheard[1], ad.last)
    BY <1>2, <2>1, <2>2 DEF Unheard, Noted
  <2> QED BY <1>1, <2>1, <2>3, PiGoesOn
<1> QED BY <1>5, <1>6 DEF HarnessInv

-----------------------------------------------------------------------------
(* The ready chain.                                                          *)

LEMMA LineStep ==
  ASSUME BaseInv, UNCHANGED <<kind, ag>>, SameEar, EndInv',
         ad' \in AdapterStates, be' \in BackendStates,
         ad'.active = ad.active, ad.closed => ad'.closed,
         stage' \in Line \cup {"saving", "running", "failed"},
         TodoFits, UpMoves, down' \in Seq(Requests), pending' \subseteq Requests,
         down # <<>> => down' # <<>> /\ Head(down') = Head(down),
         ChainInv', OpenInv', PromptInv'
  PROVE  BaseInv'
<1>1. up' \in Seq(Message) /\ \E k \in {0, 1} : UpShifts(k)
  BY UpSteps DEF UpMoves, BaseInv
<1>2. TypeInv'
  BY <1>1 DEF TypeInv, BaseInv, TodoFits
<1>3. AgentInv' /\ OldInv'
  BY AgentFrame, OldFrame DEF BaseInv
<1>4. EarlyInv'
  BY EarlyFrame DEF BaseInv, TodoFits
<1>5. Around' \subseteq Around \cup {Note("interrupt", "own", "none")}
  <2>1. \A i \in DOMAIN up' : \E j \in DOMAIN up : up'[i] = up[j]
    BY <1>1 DEF UpShifts
  <2>2. ad'.early = ad.early
    BY DEF SameEar
  <2> QED BY <2>1, <2>2 DEF Around, TodoFits
<1>6. MessageInv'
  BY <1>5, MessageFrame DEF BaseInv
<1> QED BY <1>2, <1>3, <1>4, <1>6 DEF BaseInv

\* Nothing has changed for the adapter.
LEMMA EarUnchanged ==
  ASSUME BaseInv, UNCHANGED <<kind, be, ad>>
  PROVE  /\ SameEar /\ EndInv' /\ ad' \in AdapterStates /\ be' \in BackendStates
         /\ ad'.active = ad.active /\ (ad.closed => ad'.closed) /\ (Hearing' => Hearing)
BY DEF BaseInv, SameEar, EndInv, TypeInv, Hearing, Deaf

\* The adapter and the backend have only grown.
LEMMA EarGrows ==
  ASSUME BaseInv, kind' = kind, Grows
  PROVE  /\ EndInv' /\ ad' \in AdapterStates /\ be' \in BackendStates
         /\ ad'.active = ad.active /\ (ad.closed => ad'.closed) /\ (Hearing' => Hearing)
<1>1. EndInv'
  BY EndFrame DEF BaseInv
<1> QED BY <1>1 DEF Grows, Hearing, Deaf

\* The reply to the request under way is received: nothing else of the chain is
\* under way.
LEMMA ChainReceives ==
  ASSUME BaseInv, up # <<>>, up' = Tail(up), IsReply(Head(up), Line),
         Head(up).of \in pending, pending' = pending \ {Head(up).of},
         todo' = Append(todo, Head(up)), UNCHANGED <<stage, down>>
  PROVE  ChainInv' /\ OpenInv'
<1> DEFINE m == Head(up)
<1>1. TypeInv /\ ChainInv /\ OpenInv /\ UpShifts(1) /\ todo \in Seq(Errand)
  BY UpSteps DEF BaseInv, TypeInv
<1>2. m \in Message /\ m = up[1] /\ 1 \in DOMAIN up /\ m \in Errand
  BY <1>1, TailFacts DEF TypeInv, Errand
<1>3. /\ Len(todo) \in Nat /\ DOMAIN todo = 1 .. Len(todo)
      /\ DOMAIN todo' = 1 .. Len(todo) + 1
      /\ \A i \in DOMAIN todo : todo'[i] = todo[i]
      /\ todo'[Len(todo) + 1] = m
      /\ \A i \in DOMAIN todo' : i \in DOMAIN todo \/ i = Len(todo) + 1
  BY <1>1, <1>2, AppendFacts
<1>4. m.of = stage /\ IsReply(m, Line) /\ pending' \cap Line = {}
  BY <1>1 DEF ChainInv, IsReply
<1>5. \A i \in DOMAIN todo : ~ IsReply(todo[i], Line)
  BY <1>1, <1>4 DEF ChainInv
<1> HIDE DEF m
<1>6. ChainInv'
  <2>1. \A i \in DOMAIN todo' : IsReply(todo'[i], Line) => i = Len(todo) + 1
    BY <1>3, <1>5
  <2>2. \A i \in DOMAIN todo' : IsReply(todo'[i], Line)
          => todo'[i].of = stage' /\ todo'[i].of \notin pending'
    BY <1>3, <1>4, <2>1 DEF IsReply
  <2> QED BY <1>4, <2>1, <2>2 DEF ChainInv
<1>7. \A q \in Seq(Errand) : Brings(q, {"open"}) =>
        \E i \in DOMAIN q : IsReply(q[i], {"open"}) /\ IsReply(q[i], Line)
  BY DEF Brings, IsReply, Line, Chain
<1>8. ~ Brings(todo, {"open"})
  BY <1>1, <1>5, <1>7
<1>9. CASE m.of = "open"
  <2>1. IsReply(up[1], {"open"}) /\ Brings(up, {"open"}) /\ stage = "open"
    BY <1>2, <1>4, <1>9 DEF IsReply, Brings
  <2>2. ~ Has(down, {"open"})
    BY <1>1, <2>1 DEF OpenInv
  <2>3. ~ Brings(up', {"open"})
    <3> SUFFICES ASSUME NEW i \in DOMAIN up', IsReply(up'[i], {"open"}) PROVE FALSE
      BY DEF Brings
    <3>1. i + 1 \in DOMAIN up /\ IsReply(up[i + 1], {"open"}) /\ i \in Nat \ {0}
      BY <1>1 DEF UpShifts
    <3>2. i + 1 = 1
      BY <1>1, <1>2, <2>1, <3>1 DEF OpenInv
    <3> QED BY <3>1, <3>2
  <2>4. \A i \in DOMAIN up' : ~ IsReply(up'[i], {"open"})
    BY <2>3 DEF Brings
  <2> QED BY <1>1, <1>6, <2>1, <2>2, <2>3, <2>4 DEF OpenInv, Has, Brings
<1>10. CASE m.of # "open"
  <2>1. Brings(up, {"open"})' => Brings(up, {"open"})
    BY <1>1 DEF Brings, UpShifts
  <2>2. ~ Brings(todo, {"open"})'
    BY <1>3, <1>8, <1>10 DEF Brings, IsReply
  <2>3. \A i, j \in DOMAIN up' :
          IsReply(up'[i], {"open"}) /\ IsReply(up'[j], {"open"}) => i = j
    <3> SUFFICES ASSUME NEW i \in DOMAIN up', NEW j \in DOMAIN up',
                        IsReply(up'[i], {"open"}), IsReply(up'[j], {"open"})
                 PROVE  i = j
      OBVIOUS
    <3> QED BY <1>1 DEF OpenInv, UpShifts
  <2> QED BY <1>1, <1>6, <2>1, <2>2, <2>3 DEF OpenInv, Has
<1> QED BY <1>9, <1>10

LEMMA ReceivesReply ==
  ASSUME HarnessInv, ~ ad.closed, up # <<>>, todo = <<>> \/ reading,
         up' = Tail(up), reading' = TRUE,
         Head(up).what = "reply", Head(up).of \in pending,
         pending' = pending \ {Head(up).of}, todo' = Append(todo, Head(up)),
         UNCHANGED <<be, ad, grant, kind, stage, down, ag>>
  PROVE  HarnessInv'
<1>1. BaseInv /\ TypeInv /\ TodoFits /\ UpMoves /\ Head(up) \in Errand
  BY TodoTakes DEF HarnessInv, BaseInv, UpMoves, Notes, Errand
<1>2. /\ SameEar /\ EndInv' /\ ad' \in AdapterStates /\ be' \in BackendStates
      /\ ad'.active = ad.active /\ (ad.closed => ad'.closed) /\ (Hearing' => Hearing)
  BY <1>1, EarUnchanged
<1>3. Prolongs /\ down' \in Seq(Requests) /\ pending' \subseteq Requests
  BY <1>1, DownSteps DEF TypeInv
<1>4. PiInv'
  BY <1>2, PiQuiet DEF Notes
<1>5. CASE Head(up).of \in Line
  <2>1. ChainInv' /\ OpenInv'
    BY <1>1, <1>5, ChainReceives DEF IsReply
  <2>2. PromptInv'
    BY <1>1, <1>2, <1>3, PromptFrame DEF BaseInv
  <2>3. stage' \in Line \cup {"saving", "running", "failed"}
    BY <1>1 DEF TypeInv
  <2>4. BaseInv'
    BY <1>1, <1>2, <1>3, <2>1, <2>2, <2>3, LineStep DEF Prolongs
  <2> QED BY <1>4, <2>4 DEF HarnessInv
<1>6. CASE Head(up).of \notin Line
  <2>1. TodoShifts
    BY <1>1, <1>6, TodoSteps DEF IsReply
  <2>2. BaseInv'
    BY <1>1, <1>2, <1>3, <2>1, QuietStep
  <2> QED BY <1>4, <2>2 DEF HarnessInv
<1> QED BY <1>5, <1>6

LEMMA ReceivesAsk ==
  ASSUME HarnessInv, ~ ad.closed, up # <<>>, todo = <<>> \/ reading,
         up' = Tail(up), reading' = TRUE, Head(up).what = "ask",
         todo' = Append(todo, Head(up)) \/ (todo' = todo /\ kind = "zcode"),
         UNCHANGED <<be, ad, pending, kind, stage, down, ag>>
  PROVE  HarnessInv'
<1>1. BaseInv /\ TypeInv /\ TodoFits /\ UpMoves /\ Head(up) \in Errand
  BY TodoTakes DEF HarnessInv, BaseInv, UpMoves, Notes, Errand
<1>2. /\ SameEar /\ EndInv' /\ ad' \in AdapterStates /\ be' \in BackendStates
      /\ ad'.active = ad.active /\ (ad.closed => ad'.closed) /\ (Hearing' => Hearing)
  BY <1>1, EarUnchanged
<1>3. /\ Prolongs /\ down' \in Seq(Requests) /\ pending' \subseteq Requests
      /\ pending' \cap Line \subseteq pending
  BY <1>1, DownSteps DEF TypeInv
<1>4. TodoShifts
  BY <1>1, TodoSteps DEF IsReply
<1>5. BaseInv'
  BY <1>1, <1>2, <1>3, <1>4, QuietStep
<1>6. PiInv'
  BY <1>2, PiQuiet DEF Notes
<1> QED BY <1>5, <1>6 DEF HarnessInv

LEMMA ReceivesStep ==
  ASSUME HarnessInv, Receives
  PROVE  HarnessInv'
<1>1. /\ ~ ad.closed /\ up # <<>> /\ (todo = <<>> \/ reading)
      /\ up' = Tail(up) /\ reading' = TRUE /\ UNCHANGED <<kind, stage, down, ag>>
  BY DEF Receives
<1>2. CASE /\ Head(up).what = "reply" /\ Head(up).of \in pending
           /\ pending' = pending \ {Head(up).of}
           /\ todo' = Append(todo, Head(up))
           /\ UNCHANGED <<be, ad, grant>>
  BY <1>1, <1>2, ReceivesReply
<1>3. CASE /\ Head(up).what = "ask"
           /\ todo' = Append(todo, Head(up)) \/ (todo' = todo /\ kind = "zcode")
           /\ UNCHANGED <<be, ad, pending>>
  BY <1>1, <1>3, ReceivesAsk
<1>4. CASE /\ Head(up).what \notin {"reply", "ask"}
           /\ Hears(Head(up), TRUE)
           /\ UNCHANGED <<todo, grant>>
  BY <1>1, <1>4, ReceivesNote
<1> QED BY <1>2, <1>3, <1>4 DEF Receives

\* A reply of the chain goes on: nothing else of the chain is anywhere.
LEMMA ChainGoesOn ==
  ASSUME BaseInv, todo # <<>>, IsReply(Head(todo), Line)
  PROVE  /\ Head(todo) \in Message /\ Head(todo) \in Around
         /\ stage = Head(todo).of /\ stage \in Line /\ pending \cap Line = {}
         /\ \A i \in DOMAIN Tail(todo) : ~ IsReply(Tail(todo)[i], Line)
         /\ ~ Has(down, {"open"}) /\ ~ Brings(up, {"open"})
<1>1. TypeInv /\ ChainInv /\ OpenInv /\ todo \in Seq(Errand)
  BY DEF BaseInv, TypeInv
<1>2. /\ Head(todo) \in Errand /\ Head(todo) = todo[1] /\ 1 \in DOMAIN todo
      /\ DOMAIN Tail(todo) = 1 .. Len(todo) - 1 /\ Len(todo) \in Nat
      /\ \A i \in DOMAIN Tail(todo) : i + 1 \in DOMAIN todo /\ Tail(todo)[i] = todo[i + 1]
  BY <1>1, TailFacts
<1>3. Head(todo) \in Message /\ Head(todo) \in Around
  BY <1>2 DEF Errand, IsReply, Note, Reply, Around
<1>4. /\ stage = Head(todo).of /\ stage \in Line /\ pending \cap Line = {}
  BY <1>1, <1>2 DEF ChainInv, IsReply
<1>5. ASSUME NEW i \in DOMAIN Tail(todo), IsReply(Tail(todo)[i], Line) PROVE FALSE
  <2>1. i + 1 \in DOMAIN todo /\ IsReply(todo[i + 1], Line) /\ i \in Nat \ {0}
    BY <1>2, <1>5
  <2>2. i + 1 = 1
    BY <1>1, <1>2, <2>1 DEF ChainInv
  <2> QED BY <2>1, <2>2
<1>6. stage = "open" => Brings(todo, {"open"})
  BY <1>2, <1>4 DEF Brings, IsReply
<1>7. ~ Has(down, {"open"}) /\ ~ Brings(up, {"open"})
  BY <1>1, <1>6 DEF OpenInv
<1> QED BY <1>3, <1>4, <1>5, <1>7

\* The next request of the chain is sent, if there is one.
LEMMA ChainSends ==
  ASSUME BaseInv, ~ Has(down, {"open"}), ~ Brings(up, {"open"}), up' = up,
         \A i \in DOMAIN todo' : ~ IsReply(todo'[i], Line),
         pending' \cap Line \subseteq {stage'},
         down' = down \/ (stage' \in Line /\ down' = Append(down, stage'))
  PROVE  ChainInv' /\ OpenInv'
<1>1. ChainInv'
  BY DEF ChainInv
<1>2. \A i \in DOMAIN todo' : ~ IsReply(todo'[i], {"open"})
  BY DEF IsReply, Line, Chain
<1>3. \A i \in DOMAIN up' : ~ IsReply(up'[i], {"open"})
  BY DEF Brings
<1>4. ~ Brings(up, {"open"})' /\ ~ Brings(todo, {"open"})'
  BY <1>2, <1>3 DEF Brings
<1>5. CASE down' = down
  <2>1. ~ Has(down, {"open"})'
    BY <1>5 DEF Has
  <2> QED BY <1>1, <1>3, <1>4, <2>1 DEF OpenInv, Has
<1>6. CASE stage' \in Line /\ down' = Append(down, stage')
  <2>1. down \in Seq(Requests)
    BY DEF BaseInv, TypeInv
  <2>2. /\ \A i \in DOMAIN down : down'[i] = down[i] /\ down[i] # "open"
        /\ \A i \in DOMAIN down' : i \in DOMAIN down \/ i = Len(down) + 1
        /\ down'[Len(down) + 1] = stage'
    BY <1>6, <2>1, AppendFacts DEF Has, Requests
  <2>3. \A i \in DOMAIN down' : down'[i] = "open" => i = Len(down) + 1
    BY <2>2
  <2>4. Has(down, {"open"})' => stage' = "open"
    BY <2>2, <2>3 DEF Has
  <2> QED BY <1>1, <1>3, <1>4, <2>3, <2>4 DEF OpenInv
<1> QED BY <1>5, <1>6

LEMMA ContinuesPreparing ==
  ASSUME HarnessInv, todo # <<>>, todo' = Tail(todo), reading' = FALSE,
         Head(todo).what = "reply",
         Head(todo).of \in {Preparation[j] : j \in DOMAIN Preparation},
         Prepares(Head(todo)), UNCHANGED <<grant, kind, up, ag>>
  PROVE  HarnessInv'
<1> DEFINE m == Head(todo)
           i == CHOOSE j \in DOMAIN Preparation : Preparation[j] = m.of
<1>1. BaseInv /\ TypeInv /\ TodoFits /\ UpMoves
  BY TodoGoesOn DEF HarnessInv, BaseInv, UpMoves
<1>2. /\ i \in DOMAIN Preparation /\ m.of \in Chain /\ IsReply(m, Line)
      /\ DOMAIN Preparation = 1 .. Len(Preparation) /\ Len(Preparation) \in Nat
      /\ \A j \in DOMAIN Preparation : Preparation[j] \in Chain
  BY <1>1, ChainOrder DEF TypeInv, IsReply, Line
<1>3. /\ m \in Message /\ stage = m.of /\ pending \cap Line = {}
      /\ \A j \in DOMAIN todo' : ~ IsReply(todo'[j], Line)
      /\ ~ Has(down, {"open"}) /\ ~ Brings(up, {"open"})
  BY <1>1, <1>2, ChainGoesOn
<1>4. ag.turn = "none" /\ ~ Has(down, {"prompt"}) /\ ~ ad.active /\ ~ ad.accepted
  BY <1>1, <1>2, <1>3 DEF BaseInv, PromptInv, Chain
<1>5. Prepares(m)
  OBVIOUS
<1>6. /\ SameEar /\ EndInv' /\ ad' \in AdapterStates /\ be' \in BackendStates
      /\ ad'.active = ad.active /\ (ad.closed => ad'.closed) /\ (Hearing' => Hearing)
  <2>1. CASE StartFails(m)
    <3>1. Grows /\ SameEar
      BY <1>1, <1>3, <2>1, StartFailsEffect
    <3> QED BY <1>1, <3>1, EarGrows
  <2>2. CASE UNCHANGED <<be, ad>>
    BY <1>1, <2>2, EarUnchanged
  <2> QED BY <1>5, <2>1, <2>2 DEF Prepares
<1>7. PiInv'
  BY <1>6, PiQuiet DEF Notes
<1>8. \/ /\ stage' \in {"failed", "saving"} /\ down' = down /\ pending' \subseteq pending
      \/ /\ stage' \in Chain /\ Sends(stage')
  <2>1. CASE StartFails(m) /\ UNCHANGED down
    BY <1>1, <1>3, <2>1, StartFailsEffect
  <2>2. CASE /\ i < Len(Preparation) /\ stage' = Preparation[i + 1]
             /\ Sends(Preparation[i + 1])
    <3>1. i + 1 \in DOMAIN Preparation
      BY <1>2, <2>2
    <3> QED BY <1>2, <2>2, <3>1
  <2>3. CASE stage' = "saving" /\ UNCHANGED <<be, ad, pending, down>>
    BY <2>3
  <2> QED BY <1>5, <2>1, <2>2, <2>3 DEF Prepares
<1> HIDE DEF m, i
<1>9. /\ down' = down \/ (stage' \in Line /\ down' = Append(down, stage'))
      /\ down' \in Seq(Requests) /\ pending' \subseteq Requests
      /\ pending' \cap Line \subseteq {stage'}
      /\ stage' \in Chain \cup {"saving", "failed"}
  <2>1. stage' \in Chain => stage' \in Requests /\ stage' \in Line
    BY DEF Requests, Line
  <2> QED BY <1>1, <1>3, <1>8, <2>1, SendsEffect DEF TypeInv
<1>10. ChainInv' /\ OpenInv'
  BY <1>1, <1>3, <1>9, ChainSends
<1>11. /\ down # <<>> => down' # <<>> /\ Head(down') = Head(down)
       /\ ~ Has(down', {"prompt"})
  <2>1. CASE down' = down
    BY <1>4, <2>1
  <2>2. CASE stage' \in Line /\ down' = Append(down, stage')
    <3>1. stage' \in Requests /\ stage' # "prompt"
      BY <1>9, <2>2 DEF Requests, Line, Chain
    <3> QED BY <1>1, <1>4, <2>2, <3>1, DownSteps DEF Has
  <2> QED BY <1>9, <2>1, <2>2
<1>12. PromptInv'
  <2>1. ag'.turn = "none" /\ ~ ad'.active /\ ~ ad'.accepted
    BY <1>4, <1>6 DEF SameEar
  <2> QED BY <1>11, <2>1 DEF PromptInv, Has
<1>13. BaseInv'
  <2>1. stage' \in Line \cup {"saving", "running", "failed"}
    BY <1>9 DEF Line
  <2> QED BY <1>1, <1>6, <1>9, <1>10, <1>11, <1>12, <2>1, LineStep
<1> QED BY <1>7, <1>13 DEF HarnessInv

-----------------------------------------------------------------------------
(* The reply to the prompt goes on.                                          *)

\* codex and pi: the early notifications go on before the other tasks.
Resumed ==
  ad.early \o (IF kind = "codex" THEN <<Note("interrupt", "own", "none")>> ELSE <<>>)
           \o Tail(todo)

LEMMA ResumedFacts ==
  ASSUME TypeInv, todo # <<>>
  PROVE  /\ Resumed \in Seq(Errand)
         /\ \A i \in DOMAIN Resumed :
              \/ \E j \in DOMAIN ad.early : Resumed[i] = ad.early[j]
              \/ \E j \in DOMAIN Tail(todo) : Resumed[i] = Tail(todo)[j]
              \/ Resumed[i] = Note("interrupt", "own", "none")
         /\ ad.early \in Seq(Errand) /\ Tail(todo) \in Seq(Errand)
         /\ \A j \in DOMAIN Tail(todo) : \E k \in DOMAIN todo : Tail(todo)[j] = todo[k]
         /\ kind # "codex" => Resumed = ad.early \o Tail(todo)
<1> DEFINE mid == IF kind = "codex" THEN <<Note("interrupt", "own", "none")>> ELSE <<>>
<1>1. /\ ad.early \in Seq(Errand) /\ Tail(todo) \in Seq(Errand)
      /\ \A j \in DOMAIN Tail(todo) : \E k \in DOMAIN todo : Tail(todo)[j] = todo[k]
  <2>1. ad.early \in Seq(Message) /\ todo \in Seq(Errand)
    BY DEF TypeInv, AdapterStates
  <2> QED BY <2>1, TailFacts DEF Errand
<1>2. /\ mid \in Seq(Errand)
      /\ \A i \in DOMAIN mid : mid[i] = Note("interrupt", "own", "none")
      /\ kind # "codex" => mid = <<>>
  <2>1. Note("interrupt", "own", "none") \in Errand
    BY DEF Errand
  <2> QED BY <2>1
<1> HIDE DEF mid
<1>3. /\ ad.early \o mid \in Seq(Errand)
      /\ \A i \in DOMAIN (ad.early \o mid) :
           \/ i \in DOMAIN ad.early /\ (ad.early \o mid)[i] = ad.early[i]
           \/ i - Len(ad.early) \in DOMAIN mid
                /\ (ad.early \o mid)[i] = mid[i - Len(ad.early)]
  BY <1>1, <1>2, ConcatFacts
<1>4. Resumed = (ad.early \o mid) \o Tail(todo)
  BY DEF Resumed, mid
<1>5. /\ Resumed \in Seq(Errand)
      /\ \A i \in DOMAIN Resumed :
           \/ i \in DOMAIN (ad.early \o mid) /\ Resumed[i] = (ad.early \o mid)[i]
           \/ i - Len(ad.early \o mid) \in DOMAIN Tail(todo)
                /\ Resumed[i] = Tail(todo)[i - Len(ad.early \o mid)]
  <2> DEFINE p == ad.early \o mid
  <2>1. p \in Seq(Errand)
    BY <1>3
  <2> HIDE DEF p
  <2>2. \A t \in Seq(Errand) :
          /\ p \o t \in Seq(Errand)
          /\ \A i \in DOMAIN (p \o t) :
               \/ i \in DOMAIN p /\ (p \o t)[i] = p[i]
               \/ i - Len(p) \in DOMAIN t /\ (p \o t)[i] = t[i - Len(p)]
    BY <2>1, ConcatFacts
  <2>3. Resumed = p \o Tail(todo)
    BY <1>4 DEF p
  <2>4. /\ Resumed \in Seq(Errand)
        /\ \A i \in DOMAIN Resumed :
             \/ i \in DOMAIN p /\ Resumed[i] = p[i]
             \/ i - Len(p) \in DOMAIN Tail(todo) /\ Resumed[i] = Tail(todo)[i - Len(p)]
    BY <1>1, <2>2, <2>3
  <2> QED BY <2>4 DEF p
<1>6. \A i \in DOMAIN Resumed :
        \/ \E j \in DOMAIN ad.early : Resumed[i] = ad.early[j]
        \/ \E j \in DOMAIN Tail(todo) : Resumed[i] = Tail(todo)[j]
        \/ Resumed[i] = Note("interrupt", "own", "none")
  BY <1>2, <1>3, <1>5
<1>7. kind # "codex" => Resumed = ad.early \o Tail(todo)
  BY <1>1, <1>2, <1>4, ConcatEmptySeq
<1> QED BY <1>1, <1>5, <1>6, <1>7

Acknowledged(m) ==
  /\ ad' = [ad EXCEPT !.turn = m.turn, !.accepted = TRUE, !.early = <<>>]
  /\ Accepts /\ stage' = "running" /\ todo' = Resumed /\ UNCHANGED pending

\* What was handled early leads to the same last message.
LEMMA PiResumes ==
  ASSUME HarnessInv, todo # <<>>, stage = "prompt", ad' \in AdapterStates,
         ad'.accepted = TRUE, ad'.last = ad.last, Hearing' => Hearing,
         todo' = Resumed, UNCHANGED <<kind, up, ag>>
  PROVE  PiInv'
<1> SUFFICES ASSUME kind = "pi", Hearing' PROVE PiInv'
  BY DEF PiInv, Hearing
<1> DEFINE e1 == ad.early
           rest == Tail(todo)
<1>1. TypeInv /\ PiInv /\ EarlyInv /\ PromptInv /\ Hearing /\ UpShifts(0)
  BY UpSteps DEF HarnessInv, BaseInv
<1>2. /\ e1 \in Seq(Errand) /\ rest \in Seq(Errand) /\ todo' = e1 \o rest
      /\ ~ ad.accepted
      /\ \A j \in DOMAIN rest : rest[j].what \notin Notes
  BY <1>1, ResumedFacts DEF EarlyInv, PromptInv
<1>3. Unheard = e1 /\ Unheard' = todo'
  BY <1>2 DEF Unheard
<1> HIDE DEF e1, rest
<1>4. /\ Len(e1) \in Nat /\ Len(rest) \in Nat /\ Len(todo') = Len(e1) + Len(rest)
      /\ DOMAIN todo' = 1 .. Len(e1) + Len(rest) /\ DOMAIN e1 = 1 .. Len(e1)
      /\ \A i \in DOMAIN e1 : todo'[i] = e1[i]
      /\ \A i \in DOMAIN todo' :
           i \in DOMAIN e1 \/ (i - Len(e1) \in DOMAIN rest /\ todo'[i] = rest[i - Len(e1)])
  BY <1>2, ConcatFacts
<1>5. \A i \in DOMAIN todo' : i \in DOMAIN e1 \/ todo'[i].what \notin Notes
  BY <1>2, <1>4
<1>6. ASSUME NEW n \in 0 .. Len(e1), NEW c, Leads(e1, n, ad.last, c)
      PROVE  Leads(todo', n, ad'.last, c)
  <2>1. \A i \in 1 .. n : e1[i] = todo'[i]
    BY <1>4
  <2> QED BY <1>4, <1>6, <2>1, LeadsSame, SMTT(30)
<1>7. ASSUME NEW c, Leads(e1, Len(e1), ad.last, c)
      PROVE  Leads(todo', Len(todo'), ad'.last, c)
  <2>1. Leads(todo', Len(e1), ad'.last, c)
    BY <1>4, <1>6, <1>7
  <2>2. /\ Len(e1) \in 0 .. Len(todo') /\ Len(todo') \in Nat
        /\ \A i \in Len(e1) + 1 .. Len(todo') : i \in DOMAIN todo' /\ i \notin DOMAIN e1
    BY <1>4
  <2>3. \A i \in Len(e1) + 1 .. Len(todo') : todo'[i].what # "last"
    BY <1>5, <2>2 DEF Notes
  <2> QED BY <2>1, <2>2, <2>3, LeadsStay
<1>8. UnheardFits'
  <2> SUFFICES ASSUME NEW i \in DOMAIN todo', todo'[i].what = "completed"
               PROVE  \E e \in Ending \cup {"none"} :
                        Leads(todo', i - 1, ad'.last, e) /\ SameReading(e)
    BY <1>3 DEF UnheardFits, SameReading
  <2>1. i \in DOMAIN e1 /\ e1[i].what = "completed"
    BY <1>4, <1>5 DEF Notes
  <2>2. PICK e \in Ending \cup {"none"} : Leads(e1, i - 1, ad.last, e) /\ SameReading(e)
    BY <1>1, <1>3, <2>1 DEF PiInv, Hearing
  <2>3. i - 1 \in 0 .. Len(e1)
    BY <1>4, <2>1
  <2> QED BY <1>6, <2>2, <2>3
<1>9. \A c \in Ending \cup {"none"} :
        Leads(Unheard, Len(Unheard), ad.last, c) =>
          Leads(Unheard', Len(Unheard'), ad'.last,
                IF 0 = 1 THEN Handled(up[1], c) ELSE c)
  <2>1. \A c : Leads(Unheard, Len(Unheard), ad.last, c)
                => Leads(Unheard', Len(Unheard'), ad'.last, c)
    BY <1>3, <1>7
  <2> QED BY <2>1
<1> QED BY <1>1, <1>8, <1>9, PiShift

LEMMA ContinuesAcknowledged ==
  ASSUME HarnessInv, todo # <<>>, reading' = FALSE, IsReply(Head(todo), {"prompt"}),
         Head(todo).ok, kind \in {"codex", "pi"}, Acknowledged(Head(todo)),
         UNCHANGED <<grant, down, kind, up, ag>>
  PROVE  HarnessInv'
<1> DEFINE m == Head(todo)
<1>1. BaseInv /\ TypeInv /\ ad \in AdapterStates /\ EarlyInv /\ PromptInv
  BY DEF HarnessInv, BaseInv, TypeInv
<1>2. /\ m \in Message /\ m \in Around /\ stage = "prompt" /\ pending \cap Line = {}
      /\ \A j \in DOMAIN Tail(todo) : ~ IsReply(Tail(todo)[j], Line)
      /\ ~ Has(down, {"open"}) /\ ~ Brings(up, {"open"})
  <2>1. IsReply(m, Line) /\ m.of = "prompt"
    BY DEF IsReply, Line
  <2> QED BY <1>1, <2>1, ChainGoesOn
<1>3. m.turn = "own" /\ ag.turn # "none"
  BY <1>1, <1>2 DEF BaseInv, MessageInv, Fits
<1>4. Acknowledged(m)
  OBVIOUS
<1> HIDE DEF m
<1>5. /\ ad' \in AdapterStates /\ ad'.turn = "own" /\ ad'.accepted = TRUE
      /\ ad'.early = <<>> /\ ad'.active = ad.active /\ ad'.last = ad.last
      /\ ad'.terminal = ad.terminal /\ ad'.cancelled = ad.cancelled
      /\ ad'.uncertain = ad.uncertain /\ ad'.closed = ad.closed
  <2>1. ad' = [ad EXCEPT !.turn = "own", !.accepted = TRUE, !.early = <<>>]
    BY <1>3, <1>4 DEF Acknowledged
  <2>2. <<>> \in Seq(Message)
    OBVIOUS
  <2>4. ad' \in AdapterStates
    BY <1>1, <2>1, <2>2 DEF AdapterStates
  <2>5. /\ ad'.turn = "own" /\ ad'.accepted = TRUE /\ ad'.early = <<>>
        /\ ad'.active = ad.active /\ ad'.last = ad.last
    BY <1>1, <2>1 DEF AdapterStates
  <2>6. /\ ad'.terminal = ad.terminal /\ ad'.cancelled = ad.cancelled
        /\ ad'.uncertain = ad.uncertain /\ ad'.closed = ad.closed
    BY <1>1, <2>1 DEF AdapterStates
  <2> QED BY <2>4, <2>5, <2>6
<1>6. Grows /\ (Hearing' => Hearing) /\ stage' = "running" /\ todo' = Resumed
      /\ pending' = pending
  BY <1>1, <1>4, <1>5, BackendEffects DEF Acknowledged, Grows, Hearing, Deaf
<1>7. PiInv'
  BY <1>2, <1>5, <1>6, PiResumes
<1>8. /\ todo' \in Seq(Errand)
      /\ \A i \in DOMAIN todo' :
           \/ \E j \in DOMAIN ad.early : todo'[i] = ad.early[j]
           \/ \E j \in DOMAIN Tail(todo) : todo'[i] = Tail(todo)[j]
           \/ todo'[i] = Note("interrupt", "own", "none")
      /\ \A j \in DOMAIN Tail(todo) : \E k \in DOMAIN todo : Tail(todo)[j] = todo[k]
  BY <1>1, <1>6, ResumedFacts
<1>9. TypeInv'
  BY <1>1, <1>5, <1>6, <1>8 DEF TypeInv, Grows
<1>10. \A i \in DOMAIN todo' : ~ IsReply(todo'[i], Line)
  <2>1. \A j \in DOMAIN ad.early : ~ IsReply(ad.early[j], Line)
    BY <1>1 DEF EarlyInv, IsReply, Notes
  <2>2. ~ IsReply(Note("interrupt", "own", "none"), Line)
    BY DEF IsReply, Note, Reply
  <2> QED BY <1>2, <1>8, <2>1, <2>2
<1>11. ChainInv' /\ OpenInv'
  BY <1>1, <1>2, <1>6, <1>10, ChainSends
<1>12. PromptInv' /\ AgentInv' /\ OldInv' /\ EndInv'
  <2>1. PromptInv'
    BY <1>1, <1>6 DEF PromptInv, Chain, Has
  <2>2. OldInv'
    BY <1>1, <1>5, OldFrame DEF BaseInv, UpMoves
  <2> QED BY <1>1, <1>6, <2>1, <2>2, AgentFrame, EndFrame DEF BaseInv
<1>13. MessageInv'
  <2>1. Around' \subseteq Around \cup {Note("interrupt", "own", "none")}
    BY <1>5, <1>8 DEF Around
  <2> QED BY <1>1, <2>1, MessageFrame DEF BaseInv
<1>14. EarlyInv'
  <2>1. ASSUME NEW i \in DOMAIN todo', todo'[i].what \in Notes, kind = "pi"
        PROVE  ~ IsOld(todo'[i])
    <3>1. ~ ad.accepted
      BY <1>1, <1>2 DEF PromptInv
    <3>2. Note("interrupt", "own", "none").what \notin Notes
      BY DEF Note, Reply, Notes
    <3>3. \A j \in DOMAIN Tail(todo) : Tail(todo)[j].what \notin Notes
      BY <1>1, <1>8, <2>1, <3>1 DEF EarlyInv
    <3> QED BY <1>1, <1>8, <2>1, <3>2, <3>3 DEF EarlyInv
  <2> QED BY <1>1, <1>3, <1>5, <2>1 DEF EarlyInv, IsOld
<1> QED BY <1>7, <1>9, <1>11, <1>12, <1>13, <1>14 DEF HarnessInv, BaseInv

LEMMA ContinuesPrompt ==
  ASSUME HarnessInv, todo # <<>>, reading' = FALSE,
         Head(todo).what = "reply", Head(todo).of = "prompt",
         PromptAnswered(Head(todo)), UNCHANGED <<grant, down, kind, up, ag>>
  PROVE  HarnessInv'
<1> DEFINE m == Head(todo)
<1>1. BaseInv /\ TypeInv /\ UpMoves /\ kind \in Kinds
  BY DEF HarnessInv, BaseInv, TypeInv, UpMoves
<1>2. /\ m \in Message /\ stage = "prompt" /\ pending \cap Line = {}
      /\ \A j \in DOMAIN Tail(todo) : ~ IsReply(Tail(todo)[j], Line)
      /\ ~ Has(down, {"open"}) /\ ~ Brings(up, {"open"})
  <2>1. IsReply(m, Line) /\ m.of = "prompt"
    BY DEF IsReply, Line
  <2> QED BY <1>1, <2>1, ChainGoesOn
<1>3. CASE m.ok /\ kind \in {"codex", "pi"} /\ Acknowledged(m)
  BY <1>3, ContinuesAcknowledged DEF IsReply
<1>4. ASSUME todo' = Tail(todo), stage' \in {"running", "failed"}, pending' \subseteq pending,
             SameEar, EndInv', ad' \in AdapterStates, be' \in BackendStates,
             ad'.active = ad.active, ad.closed => ad'.closed, Hearing' => Hearing
      PROVE  HarnessInv'
  <2>1. PiInv'
    BY <1>4, PiQuiet DEF Notes
  <2>2. TodoFits /\ down' \in Seq(Requests) /\ pending' \subseteq Requests
    BY <1>1, <1>4, TodoGoesOn DEF TypeInv
  <2>3. ChainInv' /\ OpenInv'
    BY <1>1, <1>2, <1>4, ChainSends
  <2>4. PromptInv'
    BY <1>1, <1>2, <1>4 DEF BaseInv, PromptInv, Chain, SameEar, Has
  <2>5. BaseInv'
    BY <1>1, <1>4, <2>2, <2>3, <2>4, LineStep
  <2> QED BY <2>1, <2>5 DEF HarnessInv
<1>5. CASE StartFails(m) /\ todo' = Tail(todo)
  <2>1. Grows /\ SameEar /\ pending' \subseteq pending /\ stage' = "failed"
    BY <1>1, <1>2, <1>5, StartFailsEffect
  <2> QED BY <1>1, <1>4, <1>5, <2>1, EarGrows
<1>6. CASE /\ Reading(kind)[m.ending] # "none" /\ Finishes(m.ending)
           /\ stage' = "running" /\ todo' = Tail(todo)
  <2>1. Grows /\ SameEar /\ pending' = pending
    BY <1>1, <1>2, <1>6, FinishesEffect DEF Message
  <2> QED BY <1>1, <1>4, <1>6, <2>1, EarGrows
<1>7. CASE /\ stage' = "running" /\ todo' = Tail(todo)
           /\ UNCHANGED <<be, ad, pending>>
  BY <1>1, <1>4, <1>7, EarUnchanged
<1> QED BY <1>3, <1>5, <1>6, <1>7 DEF PromptAnswered, Acknowledged, Resumed

-----------------------------------------------------------------------------
(* The other tasks after a chunk, the backend and the timers.                *)

LEMMA QuietCore ==
  ASSUME HarnessInv, UNCHANGED <<kind, stage, up, ag>>,
         \/ todo' = todo /\ reading' = reading
         \/ /\ todo # <<>> /\ todo' = Tail(todo) /\ reading' = FALSE
            /\ Head(todo).what \notin Notes,
         SameEar, EndInv', ad' \in AdapterStates, be' \in BackendStates,
         ad'.active = ad.active, ad.closed => ad'.closed, Hearing' => Hearing,
         \/ down' = down /\ pending' \subseteq pending
         \/ \E r \in Requests \ Line : Sends(r)
  PROVE  HarnessInv'
<1>1. BaseInv /\ TypeInv /\ UpMoves
  BY DEF HarnessInv, BaseInv, UpMoves
<1>2. TodoFits /\ TodoShifts
  BY <1>1, TodoGoesOn
<1>3. /\ Prolongs /\ down' \in Seq(Requests) /\ pending' \subseteq Requests
      /\ pending' \cap Line \subseteq pending
  BY <1>1, DownSteps, SendsEffect DEF TypeInv
<1>4. BaseInv'
  BY <1>1, <1>2, <1>3, QuietStep
<1>5. PiInv'
  BY PiQuiet
<1> QED BY <1>4, <1>5 DEF HarnessInv

LEMMA ContinuesCancel ==
  ASSUME HarnessInv, todo # <<>>, todo' = Tail(todo), reading' = FALSE,
         Head(todo).what = "reply", Head(todo).of \in {"interrupt", "clear", "abort", "stop"},
         CancelAnswered(Head(todo)), UNCHANGED <<stage, grant, kind, up, ag>>
  PROVE  HarnessInv'
<1>1. BaseInv /\ TypeInv /\ Head(todo).what \notin Notes
  BY DEF HarnessInv, BaseInv, Notes
<1>2. CASE /\ UNCHANGED <<be, ad>>
           /\ \/ Sends("abort")
              \/ UNCHANGED <<pending, down>>
  <2>1. "abort" \in Requests \ Line
    BY DEF Requests, Line, Chain, Interrupts
  <2> QED BY <1>1, <1>2, <2>1, EarUnchanged, QuietCore
<1>3. CASE /\ UNCHANGED down
           /\ \/ Disconnects(ad)
              \/ /\ ad' = [ad EXCEPT !.uncertain = @ \/ kind = "codex"]
                 /\ Breaks /\ UNCHANGED pending
  <2>1. Grows /\ SameEar /\ pending' \subseteq pending
    BY <1>1, <1>3, DisconnectsEffect, DoubtsEffect
  <2> QED BY <1>1, <1>3, <2>1, EarGrows, QuietCore
<1> QED BY <1>2, <1>3 DEF CancelAnswered

LEMMA ContinuesInterrupt ==
  ASSUME HarnessInv, todo # <<>>, todo' = Tail(todo), reading' = FALSE,
         Head(todo).what = "interrupt",
         IF Interruptible THEN Sends("interrupt") /\ ad' = [ad EXCEPT !.sent = TRUE]
         ELSE UNCHANGED <<ad, pending, down>>,
         UNCHANGED <<stage, be, grant, kind, up, ag>>
  PROVE  HarnessInv'
<1>1. BaseInv /\ TypeInv /\ Head(todo).what \notin Notes
  BY DEF HarnessInv, BaseInv, Notes
<1>2. CASE Sends("interrupt") /\ ad' = [ad EXCEPT !.sent = TRUE]
  <2>1. "interrupt" \in Requests \ Line
    BY DEF Requests, Line, Chain, Interrupts
  <2>2. ad \in AdapterStates /\ be \in BackendStates
    BY <1>1 DEF TypeInv
  <2>3. /\ ad' \in AdapterStates /\ SameEar
        /\ ad'.active = ad.active /\ ad'.terminal = ad.terminal
        /\ ad'.cancelled = ad.cancelled /\ ad'.closed = ad.closed
        /\ ad'.uncertain = ad.uncertain
    BY <1>2, <2>2 DEF AdapterStates, SameEar
  <2>4. Grows
    BY <2>2, <2>3 DEF Grows
  <2> QED BY <1>1, <1>2, <2>1, <2>3, <2>4, EarGrows, QuietCore
<1>3. CASE UNCHANGED <<ad, pending, down>>
  BY <1>1, <1>3, EarUnchanged, QuietCore
<1> QED BY <1>2, <1>3

LEMMA ContinuesStep ==
  ASSUME HarnessInv, Continues
  PROVE  HarnessInv'
<1>1. todo # <<>> /\ reading' = FALSE /\ UNCHANGED <<kind, up, ag>>
  BY DEF Continues
<1>2. CASE /\ Head(todo).what = "reply"
           /\ Head(todo).of \in {Preparation[j] : j \in DOMAIN Preparation}
           /\ Prepares(Head(todo)) /\ todo' = Tail(todo) /\ UNCHANGED grant
  BY <1>1, <1>2, ContinuesPreparing
<1>3. CASE /\ Head(todo).what = "reply" /\ Head(todo).of = "prompt"
           /\ PromptAnswered(Head(todo)) /\ UNCHANGED <<grant, down>>
  BY <1>1, <1>3, ContinuesPrompt
<1>4. CASE /\ Head(todo).what = "reply"
           /\ Head(todo).of \in {"interrupt", "clear", "abort", "stop"}
           /\ CancelAnswered(Head(todo))
           /\ todo' = Tail(todo) /\ UNCHANGED <<stage, grant>>
  BY <1>1, <1>4, ContinuesCancel
<1>5. CASE /\ Head(todo).what = "interrupt"
           /\ IF Interruptible THEN Sends("interrupt") /\ ad' = [ad EXCEPT !.sent = TRUE]
              ELSE UNCHANGED <<ad, pending, down>>
           /\ todo' = Tail(todo) /\ UNCHANGED <<stage, be, grant>>
  BY <1>1, <1>5, ContinuesInterrupt
<1>6. CASE /\ Head(todo).what = "ask"
           /\ todo' = Tail(todo) /\ UNCHANGED <<stage, be, ad, pending, down>>
  <2>1. BaseInv /\ Head(todo).what \notin Notes
    BY <1>6 DEF HarnessInv, Notes
  <2> QED BY <1>1, <1>6, <2>1, EarUnchanged, QuietCore
<1>7. CASE /\ Head(todo).what \in {"started", "delta", "last", "completed"}
           /\ Hears(Head(todo), FALSE)
           /\ todo' = Tail(todo) /\ UNCHANGED <<stage, grant, down>>
  BY <1>1, <1>7, ContinuesNote DEF Notes
<1> QED BY <1>2, <1>3, <1>4, <1>5, <1>6, <1>7 DEF Continues

\* The cancellation of a kimi reaches its adapter unless there is no turn.
LEMMA CancelStep ==
  ASSUME HarnessInv, Cancel
  PROVE  HarnessInv'
<1>1. /\ BaseInv /\ TypeInv /\ EndInv /\ ad \in AdapterStates /\ be \in BackendStates
      /\ kind \in Kinds
  BY DEF HarnessInv, BaseInv, TypeInv
<1>2. /\ be' = [be EXCEPT !.cancelled = TRUE] /\ UNCHANGED <<kind, stage, todo, reading, up, ag>>
  BY DEF Cancel
<1>3. be' \in BackendStates /\ be'.outcome = be.outcome
  BY <1>1, <1>2 DEF BackendStates
<1>4. \/ down' = down /\ pending' \subseteq pending
      \/ \E r \in Requests \ Line : Sends(r)
  <2>1. {"stop", "interrupt", "clear", "cancel"} \subseteq Requests \ Line
    BY DEF Requests, Line, Chain, Interrupts
  <2> QED BY <2>1 DEF Cancel
<1>5. CASE kind # "zcode" /\ ~ Deaf
           /\ ad' = [ad EXCEPT !.cancelled = TRUE,
                               !.sent = kind = "codex" /\ ad.turn # "none"]
  <2>1. (kind = "codex" /\ ad.turn # "none") \in BOOLEAN
    OBVIOUS
  <2>2. ad' \in AdapterStates /\ SameEar
    BY <1>1, <1>5, <2>1 DEF AdapterStates, SameEar
  <2>3. /\ ad'.active = ad.active /\ ad'.terminal = ad.terminal /\ ad'.cancelled
        /\ ad'.closed = ad.closed /\ ad'.uncertain = ad.uncertain
    BY <1>1, <1>5 DEF AdapterStates
  <2>4. EndInv' /\ (Hearing' => Hearing)
    BY <1>1, <1>3, <2>3 DEF EndInv, Hearing, Deaf
  <2> QED BY <1>2, <1>3, <1>4, <2>2, <2>3, <2>4, QuietCore
<1>6. CASE UNCHANGED ad /\ (kind = "zcode" \/ Deaf)
  <2>1. SameEar /\ ad' \in AdapterStates /\ (Hearing' => Hearing)
    BY <1>1, <1>6 DEF SameEar, Hearing, Deaf
  <2>2. EndInv'
    BY <1>1, <1>2, <1>3, <1>6 DEF EndInv, Deaf
  <2> QED BY <1>2, <1>3, <1>4, <1>6, <2>1, <2>2, QuietCore
<1> QED BY <1>1, <1>5, <1>6 DEF Cancel

LEMMA TimerStep ==
  ASSUME HarnessInv, Decides \/ Timeout \/ GivesUp \/ Stops
  PROVE  HarnessInv'
<1>1. BaseInv /\ TypeInv
  BY DEF HarnessInv, BaseInv
<1>2. UNCHANGED <<kind, stage, todo, reading, down, up, ag>>
  BY DEF Decides, Timeout, GivesUp, Stops
<1>3. CASE Decides
  <2>1. UNCHANGED <<be, ad, pending>>
    BY <1>3 DEF Decides
  <2> QED BY <1>1, <1>2, <2>1, EarUnchanged, QuietCore
<1>4. CASE Disconnects(ad)
  BY <1>1, <1>2, <1>4, DisconnectsEffect, EarGrows, QuietCore
<1>5. CASE GivesUp
  <2>1. Breaks /\ UNCHANGED <<ad, pending>>
    BY <1>5 DEF GivesUp
  <2>2. Grows /\ SameEar
    BY <1>1, <2>1, BackendEffects DEF Grows, SameEar, TypeInv
  <2> QED BY <1>1, <1>2, <2>1, <2>2, EarGrows, QuietCore
<1> QED BY <1>3, <1>4, <1>5 DEF Timeout, Stops

\* Nothing of a turn of pi is on its way when its prompt is sent.
LEMMA PiBegins ==
  ASSUME BaseInv, stage = "saving", todo = <<>>, UNCHANGED <<kind, up, ag, todo>>,
         ad'.early = ad.early, ad'.last = ad.last, ad'.closed = ad.closed
  PROVE  PiInv'
<1> SUFFICES ASSUME kind = "pi", ~ ad.closed PROVE PiInv'
  BY DEF PiInv
<1>1. /\ TypeInv /\ PromptInv /\ MessageInv /\ AgentInv /\ EarlyInv
      /\ up \in Seq(Message) /\ Len(up) \in Nat /\ DOMAIN up = 1 .. Len(up)
  BY DEF BaseInv, TypeInv
<1>2. ag.turn = "none" /\ ag.last = "none" /\ ~ ad.active
  BY <1>1 DEF PromptInv, AgentInv
<1>3. ad'.early = <<>> /\ ad'.last = "none" /\ Unheard' = <<>>
  BY <1>1, <1>2 DEF EarlyInv, Unheard
<1>4. ASSUME NEW i \in DOMAIN up PROVE up[i].what \notin Notes
  <2>1. Fits(up[i]) /\ up[i] \in Message
    BY <1>1 DEF MessageInv, Around
  <2>2. ~ IsOld(up[i])
    BY NoOldTurn
  <2> QED BY <1>2, <2>1, <2>2 DEF Fits, IsOld, Message
<1>5. Reaches(Len(up), "none")'
  <2>1. Leads(<<>>, 0, "none", "none")
    BY DEF Leads
  <2>2. Leads(up, Len(up), "none", "none")
    <3>1. \A i \in 1 .. Len(up) : up[i].what # "last"
      BY <1>1, <1>4 DEF Notes
    <3> QED BY <1>1, <3>1, LeadsNowhere
  <2>3. Len(Unheard') = 0
    BY <1>3
  <2>4. Leads(Unheard', Len(Unheard'), ad'.last, "none")
    BY <1>3, <2>1, <2>3
  <2> QED BY <2>2, <2>4 DEF Reaches
<1>6. \A i \in DOMAIN up : up[i].what # "completed"
  BY <1>4 DEF Notes
<1>7. \A i \in DOMAIN Unheard' : FALSE
  BY <1>3
<1> QED BY <1>2, <1>5, <1>6, <1>7 DEF PiInv

LEMMA SavesStep ==
  ASSUME HarnessInv, Saves
  PROVE  HarnessInv'
<1>1. /\ BaseInv /\ TypeInv /\ ChainInv /\ OpenInv /\ PromptInv /\ EarlyInv /\ EndInv
      /\ ad \in AdapterStates /\ be \in BackendStates /\ todo \in Seq(Errand)
  BY DEF HarnessInv, BaseInv, TypeInv
<1>2. /\ todo = <<>> /\ stage = "saving"
      /\ UNCHANGED <<kind, todo, reading, grant, up, ag>>
  BY DEF Saves
<1>3. /\ pending \cap Line = {} /\ ~ Has(down, {"open"}) /\ ~ Brings(up, {"open"})
      /\ ag.turn = "none" /\ ~ Has(down, {"prompt"}) /\ ~ ad.active /\ ~ ad.accepted
      /\ \A i \in DOMAIN todo' : ~ IsReply(todo'[i], Line)
  BY <1>1, <1>2 DEF ChainInv, OpenInv, PromptInv, Line, Chain
<1>4. TodoFits /\ UpMoves
  BY <1>1, <1>2, TodoGoesOn DEF UpMoves
<1>5. CASE stage' = "failed" /\ Breaks /\ UNCHANGED <<ad, pending, down>>
  <2>1. Grows /\ SameEar
    BY <1>1, <1>5, BackendEffects DEF Grows, SameEar, TypeInv
  <2>2. ChainInv' /\ OpenInv'
    BY <1>1, <1>2, <1>3, <1>5, ChainSends
  <2>3. PromptInv'
    BY <1>3, <1>5 DEF PromptInv, Has, Chain
  <2>4. BaseInv'
    BY <1>1, <1>2, <1>4, <1>5, <2>1, <2>2, <2>3, EarGrows, LineStep DEF TypeInv
  <2>5. PiInv'
    BY <1>1, <1>2, <2>1, EarGrows, PiQuiet
  <2> QED BY <2>4, <2>5 DEF HarnessInv
<1>6. CASE /\ be.end = "no" /\ ~ be.cancelled /\ stage' = "prompt"
           /\ ad' = [ad EXCEPT !.active = TRUE] /\ Sends("prompt") /\ UNCHANGED be
  <2>1. /\ ad' \in AdapterStates /\ SameEar /\ ad'.active
        /\ ad'.terminal = ad.terminal /\ ad'.closed = ad.closed
        /\ ad'.uncertain = ad.uncertain
    BY <1>1, <1>6 DEF AdapterStates, SameEar
  <2>2. "prompt" \in Line /\ "prompt" \in Requests
    BY DEF Line, Requests
  <2>3. /\ pending' \cap Line \subseteq {stage'} /\ pending' \subseteq Requests
        /\ down' = down \/ (stage' \in Line /\ down' = Append(down, stage'))
        /\ down' \in Seq(Requests)
    BY <1>1, <1>3, <1>6, <2>2, SendsEffect
  <2>4. ChainInv' /\ OpenInv'
    BY <1>1, <1>2, <1>3, <2>3, ChainSends
  <2>5. TypeInv'
    BY <1>1, <1>2, <1>6, <2>1, <2>2, <2>3 DEF TypeInv
  <2>6. down # <<>> => down' # <<>> /\ Head(down') = Head(down)
    BY <1>1, <1>6, <2>2, <2>3, DownSteps
  <2>7. \A i, j \in DOMAIN down' : down'[i] = "prompt" /\ down'[j] = "prompt" => i = j
    <3>1. down \in Seq(Requests)
      BY <1>1 DEF TypeInv
    <3>2. CASE down' = down
      BY <1>3, <3>2 DEF Has
    <3>3. CASE down' = Append(down, "prompt")
      BY <1>3, <2>2, <3>1, <3>3, AppendFacts DEF Has
    <3> QED BY <1>6, <2>3, <3>2, <3>3
  <2>8. PromptInv'
    BY <1>2, <1>3, <1>6, <2>1, <2>7 DEF PromptInv, Chain, SameEar, Has
  <2>9. AgentInv' /\ OldInv' /\ EndInv'
    <3>1. EndInv'
      BY <1>1, <1>2, <1>6, <2>1 DEF EndInv
    <3> QED BY <1>1, <1>2, <1>4, <2>1, <2>6, <3>1, AgentFrame, OldFrame DEF BaseInv
  <2>10. EarlyInv'
    BY <1>1, <1>2, <2>1 DEF EarlyInv, SameEar
  <2>11. MessageInv'
    <3>1. Around' = Around
      BY <1>2, <2>1 DEF Around, SameEar
    <3> QED BY <1>1, <1>2, <3>1, MessageFrame DEF BaseInv
  <2>12. PiInv'
    BY <1>1, <1>2, <2>1, PiBegins DEF SameEar
  <2> QED BY <2>4, <2>5, <2>8, <2>9, <2>10, <2>11, <2>12 DEF HarnessInv, BaseInv
<1> QED BY <1>5, <1>6 DEF Saves

-----------------------------------------------------------------------------
(* The agent.                                                                *)

LEMMA Sayings ==
  /\ \A r \in Requests, ok \in BOOLEAN :
       /\ Reply(r, ok) \in Message /\ Reply(r, ok).what = "reply" /\ Reply(r, ok).of = r
       /\ Reply(r, ok).ok = ok /\ Reply(r, ok).turn = "own"
       /\ Reply(r, ok).ending = "none"
       /\ [Reply(r, ok) EXCEPT !.turn = "old"] \in Message
       /\ [Reply(r, ok) EXCEPT !.turn = "old"].what = "reply"
       /\ [Reply(r, ok) EXCEPT !.turn = "old"].of = r
  /\ \A e \in Ending : /\ Ended(e) \in Message /\ Ended(e).what = "reply"
                       /\ Ended(e).of = "prompt" /\ Ended(e).ok /\ Ended(e).turn = "own"
                       /\ Ended(e).ending = e
  /\ \A w \in Notes \cup {"ask"}, t \in {"own", "old"}, e \in Ending \cup {"none"} :
       /\ Note(w, t, e) \in Message /\ Note(w, t, e).what = w /\ Note(w, t, e).turn = t
       /\ Note(w, t, e).ending = e /\ Note(w, t, e).of = "none"
<1>1. \A r \in Requests, ok \in BOOLEAN :
        /\ Reply(r, ok) \in Message /\ Reply(r, ok).what = "reply" /\ Reply(r, ok).of = r
        /\ Reply(r, ok).ok = ok /\ Reply(r, ok).turn = "own"
        /\ Reply(r, ok).ending = "none"
        /\ [Reply(r, ok) EXCEPT !.turn = "old"] \in Message
        /\ [Reply(r, ok) EXCEPT !.turn = "old"].what = "reply"
        /\ [Reply(r, ok) EXCEPT !.turn = "old"].of = r
  BY DEF Reply, Message
<1>2. \A e \in Ending : /\ Ended(e) \in Message /\ Ended(e).what = "reply"
                        /\ Ended(e).of = "prompt" /\ Ended(e).ok /\ Ended(e).turn = "own"
                        /\ Ended(e).ending = e
  <2>1. "prompt" \in Requests
    BY DEF Requests, Line
  <2> QED BY <2>1 DEF Ended, Reply, Message
<1>3. \A w \in Notes \cup {"ask"}, t \in {"own", "old"}, e \in Ending \cup {"none"} :
        /\ Note(w, t, e) \in Message /\ Note(w, t, e).what = w /\ Note(w, t, e).turn = t
        /\ Note(w, t, e).ending = e /\ Note(w, t, e).of = "none"
  BY DEF Note, Reply, Message
<1> QED BY <1>1, <1>2, <1>3

\* The turn goes from none to running to ended.
AgentGrows ==
  /\ ag' \in AgentStates
  /\ ag.turn # "none" => ag'.turn # "none"
  /\ ag.turn = "ended" => ag'.turn = "ended" /\ ag'.ending = ag.ending

LEMMA SaysEffect ==
  ASSUME TypeInv, NEW ms \in Seq(Message), up' = up \o ms
  PROVE  /\ up' \in Seq(Message) /\ Len(up) \in Nat /\ DOMAIN up = 1 .. Len(up)
         /\ Len(up') = Len(up) + Len(ms) /\ Len(ms) \in Nat /\ DOMAIN ms = 1 .. Len(ms)
         /\ DOMAIN up' = 1 .. Len(up) + Len(ms)
         /\ \A i \in DOMAIN up : i \in DOMAIN up' /\ up'[i] = up[i]
         /\ \A i \in DOMAIN up' :
              \/ i \in DOMAIN up
              \/ i - Len(up) \in DOMAIN ms /\ up'[i] = ms[i - Len(up)]
         /\ \A j \in DOMAIN ms : Len(up) + j \in DOMAIN up' /\ up'[Len(up) + j] = ms[j]
<1>1. up \in Seq(Message)
  BY DEF TypeInv
<1>2. /\ up' \in Seq(Message) /\ Len(up) \in Nat /\ DOMAIN up = 1 .. Len(up)
      /\ Len(up') = Len(up) + Len(ms) /\ Len(ms) \in Nat /\ DOMAIN ms = 1 .. Len(ms)
      /\ DOMAIN up' = 1 .. Len(up) + Len(ms)
      /\ \A i \in DOMAIN up : i \in DOMAIN up' /\ up'[i] = up[i]
      /\ \A i \in DOMAIN up' :
           \/ i \in DOMAIN up
           \/ i - Len(up) \in DOMAIN ms /\ up'[i] = ms[i - Len(up)]
  BY <1>1, ConcatFacts
<1>3. \A j \in DOMAIN ms : /\ Len(up) + j \in DOMAIN up' /\ Len(up) + j \notin DOMAIN up
                           /\ (Len(up) + j) - Len(up) = j
  BY <1>2
<1> QED BY <1>2, <1>3

LEMMA AgentSays ==
  ASSUME HarnessInv, UNCHANGED coreVars, NEW ms \in Seq(Message), up' = up \o ms,
         down' \in Seq(Requests), AgentGrows, AgentInv',
         \A i \in DOMAIN ms : Fits(ms[i])',
         OpenInv', PromptInv', OldInv', PiInv'
  PROVE  HarnessInv'
<1>1. BaseInv /\ TypeInv /\ ChainInv /\ MessageInv /\ EarlyInv /\ EndInv
  BY DEF HarnessInv, BaseInv
<1>2. UNCHANGED <<kind, stage, be, ad, pending, todo, reading>>
  OBVIOUS
<1>3. TypeInv'
  BY <1>1, <1>2, SaysEffect DEF TypeInv, AgentGrows
<1>4. ChainInv' /\ EndInv'
  BY <1>1, <1>2 DEF ChainInv, EndInv, Deaf
<1>5. EarlyInv'
  BY <1>1, <1>2 DEF EarlyInv, AgentGrows
<1>6. MessageInv'
  <2>1. \A m : Fits(m) => Fits(m)'
    BY <1>2 DEF Fits, AgentGrows
  <2>2. ASSUME NEW m \in Around' PROVE m \in Around \/ \E j \in DOMAIN ms : m = ms[j]
    <3>1. \A i \in DOMAIN up' :
            \/ i \in DOMAIN up /\ up'[i] = up[i]
            \/ i - Len(up) \in DOMAIN ms /\ up'[i] = ms[i - Len(up)]
      BY <1>1, SaysEffect
    <3> QED BY <1>2, <3>1, <2>2 DEF Around
  <2> QED BY <1>1, <2>1, <2>2 DEF MessageInv
<1> QED BY <1>3, <1>4, <1>5, <1>6 DEF HarnessInv, BaseInv

\* The agent tells of its turn: nothing that is asked of it is served.
LEMMA AgentTells ==
  ASSUME HarnessInv, UNCHANGED <<coreVars, down>>, NEW ms \in Seq(Message),
         up' = up \o ms, AgentGrows, AgentInv', ag.turn = "none" => ag'.turn = "none",
         \A i \in DOMAIN ms :
           /\ Fits(ms[i])' /\ ~ IsReply(ms[i], {"open"})
           /\ IsOld(ms[i]) /\ kind \in {"kimi", "pi"} => down # <<>> /\ Head(down) = "open",
         PiInv'
  PROVE  HarnessInv'
<1>1. BaseInv /\ TypeInv /\ OpenInv /\ PromptInv /\ OldInv
  BY DEF HarnessInv, BaseInv
<1>2. UNCHANGED <<kind, stage, ad, todo, down>> /\ down' \in Seq(Requests)
  BY <1>1 DEF TypeInv
<1>3. /\ \A i \in DOMAIN up : i \in DOMAIN up' /\ up'[i] = up[i]
      /\ \A i \in DOMAIN up' :
           \/ i \in DOMAIN up
           \/ i - Len(up) \in DOMAIN ms /\ up'[i] = ms[i - Len(up)]
  BY <1>1, SaysEffect
<1>4. \A i \in DOMAIN up' : IsReply(up'[i], {"open"}) =>
        i \in DOMAIN up /\ IsReply(up[i], {"open"})
  BY <1>3
<1>5. Brings(up, {"open"})' => Brings(up, {"open"})
  BY <1>4 DEF Brings
<1>6. OpenInv'
  <2>1. \A i, j \in DOMAIN up' :
          IsReply(up'[i], {"open"}) /\ IsReply(up'[j], {"open"}) => i = j
    BY <1>1, <1>4 DEF OpenInv
  <2> QED BY <1>1, <1>2, <1>5, <2>1 DEF OpenInv, Has, Brings
<1>7. PromptInv'
  BY <1>1, <1>2 DEF PromptInv, Has
<1>8. OldInv'
  BY <1>1, <1>2, <1>3 DEF OldInv
<1> QED BY <1>2, <1>6, <1>7, <1>8, AgentSays

-----------------------------------------------------------------------------
(* What pi tells.                                                            *)

LEMMA LeadsNext ==
  ASSUME NEW q, NEW n \in Nat, NEW d, NEW e, Leads(q, n, d, e)
  PROVE  Leads(q, n + 1, d, Handled(q[n + 1], e))
<1>1. CASE q[n + 1].what = "last"
  BY <1>1, LeadsLast DEF Handled
<1>2. CASE q[n + 1].what # "last"
  <2>1. n \in 0 .. n + 1 /\ n + 1 \in Nat
        /\ \A i \in n + 1 .. n + 1 : q[i].what # "last"
    BY <1>2
  <2>2. Leads(q, n + 1, d, e)
    BY <2>1, LeadsStay
  <2> QED BY <1>2, <2>2 DEF Handled
<1> QED BY <1>1, <1>2

LEMMA ReachesOn ==
  ASSUME TypeInv, UNCHANGED <<ad, todo>>, NEW ms \in Seq(Message), up' = up \o ms
  PROVE  /\ \A n \in 0 .. Len(up) : \A e : Reaches(n, e) => Reaches(n, e)'
         /\ \A n \in Nat : \A e : Reaches(n, e)' => Reaches(n + 1, Handled(up[n + 1], e))'
<1>1. /\ Len(up) \in Nat /\ DOMAIN up = 1 .. Len(up)
      /\ \A i \in DOMAIN up : up'[i] = up[i]
  BY SaysEffect
<1>2. Unheard' = Unheard /\ ad'.last = ad.last
  BY DEF Unheard
<1>3. ASSUME NEW n \in 0 .. Len(up), NEW e, Reaches(n, e) PROVE Reaches(n, e)'
  <2>1. PICK c \in Ending \cup {"none"} :
          Leads(Unheard, Len(Unheard), ad.last, c) /\ Leads(up, n, c, e)
    BY <1>3 DEF Reaches
  <2>2. n \in Nat /\ \A i \in 1 .. n : up[i] = up'[i]
    BY <1>1
  <2>3. Leads(up', n, c, e)
    BY <2>1, <2>2, LeadsSame
  <2> QED BY <1>2, <2>1, <2>3 DEF Reaches
<1>4. ASSUME NEW n \in Nat, NEW e, Reaches(n, e)'
      PROVE  Reaches(n + 1, Handled(up[n + 1], e))'
  <2>1. PICK c \in Ending \cup {"none"} :
          Leads(Unheard', Len(Unheard'), ad'.last, c) /\ Leads(up', n, c, e)
    BY <1>4 DEF Reaches
  <2>2. Leads(up', n + 1, c, Handled(up'[n + 1], e))
    BY <2>1, LeadsNext
  <2> QED BY <2>1, <2>2 DEF Reaches
<1> QED BY <1>3, <1>4

\* The end of a turn is not told before it has ended.
LEMMA PiNoEnd ==
  ASSUME BaseInv, kind = "pi", Hearing, ag.turn # "ended"
  PROVE  /\ \A i \in DOMAIN up : up[i].what # "completed"
         /\ \A i \in DOMAIN Unheard : Unheard[i].what # "completed"
<1>1. /\ TypeInv /\ MessageInv /\ EarlyInv /\ up \in Seq(Message) /\ ad.early \in Seq(Message)
      /\ todo \in Seq(Errand)
  BY DEF BaseInv, TypeInv, AdapterStates
<1>2. stage # "open"
  BY ActiveStage DEF Hearing, Deaf
<1>3. ASSUME NEW i \in DOMAIN up PROVE up[i].what # "completed"
  <2>1. up[i] \in Message /\ Fits(up[i])
    BY <1>1 DEF MessageInv, Around
  <2>2. ~ IsOld(up[i])
    BY <1>2, NoOldTurn DEF Hearing
  <2> QED BY <2>1, <2>2 DEF Fits, IsOld, Message, Notes
<1>4. ASSUME NEW i \in DOMAIN todo PROVE todo[i].what # "completed"
  <2>1. todo[i] \in Errand /\ Fits(todo[i])
    BY <1>1 DEF MessageInv, Around
  <2>2. todo[i].what \in Notes => ~ IsOld(todo[i]) /\ todo[i] \in Message
    BY <1>1, <2>1 DEF EarlyInv, Errand, Note, Reply, Notes
  <2> QED BY <2>1, <2>2 DEF Fits, IsOld, Message, Notes
<1>5. ASSUME NEW i \in DOMAIN ad.early PROVE ad.early[i].what # "completed"
  <2>1. ad.early[i] \in Message /\ Fits(ad.early[i])
    BY <1>1 DEF MessageInv, Around
  <2>2. ~ IsOld(ad.early[i])
    BY <1>1 DEF EarlyInv
  <2> QED BY <2>1, <2>2 DEF Fits, IsOld, Message, Notes
<1> QED BY <1>3, <1>4, <1>5 DEF Unheard

\* Neither a message nor the turn ends.
LEMMA PiSays ==
  ASSUME HarnessInv, UNCHANGED <<kind, ad, todo>>, NEW ms \in Seq(Message),
         up' = up \o ms, Len(ms) <= 2,
         \A i \in DOMAIN ms : ms[i].what \notin {"last", "completed"},
         ag'.last = ag.last, ag'.ending = ag.ending,
         ag'.turn = "ended" <=> ag.turn = "ended"
  PROVE  PiInv'
<1> SUFFICES ASSUME kind = "pi", Hearing PROVE PiInv'
  BY DEF PiInv, Hearing, Deaf
<1>1. TypeInv /\ PiInv /\ Unheard' = Unheard /\ ad' = ad
  BY DEF HarnessInv, BaseInv, Unheard
<1>2. /\ Len(up) \in Nat /\ DOMAIN up = 1 .. Len(up)
      /\ Len(up') = Len(up) + Len(ms) /\ Len(ms) \in {0, 1, 2}
      /\ \A i \in DOMAIN up : up'[i] = up[i]
      /\ DOMAIN up' = 1 .. Len(up) + Len(ms)
      /\ \A i \in DOMAIN up' : i > Len(up) => up'[i].what \notin {"last", "completed"}
  <2>1. /\ Len(up) \in Nat /\ DOMAIN up = 1 .. Len(up)
        /\ Len(up') = Len(up) + Len(ms) /\ Len(ms) \in Nat
        /\ \A i \in DOMAIN up : up'[i] = up[i]
        /\ DOMAIN up' = 1 .. Len(up) + Len(ms)
        /\ \A i \in DOMAIN up' :
             \/ i \in DOMAIN up
             \/ i - Len(up) \in DOMAIN ms /\ up'[i] = ms[i - Len(up)]
    BY <1>1, SaysEffect
  <2>2. Len(ms) \in {0, 1, 2}
    <3>1. \A k \in Nat : k <= 2 => k \in {0, 1, 2}
      OBVIOUS
    <3> QED BY <2>1, <3>1
  <2>3. \A i \in DOMAIN up' : i > Len(up) => up'[i].what \notin {"last", "completed"}
    BY <2>1
  <2> QED BY <2>1, <2>2, <2>3
<1>3. \A e : SameReading(e)' <=> SameReading(e)
  BY DEF SameReading
<1>4. ASSUME NEW n \in 0 .. Len(up), NEW e, Reaches(n, e) PROVE Reaches(n, e)'
  BY <1>1, <1>4, ReachesOn
<1>5. ASSUME NEW n \in Nat, n >= Len(up), n < Len(up'), NEW e, Reaches(n, e)'
      PROVE  Reaches(n + 1, e)'
  <2>1. n + 1 \in DOMAIN up' /\ n + 1 > Len(up)
    BY <1>2, <1>5
  <2>2. Handled(up'[n + 1], e) = e
    BY <1>2, <2>1 DEF Handled
  <2>3. \A x : x = Handled(up'[n + 1], e) => Reaches(n + 1, x)'
    BY <1>1, <1>5, ReachesOn
  <2> QED BY <2>2, <2>3
<1>6. ASSUME ag.turn # "ended" PROVE Reaches(Len(up), ag.last)'
  <2>0. PICK e : e = ag.last
    OBVIOUS
  <2>1. Len(up) \in 0 .. Len(up) /\ Reaches(Len(up), e)
    BY <1>1, <1>2, <1>6, <2>0 DEF PiInv, Hearing
  <2>2. ASSUME NEW n \in Nat, n = Len(up) PROVE Reaches(n, e)'
    BY <1>4, <2>1, <2>2
  <2>3. ASSUME NEW n \in Nat, n = Len(up), n < Len(up') PROVE Reaches(n + 1, e)'
    <3>1. n >= Len(up) /\ Reaches(n, e)'
      BY <2>2, <2>3
    <3> QED BY <1>5, <2>3, <3>1
  <2>4. ASSUME NEW n \in Nat, n = Len(up), n + 1 < Len(up') PROVE Reaches((n + 1) + 1, e)'
    <3>1. n + 1 \in Nat /\ n + 1 >= Len(up) /\ n < Len(up')
      BY <1>2, <2>4
    <3>2. Reaches(n + 1, e)'
      BY <2>3, <2>4, <3>1
    <3> QED BY <1>5, <2>4, <3>1, <3>2
  <2>5. ASSUME NEW n \in Nat, n = Len(up') PROVE Reaches(n, e)'
    <3>1. PICK k \in Nat : k = Len(up)
      BY <1>2
    <3>2. CASE n = k
      BY <2>2, <3>1, <3>2
    <3>3. CASE n = k + 1
      <4>1. k < Len(up')
        BY <2>5, <3>3
      <4>2. Reaches(k + 1, e)'
        BY <2>3, <3>1, <4>1
      <4> QED BY <3>3, <4>2
    <3>4. CASE n = k + 2
      <4>1. k + 1 < Len(up') /\ n = (k + 1) + 1
        BY <2>5, <3>4
      <4>2. Reaches((k + 1) + 1, e)'
        BY <2>4, <3>1, <4>1
      <4> QED BY <4>1, <4>2
    <3>5. n = k \/ n = k + 1 \/ n = k + 2
      <4>1. n = k + Len(ms)
        BY <1>2, <2>5, <3>1
      <4> QED BY <1>2, <4>1
    <3> QED BY <3>2, <3>3, <3>4, <3>5
  <2> QED BY <1>2, <2>0, <2>5
<1>7. ASSUME NEW i \in DOMAIN up', up'[i].what = "completed"
      PROVE  \E e \in Ending \cup {"none"} : Reaches(i - 1, e)' /\ SameReading(e)'
  <2>1. i \in DOMAIN up /\ up[i].what = "completed" /\ i - 1 \in 0 .. Len(up)
    BY <1>2, <1>7
  <2>2. PICK e \in Ending \cup {"none"} : Reaches(i - 1, e) /\ SameReading(e)
    BY <1>1, <2>1 DEF PiInv, Hearing
  <2> QED BY <1>3, <1>4, <2>1, <2>2
<1>8. UnheardFits'
  BY <1>1 DEF PiInv, UnheardFits, SameReading, Hearing
<1> QED BY <1>6, <1>7, <1>8 DEF PiInv, UnheardFits

-----------------------------------------------------------------------------
(* The steps of the agent.                                                   *)

LEMMA OneSaying ==
  ASSUME NEW a \in Message
  PROVE  /\ <<a>> \in Seq(Message) /\ Len(<<a>>) = 1
         /\ \A i \in DOMAIN <<a>> : <<a>>[i] = a
BY Told

LEMMA TwoSayings ==
  ASSUME NEW a \in Message, NEW b \in Message
  PROVE  /\ <<a>> \o <<b>> \in Seq(Message) /\ Len(<<a>> \o <<b>>) = 2
         /\ \A i \in DOMAIN (<<a>> \o <<b>>) :
              (<<a>> \o <<b>>)[i] = a \/ (<<a>> \o <<b>>)[i] = b
<1>1. /\ <<a>> \o <<b>> \in Seq(Message) /\ Len(<<a>> \o <<b>>) = 2
      /\ DOMAIN (<<a>> \o <<b>>) = 1 .. 2
      /\ (<<a>> \o <<b>>)[1] = a /\ (<<a>> \o <<b>>)[2] = b
  BY Told
<1>2. 1 .. 2 = {1, 2}
  OBVIOUS
<1> QED BY <1>1, <1>2

LEMMA ReplaysStep ==
  ASSUME HarnessInv, Replays
  PROVE  HarnessInv'
<1>1. /\ BaseInv /\ TypeInv /\ OpenInv /\ PromptInv /\ AgentInv /\ kind \in Kinds
      /\ ag \in AgentStates
  BY DEF HarnessInv, BaseInv, TypeInv
<1>2. /\ ag' = [ag EXCEPT !.old = @ + 1] /\ UNCHANGED <<coreVars, down>>
      /\ kind \in {"codex", "zcode"}
           \/ (kind \in {"kimi", "pi"} /\ down # <<>> /\ Head(down) = "open")
  BY DEF Replays
<1>3. /\ ag' \in AgentStates /\ ag'.turn = ag.turn /\ ag'.ending = ag.ending
      /\ ag'.last = ag.last /\ ag'.owes = ag.owes
  BY <1>1, <1>2 DEF AgentStates
<1>4. ASSUME NEW m \in Message, IsOld(m) PROVE Fits(m)' /\ ~ IsReply(m, {"open"})
  BY <1>2, <1>4 DEF IsOld, Fits, IsReply, Notes
<1>5. PiInv'
  <2> SUFFICES ASSUME kind = "pi" PROVE Deaf
    BY <1>2 DEF PiInv, Deaf
  <2>1. Has(down, {"open"})
    BY <1>1, <1>2, TailFacts DEF Has, TypeInv
  <2> QED BY <1>1, <2>1 DEF OpenInv, PromptInv, Deaf, Chain
<1>6. PICK ms : /\ up' = up \o ms /\ ms \in Seq(Message)
                /\ \A i \in DOMAIN ms : IsOld(ms[i])
  <2>1. CASE Tells(<<Note("delta", "old", "none")>>)
    <3>1. Note("delta", "old", "none") \in Message /\ IsOld(Note("delta", "old", "none"))
      BY Sayings DEF Notes, IsOld
    <3> QED BY <2>1, <3>1, OneSaying DEF Tells
  <2>2. ASSUME NEW e \in {"done", "failed"},
               Tells((IF kind = "pi" THEN <<Note("last", "old", e)>> ELSE <<>>)
                     \o <<Note("completed", "old", e)>>)
        PROVE  \E ms : /\ up' = up \o ms /\ ms \in Seq(Message)
                       /\ \A i \in DOMAIN ms : IsOld(ms[i])
    <3> DEFINE a == Note("last", "old", e)
               b == Note("completed", "old", e)
    <3>1. /\ a \in Message /\ IsOld(a)
          /\ b \in Message /\ IsOld(b)
      BY Sayings DEF Notes, IsOld, Ending
    <3> HIDE DEF a, b
    <3>2. CASE kind = "pi"
      <4>1. up' = up \o (<<a>> \o <<b>>)
        BY <2>2, <3>2 DEF Tells, a, b
      <4>2. /\ <<a>> \o <<b>> \in Seq(Message)
            /\ \A i \in DOMAIN (<<a>> \o <<b>>) : IsOld((<<a>> \o <<b>>)[i])
        BY <3>1, TwoSayings
      <4> QED BY <4>1, <4>2
    <3>3. CASE kind # "pi"
      <4>1. up' = up \o <<b>>
        BY <2>2, <3>1, <3>3, Told DEF Tells, b
      <4>2. <<b>> \in Seq(Message) /\ \A i \in DOMAIN <<b>> : IsOld(<<b>>[i])
        BY <3>1, OneSaying
      <4> QED BY <4>1, <4>2
    <3> QED BY <3>2, <3>3
  <2> QED BY <2>1, <2>2 DEF Replays
<1>7. \A i \in DOMAIN ms :
        /\ Fits(ms[i])' /\ ~ IsReply(ms[i], {"open"})
        /\ IsOld(ms[i]) /\ kind \in {"kimi", "pi"} => down # <<>> /\ Head(down) = "open"
  BY <1>2, <1>4, <1>6
<1>8. AgentGrows /\ AgentInv' /\ (ag.turn = "none" => ag'.turn = "none")
  BY <1>1, <1>3 DEF AgentGrows, AgentInv
<1> QED BY <1>2, <1>5, <1>6, <1>7, <1>8, AgentTells

LEMMA AcknowledgesStep ==
  ASSUME HarnessInv, Acknowledges
  PROVE  HarnessInv'
<1> DEFINE m == Reply("prompt", TRUE)
<1>1. /\ BaseInv /\ TypeInv /\ AgentInv /\ ag \in AgentStates
  BY DEF HarnessInv, BaseInv, TypeInv
<1>2. /\ ag' = [ag EXCEPT !.owes = FALSE] /\ UNCHANGED <<coreVars, down>>
      /\ kind \notin {"kimi", "dsh"} /\ up' = up \o <<m>> /\ ag.owes
  BY DEF Acknowledges, Tells
<1>3. /\ ag' \in AgentStates /\ ag'.turn = ag.turn /\ ag'.ending = ag.ending
      /\ ag'.last = ag.last /\ ag'.owes = FALSE
  BY <1>1, <1>2 DEF AgentStates
<1>4. /\ m \in Message /\ m.what = "reply" /\ m.of = "prompt" /\ m.turn = "own"
  <2>1. "prompt" \in Requests /\ TRUE \in BOOLEAN
    BY DEF Requests, Line
  <2> QED BY <2>1 DEF Reply, Message
<1>5. ag.turn # "none"
  BY <1>1, <1>2 DEF AgentInv
<1> HIDE DEF m
<1>6. Fits(m)' /\ ~ IsReply(m, {"open"}) /\ ~ IsOld(m)
  BY <1>2, <1>3, <1>4, <1>5 DEF Fits, IsReply, IsOld, Notes
<1>7. /\ <<m>> \in Seq(Message) /\ Len(<<m>>) <= 2
      /\ \A i \in DOMAIN <<m>> : <<m>>[i] = m
  BY <1>4, OneSaying
<1>8. AgentGrows /\ AgentInv' /\ (ag.turn = "none" => ag'.turn = "none")
  BY <1>1, <1>3 DEF AgentGrows, AgentInv
<1>9. PiInv'
  BY <1>2, <1>3, <1>4, <1>7, PiSays
<1> QED BY <1>2, <1>6, <1>7, <1>8, <1>9, AgentTells

LEMMA AsksStep ==
  ASSUME HarnessInv, Asks
  PROVE  HarnessInv'
<1> DEFINE m == Note("ask", "own", "none")
<1>1. /\ BaseInv /\ TypeInv /\ AgentInv /\ ag \in AgentStates
  BY DEF HarnessInv, BaseInv, TypeInv
<1>2. UNCHANGED <<coreVars, down, ag>> /\ kind # "pi" /\ up' = up \o <<m>>
  BY DEF Asks, Tells
<1>3. m \in Message /\ m.what = "ask"
  BY Sayings
<1> HIDE DEF m
<1>4. Fits(m)' /\ ~ IsReply(m, {"open"}) /\ ~ IsOld(m)
  BY <1>3 DEF Fits, IsReply, IsOld, Notes
<1>5. <<m>> \in Seq(Message) /\ \A i \in DOMAIN <<m>> : <<m>>[i] = m
  BY <1>3, OneSaying
<1>6. AgentGrows /\ AgentInv' /\ (ag.turn = "none" => ag'.turn = "none")
  BY <1>1, <1>2 DEF AgentGrows, AgentInv
<1>7. PiInv'
  BY <1>2 DEF PiInv
<1> QED BY <1>2, <1>4, <1>5, <1>6, <1>7, AgentTells

LEMMA WritesStep ==
  ASSUME HarnessInv, Writes
  PROVE  HarnessInv'
<1>1. /\ BaseInv /\ TypeInv /\ AgentInv /\ PiInv /\ ag \in AgentStates
  BY DEF HarnessInv, BaseInv, TypeInv
<1>2. UNCHANGED <<coreVars, down>> /\ ag.turn = "running"
  BY DEF Writes
<1>3. CASE /\ Tells(<<Note("delta", "own", "none")>>)
           /\ ag' = [ag EXCEPT !.texts = @ + 1]
  <2> DEFINE m == Note("delta", "own", "none")
  <2>1. /\ ag' \in AgentStates /\ ag'.turn = ag.turn /\ ag'.ending = ag.ending
        /\ ag'.last = ag.last /\ ag'.owes = ag.owes
    BY <1>1, <1>3 DEF AgentStates
  <2>2. m \in Message /\ m.what = "delta" /\ m.turn = "own" /\ up' = up \o <<m>>
    BY <1>3, Sayings DEF Notes, Tells
  <2> HIDE DEF m
  <2>3. Fits(m)' /\ ~ IsReply(m, {"open"}) /\ ~ IsOld(m)
    BY <1>2, <2>1, <2>2 DEF Fits, IsReply, IsOld, Notes
  <2>4. /\ <<m>> \in Seq(Message) /\ Len(<<m>>) <= 2
        /\ \A i \in DOMAIN <<m>> : <<m>>[i] = m
    BY <2>2, OneSaying
  <2>5. AgentGrows /\ AgentInv' /\ (ag.turn = "none" => ag'.turn = "none")
    BY <1>1, <2>1 DEF AgentGrows, AgentInv
  <2>6. PiInv'
    BY <1>2, <2>1, <2>2, <2>4, PiSays
  <2> QED BY <1>2, <2>2, <2>3, <2>4, <2>5, <2>6, AgentTells
<1>4. ASSUME kind = "pi", NEW e \in {"done", "failed", "odd"},
             Tells(<<Note("last", "own", e)>>),
             ag' = [ag EXCEPT !.texts = @ + 1, !.last = e]
      PROVE  HarnessInv'
  <2> DEFINE m == Note("last", "own", e)
  <2>1. e \in Ending
    BY DEF Ending
  <2>2. /\ ag' \in AgentStates /\ ag'.turn = ag.turn /\ ag'.ending = ag.ending
        /\ ag'.last = e /\ ag'.owes = ag.owes
    <3>1. ag.texts + 1 \in Nat
      BY <1>1 DEF AgentStates
    <3> QED BY <1>1, <1>4, <2>1, <3>1 DEF AgentStates
  <2>3. /\ m \in Message /\ m.what = "last" /\ m.turn = "own" /\ m.ending = e
        /\ up' = up \o <<m>>
    BY <1>4, <2>1, Sayings DEF Notes, Tells
  <2> HIDE DEF m
  <2>4. Fits(m)' /\ ~ IsReply(m, {"open"}) /\ ~ IsOld(m)
    BY <1>2, <2>2, <2>3 DEF Fits, IsReply, IsOld, Notes
  <2>5. <<m>> \in Seq(Message) /\ Len(<<m>>) = 1 /\ \A i \in DOMAIN <<m>> : <<m>>[i] = m
    BY <2>3, OneSaying
  <2>6. AgentGrows /\ AgentInv' /\ (ag.turn = "none" => ag'.turn = "none")
    BY <1>1, <1>2, <2>2 DEF AgentGrows, AgentInv
  <2>7. PiInv'
    <3> SUFFICES ASSUME Hearing PROVE PiInv'
      BY <1>2 DEF PiInv, Hearing, Deaf
    <3>1. /\ Len(up) \in Nat /\ Len(up') = Len(up) + 1 /\ up'[Len(up) + 1] = m
          /\ \A i \in DOMAIN up' : (i \in DOMAIN up /\ up'[i] = up[i]) \/ up'[i] = m
      <4>1. /\ Len(up) \in Nat /\ Len(up') = Len(up) + Len(<<m>>)
            /\ \A i \in DOMAIN up : up'[i] = up[i]
            /\ \A i \in DOMAIN up' :
                 \/ i \in DOMAIN up
                 \/ i - Len(up) \in DOMAIN <<m>> /\ up'[i] = <<m>>[i - Len(up)]
            /\ \A j \in DOMAIN <<m>> : up'[Len(up) + j] = <<m>>[j]
        BY <1>1, <2>3, <2>5, SaysEffect
      <4>2. 1 \in DOMAIN <<m>>
        OBVIOUS
      <4> QED BY <2>5, <4>1, <4>2
    <3>2. Unheard' = Unheard
      BY <1>2 DEF Unheard
    <3>3. /\ \A i \in DOMAIN up' : up'[i].what # "completed"
          /\ \A i \in DOMAIN Unheard' : Unheard'[i].what # "completed"
      BY <1>1, <1>2, <1>4, <2>3, <3>1, <3>2, PiNoEnd
    <3>4. PICK d : d = ag.last
      OBVIOUS
    <3>5. Len(up) \in 0 .. Len(up) /\ Reaches(Len(up), d)
      BY <1>1, <1>2, <1>4, <3>1, <3>4 DEF PiInv, Hearing
    <3>6. ASSUME NEW n \in Nat, n = Len(up) PROVE Reaches(n + 1, e)'
      <4>1. Reaches(n, d)'
        BY <1>1, <1>2, <2>3, <2>5, <3>5, <3>6, ReachesOn
      <4>2. \A x : x = Handled(up'[n + 1], d) => Reaches(n + 1, x)'
        BY <1>1, <1>2, <2>3, <2>5, <4>1, ReachesOn
      <4>3. Handled(up'[n + 1], d) = e
        BY <2>3, <3>1, <3>6 DEF Handled
      <4> QED BY <4>2, <4>3
    <3>7. Reaches(Len(up), ag.last)'
      BY <2>2, <3>1, <3>6
    <3> QED BY <3>3, <3>7 DEF PiInv
  <2> QED BY <1>2, <2>3, <2>4, <2>5, <2>6, <2>7, AgentTells
<1> QED BY <1>3, <1>4 DEF Writes

\* The end of a turn of pi that is told with messages ms.
LEMMA PiTurnEnds ==
  ASSUME HarnessInv, kind = "pi", ag.turn = "running", UNCHANGED <<kind, ad, todo>>,
         NEW e \in Ending, ag'.turn = "ended", ag'.ending = e,
         NEW b \in Message, b.what = "completed",
         \/ /\ up' = up \o <<b>>
            /\ Reading("pi")[ag.last] = Reading("pi")[e]
         \/ \E a \in Message : /\ a.what = "last" /\ a.ending = e
                               /\ up' = up \o (<<a>> \o <<b>>)
  PROVE  PiInv'
<1> SUFFICES ASSUME Hearing PROVE PiInv'
  BY DEF PiInv, Hearing, Deaf
<1>1. /\ BaseInv /\ TypeInv /\ PiInv /\ Unheard' = Unheard
      /\ ag.last \in Ending \cup {"none"}
  BY DEF HarnessInv, BaseInv, Unheard, TypeInv, AgentStates
<1>2. /\ \A i \in DOMAIN up : up[i].what # "completed"
      /\ \A i \in DOMAIN Unheard : Unheard[i].what # "completed"
  BY <1>1, PiNoEnd
<1>3. PICK d \in Ending \cup {"none"} : d = ag.last
  BY <1>1
<1>4. Len(up) \in Nat /\ Reaches(Len(up), d)
  BY <1>1, <1>3 DEF PiInv, Hearing, TypeInv
<1>5. \A x : Reading("pi")[x] = Reading("pi")[e] => SameReading(x)'
  BY DEF SameReading
<1>6. CASE /\ up' = up \o <<b>> /\ Reading("pi")[ag.last] = Reading("pi")[e]
  <2>0. <<b>> \in Seq(Message) /\ \A i \in DOMAIN <<b>> : <<b>>[i] = b /\ i = 1
    BY OneSaying, Told
  <2>1. /\ \A i \in DOMAIN up : up'[i] = up[i]
        /\ \A i \in DOMAIN up' :
             \/ i \in DOMAIN up
             \/ i - Len(up) \in DOMAIN <<b>> /\ up'[i] = <<b>>[i - Len(up)]
        /\ DOMAIN up' = 1 .. Len(up) + Len(<<b>>)
    BY <1>1, <1>6, <2>0, SaysEffect
  <2>2. ASSUME NEW i \in DOMAIN up', up'[i].what = "completed"
        PROVE  Reaches(i - 1, d)' /\ SameReading(d)'
    <3>1. i - Len(up) = 1 /\ i \in Int
      BY <1>2, <2>0, <2>1, <2>2
    <3>2. i - 1 = Len(up) /\ i - 1 \in 0 .. Len(up)
      BY <1>4, <3>1
    <3>3. Reaches(i - 1, d)
      BY <1>4, <3>2
    <3>4. Reaches(i - 1, d)'
      BY <1>1, <1>6, <2>0, <3>2, <3>3, ReachesOn
    <3> QED BY <1>3, <1>5, <1>6, <3>4
  <2> QED BY <1>1, <1>2, <2>2 DEF PiInv
<1>7. ASSUME NEW a \in Message, a.what = "last", a.ending = e,
             up' = up \o (<<a>> \o <<b>>)
      PROVE  PiInv'
  <2> DEFINE ms == <<a>> \o <<b>>
  <2>0. /\ ms \in Seq(Message) /\ Len(ms) = 2 /\ DOMAIN ms = 1 .. 2
        /\ ms[1] = a /\ ms[2] = b /\ up' = up \o ms
    BY <1>7, Told
  <2> HIDE DEF ms
  <2>1. /\ \A i \in DOMAIN up : up'[i] = up[i]
        /\ \A i \in DOMAIN up' :
             \/ i \in DOMAIN up
             \/ i - Len(up) \in DOMAIN ms /\ up'[i] = ms[i - Len(up)]
        /\ DOMAIN up' = 1 .. Len(up) + Len(ms)
        /\ \A j \in DOMAIN ms : up'[Len(up) + j] = ms[j]
    BY <1>1, <2>0, SaysEffect
  <2>2. ASSUME NEW i \in DOMAIN up', up'[i].what = "completed"
        PROVE  Reaches(i - 1, e)' /\ SameReading(e)'
    <3>1. i - Len(up) = 2 /\ i \in Int
      <4>1. i - Len(up) \in 1 .. 2 /\ up'[i] = ms[i - Len(up)]
        BY <1>2, <2>0, <2>1, <2>2
      <4>2. i - Len(up) # 1
        BY <1>7, <2>0, <2>2, <4>1
      <4>3. i \in Int
        BY <2>0, <2>1, <2>2, <1>4
      <4> QED BY <4>1, <4>2, <4>3
    <3>2. PICK n \in Nat : n = Len(up) /\ i - 1 = n + 1
      BY <1>4, <3>1
    <3>3. n \in 0 .. Len(up) /\ Reaches(n, d)
      BY <1>4, <3>2
    <3>4. Reaches(n, d)'
      BY <1>1, <2>0, <3>3, ReachesOn
    <3>5. \A x : x = Handled(up'[n + 1], d) => Reaches(n + 1, x)'
      BY <1>1, <2>0, <3>4, ReachesOn
    <3>6. Handled(up'[n + 1], d) = e
      <4>1. up'[n + 1] = a
        BY <2>0, <2>1, <3>2
      <4> QED BY <1>7, <4>1 DEF Handled
    <3>7. Reaches(n + 1, e)'
      BY <3>5, <3>6
    <3>8. Reaches(i - 1, e)'
      BY <3>2, <3>7
    <3> QED BY <1>5, <3>8
  <2> QED BY <1>1, <1>2, <2>2 DEF PiInv
<1> QED BY <1>6, <1>7

LEMMA TurnEndsStep ==
  ASSUME HarnessInv, TurnEnds
  PROVE  HarnessInv'
<1>1. /\ BaseInv /\ TypeInv /\ AgentInv /\ ag \in AgentStates /\ kind \in Kinds
  BY DEF HarnessInv, BaseInv, TypeInv
<1>2. UNCHANGED <<coreVars, down>> /\ ag.turn = "running"
  BY DEF TurnEnds
<1>3. PICK e \in Ending :
        /\ \/ /\ kind = "pi"
              /\ e \in {"cancelled", ag.last} \cup (IF ag.last = "none" THEN {"odd"} ELSE {})
              /\ Tells((IF e = ag.last \/ e = "odd" THEN <<>>
                        ELSE <<Note("last", "own", e)>>)
                       \o <<Note("completed", "own", e)>>)
           \/ kind \in {"codex", "zcode"} /\ Tells(<<Note("completed", "own", e)>>)
           \/ kind \in {"kimi", "dsh"} /\ Tells(<<Ended(e)>>)
        /\ ag' = [ag EXCEPT !.turn = "ended", !.ending = e]
  BY DEF TurnEnds
<1>4. /\ ag' \in AgentStates /\ ag'.turn = "ended" /\ ag'.ending = e
      /\ ag'.last = ag.last /\ ag'.owes = ag.owes
  <2>1. [ag EXCEPT !.turn = "ended"] \in AgentStates
    BY <1>1 DEF AgentStates
  <2>2. ag' \in AgentStates
    BY <1>1, <1>3 DEF AgentStates
  <2> QED BY <1>1, <1>3, <2>2 DEF AgentStates
<1>5. AgentGrows /\ AgentInv' /\ (ag.turn = "none" => ag'.turn = "none")
  BY <1>2, <1>4 DEF AgentGrows, AgentInv
<1> DEFINE a == Note("last", "own", e)
           b == Note("completed", "own", e)
           r == Ended(e)
<1>6. /\ a \in Message /\ a.what = "last" /\ a.turn = "own" /\ a.ending = e
      /\ b \in Message /\ b.what = "completed" /\ b.turn = "own" /\ b.ending = e
  BY Sayings DEF Notes
<1>7. /\ r \in Message /\ r.what = "reply" /\ r.of = "prompt" /\ r.turn = "own"
      /\ r.ending = e
  BY Sayings
<1> HIDE DEF a, b, r
<1>8. /\ Fits(a)' /\ ~ IsReply(a, {"open"}) /\ ~ IsOld(a)
      /\ Fits(b)' /\ ~ IsReply(b, {"open"}) /\ ~ IsOld(b)
      /\ Fits(r)' /\ ~ IsReply(r, {"open"}) /\ ~ IsOld(r)
  BY <1>4, <1>6, <1>7 DEF Fits, IsReply, IsOld, Notes
<1>9. ASSUME NEW ms \in Seq(Message), up' = up \o ms,
             \A i \in DOMAIN ms : ms[i] \in {a, b, r}, PiInv'
      PROVE  HarnessInv'
  <2>1. \A i \in DOMAIN ms :
          /\ Fits(ms[i])' /\ ~ IsReply(ms[i], {"open"})
          /\ IsOld(ms[i]) /\ kind \in {"kimi", "pi"} => down # <<>> /\ Head(down) = "open"
    BY <1>8, <1>9
  <2> QED BY <1>2, <1>5, <1>9, <2>1, AgentTells
<1>10. CASE kind \in {"codex", "zcode"} /\ up' = up \o <<b>>
  <2>1. PiInv'
    BY <1>2, <1>10 DEF PiInv
  <2>3. PICK ms : ms = <<b>>
    OBVIOUS
  <2>4. ms \in Seq(Message) /\ \A i \in DOMAIN ms : ms[i] = b
    BY <1>6, <2>3, OneSaying
  <2>5. up' = up \o ms
    BY <1>10, <2>3
  <2> QED BY <1>9, <2>1, <2>4, <2>5
<1>11. CASE kind \in {"kimi", "dsh"} /\ up' = up \o <<r>>
  <2>1. PiInv'
    BY <1>2, <1>11 DEF PiInv
  <2>3. PICK ms : ms = <<r>>
    OBVIOUS
  <2>4. ms \in Seq(Message) /\ \A i \in DOMAIN ms : ms[i] = r
    BY <1>7, <2>3, OneSaying
  <2>5. up' = up \o ms
    BY <1>11, <2>3
  <2> QED BY <1>9, <2>1, <2>4, <2>5
<1>12. CASE kind = "pi" /\ (e = ag.last \/ e = "odd") /\ up' = up \o <<b>>
            /\ e \in {"cancelled", ag.last} \cup (IF ag.last = "none" THEN {"odd"} ELSE {})
  <2>1. Reading("pi")[ag.last] = Reading("pi")[e]
    <3>1. "none" \in Ending \cup {"none"} /\ "pi" \in Kinds
      BY <1>1, <1>12
    <3>2. Reading("pi")["none"] = "none" /\ Reading("pi")["odd"] = "none"
      BY <3>1, Readings
    <3> QED BY <1>12, <3>2
  <2>2. PiInv'
    BY <1>2, <1>4, <1>6, <1>12, <2>1, PiTurnEnds
  <2>3. PICK ms : ms = <<b>>
    OBVIOUS
  <2>4. ms \in Seq(Message) /\ \A i \in DOMAIN ms : ms[i] = b
    BY <1>6, <2>3, OneSaying
  <2>5. up' = up \o ms
    BY <1>12, <2>3
  <2> QED BY <1>9, <2>2, <2>4, <2>5
<1>13. CASE kind = "pi" /\ up' = up \o (<<a>> \o <<b>>)
  <2>1. PiInv'
    BY <1>2, <1>4, <1>6, <1>13, PiTurnEnds
  <2> QED BY <1>6, <1>9, <1>13, <2>1, TwoSayings
<1>14. CASE kind = "pi"
  <2>1. CASE e = ag.last \/ e = "odd"
    <3>1. up' = up \o (<<>> \o <<b>>)
      BY <1>3, <1>14, <2>1 DEF Tells, b
    <3>2. <<>> \o <<b>> = <<b>>
      BY <1>6, Told
    <3> QED BY <1>3, <1>12, <1>14, <2>1, <3>1, <3>2
  <2>2. CASE ~ (e = ag.last \/ e = "odd")
    <3>1. up' = up \o (<<a>> \o <<b>>)
      BY <1>3, <1>14, <2>2 DEF Tells, a, b
    <3> QED BY <1>13, <1>14, <3>1
  <2> QED BY <2>1, <2>2
<1> QED BY <1>3, <1>10, <1>11, <1>14 DEF Tells, b, r

-----------------------------------------------------------------------------
(* The agent serves what is asked of it.                                     *)

LEMMA DownTail ==
  ASSUME TypeInv, down # <<>>, down' = Tail(down)
  PROVE  /\ down' \in Seq(Requests) /\ Head(down) \in Requests
         /\ Head(down) = down[1] /\ 1 \in DOMAIN down
         /\ \A i \in DOMAIN down' : /\ i + 1 \in DOMAIN down /\ down'[i] = down[i + 1]
                                    /\ i \in Nat \ {0}
<1>1. down \in Seq(Requests)
  BY DEF TypeInv
<1> QED BY <1>1, TailFacts

\* Something other than what opens the session.
LEMMA ServesOther ==
  ASSUME HarnessInv, down # <<>>, Head(down) # "open", down' = Tail(down),
         UNCHANGED coreVars, NEW ms \in Seq(Message), up' = up \o ms,
         \A i \in DOMAIN ms : ~ IsReply(ms[i], {"open"}) /\ ~ IsOld(ms[i])
  PROVE  OpenInv' /\ OldInv'
<1>1. /\ TypeInv /\ OpenInv /\ OldInv
      /\ UNCHANGED <<kind, stage, ad, todo>>
  BY DEF HarnessInv, BaseInv
<1>2. \A i \in DOMAIN down' : i + 1 \in DOMAIN down /\ down'[i] = down[i + 1]
                              /\ i \in Nat \ {0}
  BY <1>1, DownTail
<1>3. /\ \A i \in DOMAIN up : i \in DOMAIN up' /\ up'[i] = up[i]
      /\ \A i \in DOMAIN up' :
           \/ i \in DOMAIN up
           \/ i - Len(up) \in DOMAIN ms /\ up'[i] = ms[i - Len(up)]
  BY <1>1, SaysEffect
<1>4. \A i \in DOMAIN up' : /\ IsReply(up'[i], {"open"}) =>
                                 i \in DOMAIN up /\ IsReply(up[i], {"open"})
                            /\ IsOld(up'[i]) => i \in DOMAIN up /\ IsOld(up[i])
  BY <1>3
<1>5. OpenInv'
  <2>1. /\ Has(down, {"open"})' => Has(down, {"open"})
        /\ Brings(up, {"open"})' => Brings(up, {"open"})
        /\ Brings(todo, {"open"})' => Brings(todo, {"open"})
    BY <1>1, <1>2, <1>4 DEF Has, Brings
  <2>2. \A i, j \in DOMAIN up' :
          IsReply(up'[i], {"open"}) /\ IsReply(up'[j], {"open"}) => i = j
    BY <1>1, <1>4 DEF OpenInv
  <2>3. ASSUME NEW i \in DOMAIN down', NEW j \in DOMAIN down',
               down'[i] = "open", down'[j] = "open"
        PROVE  i = j
    <3>1. i + 1 = j + 1
      BY <1>1, <1>2, <2>3 DEF OpenInv
    <3> QED BY <1>2, <3>1
  <2> QED BY <1>1, <2>1, <2>2, <2>3 DEF OpenInv
<1>6. OldInv'
  <2> SUFFICES ASSUME kind \in {"kimi", "pi"}, ~ ad.closed, NEW i \in DOMAIN up',
                      IsOld(up'[i])
               PROVE  \E j \in DOMAIN up' : j > i /\ IsReply(up'[j], {"open"})
    BY <1>1 DEF OldInv
  <2>1. PICK j \in DOMAIN up : j > i /\ IsReply(up[j], {"open"})
    BY <1>1, <1>4 DEF OldInv
  <2> QED BY <1>3, <2>1
<1> QED BY <1>5, <1>6

\* The session is opened, or could not be.
LEMMA ServesOpen ==
  ASSUME HarnessInv, down # <<>>, Head(down) = "open", down' = Tail(down),
         UNCHANGED coreVars, NEW m \in Message, m.what = "reply", m.of = "open",
         up' = up \o <<m>>
  PROVE  OpenInv' /\ OldInv'
<1>1. /\ TypeInv /\ OpenInv /\ OldInv
      /\ UNCHANGED <<kind, stage, ad, todo>>
  BY DEF HarnessInv, BaseInv
<1>2. /\ \A i \in DOMAIN down' : i + 1 \in DOMAIN down /\ down'[i] = down[i + 1]
                                 /\ i \in Nat \ {0}
      /\ down[1] = "open" /\ 1 \in DOMAIN down
  BY <1>1, DownTail
<1>3. /\ stage = "open" /\ ~ Brings(up, {"open"}) /\ ~ Brings(todo, {"open"})
      /\ ~ Has(down', {"open"})
  <2>1. Has(down, {"open"})
    BY <1>2 DEF Has
  <2>2. ASSUME NEW i \in DOMAIN down', down'[i] = "open" PROVE FALSE
    <3>1. i + 1 = 1
      BY <1>1, <1>2, <2>2 DEF OpenInv
    <3> QED BY <1>2, <3>1
  <2> QED BY <1>1, <2>1, <2>2 DEF OpenInv, Has
<1>4. /\ Len(up) \in Nat /\ DOMAIN up = 1 .. Len(up)
      /\ Len(up) + 1 \in DOMAIN up' /\ up'[Len(up) + 1] = m
      /\ \A i \in DOMAIN up' : (i \in DOMAIN up /\ up'[i] = up[i]) \/ i = Len(up) + 1
  <2>1. <<m>> \in Seq(Message) /\ DOMAIN <<m>> = 1 .. 1 /\ <<m>>[1] = m
    BY Told
  <2>2. /\ Len(up) \in Nat /\ DOMAIN up = 1 .. Len(up)
        /\ DOMAIN up' = 1 .. Len(up) + Len(<<m>>)
        /\ \A i \in DOMAIN up : up'[i] = up[i]
        /\ \A i \in DOMAIN up' : i \in DOMAIN up \/ i - Len(up) \in DOMAIN <<m>>
        /\ \A j \in DOMAIN <<m>> : Len(up) + j \in DOMAIN up' /\ up'[Len(up) + j] = <<m>>[j]
    BY <1>1, <2>1, SaysEffect
  <2>3. 1 \in DOMAIN <<m>>
    BY <2>1
  <2>4. \A i \in DOMAIN up' : i - Len(up) \in 1 .. 1 => i = Len(up) + 1
    BY <2>2
  <2> QED BY <2>1, <2>2, <2>3, <2>4
<1>5. OpenInv'
  <2>1. \A i \in DOMAIN up' : IsReply(up'[i], {"open"}) => i = Len(up) + 1
    BY <1>3, <1>4 DEF Brings
  <2>2. ~ Brings(todo, {"open"})' /\ ~ Has(down, {"open"})'
    BY <1>1, <1>3 DEF Brings, Has
  <2>3. \A i \in DOMAIN down' : down'[i] # "open"
    BY <1>3 DEF Has
  <2> QED BY <1>1, <1>3, <2>1, <2>2, <2>3 DEF OpenInv
<1>6. OldInv'
  <2> SUFFICES ASSUME kind \in {"kimi", "pi"}, ~ ad.closed, NEW i \in DOMAIN up',
                      IsOld(up'[i])
               PROVE  \E j \in DOMAIN up' : j > i /\ IsReply(up'[j], {"open"})
    BY <1>1 DEF OldInv
  <2>1. i \in DOMAIN up
    BY <1>4 DEF IsOld, Notes
  <2>2. Len(up) + 1 > i
    BY <1>4, <2>1
  <2> QED BY <1>4, <2>2 DEF IsReply
<1> QED BY <1>5, <1>6

LEMMA ServesStep ==
  ASSUME HarnessInv, Serves
  PROVE  HarnessInv'
<1> DEFINE q == Head(down)
<1>1. /\ BaseInv /\ TypeInv /\ PromptInv /\ AgentInv /\ ag \in AgentStates /\ kind \in Kinds
  BY DEF HarnessInv, BaseInv, TypeInv
<1>2. /\ down # <<>> /\ down' = Tail(down) /\ UNCHANGED coreVars
      /\ UNCHANGED <<kind, stage, ad, todo>>
  BY DEF Serves
<1>3. /\ down' \in Seq(Requests) /\ q \in Requests
      /\ q = down[1] /\ 1 \in DOMAIN down
      /\ \A i \in DOMAIN down' : /\ i + 1 \in DOMAIN down /\ down'[i] = down[i + 1]
                                 /\ i \in Nat \ {0}
  BY <1>1, <1>2, DownTail
<1>4. /\ q = "prompt" => ag.turn = "none" /\ stage \notin Chain \cup {"saving"}
      /\ q = "prompt" => ~ Has(down', {"prompt"})
      /\ Has(down', {"prompt"}) => Has(down, {"prompt"})
      /\ \A i, j \in DOMAIN down' : down'[i] = "prompt" /\ down'[j] = "prompt" => i = j
  <2>1. q = "prompt" => Has(down, {"prompt"})
    BY <1>3 DEF Has
  <2>2. ASSUME q = "prompt", NEW i \in DOMAIN down', down'[i] = "prompt" PROVE FALSE
    <3>1. i + 1 = 1
      BY <1>1, <1>3, <2>2 DEF PromptInv
    <3> QED BY <1>3, <3>1
  <2>3. ASSUME NEW i \in DOMAIN down', NEW j \in DOMAIN down',
               down'[i] = "prompt", down'[j] = "prompt"
        PROVE  i = j
    <3>1. i + 1 = j + 1
      BY <1>1, <1>3, <2>3 DEF PromptInv
    <3> QED BY <1>3, <3>1
  <2>4. Has(down', {"prompt"}) => Has(down, {"prompt"})
    BY <1>3 DEF Has
  <2>5. q = "prompt" => ~ Has(down', {"prompt"})
    BY <2>2 DEF Has
  <2>6. q = "prompt" => ag.turn = "none" /\ stage \notin Chain \cup {"saving"}
    BY <1>1, <2>1 DEF PromptInv
  <2> QED BY <2>3, <2>4, <2>5, <2>6
<1> HIDE DEF q
\* What is served says nothing of a turn that has ended, and the turn begins at
\* most.
<1>5. ASSUME NEW ms \in Seq(Message), up' = up \o ms, Len(ms) <= 2,
             \A i \in DOMAIN ms : /\ ms[i].what \in {"reply", "started"}
                                  /\ Fits(ms[i])' /\ ~ IsOld(ms[i]),
             OpenInv' /\ OldInv',
             ag' \in AgentStates, ag'.last = ag.last, ag'.ending = ag.ending,
             \/ ag'.turn = ag.turn /\ ag'.owes = ag.owes
             \/ q = "prompt" /\ ag'.turn = "running"
      PROVE  HarnessInv'
  <2>1. AgentGrows
    BY <1>4, <1>5 DEF AgentGrows
  <2>2. AgentInv'
    BY <1>1, <1>4, <1>5 DEF AgentInv
  <2>3. PromptInv'
    BY <1>1, <1>2, <1>4, <1>5 DEF PromptInv, Has
  <2>4. PiInv'
    <3>1. ag'.turn = "ended" <=> ag.turn = "ended"
      BY <1>4, <1>5
    <3>2. \A i \in DOMAIN ms : ms[i].what \notin {"last", "completed"}
      BY <1>5
    <3> QED BY <1>2, <1>5, <3>1, <3>2, PiSays
  <2> QED BY <1>2, <1>3, <1>5, <2>1, <2>2, <2>3, <2>4, AgentSays
\* Nothing is said that opens the session.
<1>6. ASSUME q # "open", NEW ms \in Seq(Message), up' = up \o ms,
             \A i \in DOMAIN ms : ~ IsReply(ms[i], {"open"}) /\ ~ IsOld(ms[i])
      PROVE  OpenInv' /\ OldInv'
  BY <1>2, <1>6, ServesOther DEF q
<1>7. CASE /\ q \notin {"prompt", "cancel"} /\ \E ok \in BOOLEAN : Tells(<<Reply(q, ok)>>)
           /\ ag' = [ag EXCEPT !.told = @ \/ q \in Interrupts]
  <2>1. PICK ok \in BOOLEAN : up' = up \o <<Reply(q, ok)>>
    BY <1>7 DEF Tells
  <2>2. PICK m : m = Reply(q, ok)
    OBVIOUS
  <2>3. m \in Message /\ m.what = "reply" /\ m.of = q
    BY <1>3, <2>2 DEF Reply, Message
  <2>4. PICK ms : ms = <<m>>
    OBVIOUS
  <2>5. /\ ms \in Seq(Message) /\ Len(ms) <= 2 /\ \A i \in DOMAIN ms : ms[i] = m
        /\ up' = up \o ms
    BY <2>1, <2>2, <2>3, <2>4, OneSaying
  <2>6. Fits(m)' /\ ~ IsOld(m)
    BY <1>7, <2>3 DEF Fits, IsReply, IsOld, Notes
  <2>7. OpenInv' /\ OldInv'
    <3>1. CASE q = "open"
      <4>1. up' = up \o <<m>>
        BY <2>1, <2>2
      <4> QED BY <1>2, <2>3, <3>1, <4>1, ServesOpen DEF q
    <3>2. CASE q # "open"
      BY <1>6, <2>3, <2>5, <2>6, <3>2 DEF IsReply
    <3> QED BY <3>1, <3>2
  <2>8. /\ ag' \in AgentStates /\ ag'.last = ag.last /\ ag'.ending = ag.ending
        /\ ag'.turn = ag.turn /\ ag'.owes = ag.owes
    <3>1. (ag.told \/ q \in Interrupts) \in BOOLEAN
      OBVIOUS
    <3> QED BY <1>1, <1>7, <3>1 DEF AgentStates
  <2> QED BY <1>5, <2>3, <2>5, <2>6, <2>7, <2>8
<1>8. CASE q = "open" /\ Tells(<<[Reply(q, TRUE) EXCEPT !.turn = "old"]>>) /\ UNCHANGED ag
  <2>1. PICK m : m = [Reply(q, TRUE) EXCEPT !.turn = "old"]
    OBVIOUS
  <2>2. m \in Message /\ m.what = "reply" /\ m.of = "open"
    BY <1>3, <1>8, <2>1 DEF Reply, Message
  <2>3. PICK ms : ms = <<m>>
    OBVIOUS
  <2>4. /\ ms \in Seq(Message) /\ Len(ms) <= 2 /\ \A i \in DOMAIN ms : ms[i] = m
        /\ up' = up \o ms /\ up' = up \o <<m>>
    <3>1. up' = up \o <<m>>
      BY <1>8, <2>1 DEF Tells
    <3>2. ms \in Seq(Message) /\ Len(ms) = 1 /\ \A i \in DOMAIN ms : ms[i] = m
      BY <2>2, <2>3, OneSaying
    <3> QED BY <2>3, <3>1, <3>2
  <2>5. Fits(m)' /\ ~ IsOld(m)
    BY <2>2 DEF Fits, IsReply, IsOld, Notes
  <2>6. OpenInv' /\ OldInv'
    BY <1>2, <1>8, <2>2, <2>4, ServesOpen DEF q
  <2> QED BY <1>1, <1>5, <1>8, <2>2, <2>4, <2>5, <2>6
<1>9. CASE q = "cancel" /\ ag' = [ag EXCEPT !.told = TRUE] /\ UNCHANGED up
  <2>1. PICK ms : ms = <<>>
    OBVIOUS
  <2>2. ms \in Seq(Message) /\ Len(ms) <= 2 /\ (\A i \in DOMAIN ms : FALSE) /\ up' = up \o ms
    <3>1. up \in Seq(Message)
      BY <1>1 DEF TypeInv
    <3>2. up \o <<>> = up
      BY <3>1, ConcatEmptySeq
    <3> QED BY <1>9, <2>1, <3>2
  <2>3. OpenInv' /\ OldInv'
    BY <1>6, <1>9, <2>2
  <2>4. /\ ag' \in AgentStates /\ ag'.last = ag.last /\ ag'.ending = ag.ending
        /\ ag'.turn = ag.turn /\ ag'.owes = ag.owes
    BY <1>1, <1>9 DEF AgentStates
  <2> QED BY <1>5, <2>2, <2>3, <2>4
<1>10. CASE q = "prompt" /\ Tells(<<Reply(q, FALSE)>>) /\ UNCHANGED ag
  <2>1. PICK m : m = Reply(q, FALSE)
    OBVIOUS
  <2>2. m \in Message /\ m.what = "reply" /\ m.of = "prompt" /\ m.turn = "own" /\ ~ m.ok
    BY <1>3, <1>10, <2>1 DEF Reply, Message
  <2>3. PICK ms : ms = <<m>>
    OBVIOUS
  <2>4. /\ ms \in Seq(Message) /\ Len(ms) <= 2 /\ \A i \in DOMAIN ms : ms[i] = m
        /\ up' = up \o ms
    <3>1. up' = up \o <<m>>
      BY <1>10, <2>1 DEF Tells
    <3>2. ms \in Seq(Message) /\ Len(ms) = 1 /\ \A i \in DOMAIN ms : ms[i] = m
      BY <2>2, <2>3, OneSaying
    <3> QED BY <2>3, <3>1, <3>2
  <2>5. Fits(m)' /\ ~ IsOld(m) /\ ~ IsReply(m, {"open"})
    BY <2>2 DEF Fits, IsReply, IsOld, Notes
  <2>6. OpenInv' /\ OldInv'
    BY <1>6, <1>10, <2>4, <2>5
  <2> QED BY <1>1, <1>5, <1>10, <2>2, <2>4, <2>5, <2>6
<1>11. CASE q = "prompt" /\ Begins
  <2> DEFINE started == IF kind \in {"codex", "zcode"}
                        THEN <<Note("started", "own", "none")>> ELSE <<>>
  <2>1. PICK m : m = Reply("prompt", TRUE)
    OBVIOUS
  <2>2. m \in Message /\ m.what = "reply" /\ m.of = "prompt" /\ m.turn = "own"
    BY <1>3, <1>11, <2>1 DEF Reply, Message
  <2>3. PICK s : s = Note("started", "own", "none")
    OBVIOUS
  <2>4. s \in Message /\ s.what = "started" /\ s.turn = "own"
    BY <2>3, Sayings DEF Notes
  <2>5. /\ started \in Seq(Message) /\ Len(started) <= 1
        /\ \A i \in DOMAIN started : started[i] = s
    BY <2>3, <2>4, OneSaying
  <2> HIDE DEF started
  <2>6. ag'.turn = "running" /\ ag' \in AgentStates /\ ag'.last = ag.last
        /\ ag'.ending = ag.ending
    <3>1. CASE ag' = [ag EXCEPT !.turn = "running", !.owes = TRUE]
      BY <1>1, <3>1 DEF AgentStates
    <3>2. CASE ag' = [ag EXCEPT !.turn = "running"]
      BY <1>1, <3>2 DEF AgentStates
    <3> QED BY <1>11, <3>1, <3>2 DEF Begins
  <2>7. /\ Fits(s)' /\ ~ IsOld(s) /\ ~ IsReply(s, {"open"})
        /\ kind \notin {"kimi", "dsh"} => Fits(m)'
        /\ ~ IsOld(m) /\ ~ IsReply(m, {"open"})
    BY <1>2, <2>2, <2>4, <2>6 DEF Fits, IsReply, IsOld, Notes
  <2>8. PICK ms \in Seq(Message) :
          /\ up' = up \o ms /\ Len(ms) <= 2
          /\ \A i \in DOMAIN ms : ms[i] = s \/ (ms[i] = m /\ kind \notin {"kimi", "dsh"})
    <3>1. CASE Tells(started)
      BY <2>5, <3>1, SMTT(30) DEF Tells
    <3>2. CASE kind \notin {"kimi", "dsh"} /\ Tells(<<m>> \o started)
      <4>1. PICK x : x = <<m>>
        OBVIOUS
      <4>2. x \in Seq(Message) /\ Len(x) = 1 /\ \A i \in DOMAIN x : x[i] = m
        BY <2>2, <4>1, OneSaying
      <4>3. /\ x \o started \in Seq(Message)
            /\ Len(x \o started) = Len(x) + Len(started) /\ Len(started) \in Nat
            /\ \A i \in DOMAIN x : (x \o started)[i] = x[i]
            /\ \A i \in DOMAIN (x \o started) :
                 i \in DOMAIN x \/ (i - Len(x) \in DOMAIN started
                                    /\ (x \o started)[i] = started[i - Len(x)])
        BY <2>5, <4>2, ConcatFacts
      <4>4. PICK ms : ms = x \o started
        OBVIOUS
      <4>5. /\ ms \in Seq(Message) /\ Len(ms) <= 2 /\ up' = up \o ms
            /\ \A i \in DOMAIN ms : ms[i] = s \/ ms[i] = m
        BY <2>5, <3>2, <4>1, <4>2, <4>3, <4>4 DEF Tells
      <4> QED BY <3>2, <4>5
    <3> QED BY <1>11, <2>1, <3>1, <3>2 DEF Begins, started
  <2>9. \A i \in DOMAIN ms : /\ ms[i].what \in {"reply", "started"} /\ Fits(ms[i])'
                             /\ ~ IsOld(ms[i]) /\ ~ IsReply(ms[i], {"open"})
    BY <2>2, <2>4, <2>7, <2>8
  <2>10. OpenInv' /\ OldInv'
    BY <1>6, <1>11, <2>8, <2>9
  <2> QED BY <1>5, <1>11, <2>6, <2>8, <2>9, <2>10
<1> QED BY <1>7, <1>8, <1>9, <1>10, <1>11 DEF Serves, q

-----------------------------------------------------------------------------
(* The invariant.                                                            *)

LEMMA HarnessInit == Init => HarnessInv
<1> SUFFICES ASSUME Init PROVE HarnessInv
  OBVIOUS
<1> DEFINE r == Head(Preparation)
<1>1. kind \in Kinds /\ r \in Chain
  BY ChainOrder DEF Init
<1> HIDE DEF r
<1>2. /\ stage = r /\ pending = {r} /\ down = <<r>> /\ up = <<>> /\ todo = <<>>
      /\ reading = FALSE
  BY DEF Init, r
<1>3. /\ be = [accepted |-> FALSE, outcome |-> "none", end |-> "no", cancelled |-> FALSE]
      /\ ad = [active |-> FALSE, turn |-> "none", accepted |-> FALSE, last |-> "none",
               terminal |-> FALSE, cancelled |-> FALSE, sent |-> FALSE,
               uncertain |-> FALSE, closed |-> FALSE, early |-> <<>>]
      /\ ag = [turn |-> "none", ending |-> "none", last |-> "none",
               owes |-> FALSE, texts |-> 0, old |-> 0, told |-> FALSE]
  BY DEF Init
<1>4. r \in Requests /\ r \in Line /\ <<r>> \in Seq(Requests) /\ DOMAIN <<r>> = {1}
      /\ <<r>>[1] = r /\ r # "prompt"
  BY <1>1 DEF Requests, Line, Chain
<1>5. ad \in AdapterStates /\ be \in BackendStates /\ ag \in AgentStates
  <2>1. <<>> \in Seq(Message)
    OBVIOUS
  <2> QED BY <1>3, <2>1 DEF AdapterStates, BackendStates, AgentStates
<1>6. TypeInv
  <2>1. todo \in Seq(Errand) /\ up \in Seq(Message) /\ reading \in BOOLEAN
    <3>1. \A S : <<>> \in Seq(S)
      OBVIOUS
    <3> QED BY <1>2, <3>1
  <2>2. /\ stage \in Line \cup {"saving", "running", "failed"}
        /\ pending \subseteq Requests /\ down \in Seq(Requests)
    BY <1>2, <1>4
  <2> QED BY <1>1, <1>5, <2>1, <2>2 DEF TypeInv
<1>7. ChainInv /\ OpenInv
  BY <1>2, <1>4 DEF ChainInv, OpenInv, Has, Brings
<1>8. PromptInv
  BY <1>2, <1>3, <1>4 DEF PromptInv, Has
<1>9. MessageInv /\ AgentInv /\ OldInv /\ EarlyInv /\ EndInv
  BY <1>2, <1>3 DEF MessageInv, Around, AgentInv, OldInv, EarlyInv, EndInv
<1>10. PiInv
  BY <1>3 DEF PiInv, Deaf
<1> QED BY <1>6, <1>7, <1>8, <1>9, <1>10 DEF HarnessInv, BaseInv

LEMMA HarnessStutters ==
  ASSUME HarnessInv, UNCHANGED vars
  PROVE  HarnessInv'
<1>1. UNCHANGED <<kind, stage, be, ad, pending, todo, reading, down, up, ag>>
  BY DEF vars
<1>2. BaseInv
  BY DEF HarnessInv
<1> QED BY <1>1, <1>2, EarUnchanged, QuietCore

LEMMA HarnessStep ==
  ASSUME HarnessInv, [Next]_vars
  PROVE  HarnessInv'
<1>1. CASE Receives
  BY <1>1, ReceivesStep
<1>2. CASE Continues
  BY <1>2, ContinuesStep
<1>3. CASE Backend
  BY <1>3, SavesStep, CancelStep, TimerStep DEF Backend
<1>4. CASE Agent
  BY <1>4, ReplaysStep, ServesStep, AcknowledgesStep, WritesStep, AsksStep, TurnEndsStep
     DEF Agent
<1>5. CASE UNCHANGED vars
  BY <1>5, HarnessStutters
<1> QED BY <1>1, <1>2, <1>3, <1>4, <1>5 DEF Next

\* What is known of an execution in every state: the values of its variables, where
\* the requests of the ready chain are, which turn a message can be about, and
\* what pi will take for its last message.
THEOREM HarnessAlwaysFits == Spec => []HarnessInv
BY HarnessInit, HarnessStep, PTL DEF Spec

-----------------------------------------------------------------------------
(* A permission is granted in time.                                          *)

\* kimi is granted no permission after its turn was cancelled or is over.
THEOREM GrantsAreAlwaysTimely == Spec => GrantsAreTimely
<1>1. ASSUME HarnessInv, [Next]_vars
      PROVE  [kind = "kimi" /\ grant' = "allowed" /\ grant # "allowed" =>
                ~be.cancelled /\ ~ad.terminal /\ be.outcome = "none"]_vars
  <2> SUFFICES ASSUME kind = "kimi", grant' = "allowed", grant # "allowed"
               PROVE  ~be.cancelled /\ ~ad.terminal /\ be.outcome = "none"
    OBVIOUS
  <2>1. Decides
    BY <1>1 DEF Next, Receives, Continues, Backend, Saves, Cancel, Timeout, GivesUp,
       Stops, Agent, Replays, Serves, Acknowledges, Writes, Asks, TurnEnds, vars
  <2>2. ~ Deaf /\ ~ ad.cancelled
    BY <2>1 DEF Decides, Answerable
  <2> QED BY <1>1, <2>2 DEF HarnessInv, BaseInv, EndInv, Deaf
<1> QED BY <1>1, HarnessAlwaysFits, PTL DEF Spec, GrantsAreTimely

-----------------------------------------------------------------------------
(* What the coordinator is told is true of the agent.                        *)

Kept == Promise!Next \/ UNCHANGED <<ag.turn, Reading(kind)[ag.ending],
                                   [accepted |-> be.accepted, outcome |-> be.outcome,
                                    end |-> be.end]>>

\* The backend hears nothing, or that the execution is broken.
LEMMA KeptBroken ==
  ASSUME TypeInv, UNCHANGED <<kind, ag>>, be' = be \/ Breaks
  PROVE  Kept
<1>1. be \in BackendStates
  BY DEF TypeInv
<1>2. CASE be' = be
  BY <1>2 DEF Kept
<1>3. CASE be.end = "no" /\ be' = [be EXCEPT !.end = "broken"]
  <2>1. be'.accepted = be.accepted /\ be'.outcome = be.outcome /\ be'.end = "broken"
    BY <1>1, <1>3 DEF BackendStates
  <2>2. Promise!Breaks
    BY <1>3, <2>1 DEF Promise!Breaks
  <2> QED BY <2>2 DEF Kept, Promise!Next
<1> QED BY <1>2, <1>3 DEF Breaks

LEMMA KeptAccepted ==
  ASSUME TypeInv, UNCHANGED <<kind, ag>>, ag.turn # "none", Accepts
  PROVE  Kept
<1>1. be \in BackendStates
  BY DEF TypeInv
<1>2. CASE be' = be
  BY <1>2 DEF Kept
<1>3. CASE be.end = "no" /\ be' = [be EXCEPT !.accepted = TRUE]
  <2>1. be'.accepted = TRUE /\ be'.outcome = be.outcome /\ be'.end = be.end
    BY <1>1, <1>3 DEF BackendStates
  <2>2. [accepted |-> be'.accepted, outcome |-> be'.outcome, end |-> be'.end]
          = [[accepted |-> be.accepted, outcome |-> be.outcome, end |-> be.end]
             EXCEPT !.accepted = TRUE]
    <3>1. \A a, v, o, e : [accepted |-> v, outcome |-> o, end |-> e]
                            = [[accepted |-> a, outcome |-> o, end |-> e]
                               EXCEPT !.accepted = v]
      OBVIOUS
    <3>2. PICK v : v = TRUE
      OBVIOUS
    <3>3. [accepted |-> be'.accepted, outcome |-> be'.outcome, end |-> be'.end]
            = [accepted |-> v, outcome |-> be.outcome, end |-> be.end]
      BY <2>1, <3>2
    <3>4. [accepted |-> be'.accepted, outcome |-> be'.outcome, end |-> be'.end]
            = [[accepted |-> be.accepted, outcome |-> be.outcome, end |-> be.end]
               EXCEPT !.accepted = v]
      BY <3>1, <3>3
    <3> QED BY <3>2, <3>4
  <2>3. Promise!Accepts
    BY <1>3, <2>2 DEF Promise!Accepts
  <2> QED BY <2>3 DEF Kept, Promise!Next
<1> QED BY <1>2, <1>3 DEF Accepts

LEMMA KeptSettled ==
  ASSUME TypeInv, UNCHANGED <<kind, ag>>, ag.turn = "ended",
         NEW e \in Ending \cup {"none"}, Reading(kind)[e] # "none", SameReading(e),
         Settles(Reading(kind)[e])
  PROVE  Kept
<1>1. be \in BackendStates /\ kind \in Kinds
  BY DEF TypeInv
<1> DEFINE o == Reading(kind)[e]
<1>2. o \in Outcome /\ Reading(kind)[ag.ending] = o
  BY <1>1, Readings DEF SameReading
<1> HIDE DEF o
<1>3. CASE be' = be
  BY <1>3 DEF Kept
<1>4. CASE /\ be.end = "no"
           /\ be' = [be EXCEPT !.accepted = TRUE, !.outcome = o, !.end = "clean"]
  <2>1. be'.accepted = TRUE /\ be'.outcome = o /\ be'.end = "clean"
    BY <1>1, <1>4 DEF BackendStates
  <2>2. Promise!Settles
    BY <1>2, <1>4, <2>1 DEF Promise!Settles
  <2> QED BY <2>2 DEF Kept, Promise!Next
<1> QED BY <1>3, <1>4 DEF Settles, o

\* A notification that is handled, neither about an old turn of pi nor of kimi.
LEMMA KeptHeard ==
  ASSUME BaseInv, UNCHANGED <<kind, ag>>, NEW m \in Message, m.what \in Notes, Fits(m),
         ~ Deaf /\ kind \in {"kimi", "pi"} => ~ IsOld(m),
         NEW inChunk \in BOOLEAN, Hears(m, inChunk),
         kind = "pi" /\ ~ Deaf /\ ~ Early /\ m.what = "completed" => SameReading(ad.last)
  PROVE  Kept
<1>1. /\ TypeInv /\ EarlyInv /\ kind \in {"codex", "kimi", "dsh", "pi", "zcode"}
      /\ ad \in AdapterStates
  BY DEF BaseInv, TypeInv
<1>2. m.turn \in {"own", "old"} /\ m.ending \in Ending \cup {"none"}
      /\ ad.last \in Ending \cup {"none"} /\ ad.turn \in {"none", "own"}
  BY <1>1 DEF Message, AdapterStates
<1>3. Disconnects(ad) \/ Fails(inChunk) => Kept
  BY <1>1, KeptBroken DEF Disconnects, Fails
<1>4. UNCHANGED be => Kept
  BY <1>1, KeptBroken
<1>5. ad.turn # "none" \/ m.turn = "own" => ag.turn # "none"
  BY <1>1 DEF EarlyInv, Fits
<1>6. Accepts /\ ag.turn # "none" => Kept
  BY <1>1, KeptAccepted
<1>7. m.what = "completed" /\ m.turn = "own" => ag.turn = "ended"
  BY DEF Fits
<1>8. CASE Deaf /\ UNCHANGED <<ad, be, pending>>
  BY <1>4, <1>8
<1>9. CASE ~ Deaf /\ Early /\ Keeps(m, inChunk)
  BY <1>3, <1>4, <1>9 DEF Keeps
<1>10. ASSUME ~ Deaf, ~ Early, kind = "codex", CodexHears(m, inChunk) PROVE Kept
  <2>1. ad.turn = "own" /\ ag.turn # "none"
    BY <1>2, <1>5, <1>10 DEF Early
  <2>2. CASE m.turn = ad.turn /\ m.what = "completed" /\ Finishes(m.ending)
             /\ Reading(kind)[m.ending] # "none"
    <3>1. ag.turn = "ended" /\ SameReading(m.ending)
      BY <1>7, <1>10, <2>1, <2>2 DEF Fits, SameReading
    <3> QED BY <1>1, <1>2, <2>2, <3>1, KeptSettled DEF Finishes
  <2> QED BY <1>3, <1>4, <1>6, <1>10, <2>1, <2>2 DEF CodexHears
<1>11. ASSUME ~ Deaf, ~ Early, kind = "pi", PiHears(m, inChunk) PROVE Kept
  <2>1. m.turn = "own" /\ ag.turn # "none"
    BY <1>2, <1>5, <1>11 DEF IsOld
  <2>2. CASE m.what = "completed" /\ Reading(kind)[ad.last] # "none" /\ Finishes(ad.last)
    <3>1. ag.turn = "ended" /\ SameReading(ad.last)
      BY <1>7, <1>11, <2>1, <2>2
    <3> QED BY <1>1, <1>2, <2>2, <3>1, KeptSettled DEF Finishes
  <2> QED BY <1>3, <1>4, <1>6, <1>11, <2>1, <2>2 DEF PiHears
<1>12. ASSUME ~ Deaf, kind \in {"kimi", "dsh"}, AcpHears(m) PROVE Kept
  <2>1. m.turn = "own"
    BY <1>2, <1>12 DEF IsOld, Fits
  <2> QED BY <1>5, <1>6, <1>12, <2>1 DEF AcpHears
<1>13. ASSUME ~ Deaf, kind = "zcode", ZcodeHears(m) PROVE Kept
  <2>1. CASE m.what = "completed" /\ m.turn = ad.turn /\ Finishes(m.ending)
             /\ Reading(kind)[m.ending] # "none"
    <3>1. m.turn = "own"
      BY <1>2, <2>1
    <3>2. ag.turn = "ended" /\ SameReading(m.ending)
      BY <1>7, <1>13, <2>1, <3>1 DEF Fits, SameReading
    <3> QED BY <1>1, <1>2, <2>1, <3>2, KeptSettled DEF Finishes
  <2> QED BY <1>4, <1>5, <1>6, <1>13, <2>1 DEF ZcodeHears
<1> QED BY <1>8, <1>9, <1>10, <1>11, <1>12, <1>13 DEF Hears

LEMMA KeptReceives ==
  ASSUME HarnessInv, Receives
  PROVE  Kept
<1>1. BaseInv /\ TypeInv /\ PiInv /\ MessageInv /\ up \in Seq(Message) /\ todo \in Seq(Errand)
  BY DEF HarnessInv, BaseInv, TypeInv
<1>2. /\ ~ ad.closed /\ up # <<>> /\ (todo = <<>> \/ reading) /\ UNCHANGED <<kind, ag>>
  BY DEF Receives
<1>3. CASE UNCHANGED be
  BY <1>1, <1>2, <1>3, KeptBroken
<1>4. CASE Head(up).what \notin {"reply", "ask"} /\ Hears(Head(up), TRUE)
  <2> DEFINE m == Head(up)
  <2>1. m \in Message /\ m.what \in Notes /\ m = up[1] /\ 1 \in DOMAIN up /\ Fits(m)
    <3>1. m \in Message /\ m = up[1] /\ 1 \in DOMAIN up
      BY <1>1, <1>2, TailFacts
    <3> QED BY <1>1, <1>4, <3>1 DEF Message, Notes, MessageInv, Around
  <2>2. ~ Deaf /\ kind \in {"kimi", "pi"} => ~ IsOld(m)
    BY <1>1, <1>2, <2>1, ActiveStage, NoOldTurn DEF Deaf
  <2>3. Hears(m, TRUE)
    BY <1>4
  <2> HIDE DEF m
  <2>4. ASSUME kind = "pi", ~ Deaf, ~ Early, m.what = "completed" PROVE SameReading(ad.last)
    <3>1. ad.accepted /\ Unheard = todo
      BY <2>4 DEF Early, Unheard
    <3>2. PICK e \in Ending \cup {"none"} : Reaches(1 - 1, e) /\ SameReading(e)
      BY <1>1, <1>2, <2>1, <2>4 DEF PiInv
    <3>3. PICK c \in Ending \cup {"none"} :
            Leads(todo, Len(todo), ad.last, c) /\ Leads(up, 1 - 1, c, e)
      BY <3>1, <3>2 DEF Reaches
    <3>4. e = c
      BY <3>3 DEF Leads
    <3>5. Len(todo) \in Nat /\ \A i \in 1 .. Len(todo) : todo[i].what # "last"
      BY <1>1, <1>2, NoNotes DEF Notes
    <3>6. c = ad.last
      BY <3>3, <3>5, LeadsNowhere
    <3> QED BY <3>2, <3>4, <3>6
  <2> QED BY <1>1, <1>2, <2>1, <2>2, <2>3, <2>4, KeptHeard
<1> QED BY <1>3, <1>4 DEF Receives

LEMMA KeptContinues ==
  ASSUME HarnessInv, Continues
  PROVE  Kept
<1> DEFINE m == Head(todo)
<1>1. /\ BaseInv /\ TypeInv /\ PiInv /\ MessageInv /\ EarlyInv /\ EndInv
      /\ up \in Seq(Message) /\ todo \in Seq(Errand)
  BY DEF HarnessInv, BaseInv, TypeInv
<1>2. todo # <<>> /\ UNCHANGED <<kind, ag>>
  BY DEF Continues
<1>3. m \in Errand /\ m = todo[1] /\ 1 \in DOMAIN todo /\ Fits(m)
  <2>1. m \in Errand /\ m = todo[1] /\ 1 \in DOMAIN todo
    BY <1>1, <1>2, TailFacts
  <2> QED BY <1>1, <2>1 DEF MessageInv, Around
<1>4. m.what # "interrupt" => m \in Message
  BY <1>3 DEF Errand, Note, Reply
<1>5. CASE be' = be \/ Breaks
  BY <1>1, <1>2, <1>5, KeptBroken
<1>6. CASE m.what \in Notes /\ Hears(m, FALSE)
  <2>1. m \in Message /\ kind \in {"codex", "pi"}
        /\ (kind = "pi" => ad.accepted /\ ~ IsOld(m))
    BY <1>1, <1>3, <1>4, <1>6 DEF EarlyInv, Notes
  <2> HIDE DEF m
  <2>2. ASSUME kind = "pi", ~ Deaf, ~ Early, m.what = "completed" PROVE SameReading(ad.last)
    <3>1. ad.accepted /\ Unheard = todo /\ ~ ad.closed
      BY <1>1, <2>2 DEF Early, Unheard, Deaf, EndInv
    <3>2. PICK e \in Ending \cup {"none"} : Leads(todo, 1 - 1, ad.last, e) /\ SameReading(e)
      BY <1>1, <1>3, <2>2, <3>1 DEF PiInv
    <3>3. e = ad.last
      BY <3>2 DEF Leads
    <3> QED BY <3>2, <3>3
  <2> QED BY <1>1, <1>2, <1>3, <1>6, <2>1, <2>2, KeptHeard
<1>7. CASE m.what = "reply" /\ m.of = "prompt" /\ PromptAnswered(m)
  <2>0. IsReply(m, {"prompt"})
    BY <1>7 DEF IsReply
  <2>1. m \in Message /\ (m.ok => ag.turn # "none")
        /\ (m.ok /\ kind \in {"kimi", "dsh"} => ag.turn = "ended" /\ m.ending = ag.ending)
    BY <1>3, <1>4, <1>7, <2>0 DEF Fits
  <2> HIDE DEF m
  <2>2. CASE StartFails(m)
    BY <1>1, <1>2, <2>2, KeptBroken DEF StartFails, Disconnects
  <2>3. CASE /\ m.ok /\ kind \in {"kimi", "dsh"} /\ Reading(kind)[m.ending] # "none"
             /\ Finishes(m.ending)
    <3>1. m.ending \in Ending \cup {"none"} /\ SameReading(m.ending) /\ ag.turn = "ended"
      BY <2>1, <2>3 DEF Message, SameReading
    <3> QED BY <1>1, <1>2, <2>3, <3>1, KeptSettled DEF Finishes
  <2>4. CASE UNCHANGED be
    BY <1>1, <1>2, <2>4, KeptBroken
  <2>5. CASE m.ok /\ Accepts
    BY <1>1, <1>2, <2>1, <2>5, KeptAccepted
  <2> QED BY <1>7, <2>2, <2>3, <2>4, <2>5 DEF PromptAnswered
<1>8. CASE Prepares(m)
  BY <1>5, <1>8 DEF Prepares, StartFails, Disconnects
<1>9. CASE CancelAnswered(m)
  BY <1>5, <1>9 DEF CancelAnswered, Disconnects
<1> QED BY <1>5, <1>6, <1>7, <1>8, <1>9 DEF Continues, Notes

LEMMA KeptAgent ==
  ASSUME HarnessInv, Agent
  PROVE  Kept
<1>1. TypeInv /\ AgentInv /\ PromptInv /\ ag \in AgentStates /\ kind \in Kinds
  BY DEF HarnessInv, BaseInv, TypeInv
<1>2. UNCHANGED <<kind, be>>
  BY DEF Agent, Replays, Serves, Acknowledges, Writes, Asks, TurnEnds
<1>3. CASE ag'.turn = ag.turn /\ ag'.ending = ag.ending
  BY <1>2, <1>3 DEF Kept
<1>4. CASE ag.turn = "none" /\ ag'.turn = "running" /\ ag'.ending = ag.ending
  <2>1. Promise!Begins
    BY <1>2, <1>4 DEF Promise!Begins
  <2> QED BY <2>1 DEF Kept, Promise!Next
<1>5. ASSUME ag.turn = "running", NEW e \in Ending, ag'.turn = "ended", ag'.ending = e
      PROVE  Kept
  <2>1. Reading(kind)[e] \in Outcome \cup {"none"}
    BY <1>1, Readings
  <2>2. Promise!Ends
    BY <1>2, <1>5, <2>1 DEF Promise!Ends
  <2> QED BY <2>2 DEF Kept, Promise!Next
<1>6. CASE Replays \/ Acknowledges \/ Writes \/ Asks
  <2>1. ag'.turn = ag.turn /\ ag'.ending = ag.ending
    BY <1>1, <1>6 DEF Replays, Acknowledges, Writes, Asks, AgentStates
  <2> QED BY <1>3, <2>1
<1>7. CASE Serves
  <2>1. CASE UNCHANGED ag
    BY <1>3, <2>1
  <2>2. CASE \E v \in BOOLEAN : ag' = [ag EXCEPT !.told = v]
    <3>1. ag'.turn = ag.turn /\ ag'.ending = ag.ending
      BY <1>1, <2>2 DEF AgentStates
    <3> QED BY <1>3, <3>1
  <2>3. CASE Head(down) = "prompt" /\ Begins
    <3>1. ag.turn = "none"
      <4>1. Has(down, {"prompt"})
        BY <1>1, <1>7, <2>3, TailFacts DEF Serves, Has, TypeInv
      <4> QED BY <1>1, <4>1 DEF PromptInv
    <3>2. ag'.turn = "running" /\ ag'.ending = ag.ending
      BY <1>1, <2>3 DEF Begins, AgentStates
    <3> QED BY <1>4, <3>1, <3>2
  <2>4. (ag.told \/ Head(down) \in Interrupts) \in BOOLEAN
    OBVIOUS
  <2> QED BY <1>7, <2>1, <2>2, <2>3, <2>4 DEF Serves
<1>8. CASE TurnEnds
  <2>1. PICK e \in Ending : ag' = [ag EXCEPT !.turn = "ended", !.ending = e]
    BY <1>8 DEF TurnEnds
  <2>2. ag.turn = "running"
    BY <1>8 DEF TurnEnds
  <2>3. ag'.turn = "ended" /\ ag'.ending = e
    BY <1>1, <2>1 DEF AgentStates
  <2> QED BY <1>5, <2>2, <2>3
<1> QED BY <1>6, <1>7, <1>8 DEF Agent

LEMMA KeptStep ==
  ASSUME HarnessInv, [Next]_vars
  PROVE  Kept
<1>1. TypeInv /\ be \in BackendStates
  BY DEF HarnessInv, BaseInv, TypeInv
<1>2. CASE Receives
  BY <1>2, KeptReceives
<1>3. CASE Continues
  BY <1>3, KeptContinues
<1>4. CASE Agent
  BY <1>4, KeptAgent
<1>5. CASE Cancel
  <2>1. be' = [be EXCEPT !.cancelled = TRUE] /\ UNCHANGED <<kind, ag>>
    BY <1>5 DEF Cancel
  <2>2. be'.accepted = be.accepted /\ be'.outcome = be.outcome /\ be'.end = be.end
    BY <1>1, <2>1 DEF BackendStates
  <2> QED BY <2>1, <2>2 DEF Kept
<1>6. CASE Saves \/ Decides \/ Timeout \/ GivesUp \/ Stops
  BY <1>1, <1>6, KeptBroken DEF Saves, Decides, Timeout, GivesUp, Stops, Disconnects
<1>7. CASE UNCHANGED vars
  BY <1>1, <1>7, KeptBroken DEF vars
<1> QED BY <1>2, <1>3, <1>4, <1>5, <1>6, <1>7 DEF Next, Backend

\* The coordinator hears of the turn of its prompt and of nothing else: an
\* execution is reported as accepted when that turn has begun, and as settled when it
\* has ended, with the outcome the agent gave it.
THEOREM HarnessKeepsItsPromise == Spec => KeepsPromise
<1>1. Init => Promise!Init
  <2> SUFFICES ASSUME Init PROVE Promise!Init
    OBVIOUS
  <2>1. kind \in Kinds /\ ag.turn = "none" /\ ag.ending = "none"
        /\ be.accepted = FALSE /\ be.outcome = "none" /\ be.end = "no"
    BY DEF Init
  <2>2. Reading(kind)[ag.ending] = "none"
    BY <2>1, Readings
  <2> QED BY <2>1, <2>2 DEF Promise!Init, Promise!Silent
<1>2. HarnessInv /\ [Next]_vars =>
        [Promise!Next]_<<ag.turn, Reading(kind)[ag.ending],
                         [accepted |-> be.accepted, outcome |-> be.outcome,
                          end |-> be.end]>>
  BY KeptStep DEF Kept
<1> QED BY <1>1, <1>2, HarnessAlwaysFits, PTL DEF Spec, KeepsPromise, Promise!Spec
=============================================================================
