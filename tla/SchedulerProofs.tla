---------------------------- MODULE SchedulerProofs ----------------------------
(***************************************************************************)
(* Theorems about the coordinator's search for work, for every list of      *)
(* profiles, every assignment of workspaces and all limits.                 *)
(*                                                                          *)
(* A tick is a recursive function over the profiles.  It is shown to exist  *)
(* and to obey its equation (PassExists); what the visits keep is then      *)
(* shown by looking at the first visit that would not (PassKeeps).          *)
(***************************************************************************)
EXTENDS Scheduler, FiniteSetTheorems, WellFoundedInduction, SequenceTheorems, TLAPS

USE SchedulerAssumption DEF SchedulerAssumption
USE DEF tableVars, memoryVars, boundVars

-----------------------------------------------------------------------------
(* Recursion over the profiles.                                              *)

\* What is not empty has a least number.
LEMMA LeastNumber ==
  ASSUME NEW S \in SUBSET Nat, S # {}
  PROVE  \E n \in S : \A m \in S : n <= m
<1> DEFINE R == OpToRel(<, Nat)
<1>1. IsWellFoundedOn(R, Nat)
  BY NatLessThanWellFounded, Zenon
<1>2. \A n, m \in Nat : m < n => <<m, n>> \in R
  BY Zenon DEF OpToRel
<1>3. PICK n \in S : \A m \in S : ~ (<<m, n>> \in R)
  <2> HIDE DEF R
  <2> QED BY <1>1, WFMin
<1>4. \A m \in S : ~ (m < n)
  BY <1>2, <1>3
<1> QED
  BY <1>4

\* The pass over the profiles is the function that its definition describes:
\* the rows as they are, and then one visit after the other.
LEMMA PassExists ==
  /\ Pass[0] = {Rows}
  /\ \A k \in 1 .. Last : Pass[k] = {Visited(s, k) : s \in Pass[k - 1]}
<1> DEFINE Is(g, n) == g = [k \in 0 .. n |->
                              IF k = 0 THEN {Rows} ELSE {Visited(s, k) : s \in g[k - 1]}]
           Bad == {n \in Nat : ~ \E g : Is(g, n)}
<1>1. ASSUME NEW n \in Nat, \E g : Is(g, n)
      PROVE  \E g : Is(g, n + 1)
  <2>1. PICK g : Is(g, n)
    BY <1>1
  <2> DEFINE h == [k \in 0 .. n + 1 |->
                     IF k = n + 1 THEN {Visited(s, k) : s \in g[k - 1]} ELSE g[k]]
  <2>2. \A k \in 0 .. n : h[k] = g[k]
    OBVIOUS
  <2>3. \A k \in 0 .. n + 1 :
          h[k] = IF k = 0 THEN {Rows} ELSE {Visited(s, k) : s \in h[k - 1]}
    <3> SUFFICES ASSUME NEW k \in 0 .. n + 1
                 PROVE  h[k] = IF k = 0 THEN {Rows} ELSE {Visited(s, k) : s \in h[k - 1]}
      OBVIOUS
    <3>1. CASE k = n + 1
      <4>1. k # 0 /\ k - 1 = n /\ h[k - 1] = g[k - 1]
        BY <3>1, <2>2
      <4>2. h[k] = {Visited(s, k) : s \in g[k - 1]}
        BY <3>1
      <4> QED BY <4>1, <4>2
    <3>2. CASE k # n + 1
      <4>1. k \in 0 .. n /\ (k # 0 => k - 1 \in 0 .. n)
        BY <3>2
      <4>2. g[k] = IF k = 0 THEN {Rows} ELSE {Visited(s, k) : s \in g[k - 1]}
        BY <2>1, <4>1
      <4>3. h[k] = g[k] /\ (k # 0 => h[k - 1] = g[k - 1])
        BY <2>2, <4>1
      <4> HIDE DEF h
      <4> QED BY <4>2, <4>3
    <3> QED BY <3>1, <3>2
  <2>4. Is(h, n + 1)
    <3>1. h = [k \in 0 .. n + 1 |-> h[k]]
      OBVIOUS
    <3> HIDE DEF h
    <3> QED BY <2>3, <3>1
  <2> HIDE DEF h, Is
  <2> QED BY <2>4
<1>2. \E g : Is(g, 0)
  <2>1. Is([k \in 0 .. 0 |-> {Rows}], 0)
    OBVIOUS
  <2> HIDE DEF Is
  <2> QED BY <2>1
<1>3. Bad = {}
  <2> SUFFICES ASSUME Bad # {} PROVE FALSE
    OBVIOUS
  <2>1. PICK n \in Bad : \A m \in Bad : n <= m
    <3>1. Bad \in SUBSET Nat
      OBVIOUS
    <3> HIDE DEF Bad
    <3> QED BY <3>1, LeastNumber
  <2>2. n \in Nat /\ ~ \E g : Is(g, n)
    OBVIOUS
  <2>3. n # 0
    <3> HIDE DEF Is
    <3> QED BY <1>2, <2>2
  <2>4. n - 1 \in Nat /\ n - 1 \notin Bad
    <3> HIDE DEF Bad
    <3> QED BY <2>1, <2>2, <2>3
  <2>5. \E g : Is(g, n - 1)
    <3> HIDE DEF Is
    <3> QED BY <2>4
  <2>6. \E g : Is(g, (n - 1) + 1)
    <3> HIDE DEF Is
    <3> QED BY <1>1, <2>4, <2>5
  <2>7. (n - 1) + 1 = n
    BY <2>2
  <2> HIDE DEF Is, Bad
  <2> QED BY <2>2, <2>6, <2>7
<1>4. \E g : Is(g, Last)
  <2>1. Last \in Nat /\ Last \notin Bad
    BY <1>3
  <2> HIDE DEF Is
  <2> QED BY <2>1
<1>5. Pass = CHOOSE g : Is(g, Last)
  BY DEF Pass
<1>6. Is(Pass, Last)
  <2> HIDE DEF Is
  <2> QED BY <1>4, <1>5
<1> HIDE DEF Is
<1>7. Pass = [k \in 0 .. Last |->
                IF k = 0 THEN {Rows} ELSE {Visited(s, k) : s \in Pass[k - 1]}]
  BY <1>6 DEF Is
<1>8. 0 \in 0 .. Last /\ \A k \in 1 .. Last : k \in 0 .. Last /\ k # 0
  OBVIOUS
<1> QED BY <1>7, <1>8

-----------------------------------------------------------------------------
(* The invariants.                                                           *)

Reasons == {"none", "global_paused", "native_run_active", "no_task",
            "clock_rollback", "global_concurrency", "rate_limited",
            "resource_locked"}

Start == [role : Role, age : Nat, wall : Int]

\* The rows a visit may find.
Tables == [queue   : [Role -> Nat],
           slot    : [Role -> {"free", "live", "lost"}],
           blocked : [Role -> Reasons],
           starts  : Seq(Start),
           timer   : BOOLEAN]

TypeInv ==
  /\ Rows \in Tables
  /\ transfer \in [Role -> BOOLEAN]
  /\ back \in Nat

\* Starts by their real ages, and not by the clock.
RecentOf(q, r) == {i \in DOMAIN q : q[i].role = r /\ q[i].age < RoleWindow}
Recent(q)      == {i \in DOMAIN q : q[i].age < SpaceWindow}

\* The clock never takes a start that counts for older than it is, so what the
\* gate counts is no less than what really happened.
Paced(q) ==
  /\ \A i \in DOMAIN q : q[i].age < SpaceWindow => q[i].wall <= q[i].age
  /\ \A r \in Role : Cardinality(RecentOf(q, r)) <= RoleLimit
  /\ Cardinality(Recent(q)) <= SpaceLimit

\* A gate that only another change of the database opens.
Shut(s, r) ==
  paused \/ s.slot[r] # "free" \/ s.queue[r] = 0 \/ Crowded(s) \/ Locked(s, r)

\* Whoever might start will be visited.
WakeInv ==
  core = "up" /\ ~scheduled /\ ~timer => \A r \in Role : transfer[r] \/ Shut(Rows, r)

\* What the visits of the roles 1 .. k leave behind.
PassFits(s, k) ==
  /\ s \in Tables
  /\ Paced(s.starts)
  /\ s.timer \/ \A r \in 1 .. k : transfer[r] \/ Shut(s, r)

SchedulerInv == TypeInv /\ Paced(starts) /\ WakeInv

-----------------------------------------------------------------------------
(* The pace of the starts.                                                   *)

LEMMA CountsAreFinite ==
  ASSUME NEW s \in Tables, NEW r \in Role
  PROVE  /\ IsFiniteSet(RoleStarts(s, r)) /\ IsFiniteSet(SpaceStarts(s))
         /\ IsFiniteSet(RecentOf(s.starts, r)) /\ IsFiniteSet(Recent(s.starts))
         /\ Cardinality(RoleStarts(s, r)) \in Nat
         /\ Cardinality(SpaceStarts(s)) \in Nat
         /\ Cardinality(RecentOf(s.starts, r)) \in Nat
         /\ Cardinality(Recent(s.starts)) \in Nat
<1>1. s.starts \in Seq(Start) /\ DOMAIN s.starts = 1 .. Len(s.starts)
      /\ Len(s.starts) \in Nat
  BY DEF Tables
<1>2. IsFiniteSet(DOMAIN s.starts)
  <2>1. \A n \in Nat : IsFiniteSet(1 .. n)
    BY FS_Interval
  <2> QED BY <1>1, <2>1
<1>3. \A T \in SUBSET DOMAIN s.starts : IsFiniteSet(T) /\ Cardinality(T) \in Nat
  BY <1>2, FS_Subset, FS_CardinalityType
<1> QED
  BY <1>3 DEF RoleStarts, SpaceStarts, RecentOf, Recent

\* Rows that grow older, and clocks that lose on their age, keep the pace.
LEMMA OlderIsPaced ==
  ASSUME NEW p \in Seq(Start), NEW q \in Seq(Start), Paced(p),
         DOMAIN q = DOMAIN p,
         \A i \in DOMAIN p : /\ q[i].role = p[i].role /\ q[i].age >= p[i].age
                             /\ q[i].age < SpaceWindow => q[i].wall <= q[i].age
  PROVE  Paced(q)
<1>1. IsFiniteSet(DOMAIN p)
  BY FS_Interval, DOMAIN p = 1 .. Len(p), Len(p) \in Nat
<1>2. \A i \in DOMAIN p : p[i].age \in Nat /\ q[i].age \in Nat
  <2>1. \A i \in DOMAIN p : p[i] \in Start /\ q[i] \in Start
    OBVIOUS
  <2> QED BY <2>1 DEF Start
<1>3. ASSUME NEW S \in SUBSET DOMAIN p, NEW T \in SUBSET S, NEW n \in Nat,
             Cardinality(S) <= n
      PROVE  Cardinality(T) <= n
  BY <1>1, <1>3, FS_Subset, FS_CardinalityType
<1>4. ASSUME NEW r \in Role
      PROVE  Cardinality(RecentOf(q, r)) <= RoleLimit
  <2>1. RecentOf(q, r) \subseteq RecentOf(p, r) /\ RecentOf(p, r) \subseteq DOMAIN p
    BY <1>2 DEF RecentOf
  <2>2. Cardinality(RecentOf(p, r)) <= RoleLimit
    BY DEF Paced
  <2> QED BY <1>3, <2>1, <2>2
<1>5. Cardinality(Recent(q)) <= SpaceLimit
  <2>1. Recent(q) \subseteq Recent(p) /\ Recent(p) \subseteq DOMAIN p
    BY <1>2 DEF Recent
  <2>2. Cardinality(Recent(p)) <= SpaceLimit
    BY DEF Paced
  <2> QED BY <1>3, <2>1, <2>2
<1> QED BY <1>4, <1>5 DEF Paced

\* The gate counts every start that counts in real time.
LEMMA GateCountsAll ==
  ASSUME NEW s \in Tables, NEW r \in Role, Paced(s.starts)
  PROVE  /\ RecentOf(s.starts, r) \subseteq RoleStarts(s, r)
         /\ Recent(s.starts) \subseteq SpaceStarts(s)
<1>1. \A i \in DOMAIN s.starts : s.starts[i].age \in Nat /\ s.starts[i].wall \in Int
  <2>1. \A i \in DOMAIN s.starts : s.starts[i] \in Start
    BY DEF Tables
  <2> QED BY <2>1 DEF Start
<1>2. \A i \in DOMAIN s.starts :
        s.starts[i].age < SpaceWindow => s.starts[i].wall <= s.starts[i].age
  BY DEF Paced
<1>3. RecentOf(s.starts, r) \subseteq RoleStarts(s, r)
  BY <1>1, <1>2, SMTT(30) DEF RecentOf, RoleStarts
<1>4. Recent(s.starts) \subseteq SpaceStarts(s)
  BY <1>1, <1>2, SMTT(30) DEF Recent, SpaceStarts
<1> QED BY <1>3, <1>4

\* One more start is within the limits if the gate is open.
LEMMA StartIsPaced ==
  ASSUME NEW s \in Tables, NEW r \in Role, Paced(s.starts), ~ RateLimited(s, r)
  PROVE  LET q == Append(s.starts, [role |-> r, age |-> 0, wall |-> 0])
         IN  q \in Seq(Start) /\ Paced(q)
<1> DEFINE p == s.starts
           q == Append(p, [role |-> r, age |-> 0, wall |-> 0])
           new == Len(p) + 1
<1>1. p \in Seq(Start) /\ [role |-> r, age |-> 0, wall |-> 0] \in Start
  BY DEF Tables, Start
<1>2. q \in Seq(Start)
  BY <1>1
<1>3. /\ DOMAIN q = DOMAIN p \cup {new} /\ new \notin DOMAIN p
      /\ \A i \in DOMAIN p : q[i] = p[i]
      /\ q[new] = [role |-> r, age |-> 0, wall |-> 0]
  <2>1. /\ Len(q) = Len(p) + 1 /\ q[Len(p) + 1] = [role |-> r, age |-> 0, wall |-> 0]
        /\ \A i \in 1 .. Len(p) : q[i] = p[i]
    BY <1>1, AppendProperties
  <2>2. DOMAIN q = 1 .. Len(q) /\ DOMAIN p = 1 .. Len(p) /\ Len(p) \in Nat
    BY <1>1, <1>2
  <2> HIDE DEF q
  <2> QED BY <2>1, <2>2, SMTT(30)
<1> HIDE DEF q, new
<1>4. \A i \in DOMAIN q : q[i].age < SpaceWindow => q[i].wall <= q[i].age
  BY <1>3 DEF Paced
<1>5. Cardinality(RecentOf(p, r)) < RoleLimit /\ Cardinality(Recent(p)) < SpaceLimit
  BY CountsAreFinite, GateCountsAll, FS_Subset DEF RateLimited
<1>6. /\ RecentOf(q, r) = RecentOf(p, r) \cup {new}
      /\ Recent(q) = Recent(p) \cup {new}
      /\ \A o \in Role : o # r => RecentOf(q, o) = RecentOf(p, o)
  BY <1>3 DEF RecentOf, Recent
<1>7. new \notin RecentOf(p, r) /\ new \notin Recent(p)
  BY <1>3 DEF RecentOf, Recent
<1>8. /\ Cardinality(RecentOf(q, r)) = Cardinality(RecentOf(p, r)) + 1
      /\ Cardinality(Recent(q)) = Cardinality(Recent(p)) + 1
  BY <1>6, <1>7, CountsAreFinite, FS_AddElement, ZenonT(60)
<1>9. /\ Cardinality(RecentOf(p, r)) \in Nat
      /\ Cardinality(Recent(p)) \in Nat
  BY CountsAreFinite
<1>10. Cardinality(RecentOf(q, r)) <= RoleLimit /\ Cardinality(Recent(q)) <= SpaceLimit
  BY <1>5, <1>8, <1>9
<1>11. \A o \in Role : o # r => Cardinality(RecentOf(q, o)) <= RoleLimit
  BY <1>6 DEF Paced
<1>12. Paced(q)
  BY <1>4, <1>10, <1>11 DEF Paced
<1> QED BY <1>2, <1>12 DEF q

-----------------------------------------------------------------------------
(* The visits of a pass.                                                     *)

\* There are finitely many roles.
LEMMA RolesAreFinite == IsFiniteSet(1 .. Last)
<1>1. 1 \in Int /\ Last \in Int
  OBVIOUS
<1> QED BY ONLY <1>1, FS_Interval, ZenonT(30)

\* What stands in the way goes on to do so when more slots are taken and no
\* task is added.
LEMMA ShutStays ==
  ASSUME NEW s \in Tables, NEW t \in Tables, NEW r \in Role, Shut(s, r),
         \A o \in Role : s.slot[o] # "free" => t.slot[o] # "free",
         s.queue[r] = 0 => t.queue[r] = 0
  PROVE  Shut(t, r)
<1>1. CASE Crowded(s)
  <2> DEFINE S == {o \in Role : s.slot[o] # "free"}
             T == {o \in Role : t.slot[o] # "free"}
  <2>1. IsFiniteSet(T) /\ S \subseteq T
    <3>1. IsFiniteSet(1 .. Last)
      BY RolesAreFinite
    <3>2. T \in SUBSET (1 .. Last)
      BY DEF Role
    <3>3. IsFiniteSet(T)
      <4> HIDE DEF T
      <4> QED BY <3>1, <3>2, FS_Subset
    <3> QED BY <3>3
  <2>2. Cardinality(S) <= Cardinality(T) /\ Cardinality(S) \in Nat /\ Cardinality(T) \in Nat
    BY <2>1, FS_Subset, FS_CardinalityType
  <2>3. Cardinality(S) >= MaxLive
    BY <1>1 DEF Crowded
  <2>4. Cardinality(T) >= MaxLive
    <3> HIDE DEF S, T
    <3> QED BY <2>2, <2>3
  <2> QED BY <2>4 DEF Shut, Crowded
<1>2. CASE Locked(s, r)
  BY <1>2 DEF Shut, Locked
<1> QED BY <1>1, <1>2 DEF Shut

\* A refusal that arms no timer is for a gate that another change opens.
LEMMA RefusalIsShut ==
  ASSUME NEW s, NEW r \in Role, Refusal(s, r) # "none",
         ~ Timed(Refusal(s, r))
  PROVE  Shut(s, r)
BY DEF Refusal, Timed, Shut

LEMMA RefusalTypes ==
  ASSUME NEW s, NEW r \in Role
  PROVE  /\ Refusal(s, r) \in Reasons
         /\ Refusal(s, r) = "no_task" => s.queue[r] = 0
         /\ Refusal(s, r) = "none" => /\ s.queue[r] # 0 /\ s.slot[r] = "free"
                                      /\ ~ RateLimited(s, r)
BY DEF Refusal, Reasons

\* A visit keeps what the visits before it have left, and adds its role.
LEMMA VisitKeeps ==
  ASSUME NEW k \in 1 .. Last, NEW s, PassFits(s, k - 1),
         transfer \in [Role -> BOOLEAN]
  PROVE  PassFits(Visited(s, k), k)
<1>1. k \in Role /\ s \in Tables
  BY DEF Role, PassFits
<1>2. \A r \in 1 .. k : r = k \/ r \in 1 .. k - 1
  OBVIOUS
<1>3. \A r \in 1 .. k : r \in Role
  BY DEF Role
<1>4. CASE transfer[k]
  <2>1. Visited(s, k) = s
    BY <1>4 DEF Visited
  <2> QED BY <1>2, <1>4, <2>1 DEF PassFits
<1>5. CASE ~ transfer[k] /\ Refusal(s, k) = "none"
  <2> DEFINE q == Append(s.starts, [role |-> k, age |-> 0, wall |-> 0])
             t == [queue |-> [s.queue EXCEPT ![k] = @ - 1],
                   slot |-> [s.slot EXCEPT ![k] = "live"],
                   blocked |-> [s.blocked EXCEPT ![k] = "none"],
                   starts |-> q, timer |-> s.timer]
  <2>1. Visited(s, k) = t
    BY <1>1, <1>5 DEF Visited, Started, Tables
  <2>2. q \in Seq(Start) /\ Paced(q)
    BY <1>1, <1>5, RefusalTypes, StartIsPaced DEF PassFits
  <2>3. t \in Tables
    <3>1. s.queue[k] - 1 \in Nat
      BY <1>1, <1>5, RefusalTypes DEF Tables
    <3> HIDE DEF q
    <3> QED BY <1>1, <2>2, <3>1 DEF Tables, Reasons
  <2>4. t.slot[k] = "live" /\ Shut(t, k)
    <3>1. t.slot[k] = "live"
      BY <1>1 DEF Tables
    <3> QED BY <3>1 DEF Shut
  <2>5. ASSUME NEW r \in 1 .. k - 1, Shut(s, r)
        PROVE  Shut(t, r)
    <3>1. r \in Role /\ r # k
      BY DEF Role
    <3>2. /\ \A o \in Role : s.slot[o] # "free" => t.slot[o] # "free"
          /\ t.queue[r] = s.queue[r]
      BY <1>1, <3>1 DEF Tables
    <3> HIDE DEF t
    <3> QED BY <1>1, <2>3, <2>5, <3>1, <3>2, ShutStays
  <2>6. t.starts = q /\ t.timer = s.timer
    OBVIOUS
  <2> HIDE DEF t, q
  <2> QED BY <1>2, <2>1, <2>2, <2>3, <2>4, <2>5, <2>6 DEF PassFits
<1>6. CASE ~ transfer[k] /\ Refusal(s, k) # "none"
  <2> DEFINE why == IF Refusal(s, k) = "no_task" THEN s.blocked[k] ELSE Refusal(s, k)
             t == [queue |-> s.queue, slot |-> s.slot,
                   blocked |-> [s.blocked EXCEPT ![k] = why],
                   starts |-> s.starts, timer |-> s.timer \/ Timed(why)]
  <2>1. Visited(s, k) = t
    BY <1>1, <1>6 DEF Visited, Refused, Tables
  <2>2. t \in Tables
    <3>1. why \in Reasons /\ (s.timer \/ Timed(why)) \in BOOLEAN
      BY <1>1, RefusalTypes DEF Tables, Timed
    <3> HIDE DEF why
    <3> QED BY <1>1, <3>1 DEF Tables
  <2>3. \A r \in Role : Shut(t, r) <=> Shut(s, r)
    BY DEF Shut, Crowded, Locked
  <2>4. t.timer \/ Shut(s, k)
    <3>1. CASE Refusal(s, k) = "no_task"
      BY <1>1, <3>1, RefusalTypes DEF Shut
    <3>2. CASE Refusal(s, k) # "no_task"
      BY <1>1, <1>6, <3>2, RefusalIsShut
    <3> QED BY <3>1, <3>2
  <2>5. t.starts = s.starts /\ (s.timer => t.timer)
    OBVIOUS
  <2> HIDE DEF t
  <2> QED BY <1>2, <1>3, <2>1, <2>2, <2>3, <2>4, <2>5 DEF PassFits
<1> QED BY <1>4, <1>5, <1>6

\* What every visit keeps, the pass keeps: there is no first visit to fail.
LEMMA PassKeeps ==
  ASSUME TypeInv, Paced(starts)
  PROVE  \A k \in 0 .. Last : \A s \in Pass[k] : PassFits(s, k)
<1> DEFINE Bad == {k \in 0 .. Last : ~ \A s \in Pass[k] : PassFits(s, k)}
<1> SUFFICES ASSUME Bad # {} PROVE FALSE
  OBVIOUS
<1>1. PICK k \in Bad : \A m \in Bad : k <= m
  <2>1. Bad \in SUBSET Nat
    OBVIOUS
  <2> HIDE DEF Bad
  <2> QED BY <2>1, LeastNumber
<1>2. k \in 0 .. Last /\ ~ \A s \in Pass[k] : PassFits(s, k)
  OBVIOUS
<1>3. CASE k = 0
  <2>1. Pass[0] = {Rows}
    BY PassExists
  <2>2. PassFits(Rows, 0)
    BY DEF PassFits, TypeInv, Rows
  <2> QED BY <1>2, <1>3, <2>1, <2>2
<1>4. CASE k # 0
  <2>1. k \in 1 .. Last /\ k - 1 \in 0 .. Last /\ ~ (k <= k - 1)
    BY <1>2, <1>4
  <2>2. \A s \in Pass[k - 1] : PassFits(s, k - 1)
    <3>1. k - 1 \notin Bad
      <4> HIDE DEF Bad
      <4> QED BY <1>1, <2>1
    <3> QED BY <2>1, <3>1
  <2>3. Pass[k] = {Visited(s, k) : s \in Pass[k - 1]}
    BY <2>1, PassExists
  <2>4. \A s \in Pass[k - 1] : PassFits(Visited(s, k), k)
    BY <2>1, <2>2, VisitKeeps DEF TypeInv
  <2> QED BY <1>2, <2>3, <2>4
<1> QED BY <1>3, <1>4

-----------------------------------------------------------------------------
(* The steps.                                                                *)

\* A pass that ends, and one that an exception ends early.
LEMMA TickKeeps ==
  ASSUME SchedulerInv, Tick
  PROVE  SchedulerInv'
<1>1. PICK s \in Pass[Last] : Becomes(s) /\ timer' = s.timer
  BY DEF Tick
<1>2. PassFits(s, Last)
  BY <1>1, PassKeeps DEF SchedulerInv
<1>3. Rows' = s
  BY <1>1, <1>2 DEF Rows, Becomes, PassFits, Tables
<1>4. UNCHANGED <<transfer, paused, back, core>>
  BY DEF Tick
<1>5. TypeInv' /\ Paced(starts)'
  BY <1>2, <1>3, <1>4 DEF SchedulerInv, TypeInv, PassFits, Rows, Paced, Recent, RecentOf
<1>6. WakeInv'
  <2>1. ASSUME ~ timer', NEW r \in Role
        PROVE  (transfer[r] \/ Shut(Rows, r))'
    <3>1. transfer[r] \/ Shut(s, r)
      BY <1>1, <1>2, <2>1 DEF PassFits, Role
    <3>2. Shut(s, r) => Shut(Rows, r)'
      BY <1>3, <1>4 DEF Shut, Crowded, Locked
    <3> QED BY <3>1, <3>2, <1>4
  <2> QED BY <2>1 DEF WakeInv
<1> QED BY <1>5, <1>6 DEF SchedulerInv

LEMMA TickThrowsKeeps ==
  ASSUME SchedulerInv, NEW k \in 0 .. Last - 1, TickThrows(k)
  PROVE  SchedulerInv'
<1>1. PICK s \in Pass[k] : Becomes(s)
  BY DEF TickThrows
<1>2. PassFits(s, k)
  <2>1. k \in 0 .. Last
    OBVIOUS
  <2> QED BY <1>1, <2>1, PassKeeps DEF SchedulerInv
<1>3. Rows' = [queue |-> s.queue, slot |-> s.slot, blocked |-> s.blocked,
               starts |-> s.starts, timer |-> FALSE]
  BY <1>1 DEF Rows, Becomes, TickThrows
<1>4. UNCHANGED <<transfer, back>> /\ core' = "down" /\ starts' = s.starts
  BY <1>1 DEF TickThrows, Becomes
<1>5. TypeInv'
  <2>1. Rows' \in Tables
    BY <1>2, <1>3 DEF PassFits, Tables
  <2> QED BY <1>4, <2>1 DEF SchedulerInv, TypeInv
<1>6. Paced(starts)'
  BY <1>2, <1>4 DEF PassFits, Paced, Recent, RecentOf
<1>7. WakeInv'
  BY <1>4 DEF WakeInv
<1> QED BY <1>5, <1>6, <1>7 DEF SchedulerInv

\* What kicks, and what ends the process, leaves the starts alone.
LEMMA KicksKeep ==
  ASSUME SchedulerInv, starts' = starts, scheduled' = TRUE \/ core' = "down",
         queue' \in [Role -> Nat], slot' \in [Role -> {"free", "live", "lost"}],
         blocked' = blocked, timer' \in BOOLEAN, transfer' \in [Role -> BOOLEAN],
         back' = back
  PROVE  SchedulerInv'
<1>1. TypeInv'
  BY DEF SchedulerInv, TypeInv, Rows, Tables
<1>2. Paced(starts)'
  BY DEF SchedulerInv, Paced, Recent, RecentOf
<1>3. WakeInv'
  BY DEF WakeInv
<1> QED BY <1>1, <1>2, <1>3 DEF SchedulerInv

\* Time opens no gate that is Shut: it only makes starts older.
LEMMA AgeingKeeps ==
  ASSUME SchedulerInv, starts' \in Seq(Start), Paced(starts)',
         UNCHANGED <<queue, slot, blocked, transfer, paused, core, memoryVars>>,
         back' \in Nat
  PROVE  SchedulerInv'
<1>1. TypeInv'
  BY DEF SchedulerInv, TypeInv, Rows, Tables
<1>2. \A r \in Role : Shut(Rows, r) => Shut(Rows, r)'
  BY DEF Shut, Rows, Crowded, Locked
<1>3. WakeInv'
  BY <1>2 DEF SchedulerInv, WakeInv
<1> QED BY <1>1, <1>3 DEF SchedulerInv

LEMMA StartRows ==
  ASSUME TypeInv
  PROVE  /\ starts \in Seq(Start) /\ Len(starts) \in Nat
         /\ DOMAIN starts = 1 .. Len(starts)
         /\ \A i \in DOMAIN starts : starts[i] \in Start
<1>1. starts \in Seq(Start)
  BY DEF TypeInv, Rows, Tables
<1> QED BY <1>1

LEMMA TimeKeeps ==
  ASSUME SchedulerInv, TimePasses
  PROVE  SchedulerInv'
<1>1. /\ starts' = [i \in DOMAIN starts |-> Older(starts[i])]
      /\ UNCHANGED <<queue, slot, blocked, transfer, paused, core, memoryVars, back>>
  BY DEF TimePasses
<1>2. back \in Nat /\ TypeInv /\ Paced(starts)
  BY DEF SchedulerInv, TypeInv
<1>3. ASSUME NEW w \in Start, w.age < SpaceWindow => w.wall <= w.age
      PROVE  /\ Older(w) \in Start /\ Older(w).role = w.role /\ Older(w).age >= w.age
             /\ Older(w).age < SpaceWindow => Older(w).wall <= Older(w).age
  <2> DEFINE age == IF w.age < SpaceWindow THEN w.age + 1 ELSE w.age
             wall == IF w.wall < SpaceWindow + MaxBack - back THEN w.wall + 1 ELSE w.wall
  <2>1. w = [role |-> w.role, age |-> w.age, wall |-> w.wall]
        /\ w.role \in Role /\ w.age \in Nat /\ w.wall \in Int
    BY DEF Start
  <2>2. Older(w) = [role |-> w.role, age |-> age, wall |-> wall]
    <3> DEFINE older == [w EXCEPT !.age = age]
    <3>1. older = [role |-> w.role, age |-> age, wall |-> w.wall]
      BY <2>1
    <3>2. [older EXCEPT !.wall = wall] = [role |-> w.role, age |-> age, wall |-> wall]
      <4> HIDE DEF age, wall, older
      <4> QED BY <3>1
    <3>3. Older(w) = [[w EXCEPT !.age = age] EXCEPT !.wall = wall]
      BY <2>1 DEF Older
    <3> QED BY <3>2, <3>3
  <2>3. age \in Nat /\ wall \in Int /\ age >= w.age
        /\ wall <= w.wall + 1 /\ (age < SpaceWindow => age = w.age + 1)
    BY <1>2, <2>1, SMTT(30)
  <2>4. age < SpaceWindow => wall <= age
    <3> HIDE DEF wall
    <3> QED BY <1>3, <2>1, <2>3
  <2> HIDE DEF age, wall
  <2> QED BY <2>1, <2>2, <2>3, <2>4 DEF Start
<1>4. ASSUME NEW i \in DOMAIN starts
      PROVE  /\ Older(starts[i]) \in Start /\ Older(starts[i]).role = starts[i].role
             /\ Older(starts[i]).age >= starts[i].age
             /\ Older(starts[i]).age < SpaceWindow
                  => Older(starts[i]).wall <= Older(starts[i]).age
  BY <1>2, <1>3, <1>4, StartRows DEF Paced
<1>5. starts' \in Seq(Start) /\ DOMAIN starts' = DOMAIN starts
  BY <1>1, <1>2, <1>4, StartRows
<1>6. \A i \in DOMAIN starts : starts'[i] = Older(starts[i])
  BY <1>1
<1>7. Paced(starts')
  BY <1>2, <1>4, <1>5, <1>6, StartRows, OlderIsPaced
<1>8. Paced(starts)'
  BY <1>7 DEF Paced, Recent, RecentOf
<1> QED BY <1>1, <1>2, <1>5, <1>8, AgeingKeeps

LEMMA SetBackKeeps ==
  ASSUME SchedulerInv, ClockSetBack
  PROVE  SchedulerInv'
<1>1. /\ starts' = [i \in DOMAIN starts |-> [starts[i] EXCEPT !.wall = @ - 1]]
      /\ UNCHANGED <<queue, slot, blocked, transfer, paused, core, memoryVars>>
      /\ back' = back + 1
  BY DEF ClockSetBack
<1>2. back \in Nat /\ TypeInv /\ Paced(starts)
  BY DEF SchedulerInv, TypeInv
<1>3. ASSUME NEW i \in DOMAIN starts
      PROVE  LET w == [starts[i] EXCEPT !.wall = @ - 1]
             IN  /\ w \in Start /\ w.role = starts[i].role /\ w.age >= starts[i].age
                 /\ w.age < SpaceWindow => w.wall <= w.age
  <2>1. starts[i] \in Start /\ (starts[i].age < SpaceWindow => starts[i].wall <= starts[i].age)
    BY <1>2, StartRows DEF Paced
  <2> QED BY <2>1 DEF Start
<1>4. starts' \in Seq(Start) /\ DOMAIN starts' = DOMAIN starts
  BY <1>1, <1>2, <1>3, StartRows
<1>5. \A i \in DOMAIN starts : starts'[i] = [starts[i] EXCEPT !.wall = @ - 1]
  BY <1>1
<1>6. Paced(starts')
  BY <1>2, <1>3, <1>4, <1>5, StartRows, OlderIsPaced
<1>7. Paced(starts)'
  BY <1>6 DEF Paced, Recent, RecentOf
<1> QED BY <1>1, <1>2, <1>4, <1>7, AgeingKeeps

LEMMA SchedulerStep ==
  ASSUME SchedulerInv, [Next]_vars
  PROVE  SchedulerInv'
<1>1. /\ queue \in [Role -> Nat] /\ slot \in [Role -> {"free", "live", "lost"}]
      /\ timer \in BOOLEAN /\ transfer \in [Role -> BOOLEAN]
  BY DEF SchedulerInv, TypeInv, Rows, Tables
<1>2. CASE Tick
  BY <1>2, TickKeeps
<1>3. ASSUME NEW k \in 0 .. Last - 1, TickThrows(k)
      PROVE  SchedulerInv'
  BY <1>3, TickThrowsKeeps
<1>4. CASE TimerFires
  BY <1>1, <1>4, KicksKeep DEF TimerFires
<1>5. ASSUME NEW r \in Role, Ask(r)
      PROVE  SchedulerInv'
  <2>1. queue' \in [Role -> Nat]
    BY <1>1, <1>5 DEF Ask
  <2> QED BY <1>1, <1>5, <2>1, KicksKeep DEF Ask
<1>6. ASSUME NEW r \in Role, RunEnds(r) \/ RunIsLost(r)
      PROVE  SchedulerInv'
  <2>1. slot' \in [Role -> {"free", "live", "lost"}]
    BY <1>1, <1>6 DEF RunEnds, RunIsLost
  <2> QED BY <1>1, <1>6, <2>1, KicksKeep DEF RunEnds, RunIsLost
<1>7. ASSUME NEW r \in Role, TransferStarts(r) \/ TransferSettles(r)
      PROVE  SchedulerInv'
  <2>1. transfer' \in [Role -> BOOLEAN]
    BY <1>1, <1>7 DEF TransferStarts, TransferSettles
  <2> QED BY <1>1, <1>7, <2>1, KicksKeep DEF TransferStarts, TransferSettles
<1>8. CASE Pause \/ Resume
  BY <1>1, <1>8, KicksKeep DEF Pause, Resume
<1>9. CASE TimePasses
  BY <1>9, TimeKeeps
<1>10. CASE ClockSetBack
  BY <1>10, SetBackKeeps
<1>11. CASE Crash
  BY <1>1, <1>11, KicksKeep DEF Crash
<1>12. CASE Restart
  <2>1. slot' \in [Role -> {"free", "live", "lost"}]
    BY <1>1, <1>12 DEF Restart
  <2> QED BY <1>1, <1>12, <2>1, KicksKeep DEF Restart
<1>13. CASE UNCHANGED vars
  <2>1. SchedulerInv' <=> SchedulerInv
    BY <1>13 DEF vars, SchedulerInv, TypeInv, WakeInv, Rows, Paced, Recent, RecentOf,
                 Shut, Crowded, Locked
  <2> QED BY <2>1
<1> QED
  BY <1>2, <1>3, <1>4, <1>5, <1>6, <1>7, <1>8, <1>9, <1>10, <1>11, <1>12, <1>13 DEF Next

LEMMA SchedulerStarts == Init => SchedulerInv
<1> SUFFICES ASSUME Init PROVE SchedulerInv
  OBVIOUS
<1>1. Rows \in Tables /\ TypeInv
  <2>1. starts \in Seq(Start)
    BY DEF Init
  <2> QED BY <2>1 DEF Init, Rows, Tables, Reasons, TypeInv
<1>2. Paced(starts)
  <2>1. DOMAIN starts = {}
    BY DEF Init
  <2>2. Recent(starts) = {} /\ \A r \in Role : RecentOf(starts, r) = {}
    BY <2>1 DEF Recent, RecentOf
  <2>3. Cardinality({}) <= RoleLimit /\ Cardinality({}) <= SpaceLimit
    BY FS_EmptySet
  <2>4. Cardinality(Recent(starts)) <= SpaceLimit
    BY <2>2, <2>3, Zenon
  <2>5. \A r \in Role : Cardinality(RecentOf(starts, r)) <= RoleLimit
    BY <2>2, <2>3, Zenon
  <2>6. \A i \in DOMAIN starts : starts[i].age < SpaceWindow => starts[i].wall <= starts[i].age
    BY <2>1
  <2> HIDE DEF Recent, RecentOf
  <2> QED BY <2>4, <2>5, <2>6, Zenon DEF Paced
<1>3. WakeInv
  BY DEF Init, WakeInv
<1> QED BY <1>1, <1>2, <1>3 DEF SchedulerInv

LEMMA SchedulerInvariance == Spec => []SchedulerInv
<1>1. SchedulerInv /\ [Next]_vars => SchedulerInv'
  BY SchedulerStep
<1> QED
  BY SchedulerStarts, <1>1, PTL DEF Spec

-----------------------------------------------------------------------------
(* The theorems.                                                             *)

\* Whatever is refused, requested, settled, lost or transferred, and wherever a
\* pass is broken off: while the Core runs, a role that could be started has a
\* pass or a timer coming (kick, tick, retryAfterTemporaryBlock).
THEOREM WakeupsAreNeverLost == Spec => []NoLostWakeup
<1>1. SchedulerInv => NoLostWakeup
  <2> SUFFICES ASSUME SchedulerInv, NEW r \in Role, Ready(r), ~ scheduled, ~ timer
               PROVE  FALSE
    BY DEF NoLostWakeup
  <2>1. transfer[r] \/ Shut(Rows, r)
    BY DEF SchedulerInv, WakeInv, Ready
  <2> QED BY <2>1 DEF Ready, Refusal, Shut
<1> QED
  BY SchedulerInvariance, <1>1, PTL

\* No stretch of real time of the length of a window ever has more starts than
\* its limit, for a role or the space: not over crashes, and not with a clock
\* that is set back (the auto_starts gates of dispatch in core.ts).
THEOREM StartRateAlwaysHolds == Spec => []StartRateHolds
<1>1. SchedulerInv => StartRateHolds
  BY DEF SchedulerInv, Paced, Recent, RecentOf, StartRateHolds
<1> QED
  BY SchedulerInvariance, <1>1, PTL
=============================================================================
