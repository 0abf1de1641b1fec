---------------------------- MODULE OfficeProofs ----------------------------
(***************************************************************************)
(* Theorems about the virtual office, for every roster, every list of      *)
(* delegations and tasks, all the data that can follow other data, every   *)
(* window of time and every length of rests, visits and exits: the figures *)
(* around the office add up, nobody is drawn at work who is not, and a     *)
(* worker leaves only when its delegation was seen to end.                 *)
(*                                                                         *)
(* The inductive invariant: the characters keep their type, and a worker   *)
(* that is not on its way out was seen in an active delegation, and shown  *)
(* at work only where it was seen running.                                 *)
(***************************************************************************)
EXTENDS Office, FiniteSetTheorems, WellFoundedInduction, TLAPS

\* The order of the numbers as the relation the library knows to be well-founded.
LEMMA LessThan == \A x, y \in Nat : x < y => <<x, y>> \in OpToRel(<, Nat)
BY DEF OpToRel

\* The least and the greatest place of a non-empty set of places in a list.
LEMMA LeastAndGreatest ==
  ASSUME NEW n \in Nat, NEW S \in SUBSET (1..n), S # {}
  PROVE  Min(S) \in S /\ Max(S) \in S
<1>1. \E x \in S : \A y \in S : x =< y
  <2>1. S \subseteq Nat
    OBVIOUS
  <2>2. PICK x \in S : \A y \in S : ~ (<<y, x>> \in OpToRel(<, Nat))
    BY <2>1, NatLessThanWellFounded, WFMin
  <2>3. \A y \in S : ~ (y < x)
    BY <2>1, <2>2, LessThan
  <2> QED BY <2>1, <2>3
<1>2. \E x \in S : \A y \in S : x >= y
  <2> DEFINE T == {k \in Nat : \A y \in S : k >= y}
  <2>1. T \subseteq Nat /\ n \in T
    OBVIOUS
  <2>2. PICK m \in T : \A k \in T : ~ (<<k, m>> \in OpToRel(<, Nat))
    <3> HIDE DEF T
    <3> QED BY <2>1, NatLessThanWellFounded, WFMin
  <2>3. m \in Nat /\ (\A y \in S : m >= y) /\ \A k \in T : ~ (k < m)
    BY <2>2, LessThan
  <2>4. m \in S
    <3>1. SUFFICES ASSUME m \notin S PROVE FALSE
      OBVIOUS
    <3>2. \A y \in S : y <= m - 1
      BY <2>3, <3>1
    <3>3. m - 1 \in Nat
      <4>1. PICK y \in S : y \in 1..n
        OBVIOUS
      <4> QED BY <2>3, <3>2, <4>1
    <3>4. m - 1 \in T
      BY <3>2, <3>3
    <3> QED BY <2>3, <3>4
  <2> QED BY <2>3, <2>4
<1> QED BY <1>1, <1>2, Zenon DEF Min, Max

\* Lists are finite, and so is who stands in them.
LEMMA FiniteParties ==
  /\ IsFiniteSet(Agents) /\ IsFiniteSet(Workers)
  /\ Len(Delegations) \in Nat /\ DOMAIN Delegations = 1..Len(Delegations)
  /\ Len(TaskList) \in Nat /\ DOMAIN TaskList = 1..Len(TaskList)
<1>1. ASSUME NEW s, s \in Seq(ToSet(s))
      PROVE  Len(s) \in Nat /\ DOMAIN s = 1..Len(s) /\ IsFiniteSet(ToSet(s))
  <2>1. Len(s) \in Nat /\ DOMAIN s = 1..Len(s) /\ s \in [1..Len(s) -> ToSet(s)]
    BY <1>1
  <2>2. s \in Surjection(1..Len(s), ToSet(s))
    BY <2>1 DEF Surjection, ToSet
  <2>3. IsFiniteSet(1..Len(s))
    BY <2>1, FS_Interval
  <2> QED BY <2>1, <2>2, <2>3, FS_Surjection
<1> QED BY <1>1, SceneAssumption DEF Agents, Workers

\* Counting two sets that have nothing in common.
LEMMA DisjointCount ==
  ASSUME NEW S, IsFiniteSet(S), NEW T, IsFiniteSet(T), S \cap T = {}
  PROVE  /\ Cardinality(S \cup T) = Cardinality(S) + Cardinality(T)
         /\ Cardinality(S) \in Nat /\ Cardinality(T) \in Nat
<1>1. Cardinality(S) \in Nat /\ Cardinality(T) \in Nat
  BY FS_CardinalityType
<1>2. Cardinality(S \cup T) = Cardinality(S) + Cardinality(T) - Cardinality({})
  BY FS_Union
<1> QED BY <1>1, <1>2, FS_EmptySet

-----------------------------------------------------------------------------
\* What is counted.

\* The places in the list of delegations that the row of agent a counts.
RowPlaces(w, a) ==
  {i \in DOMAIN Delegations : /\ ParentOf[Delegations[i]] = a
                              /\ w.deleg[Delegations[i]] \in ActiveDelegation}
\* One unit for each worker that some row counts.
RowUnits(w) == UNION {{<<a, n>> : n \in 1..RowWorkers(w, a)} : a \in w.fleet}

\* A row's number numbers its places.
LEMMA RowPlacesCount ==
  ASSUME NEW w, NEW a
  PROVE  /\ RowWorkers(w, a) \in Nat
         /\ ExistsBijection(1..RowWorkers(w, a), RowPlaces(w, a))
<1>1. IsFiniteSet(RowPlaces(w, a))
  <2>1. IsFiniteSet(1..Len(Delegations))
    BY FiniteParties, FS_Interval
  <2>2. RowPlaces(w, a) \in SUBSET (1..Len(Delegations))
    BY FiniteParties DEF RowPlaces
  <2> QED BY <2>1, <2>2, FS_Subset
<1>2. RowWorkers(w, a) = Cardinality(RowPlaces(w, a))
  BY DEF RowWorkers, RowPlaces
<1> QED BY <1>1, <1>2, FS_CardinalityType

\* The strip counts a worker for each that a row counts: a delegation has one
\* place in the list and one parent, so the units of all rows and the workers
\* at the desks of the fleet correspond one to one.
LEMMA RowsCountWorkers ==
  ASSUME NEW w
  PROVE  SummaryWorkers(w) = Cardinality(RowUnits(w))
<1> DEFINE W == WorkersAt(w, w.fleet)
           g == [a \in w.fleet |-> CHOOSE h : h \in Bijection(1..RowWorkers(w, a), RowPlaces(w, a))]
           F == [p \in RowUnits(w) |-> Delegations[g[p[1]][p[2]]]]
<1>1. \A a \in w.fleet : g[a] \in Bijection(1..RowWorkers(w, a), RowPlaces(w, a))
  BY RowPlacesCount, Zenon DEF ExistsBijection
<1> HIDE DEF g
<1>2. \A p \in RowUnits(w) :
         /\ p = <<p[1], p[2]>> /\ p[1] \in w.fleet /\ p[2] \in 1..RowWorkers(w, p[1])
         /\ g[p[1]][p[2]] \in RowPlaces(w, p[1])
  <2>1. ASSUME NEW p \in RowUnits(w)
        PROVE  p = <<p[1], p[2]>> /\ p[1] \in w.fleet /\ p[2] \in 1..RowWorkers(w, p[1])
    <3>1. PICK a \in w.fleet : p \in {<<a, n>> : n \in 1..RowWorkers(w, a)}
      BY DEF RowUnits
    <3>2. PICK n \in 1..RowWorkers(w, a) : p = <<a, n>>
      BY <3>1
    <3> QED BY <3>1, <3>2
  <2> QED BY <1>1, <2>1 DEF Bijection, Injection, IsInjective
<1>3. ASSUME NEW p \in RowUnits(w) PROVE F[p] \in W
  <2>1. g[p[1]][p[2]] \in RowPlaces(w, p[1]) /\ p[1] \in w.fleet
    BY <1>2
  <2>2. Delegations[g[p[1]][p[2]]] \in Workers
    BY <2>1 DEF RowPlaces, Workers, ToSet
  <2> QED BY <2>1, <2>2 DEF RowPlaces, WorkersAt
<1>4. ASSUME NEW p \in RowUnits(w), NEW q \in RowUnits(w), F[p] = F[q] PROVE p = q
  <2>1. g[p[1]][p[2]] = g[q[1]][q[2]]
    BY <1>2, <1>4, SceneAssumption DEF RowPlaces
  <2>2. p[1] = q[1]
    BY <1>2, <2>1 DEF RowPlaces
  <2>3. /\ IsInjective(g[p[1]]) /\ DOMAIN g[p[1]] = 1..RowWorkers(w, p[1])
        /\ p[2] \in DOMAIN g[p[1]] /\ q[2] \in DOMAIN g[p[1]] /\ g[p[1]][p[2]] = g[p[1]][q[2]]
    <3>1. g[p[1]] \in Bijection(1..RowWorkers(w, p[1]), RowPlaces(w, p[1]))
      BY <1>1, <1>2
    <3> QED BY <1>2, <2>1, <2>2, <3>1 DEF Bijection, Injection
  <2>4. p[2] = q[2]
    BY <2>3, Zenon DEF IsInjective
  <2> QED BY <1>2, <2>2, <2>4
<1>5. ASSUME NEW d \in W PROVE \E p \in RowUnits(w) : F[p] = d
  <2>1. PICK i \in DOMAIN Delegations : Delegations[i] = d
    BY DEF WorkersAt, Workers, ToSet
  <2>2. ParentOf[d] \in w.fleet /\ i \in RowPlaces(w, ParentOf[d])
    BY <2>1 DEF WorkersAt, RowPlaces
  <2>3. PICK n \in 1..RowWorkers(w, ParentOf[d]) : g[ParentOf[d]][n] = i
    BY <1>1, <2>2 DEF Bijection, Surjection
  <2>4. <<ParentOf[d], n>> \in RowUnits(w)
    BY <2>2, <2>3 DEF RowUnits
  <2> QED BY <2>1, <2>3, <2>4
<1>6. F \in Injection(RowUnits(w), W) /\ F \in Surjection(RowUnits(w), W)
  <2>1. F \in [RowUnits(w) -> W]
    BY <1>3
  <2> HIDE DEF F
  <2> QED BY <2>1, <1>4, <1>5 DEF Injection, IsInjective, Surjection
<1>7. IsFiniteSet(W)
  BY FiniteParties, FS_Subset DEF WorkersAt
<1>8. Cardinality(RowUnits(w)) = Cardinality(W)
  <2> HIDE DEF F, W
  <2> QED BY <1>6, <1>7, FS_Injection
<1> QED BY <1>8 DEF SummaryWorkers

\* The task of an agent is one on its way, running or awaiting approval.
LEMMA CurrentStates ==
  ASSUME NEW w, NEW a
  PROVE  CurrentState(w, a) \notin {"FAILED", "BLOCKED"}
<1>1. ASSUME NEW S, TasksIn(w, a, S) # {}
      PROVE  /\ w.task[TaskList[Max(TasksIn(w, a, S))]] \in S
             /\ w.task[TaskList[Min(TasksIn(w, a, S))]] \in S
  <2>1. TasksIn(w, a, S) \in SUBSET (1..Len(TaskList))
    BY FiniteParties DEF TasksIn
  <2>2. /\ Max(TasksIn(w, a, S)) \in TasksIn(w, a, S)
        /\ Min(TasksIn(w, a, S)) \in TasksIn(w, a, S)
    BY <1>1, <2>1, FiniteParties, LeastAndGreatest
  <2> QED BY <2>2 DEF TasksIn
<1>2. CurrentTask(w, a) # NoTask =>
        w.task[CurrentTask(w, a)] \in {"RUNNING", "AWAITING_APPROVAL", "DISPATCHING", "QUEUED"}
  BY <1>1 DEF CurrentTask
<1> QED BY <1>2, SceneAssumption DEF CurrentState

\* The strip's attention figure is the banner's items and the agents that wait.
\* The banner's third part is empty: no current task has failed or is blocked.
LEMMA AttentionAddsUp ==
  ASSUME NEW w \in Data
  PROVE  SummaryAttention(w)
           = BannerItems(w) + Cardinality(InState(w, {"AWAITING_APPROVAL"}))
<1> DEFINE wait == InState(w, {"AWAITING_APPROVAL"})
           bad == InState(w, {"DEGRADED", "ERROR"})
<1>1. IsFiniteSet(wait) /\ IsFiniteSet(bad) /\ IsFiniteSet(w.asks)
  BY FiniteParties, DataAssumption, FS_Subset DEF InState
<1>2. InState(w, {"AWAITING_APPROVAL", "DEGRADED", "ERROR"}) = wait \cup bad /\ wait \cap bad = {}
  BY DEF InState
<1>3. {a \in w.fleet : CurrentState(w, a) \in {"FAILED", "BLOCKED"}} = {}
  BY CurrentStates
<1> HIDE DEF wait, bad
<1>4. /\ Cardinality(wait \cup bad) = Cardinality(wait) + Cardinality(bad)
      /\ Cardinality(wait) \in Nat /\ Cardinality(bad) \in Nat /\ Cardinality(w.asks) \in Nat
  BY <1>1, <1>2, DisjointCount, FS_CardinalityType
<1>5. SummaryAttention(w) = Cardinality(wait) + Cardinality(bad) + Cardinality(w.asks)
  BY <1>2, <1>4 DEF SummaryAttention
<1>6. BannerItems(w) = Cardinality(w.asks) + Cardinality(bad) + 0
  BY <1>3, FS_EmptySet DEF BannerItems, bad
<1> QED BY <1>4, <1>5, <1>6 DEF wait

\* The phone counts every agent drawn as waiting for its task.
LEMMA WaitingAddsUp ==
  world \in Data =>
    MobileWaiting(world)
      >= Cardinality({a \in world.fleet \ world.asks :
                         world.state[a] = "ACTIVE" /\ Behavior(a, now) = "alert"})
<1> SUFFICES ASSUME world \in Data
             PROVE  MobileWaiting(world)
                      >= Cardinality({a \in world.fleet \ world.asks :
                            world.state[a] = "ACTIVE" /\ Behavior(a, now) = "alert"})
  OBVIOUS
<1> DEFINE drawn == {a \in world.fleet \ world.asks :
                        world.state[a] = "ACTIVE" /\ Behavior(a, now) = "alert"}
           told == {a \in world.fleet : \/ world.state[a] = "AWAITING_APPROVAL"
                                        \/ CurrentState(world, a) = "AWAITING_APPROVAL"}
<1>1. drawn \subseteq told
  BY DEF Behavior, Blocked
<1>2. IsFiniteSet(told)
  BY FiniteParties, DataAssumption, FS_Subset
<1> HIDE DEF drawn, told
<1>3. Cardinality(drawn) <= Cardinality(told) /\ Cardinality(told) \in Nat
      /\ Cardinality(drawn) \in Nat
  BY <1>1, <1>2, FS_Subset, FS_CardinalityType
<1> QED BY <1>3 DEF MobileWaiting, drawn, told

\* The figures around the office add up whatever the data.
LEMMA AddsUp == world \in Data => OfficeAddsUp
BY RowsCountWorkers, AttentionAddsUp, WaitingAddsUp DEF OfficeAddsUp, RowUnits

-----------------------------------------------------------------------------
\* What a character can be, and the inductive invariant.

Journeys == {"HOME", "OUTBOUND", "VISITING", "RETURNING", "ARRIVING", "LEAVING"}
Postures == {"SEATED", "STANDING", "SIT_DOWN", "STAND_UP", "WALKING"}
Behaviors == {"alert", "meet", "work", "idle", "coffee", "stand", "away"}
\* Desks and docks, and what stands or lies at them.
ActiveWorkers(w) == {d \in Workers : w.deleg[d] \in ActiveDelegation}
Seats == UNION {{Desk(w, a) : a \in Agents} \cup {Dock(w, d) : d \in ActiveWorkers(w)} : w \in Data}
Places == {Chair(s) : s \in Seats} \cup {Door(s) : s \in Seats} \cup {Table, Lounge, Path}
Motions == [at : Places, target : Places, sit : BOOLEAN, legs : Nat, posture : Postures]
Characters ==
  [journey : Journeys, motion : Motions, clock : Nat, rest : Nat, seat : Seats,
   state : DelegationStates \cup {Gone}, behavior : Behaviors]

WorldTypes == world \in Data /\ now \in Windows \cup {QuietWindow}
OfficeTypes ==
  /\ WorldTypes
  /\ filter \in Filters /\ settings \in Settings
  /\ mode \in {"2.5d", "list"} /\ hidden \in BOOLEAN
  /\ DOMAIN actors \subseteq Agents \cup Workers
  /\ \A x \in DOMAIN actors : actors[x] \in Characters
  /\ offscreen \subseteq Agents \cup Workers
  /\ hovered \in Agents \cup Workers \cup {Nobody} /\ pointed \in Agents \cup {Nobody}
  /\ beat \in {0, 1} /\ changes \in 0..MaxChanges

\* What the layer last saw of a worker's delegation and what it made of it.
WorkerSeen(c) ==
  /\ c.state \in ActiveDelegation \/ c.journey = "LEAVING"
  /\ c.behavior \in {"work", "meet"} => c.state = "RUNNING"

OfficeInv == OfficeTypes /\ \A d \in Workers \cap DOMAIN actors : WorkerSeen(actors[d])

-----------------------------------------------------------------------------
\* Motions stay motions.
LEMMA MotionTypes ==
  ASSUME NEW m \in Motions, NEW place \in Places, NEW legs \in Nat, NEW sit \in BOOLEAN
  PROVE  /\ Still(place, sit) \in Motions
         /\ RequestMotion(m, place, legs, sit) \in Motions
         /\ AdvanceMotion(m) \in Motions
         /\ LegsTo(m, place) \in Nat
<1>1. /\ m.at \in Places /\ m.target \in Places /\ m.sit \in BOOLEAN /\ m.legs \in Nat
      /\ m.posture \in Postures
  BY DEF Motions
<1>2. Still(place, sit) \in Motions
  BY DEF Still, Motions, Postures
<1>3. RequestMotion(m, place, legs, sit) \in Motions
  BY DEF RequestMotion, Motions, Postures
<1>4. AdvanceMotion(m) \in Motions
  <2>1. Path \in Places
    BY DEF Places
  <2>2. CASE m.posture = "SIT_DOWN"
    BY <1>1, <2>2 DEF AdvanceMotion, Motions, Postures
  <2>3. CASE m.posture = "STAND_UP"
    BY <1>1, <2>3 DEF AdvanceMotion, Motions, Postures
  <2>4. CASE m.legs > 0 /\ m.posture \notin {"SIT_DOWN", "STAND_UP"}
    <3>1. m.legs - 1 \in Nat
      BY <1>1, <2>4
    <3> QED BY <1>1, <2>1, <2>4, <3>1 DEF AdvanceMotion, Motions, Postures
  <2>5. CASE ~ (m.legs > 0) /\ m.posture \notin {"SIT_DOWN", "STAND_UP"}
    BY <1>1, <2>5 DEF AdvanceMotion, Motions, Postures
  <2> QED BY <2>2, <2>3, <2>4, <2>5
<1>5. LegsTo(m, place) \in Nat
  BY OfficeAssumption DEF LegsTo
<1> QED BY <1>2, <1>3, <1>4, <1>5

\* What a step of a character's frame leaves as it was.
Keeps(c, e) ==
  /\ e \in Characters
  /\ e.state = c.state /\ e.behavior = c.behavior /\ e.seat = c.seat
  /\ e.journey = "LEAVING" => c.journey = "LEAVING"

\* The fields of a character have their types.
LEMMA FieldsOfACharacter ==
  ASSUME NEW c \in Characters
  PROVE  /\ c.journey \in Journeys /\ c.motion \in Motions /\ c.clock \in Nat /\ c.rest \in Nat
         /\ c.seat \in Seats /\ c.state \in DelegationStates \cup {Gone} /\ c.behavior \in Behaviors
BY DEF Characters

\* None of the parts a frame is made of changes who a character is, what it was
\* last seen at, or makes it leave.
LEMMA CharacterSteps ==
  ASSUME NEW c \in Characters, NEW wants, NEW arrived, NEW x, NEW b,
         NEW home \in Places, NEW spot \in Places
  PROVE  /\ Keeps(c, Move(x, c)) /\ Move(x, c).journey = c.journey
         /\ Keeps(c, Aged(c)) /\ Aged(c).journey = c.journey
         /\ Keeps(c, Depart(c, wants, home, spot))
         /\ Keeps(c, TurnBack(c, wants, home))
         /\ Keeps(c, Visit(c))
         /\ Keeps(c, BackHome(c, arrived))
         /\ Keeps(c, StayHome(c, b, home))
<1> USE FieldsOfACharacter, OfficeAssumption
<1>1. Keeps(c, Move(x, c)) /\ Move(x, c).journey = c.journey
  <2>1. AdvanceMotion(c.motion) \in Motions
    BY MotionTypes
  <2> QED BY <2>1 DEF Move, Keeps, Characters
<1>2. Keeps(c, Aged(c)) /\ Aged(c).journey = c.journey
  <2>1. /\ (IF c.clock > VisitFrames + FinishFrames THEN c.clock ELSE c.clock + 1) \in Nat
        /\ (IF c.rest = 0 THEN 0 ELSE c.rest - 1) \in Nat
    OBVIOUS
  <2> QED BY <2>1 DEF Aged, Keeps, Characters
<1>3. Keeps(c, Depart(c, wants, home, spot))
  <2>1. RequestMotion(c.motion, spot, TripLegs, FALSE) \in Motions
    BY MotionTypes
  <2> QED BY <2>1 DEF Depart, Keeps, Characters, Journeys
<1>4. Keeps(c, TurnBack(c, wants, home))
  <2>1. RequestMotion(c.motion, home, LegsTo(c.motion, home), TRUE) \in Motions
    BY MotionTypes
  <2> QED BY <2>1 DEF TurnBack, Keeps, Characters, Journeys
<1>5. Keeps(c, Visit(c))
  BY DEF Visit, Keeps, Characters, Journeys
<1>6. Keeps(c, BackHome(c, arrived))
  BY DEF BackHome, Keeps, Characters, Journeys
<1>7. Keeps(c, StayHome(c, b, home))
  <2>1. RequestMotion(c.motion, home, LegsTo(c.motion, home), b # "stand") \in Motions
    BY MotionTypes
  <2> QED BY <2>1 DEF StayHome, Keeps, Characters
<1> QED BY <1>1, <1>2, <1>3, <1>4, <1>5, <1>6, <1>7

-----------------------------------------------------------------------------
\* What the characters do.

\* Every agent does something, and works or meets only while it is ACTIVE and
\* nothing blocks it.
LEMMA SomeBehavior ==
  ASSUME NEW a, NEW t
  PROVE  /\ a \in Agents /\ world \in Data /\ t \in Windows \cup {QuietWindow}
              => Behavior(a, t) \in Behaviors
         /\ a \in Agents /\ t \in Windows \cup {QuietWindow} /\ Behavior(a, t) \in {"work", "meet"}
              => world.state[a] = "ACTIVE" /\ ~ Blocked(a)
BY DataAssumption DEF Behavior, Behaviors

\* A worker is shown at work only for a running delegation.
LEMMA SomeWorkerBehavior ==
  ASSUME NEW s
  PROVE  /\ WorkerBehavior(s) \in Behaviors
         /\ WorkerBehavior(s) \in {"work", "meet"} => s = "RUNNING"
BY DEF WorkerBehavior, Behaviors

\* A worker meets only while its delegation runs.
LEMMA MeetingRuns ==
  ASSUME NEW w, NEW d \in Workers, d \in Meeting(w)
  PROVE  w.deleg[d] = "RUNNING"
<1> DEFINE together == {i \in DOMAIN TaskList : /\ w.task[TaskList[i]] = "RUNNING"
                                                /\ Cardinality(Group(w, TaskList[i])) > 1}
<1>1. together # {} /\ d \in Group(w, TaskList[Min(together)])
  BY DEF Meeting
<1>2. together \in SUBSET (1..Len(TaskList))
  BY FiniteParties
<1>3. Min(together) \in DOMAIN TaskList
  <2> HIDE DEF together
  <2>1. Min(together) \in together
    BY <1>1, <1>2, FiniteParties, LeastAndGreatest
  <2> QED BY <2>1 DEF together
<1> HIDE DEF together
<1> DEFINE t == TaskList[Min(together)]
<1>4. t \in ToSet(TaskList)
  BY <1>3 DEF ToSet
<1>5. d \in Group(w, t)
  BY <1>1
<1> HIDE DEF t
<1>6. TaskOwner[t] \notin Workers /\ TaskHelpers[t] \subseteq Workers
  BY <1>4, SceneAssumption
<1>7. \A e \in Helpers(w, t) : e \in Workers /\ ParentOf[e] \notin Workers /\ w.deleg[e] = "RUNNING"
  BY <1>6, SceneAssumption DEF Helpers
<1> QED BY <1>5, <1>6, <1>7 DEF Group

\* Whoever has a seat has a place to sit and a door to come by.
LEMMA PlacesOfASeat ==
  ASSUME NEW s \in Seats
  PROVE  Chair(s) \in Places /\ Door(s) \in Places /\ Table \in Places /\ Lounge \in Places
BY DEF Places

\* The character of an agent in the next frame is one.
LEMMA AgentFrames ==
  ASSUME OfficeInv, NEW a \in Agents, NEW t \in Windows \cup {QuietWindow}
  PROVE  AgentFrame(a, t) \in Characters
<1> DEFINE seat == Desk(world, a)
           home == Chair(seat)
           b == Behavior(a, t)
           wants == settings.travel /\ ~settings.reduced /\ b \in {"coffee", "meet"}
           old == IF a \in DOMAIN actors THEN Aged(actors[a])
                  ELSE [journey |-> "HOME", motion |-> Still(home, TRUE), clock |-> 0,
                        rest |-> RestFrames, seat |-> seat, state |-> Gone, behavior |-> b]
           char == [old EXCEPT !.seat = seat, !.behavior = b]
           leaves == wants /\ char.motion.posture = "SEATED"
           spot == IF b = "coffee" THEN Lounge ELSE Table
           gone == Depart(char, leaves, home, spot)
           turned == TurnBack(gone, wants, home)
           stays == StayHome(turned, b, home)
           moves == Move(a, stays)
           moved == Visit(moves)
           arrived == moved.journey = "RETURNING" /\ moved.motion.at = home
           back == BackHome(moved, arrived)
<1>1. seat \in Seats /\ b \in Behaviors
  BY SomeBehavior DEF Seats, OfficeInv, OfficeTypes, WorldTypes
<1>2. home \in Places /\ spot \in Places
  BY <1>1, PlacesOfASeat
<1> HIDE DEF seat, b, home, spot, wants
<1>3. Still(home, TRUE) \in Motions /\ Still(home, b # "stand") \in Motions
  BY <1>2 DEF Still, Motions, Postures
<1>4. old \in Characters
  <2>1. CASE a \in DOMAIN actors
    BY <2>1, CharacterSteps, <1>2 DEF OfficeInv, OfficeTypes, Keeps
  <2>2. CASE a \notin DOMAIN actors
    BY <2>2, <1>1, <1>3, OfficeAssumption DEF Characters, Journeys
  <2> QED BY <2>1, <2>2
<1> HIDE DEF old
<1>5. char \in Characters
  BY <1>1, <1>4 DEF Characters
<1> HIDE DEF char, leaves
<1>6. gone \in Characters
  BY <1>2, <1>5, CharacterSteps DEF Keeps
<1> HIDE DEF gone
<1>7. turned \in Characters
  BY <1>2, <1>6, CharacterSteps DEF Keeps
<1> HIDE DEF turned
<1>8. stays \in Characters
  BY <1>2, <1>7, CharacterSteps DEF Keeps
<1> HIDE DEF stays
<1>9. moves \in Characters
  BY <1>2, <1>8, CharacterSteps DEF Keeps
<1> HIDE DEF moves
<1>10. moved \in Characters
  BY <1>2, <1>9, CharacterSteps DEF Keeps
<1> HIDE DEF moved, arrived
<1>11. back \in Characters
  BY <1>2, <1>10, CharacterSteps DEF Keeps
<1> HIDE DEF back
<1>12. [char EXCEPT !.motion = Still(home, b # "stand"), !.journey = "HOME"] \in Characters
  BY <1>3, <1>5 DEF Characters, Journeys
<1>13. [back EXCEPT !.behavior = IF @ = "coffee" /\ back.journey # "VISITING"
                                 THEN "idle" ELSE @] \in Characters
  BY <1>11 DEF Characters, Behaviors
<1>14. AgentFrame(a, t) =
          IF b = "away" \/ settings.reduced
          THEN [char EXCEPT !.motion = Still(home, b # "stand"), !.journey = "HOME"]
          ELSE [back EXCEPT !.behavior = IF @ = "coffee" /\ back.journey # "VISITING"
                                         THEN "idle" ELSE @]
  BY Zenon DEF AgentFrame, back, arrived, moved, moves, stays, turned, gone, leaves, char, old, spot,
               wants, b, home, seat
<1> QED BY <1>12, <1>13, <1>14, Zenon

\* The character of a worker at its dock tells the truth about its delegation, and
\* is not made to leave.
LEMMA WorkerFrames ==
  ASSUME OfficeInv, NEW d \in Workers, NEW t, world.deleg[d] \in ActiveDelegation
  PROVE  /\ WorkerFrame(d, t) \in Characters /\ WorkerSeen(WorkerFrame(d, t))
         /\ WorkerFrame(d, t).journey = "LEAVING"
              => d \in DOMAIN actors /\ actors[d].journey = "LEAVING"
<1> DEFINE known == d \in DOMAIN actors
           seat == IF known THEN actors[d].seat ELSE Dock(world, d)
           home == Chair(seat)
           travel == settings.travel /\ ~settings.reduced
           b == IF Collaborating(d, t) THEN "meet" ELSE WorkerBehavior(world.deleg[d])
           wants == b = "meet" /\ travel
           starts == RequestMotion(Still(Door(seat), FALSE), home, 1, TRUE)
           old == IF known THEN Aged(actors[d])
                  ELSE [journey |-> IF travel THEN "ARRIVING" ELSE "HOME",
                        motion |-> IF travel THEN starts ELSE Still(home, TRUE),
                        clock |-> 0, rest |-> 0, seat |-> seat,
                        state |-> world.deleg[d], behavior |-> b]
           gone == Depart(old, wants, home, Table)
           char == TurnBack(gone, wants, home)
           steps == IF settings.reduced
                    THEN [char EXCEPT !.motion = Still(home, TRUE)] ELSE Move(d, char)
           moved == Visit(steps)
           arrived == moved.journey \in {"RETURNING", "ARRIVING"}
           back == BackHome(moved, arrived)
           was == known /\ actors[d].journey = "LEAVING"
<1>1. seat \in Seats /\ world.deleg[d] \in DelegationStates
  BY DEF Seats, ActiveWorkers, OfficeInv, OfficeTypes, WorldTypes, Characters, ActiveDelegation,
         DelegationStates
<1>2. home \in Places /\ Table \in Places /\ Door(seat) \in Places
  BY <1>1, PlacesOfASeat
<1>3. b \in Behaviors /\ (b \in {"work", "meet"} => world.deleg[d] = "RUNNING")
  BY SomeWorkerBehavior, MeetingRuns DEF Collaborating, Behaviors
<1> HIDE DEF seat, b, home, wants
<1>4. Still(home, TRUE) \in Motions /\ starts \in Motions
  <2>1. Still(home, TRUE) \in Motions /\ Still(Door(seat), FALSE) \in Motions
    BY <1>2 DEF Still, Motions, Postures
  <2> QED BY <1>2, <2>1, MotionTypes
<1> HIDE DEF travel, starts
<1>5. old \in Characters /\ (old.journey = "LEAVING" => was)
  <2>1. CASE known
    BY <2>1, CharacterSteps, <1>2 DEF OfficeInv, OfficeTypes, Keeps
  <2>2. CASE ~ known
    BY <2>2, <1>1, <1>3, <1>4 DEF Characters, Journeys
  <2> QED BY <2>1, <2>2
<1> HIDE DEF old, was
<1>6. gone \in Characters /\ (gone.journey = "LEAVING" => was)
  <2>1. Keeps(old, gone)
    BY <1>2, <1>5, CharacterSteps
  <2> QED BY <1>5, <2>1 DEF Keeps
<1> HIDE DEF gone
<1>7. char \in Characters /\ (char.journey = "LEAVING" => was)
  <2>1. Keeps(gone, char)
    BY <1>2, <1>6, CharacterSteps
  <2> QED BY <1>6, <2>1 DEF Keeps
<1> HIDE DEF char
<1>8. steps \in Characters /\ (steps.journey = "LEAVING" => was)
  <2>1. Move(d, char) \in Characters /\ Move(d, char).journey = char.journey
    BY <1>2, <1>7, CharacterSteps DEF Keeps
  <2>2. [char EXCEPT !.motion = Still(home, TRUE)] \in Characters
        /\ [char EXCEPT !.motion = Still(home, TRUE)].journey = char.journey
    BY <1>4, <1>7 DEF Characters
  <2> QED BY <1>7, <2>1, <2>2
<1> HIDE DEF steps
<1>9. moved \in Characters /\ (moved.journey = "LEAVING" => was)
  BY <1>2, <1>8, CharacterSteps DEF Keeps
<1> HIDE DEF moved, arrived
<1>10. back \in Characters /\ (back.journey = "LEAVING" => was)
  BY <1>2, <1>9, CharacterSteps DEF Keeps
<1> HIDE DEF back
<1>11. WorkerFrame(d, t) = [back EXCEPT !.state = world.deleg[d], !.behavior = b]
  BY Zenon DEF WorkerFrame, back, arrived, moved, steps, char, gone, old, starts, wants, b, travel,
               home, seat
<1>12. /\ WorkerFrame(d, t) \in Characters
       /\ WorkerFrame(d, t).state = world.deleg[d] /\ WorkerFrame(d, t).behavior = b
       /\ WorkerFrame(d, t).journey = back.journey
  BY <1>1, <1>3, <1>10, <1>11 DEF Characters
<1> QED BY <1>3, <1>10, <1>12 DEF WorkerSeen, was

\* A worker is made to leave only by the end of a delegation seen active before.
LEMMA ExitFrames ==
  ASSUME OfficeInv, NEW d \in Workers, d \in DOMAIN actors,
         world.deleg[d] \notin ActiveDelegation \cup {Gone}
  PROVE  /\ ExitFrame(d) \in Characters /\ WorkerSeen(ExitFrame(d))
         /\ world.deleg[d] \in DelegationStates \ ActiveDelegation
         /\ actors[d].journey # "LEAVING" => actors[d].state \in ActiveDelegation
<1> DEFINE home == Chair(actors[d].seat)
           aged == Aged(actors[d])
           char == [aged EXCEPT !.state = world.deleg[d],
                                !.behavior = WorkerBehavior(world.deleg[d])]
           out == RequestMotion(char.motion, Door(char.seat), LegsTo(char.motion, home) + 1, FALSE)
           leaving == IF char.journey = "LEAVING" THEN char
                      ELSE [char EXCEPT !.motion = out, !.journey = "LEAVING", !.clock = 0]
<1>1. actors[d] \in Characters /\ WorkerSeen(actors[d])
  BY DEF OfficeInv, OfficeTypes
<1>2. world.deleg[d] \in DelegationStates \ ActiveDelegation
  BY DataAssumption DEF OfficeInv, OfficeTypes, WorldTypes
<1>3. actors[d].seat \in Seats /\ home \in Places
  BY <1>1, FieldsOfACharacter, PlacesOfASeat
<1>4. WorkerBehavior(world.deleg[d]) \in Behaviors \ {"work", "meet"}
  BY <1>2, SomeWorkerBehavior DEF ActiveDelegation
<1> HIDE DEF home
<1>5. aged \in Characters
  BY <1>1, <1>3, CharacterSteps DEF Keeps
<1> HIDE DEF aged
<1>6. char \in Characters /\ char.behavior \notin {"work", "meet"}
  BY <1>2, <1>4, <1>5 DEF Characters
<1> HIDE DEF char
<1>7. out \in Motions
  <2>1. char.motion \in Motions /\ char.seat \in Seats /\ Door(char.seat) \in Places
    BY <1>6, FieldsOfACharacter, PlacesOfASeat
  <2>2. LegsTo(char.motion, home) + 1 \in Nat
    BY OfficeAssumption DEF LegsTo
  <2> QED BY <2>1, <2>2, MotionTypes
<1> HIDE DEF out
<1>8. leaving \in Characters /\ leaving.journey = "LEAVING" /\ leaving.behavior \notin {"work", "meet"}
  BY <1>6, <1>7 DEF Characters, Journeys
<1> HIDE DEF leaving
<1>9. Keeps(leaving, Move(d, leaving)) /\ Move(d, leaving).journey = "LEAVING"
  BY <1>3, <1>8, CharacterSteps
<1>10. ExitFrame(d) = IF leaving.clock >= FinishFrames THEN Move(d, leaving) ELSE leaving
  BY Zenon DEF ExitFrame, leaving, out, char, aged, home
<1> QED BY <1>1, <1>2, <1>8, <1>9, <1>10 DEF Keeps, WorkerSeen

-----------------------------------------------------------------------------
\* The steps.

\* The office opens with nobody in it.
LEMMA OfficeInit == Init => OfficeInv
<1> SUFFICES ASSUME Init PROVE OfficeInv
  OBVIOUS
<1>1. DOMAIN actors = {}
  BY DEF Init
<1>2. WorldTypes
  BY DataAssumption DEF Init, WorldTypes
<1>3. changes \in 0..MaxChanges
  BY OfficeAssumption DEF Init
<1>4. /\ filter \in Filters /\ settings \in Settings /\ mode \in {"2.5d", "list"}
      /\ hidden \in BOOLEAN /\ offscreen \subseteq Agents \cup Workers
      /\ hovered = Nobody /\ pointed = Nobody /\ beat \in {0, 1}
  BY DEF Init
<1> QED BY <1>1, <1>2, <1>3, <1>4 DEF OfficeInv, OfficeTypes

\* Who takes part in a frame: agents shown, workers of active delegations, and
\* workers of delegations that have ended.
LEMMA CastOfAFrame ==
  ASSUME OfficeInv
  PROVE  /\ Shown(world, filter) \subseteq Agents
         /\ \A d \in WorkersAt(world, Shown(world, filter)) :
               d \in Workers /\ world.deleg[d] \in ActiveDelegation
         /\ \A d \in Exits(Shown(world, filter)) :
               /\ d \in Workers /\ d \in DOMAIN actors
               /\ world.deleg[d] \notin ActiveDelegation \cup {Gone}
         /\ \A d \in Workers : d \notin Shown(world, filter)
<1>1. Shown(world, filter) \subseteq Agents
  BY DataAssumption DEF Shown, OfficeInv, OfficeTypes, WorldTypes
<1> QED BY <1>1, SceneAssumption DEF WorkersAt, Exits

\* Every step keeps the invariant; only a frame draws new characters.
LEMMA OfficeStep == OfficeInv /\ [Next]_vars => OfficeInv'
<1> SUFFICES ASSUME OfficeInv, [Next]_vars PROVE OfficeInv'
  OBVIOUS
<1>1. CASE Frame
  <2> DEFINE shown == Shown(world, filter)
             staff == WorkersAt(world, shown)
             leavers == {d \in Exits(shown) : StillLeaving(ExitFrame(d))}
  <2>1. /\ now' \in Windows /\ UNCHANGED <<world, filter, settings, mode, hidden,
                                            offscreen, hovered, pointed, changes>>
        /\ beat' \in {0, 1}
    BY <1>1 DEF Frame, Beat, OfficeInv, OfficeTypes
  <2>2. actors' = [x \in shown \cup staff \cup leavers |->
                     IF x \in shown THEN AgentFrame(x, now')
                     ELSE IF x \in staff THEN WorkerFrame(x, now') ELSE ExitFrame(x)]
    BY <1>1 DEF Frame
  <2>3. /\ shown \subseteq Agents
        /\ \A d \in staff : d \in Workers /\ world.deleg[d] \in ActiveDelegation
        /\ \A d \in leavers : /\ d \in Workers /\ d \in DOMAIN actors
                              /\ world.deleg[d] \notin ActiveDelegation \cup {Gone}
        /\ \A d \in Workers : d \notin shown
    BY CastOfAFrame
  <2> HIDE DEF shown, staff, leavers
  <2>4. DOMAIN actors' = shown \cup staff \cup leavers
    BY <2>2
  <2>5. ASSUME NEW x \in DOMAIN actors'
        PROVE  actors'[x] \in Characters /\ (x \in Workers => WorkerSeen(actors'[x]))
    <3>1. CASE x \in shown
      <4>1. actors'[x] = AgentFrame(x, now')
        BY <2>2, <2>4, <3>1
      <4>2. AgentFrame(x, now') \in Characters
        BY <2>1, <2>3, <3>1, AgentFrames
      <4> QED BY <2>3, <3>1, <4>1, <4>2
    <3>2. CASE x \notin shown /\ x \in staff
      <4>1. actors'[x] = WorkerFrame(x, now')
        BY <2>2, <2>4, <3>2
      <4>2. WorkerFrame(x, now') \in Characters /\ WorkerSeen(WorkerFrame(x, now'))
        BY <2>3, <3>2, WorkerFrames
      <4> QED BY <4>1, <4>2
    <3>3. CASE x \notin shown /\ x \notin staff
      <4>1. actors'[x] = ExitFrame(x) /\ x \in leavers
        BY <2>2, <2>4, <3>3
      <4>2. ExitFrame(x) \in Characters /\ WorkerSeen(ExitFrame(x))
        BY <2>3, <4>1, ExitFrames
      <4> QED BY <4>1, <4>2
    <3> QED BY <3>1, <3>2, <3>3
  <2>6. DOMAIN actors' \subseteq Agents \cup Workers
    BY <2>3, <2>4
  <2>7. OfficeTypes'
    BY <2>1, <2>5, <2>6 DEF OfficeInv, OfficeTypes, WorldTypes
  <2>8. \A d \in Workers \cap DOMAIN actors' : WorkerSeen(actors'[d])
    BY <2>5
  <2> QED BY <2>7, <2>8 DEF OfficeInv, WorkerSeen
<1>2. CASE NewData
  BY <1>2, DataAssumption, OfficeAssumption
     DEF NewData, Change, OfficeInv, OfficeTypes, WorldTypes, WorkerSeen
<1>3. CASE ToggleTab
  BY <1>3, OfficeAssumption DEF ToggleTab, Change, OfficeInv, OfficeTypes, WorldTypes, WorkerSeen
<1>4. CASE Leave
  BY <1>4 DEF Leave, OfficeInv, OfficeTypes, WorldTypes, WorkerSeen
<1>5. ASSUME NEW f \in Filters, SetFilter(f) PROVE OfficeInv'
  BY <1>5, OfficeAssumption DEF SetFilter, Change, OfficeInv, OfficeTypes, WorldTypes, WorkerSeen
<1>6. ASSUME NEW s \in Settings, SetSettings(s) PROVE OfficeInv'
  BY <1>6, OfficeAssumption DEF SetSettings, Change, OfficeInv, OfficeTypes, WorldTypes, WorkerSeen
<1>7. ASSUME NEW m \in {"2.5d", "list"}, SetMode(m) PROVE OfficeInv'
  <2>1. DOMAIN actors' = {}
    BY <1>7 DEF SetMode
  <2> QED BY <1>7, <2>1, OfficeAssumption DEF SetMode, Change, OfficeInv, OfficeTypes, WorldTypes
<1>8. ASSUME NEW x \in Agents \cup Workers, Hover(x) PROVE OfficeInv'
  BY <1>8, OfficeAssumption DEF Hover, Change, OfficeInv, OfficeTypes, WorldTypes, WorkerSeen
<1>9. ASSUME NEW x \in Agents \cup Workers, Scroll(x) PROVE OfficeInv'
  BY <1>9, OfficeAssumption DEF Scroll, Change, OfficeInv, OfficeTypes, WorldTypes, WorkerSeen
<1>10. CASE UNCHANGED vars
  BY <1>10 DEF vars, OfficeInv, OfficeTypes, WorldTypes, WorkerSeen
<1> QED BY <1>1, <1>2, <1>3, <1>4, <1>5, <1>6, <1>7, <1>8, <1>9, <1>10 DEF Next

\* The inductive invariant of the office (controller.ts): types, and what every
\* worker on the stage was last seen at.
THEOREM OfficeInvariance == Spec => []OfficeInv
BY OfficeInit, OfficeStep, PTL DEF Spec

\* What a render makes of the last frame and of the data of now is not busier
\* than the data.
LEMMA DrawnBusy == OfficeInv => BusyMeansBusy
<1> SUFFICES ASSUME OfficeInv, NEW x \in Rendered, Effective(x) \in {"work", "meet"}
             PROVE  IF x \in Agents THEN world.state[x] = "ACTIVE" /\ ~Blocked(x)
                    ELSE world.deleg[x] \in {"RUNNING", Gone}
  BY DEF BusyMeansBusy
<1>1. x \in DOMAIN actors /\ x \in Agents \cup Workers
  BY DEF Rendered, OfficeInv, OfficeTypes
<1>2. \A b, m : VisibleBehavior(b, m) \in {"work", "meet"} => b \in {"work", "meet"}
  BY DEF VisibleBehavior
<1>3. CASE x \in Agents
  <2>1. Behavior(x, now) \in {"work", "meet"}
    BY <1>2, <1>3 DEF Effective
  <2> QED BY <1>3, <2>1, SomeBehavior DEF OfficeInv, OfficeTypes, WorldTypes
<1>4. CASE x \notin Agents
  <2>1. x \in Workers /\ WorkerSeen(actors[x])
    BY <1>1, <1>4 DEF OfficeInv
  <2>2. \/ world.deleg[x] \notin {Gone, actors[x].state}
           /\ WorkerBehavior(world.deleg[x]) \in {"work", "meet"}
        \/ world.deleg[x] \in {Gone, actors[x].state} /\ actors[x].behavior \in {"work", "meet"}
    BY <1>2, <1>4 DEF Effective
  <2> QED BY <1>4, <2>1, <2>2, SomeWorkerBehavior DEF WorkerSeen
<1> QED BY <1>3, <1>4

\* Nobody is drawn at work who is not, however old the frame behind the drawing,
\* and the figures of strip, banner, phone and list add up for all data.
THEOREM OfficeTellsTheTruth == Spec => []DrawnAndCounted
<1>1. OfficeInv => DrawnAndCounted
  BY DrawnBusy, AddsUp DEF DrawnAndCounted, OfficeInv, OfficeTypes, WorldTypes
<1> QED BY <1>1, OfficeInvariance, PTL

\* A worker starts to leave only in a frame that saw its delegation end since the
\* last one, whatever filters, data that is missing, renderers and tabs do.
THEOREM ExitsHold == Spec => ExitsAreObserved
<1> DEFINE Observed ==
      \A d \in Workers \cap DOMAIN actors' :
          actors'[d].journey = "LEAVING" =>
              /\ d \in DOMAIN actors
              /\ \/ actors[d].journey = "LEAVING"
                 \/ /\ actors[d].state \in ActiveDelegation
                    /\ world.deleg[d] \in DelegationStates \ ActiveDelegation
<1>1. OfficeInv /\ [Next]_vars => [Observed]_vars
  <2> SUFFICES ASSUME OfficeInv, Next, NEW d \in Workers, d \in DOMAIN actors',
                      actors'[d].journey = "LEAVING"
               PROVE  /\ d \in DOMAIN actors
                      /\ \/ actors[d].journey = "LEAVING"
                         \/ /\ actors[d].state \in ActiveDelegation
                            /\ world.deleg[d] \in DelegationStates \ ActiveDelegation
    OBVIOUS
  <2>1. CASE Frame
    <3> DEFINE shown == Shown(world, filter)
               staff == WorkersAt(world, shown)
               leavers == {e \in Exits(shown) : StillLeaving(ExitFrame(e))}
    <3>1. actors' = [x \in shown \cup staff \cup leavers |->
                       IF x \in shown THEN AgentFrame(x, now')
                       ELSE IF x \in staff THEN WorkerFrame(x, now') ELSE ExitFrame(x)]
      BY <2>1 DEF Frame
    <3>2. d \notin shown /\ leavers \subseteq Exits(shown)
      BY CastOfAFrame
    <3>3. CASE d \in staff
      <4>1. actors'[d] = WorkerFrame(d, now') /\ world.deleg[d] \in ActiveDelegation
        BY <3>1, <3>2, <3>3, CastOfAFrame
      <4> QED BY <4>1, WorkerFrames
    <3>4. CASE d \notin staff
      <4>1. d \in Exits(shown)
        BY <3>1, <3>2, <3>4
      <4> QED BY <4>1, CastOfAFrame, ExitFrames
    <3> QED BY <3>3, <3>4
  <2>2. CASE actors' = actors
    BY <2>2
  <2>3. CASE actors' = <<>>
    <3>1. DOMAIN actors' = {}
      BY <2>3
    <3> QED BY <3>1
  <2>4. Frame \/ actors' = actors \/ actors' = <<>>
    BY DEF Next, NewData, ToggleTab, Leave, SetFilter, SetSettings, SetMode, Hover, Scroll
  <2> QED BY <2>1, <2>2, <2>3, <2>4
<1>2. []OfficeInv /\ [][Next]_vars => [][Observed]_vars
  BY <1>1, PTL
<1> QED BY <1>2, OfficeInvariance, PTL DEF Spec, ExitsAreObserved
=============================================================================
