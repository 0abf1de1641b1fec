------------------------------- MODULE Fleet -------------------------------
(* The read-only pages of the fleet and the query cache behind them, which two *)
(* writers share: the answers of the pages' own requests, and the snapshots    *)
(* and deltas of the realtime channel (realtime-cache.ts).  Realtime.tla says  *)
(* that the messages arrive, in order and without gaps; this module says what  *)
(* they do to the cache while answers read before them arrive after them.      *)
EXTENDS Projections, QueryCache, Sequences

CONSTANTS
    Agents, RawStates, Gone,        \* an agent's state, or that there is none
    Items, Severity,                \* attention items and how severe they are
    Delegations, Statuses,          \* delegations; what the gateway reports
    MaxChanges, MaxAsks, MaxLosses  \* bounds

ASSUME FleetAssumption ==
    /\ IsFiniteSet(Agents) /\ IsFiniteSet(Items)
    /\ Gone \notin RawStates /\ Severity \in [Items -> {"CRITICAL", "HIGH", "MEDIUM"}]
    /\ MaxChanges \in Nat /\ MaxAsks \in Nat /\ MaxLosses \in Nat
(* The names of different kinds of things differ, and so do what tells that    *)
(* there is nothing and what there can be.                                     *)
ASSUME NamesAssumption ==
    /\ Agents \cap Items = {} /\ Delegations \cap (Agents \cup Items) = {}
    /\ Agents \cap {"agents", "pulse", "gateway", "delegations"} = {}
    /\ Gone \notin Agents \cup AgentStates \cup DelegationStates
    /\ Absent \notin [Agents -> AgentStates \cup {Gone}]

VARIABLES
    world,      \* what the backend would answer now
    published,  \* what the sampler published last
    wire, up,   \* messages not applied yet, and whether the socket is open
    cache,      \* one entry per key; the detail of an agent has its id
    route, open,\* the page on the screen and the agent its modal is about
    drift,      \* figures whose last writer was an answer
    unheard,    \* what an answer told that the sampler had not published
    changes, asks, losses

vars == <<world, published, wire, up, cache, route, open, drift, unheard,
          changes, asks, losses>>

-----------------------------------------------------------------------------
Active(ds) == {d \in Delegations : ds[d] \in {"QUEUED", "CLAIMED", "RUNNING"}}
MapAgents(as) == [a \in Agents |-> IF as[a] = Gone THEN Gone ELSE MapAgent(as[a])]
Listed(list) == {a \in Agents : list[a] # Gone}
InState(list, s) == {a \in Listed(list) : list[a] = s}
Critical(queue) == {i \in queue : MapAttention(Severity[i]) = "critical"}

Keys == {"agents", "pulse", "gateway", "delegations"} \cup Agents

(* What the pages observe.                                                     *)
Observed(r, a) ==
    (CASE r = "command" -> {"pulse", "agents", "gateway"}
       [] r = "agents"  -> {"agents"}
       [] r = "runtime" -> {"gateway", "delegations"})
    \cup (IF a \in Agents THEN {a} ELSE {})
OnScreen(k) == k \in Observed(route, open)

(* What the backend answers; an agent that is gone is an error.                *)
Answer(k) ==
    CASE k = "agents"   -> MapAgents(world.agents)
      [] k = "pulse"    -> MapSystemPulse(world.gateway, world.attention)
      [] k = "gateway"  -> MapGateway(world.gateway)
      [] k = "delegations" -> [d \in Delegations |-> MapDelegation(world.delegations[d])]
      [] OTHER -> MapAgents(world.agents)[k]

-----------------------------------------------------------------------------
(* applyRealtimeSnapshot.  The list of delegations becomes the active ones;    *)
(* the details of agents that are gone stay.                                   *)
SnapshotPulse(s) ==
    [gateway |-> GatewayOfPulse(s.gateway),
     active |-> Cardinality(InState(MapAgents(s.agents), "ACTIVE")),
     total |-> Cardinality(Listed(MapAgents(s.agents))),
     count |-> Cardinality(s.attention), critical |-> Cardinality(Critical(s.attention)),
     queue |-> s.attention]
Hydrated(k, s) ==
    LET list == MapAgents(s.agents)
        e == cache[k]
    IN  CASE k = "agents"   -> SetData(e, list)
          [] k = "gateway"  -> SetData(e, MapRealtimeGateway(s.gateway))
          [] k = "delegations" ->
                SetData(e, [d \in Delegations |->
                              IF d \in Active(s.delegations) THEN s.delegations[d] ELSE Gone])
          [] k = "pulse" -> SetData(e, SnapshotPulse(s))
          [] k \in Listed(list) -> SetData(e, list[k])
          [] OTHER -> e

(* applyRealtimeDelta: each part that changed from p to s is patched into what *)
(* the cache holds, whoever wrote that; a pulse not loaded yet stays so.       *)
Changed(p, s) == {a \in Agents : p.agents[a] # s.agents[a]}
AttentionChanged(p, s) == (p.attention \ s.attention) \cup (s.attention \ p.attention)
(* Mutant: only that one becomes active or ceases to be is noticed.             *)
MutantActiveChanged(p, s) == Active(p.delegations) # Active(s.delegations)
ActiveChanged(p, s) ==
    \E d \in Active(p.delegations) \cup Active(s.delegations) :
        p.delegations[d] # s.delegations[d]
(* Mutant: what the delta removes is left in the list.                         *)
MutantPatchedList(p, s) ==
    [a \in Agents |-> IF a \in Changed(p, s) /\ s.agents[a] # Gone THEN MapAgents(s.agents)[a]
                      ELSE IF cache["agents"].data = Absent THEN Gone ELSE cache["agents"].data[a]]
PatchedList(p, s) ==
    [a \in Agents |-> IF a \in Changed(p, s) THEN MapAgents(s.agents)[a]
                      ELSE IF cache["agents"].data = Absent THEN Gone ELSE cache["agents"].data[a]]
PatchedQueue(queue, p, s) ==
    (queue \ (p.attention \ s.attention)) \cup (s.attention \ p.attention)
(* Mutant: the agents are counted as they were before the delta.               *)
MutantPatchedPulse(pulse, p, s) ==
    LET queue == PatchedQueue(pulse.queue, p, s)
        alarms == IF AttentionChanged(p, s) = {} THEN pulse
                  ELSE [pulse EXCEPT !.queue = queue, !.count = Cardinality(queue),
                                     !.critical = Cardinality(Critical(queue))]
    IN  IF p.gateway = s.gateway THEN alarms
        ELSE [alarms EXCEPT !.gateway = GatewayOfPulse(s.gateway)]
PatchedPulse(pulse, p, s) ==
    LET list == PatchedList(p, s)
        queue == PatchedQueue(pulse.queue, p, s)
        fleet == IF Changed(p, s) = {} THEN pulse
                 ELSE [pulse EXCEPT !.active = Cardinality(InState(list, "ACTIVE")),
                                    !.total = Cardinality(Listed(list))]
        alarms == IF AttentionChanged(p, s) = {} THEN fleet
                  ELSE [fleet EXCEPT !.queue = queue, !.count = Cardinality(queue),
                                     !.critical = Cardinality(Critical(queue))]
    IN  IF p.gateway = s.gateway THEN alarms
        ELSE [alarms EXCEPT !.gateway = GatewayOfPulse(s.gateway)]

(* A detail that is removed is asked for again by a modal that is open on it.  *)
Removed(k) == IF OnScreen(k) THEN Asked(EmptyEntry) ELSE EmptyEntry
Patched(k, p, s) ==
    LET e == cache[k]
    IN  CASE k = "agents" /\ Changed(p, s) # {} -> SetData(e, PatchedList(p, s))
          [] k = "gateway" /\ p.gateway # s.gateway -> SetData(e, MapRealtimeGateway(s.gateway))
          [] k = "delegations" /\ ActiveChanged(p, s) -> Invalidated(e, OnScreen(k))
          [] k = "pulse" /\ e.data # Absent /\ PatchedPulse(e.data, p, s) # e.data ->
                SetData(e, PatchedPulse(e.data, p, s))
          [] k \in Changed(p, s) ->
                IF s.agents[k] = Gone THEN Removed(k) ELSE SetData(e, MapAgents(s.agents)[k])
          [] OTHER -> e

(* What the messages settle of the two records below.                          *)
Orphans(s) == {a \in Agents : s.agents[a] = Gone /\ cache[a].data # Absent}
Settles(p, s) ==
    (IF Changed(p, s) = {} THEN {} ELSE {"agents"})
    \cup (IF AttentionChanged(p, s) = {} THEN {} ELSE {"attention"})
    \cup (IF p.gateway = s.gateway THEN {} ELSE {"gateway"})

-----------------------------------------------------------------------------
(* The backend and its sampler.  An agent appears, changes or goes; a          *)
(* delegation proceeds.                                                        *)
Proceeds == {<<"QUEUED", "RUNNING">>, <<"RUNNING", "COMPLETED">>}
Change ==
    /\ changes < MaxChanges /\ changes' = changes + 1
    /\ \/ \E a \in Agents : \E st \in (RawStates \cup {Gone}) \ {world.agents[a]} :
             world' = [world EXCEPT !.agents[a] = st]
       \/ \E q \in SUBSET Items \ {world.attention} : world' = [world EXCEPT !.attention = q]
       \/ \E st \in Statuses \ {world.gateway} : world' = [world EXCEPT !.gateway = st]
       \/ \E d \in Delegations, st \in DelegationStates :
             /\ <<world.delegations[d], st>> \in Proceeds
             /\ world' = [world EXCEPT !.delegations[d] = st]
    /\ UNCHANGED <<published, wire, up, cache, route, open, drift, unheard, asks, losses>>

Publish ==
    /\ world # published
    /\ wire' = Append(wire, [type |-> "delta", previous |-> published, current |-> world])
    /\ published' = world
    /\ UNCHANGED <<world, up, cache, route, open, drift, unheard, changes, asks, losses>>

(* The socket closes and opens again, with what was missed or with a snapshot  *)
(* (Realtime.tla says when which).                                             *)
SnapshotOf(s) == [type |-> "snapshot", previous |-> s, current |-> s]
Lose ==
    /\ up /\ losses < MaxLosses
    /\ up' = FALSE /\ losses' = losses + 1
    /\ UNCHANGED <<world, published, wire, cache, route, open, drift, unheard, changes, asks>>
Reconnect ==
    /\ ~up /\ up' = TRUE
    /\ wire' \in {wire, <<SnapshotOf(published)>>}
    /\ UNCHANGED <<world, published, cache, route, open, drift, unheard, changes, asks, losses>>

(* handleMessage, whatever page is on the screen.                              *)
Deliver ==
    /\ up /\ wire # <<>> /\ wire' = Tail(wire)
    /\ LET m == Head(wire)
           p == m.previous
           s == m.current
       IN  IF m.type = "snapshot"
           THEN /\ cache' = [k \in Keys |-> Hydrated(k, s)]
                /\ drift' = {}
                /\ unheard' = {<<a, a>> : a \in Orphans(s)}
           ELSE /\ cache' = [k \in Keys |-> Patched(k, p, s)]
                /\ drift' = IF cache["pulse"].data = Absent THEN drift ELSE drift \ Settles(p, s)
                /\ unheard' = {u \in unheard : u[2] \notin Changed(p, s) \cup AttentionChanged(p, s)}
    /\ UNCHANGED <<world, published, up, route, open, changes, asks, losses>>

-----------------------------------------------------------------------------
(* The requests of the pages.                                                  *)
Ask(keys, Op(_)) ==
    /\ asks < MaxAsks /\ asks' = asks + 1
    /\ cache' = [k \in Keys |-> IF k \in keys THEN Op(cache[k]) ELSE cache[k]]
    /\ UNCHANGED <<world, published, wire, up, drift, unheard, changes, losses>>

(* Another route, or a modal: what was not observed is mounted.                *)
Turn(r, a) ==
    /\ <<r, a>> # <<route, open>>
    /\ route' = r /\ open' = a
    /\ \E aged \in BOOLEAN :
          Ask(Observed(r, a) \ Observed(route, open), LAMBDA e : Mounted(e, aged))
Visit(r) == r # route /\ Turn(r, Gone)
OpenAgent(a) == route # "runtime" /\ cache["agents"].data # Absent
                /\ cache["agents"].data[a] # Gone /\ Turn(route, a)
CloseAgent ==
    /\ open # Gone /\ open' = Gone
    /\ UNCHANGED <<world, published, wire, up, cache, route, drift, unheard, changes, asks, losses>>

(* The Refresh buttons of the Command Center and of the gateway panel.         *)
Refresh ==
    /\ \/ route = "command" /\ Ask({"pulse", "agents"}, Refetched)
       \/ route = "runtime" /\ Ask({"gateway"}, Refetched)
    /\ UNCHANGED <<route, open>>

Serve(k) ==
    /\ cache[k].flight = "asked"
    /\ k \in Agents => world.agents[k] # Gone
    /\ cache' = [cache EXCEPT ![k] = Served(@, Answer(k))]
    /\ UNCHANGED <<world, published, wire, up, route, open, drift, unheard, changes, asks, losses>>
Fail(k) ==
    /\ cache[k].flight # "idle"
    /\ losses < MaxLosses /\ losses' = losses + 1
    /\ cache' = [cache EXCEPT ![k] = Failed(@, OnScreen(k))]
    /\ UNCHANGED <<world, published, wire, up, route, open, drift, unheard, changes, asks>>

(* The answer replaces whatever the channel wrote since it was read.           *)
Unpublished(k, v) ==
    CASE k = "agents" -> {a \in Agents : v[a] # MapAgents(published.agents)[a]}
      [] k \in Agents -> {a \in {k} : v # MapAgents(published.agents)[a]}
      [] k = "pulse" -> AttentionChanged([attention |-> v.queue], published)
      [] k = "delegations" -> {d \in Delegations : ActiveChanged([delegations |-> v], published)}
      [] OTHER -> {}
Drifts(k) ==
    CASE k = "pulse" -> {"agents", "attention", "gateway"}
      [] k \in {"agents", "gateway"} -> {k}
      [] OTHER -> {}
Land(k) ==
    /\ cache[k].flight = "answered"
    /\ cache' = [cache EXCEPT ![k] = Landed(@)]
    /\ drift' = drift \cup Drifts(k)
    /\ unheard' = {u \in unheard : u[1] # k} \cup {<<k, x>> : x \in Unpublished(k, cache[k].answer)}
    /\ UNCHANGED <<world, published, wire, up, route, open, changes, asks, losses>>

-----------------------------------------------------------------------------
Init ==
    /\ world \in [agents: [Agents -> {"ACTIVE"}], gateway: {"HEALTHY"}, attention: {{}},
                  delegations: [Delegations -> {"QUEUED"}]]
    /\ published = world /\ up = TRUE
    /\ wire = <<SnapshotOf(world)>>
    /\ route \in {"command", "runtime"} /\ open = Gone
    /\ cache = [k \in Keys |-> IF k \in Observed(route, Gone) THEN Asked(EmptyEntry) ELSE EmptyEntry]
    /\ drift = {"agents", "attention", "gateway"} /\ unheard = {}
    /\ changes = 0 /\ asks = 0 /\ losses = 0

Next ==
    \/ Change \/ Publish \/ Lose \/ Reconnect \/ Deliver \/ Refresh \/ CloseAgent
    \/ \E r \in {"command", "agents", "runtime"} : Visit(r)
    \/ \E a \in Agents : OpenAgent(a)
    \/ \E k \in Keys : Serve(k) \/ Fail(k) \/ Land(k)

Spec == Init /\ [][Next]_vars

-----------------------------------------------------------------------------
(* What the pages show.  The strip of the Command Center, the summary bar of   *)
(* the agents' page, the badge of the gateway.                                 *)
Shown(k) == cache[k].data
Loaded(k) == Shown(k) # Absent
SummaryBar == [registered |-> Cardinality(Listed(Shown("agents"))),
               active |-> Cardinality(InState(Shown("agents"), "ACTIVE"))]
GatewayBadge == CASE ~Loaded("gateway") -> "UNKNOWN" [] OTHER -> Shown("gateway")
AgentInModal(a) == IF Loaded(a) THEN Shown(a) ELSE Shown("agents")[a]

(* The figures of the pages agree.  However answers, snapshots, replays and    *)
(* deltas mixed, figures that no answer wrote since the channel last did add   *)
(* up across the pages: the pulse counts the agents the list shows, its alarms *)
(* are the cards of the queue, and it calls the gateway healthy exactly if the *)
(* badge says so or that it is degraded.                                       *)
FiguresAgree ==
    (Loaded("pulse") /\ Loaded("agents") /\ Loaded("gateway")) =>
        LET pulse == Shown("pulse") IN
        /\ "agents" \notin drift =>
              pulse.active = SummaryBar.active /\ pulse.total = SummaryBar.registered
        /\ "attention" \notin drift =>
              pulse.count = Cardinality(pulse.queue)
        /\ "gateway" \notin drift =>
              (pulse.gateway = "HEALTHY") <=> (GatewayBadge \in {"HEALTHY", "DEGRADED"})

(* A page at rest shows the fleet: once what the sampler published is applied, *)
(* every agent in the list and in a modal, and every alarm, is the backend's,  *)
(* except where the last answer told what the sampler had not published then,  *)
(* and details of agents that went between two snapshots.  So an answer that   *)
(* is overtaken by a delta is the only way to a wrong page.                    *)
Quiet == up /\ wire = <<>> /\ world = published
QuietPagesAreCurrent ==
    Quiet =>
        /\ \A a \in Agents :
              /\ Loaded("agents") /\ <<"agents", a>> \notin unheard
                    => Shown("agents")[a] = MapAgents(world.agents)[a]
              /\ Loaded(a) /\ <<a, a>> \notin unheard => AgentInModal(a) = MapAgents(world.agents)[a]
        /\ Loaded("pulse") => \A i \in Items :
              <<"pulse", i>> \notin unheard => (i \in Shown("pulse").queue <=> i \in world.attention)

(* The list of delegations, written whole by an answer, cut to the active ones *)
(* by a snapshot and only invalidated by a delta, shows at rest every active   *)
(* delegation in its state and no finished one as active.                      *)
DelegationsAreCurrent ==
    (/\ Quiet /\ OnScreen("delegations") /\ Loaded("delegations")
     /\ cache["delegations"].flight = "idle" /\ ~cache["delegations"].error
     /\ \A u \in unheard : u[1] # "delegations")
    => \A d \in Delegations :
          d \in Active(world.delegations) \cup Active(Shown("delegations"))
          => Shown("delegations")[d] = world.delegations[d]
=============================================================================
