------------------------------ MODULE MCBrowse ------------------------------
(* A small office to browse.                                                    *)
EXTENDS Browse, TLC
MCQueries == {"x", Blank}
Agent(i, t, s, r, c, e) ==
    [id |-> i, text |-> t, state |-> s, role |-> r, config |-> c, enabled |-> e,
     sessions |-> {"s1"}, delegations |-> {"d1"}, skills |-> {"k1"}]
Skill(i, h, n, x) ==
    [id |-> i, text |-> {"x"}, health |-> h, installation |-> n, execution |-> x,
     profiles |-> IF i = "k2" THEN {} ELSE {"Ann"}, profileIds |-> {"a1"}, sessions |-> {"s2"}]
Session(i, s, o, a) ==
    [id |-> i, text |-> {i}, state |-> s, source |-> o, agent |-> a,
     related |-> {"s1", "s2"} \ {i}, delegations |-> {"d1"}]
Delegation(i, s, a) == [id |-> i, text |-> {"x"}, state |-> s, agent |-> a, origin |-> "s1"]
Supervisor(i, c, s) == [id |-> i, text |-> {"x"}, category |-> c, severity |-> s]
Event(i, c, s, h, a, x, rel) ==
    [id |-> i, text |-> {"x"}, category |-> c, severity |-> s, age |-> h, agent |-> a,
     corr |-> x, related |-> rel]
Record(i, a, o, h, x, rel) ==
    [id |-> i, text |-> {i}, actor |-> a, outcome |-> o, age |-> h, corr |-> x, related |-> rel]
MCRows ==
    [l \in {"agents", "skills", "sessions", "delegations", "supervisor", "events", "audit",
            "tasks", "approvals", "schedule"} |->
      CASE l = "agents" ->
             {Agent("a1", {"x"}, "ACTIVE", "Ops", "COMPLETE", TRUE),
              Agent("a2", {" "}, "DEGRADED", None, "COMPLETE", TRUE),
              Agent("a4", {" ", "x"}, "UNKNOWN", "Lab", "COMPLETE", FALSE),
              Agent("a3", {"x"}, "RECENTLY_ACTIVE", "Ops", "INCOMPLETE", FALSE)}
        [] l = "skills" ->
             {Skill("k1", "healthy", "installed", "observed_active"),
              Skill("k2", "missing", "unknown", "not_observed"),
              Skill("k3", "unknown", "missing", "execution_unknown")}
        [] l = "sessions" ->
             {Session("s1", "ACTIVE", "cli", "Ann"), Session("s2", "ARCHIVED", "web", "Bob")}
        [] l = "delegations" ->
             {Delegation("d1", "RUNNING", "Ann"), Delegation("d2", "UNKNOWN", "Ann")}
        [] l = "supervisor" ->
             {Supervisor("v1", "GATEWAY", "ERROR"), Supervisor("v2", "SYSTEM", "INFO")}
        [] l = "events" ->
             {Event("e1", "TASK", "WARNING", 0, "Ann", "c1",
                    "task" :> "t1" @@ "session" :> "s1" @@ "skill" :> "k1"),
              Event("e2", "GATEWAY", "CRITICAL", 30, None, None, "approval" :> "p1")}
        [] l = "audit" ->
             {Record("u1", "USER", "DENIED", 200, "c1",
                     "agent" :> "a1" @@ "delegation" :> "d1"),
              Record("u2", "SYSTEM", "SUCCESS", 2, None, "task" :> "t1")}
        [] l = "tasks" ->
             {[id |-> "t1", state |-> "COMPLETED", priority |-> "HIGH", agent |-> "a1",
               gates |-> {"p1"}, needs |-> {"k1"}],
              [id |-> "t2", state |-> "READY", priority |-> "LOW", agent |-> "a2",
               gates |-> {}, needs |-> {}],
              [id |-> "t3", state |-> "QUEUED", priority |-> "LOW", agent |-> "a2",
               gates |-> {}, needs |-> {}]}
        [] l = "approvals" ->
             {[id |-> "p1", state |-> "PENDING", risk |-> "CRITICAL", task |-> "t1", agent |-> "a1",
               soon |-> TRUE],
              [id |-> "p2", state |-> "APPROVED", risk |-> "CRITICAL", task |-> "t2",
               agent |-> "a2", soon |-> FALSE]}
        [] l = "schedule" -> {[id |-> "h1"]}]
MCLoads ==
    [l \in DOMAIN MCRows |->
        {MCRows[l], {r \in MCRows[l] : r.id \notin {"a1", "k1", "s1", "d1", "v1", "e1", "u1",
                                                     "t1", "p1"}}}]
MCStarts ==
    {Page("command"), Link("agents", "state" :> "Busy" @@ "search" :> Blank),
     Link("runtime", "tab" :> "logs"), Link("tasks", "view" :> "list")}
=============================================================================
