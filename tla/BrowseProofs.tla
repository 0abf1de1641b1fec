---------------------------- MODULE BrowseProofs ----------------------------
(***************************************************************************)
(* Theorems about the directory pages, for every set of rows, answers,     *)
(* searches, starting addresses and filters set together: what a list      *)
(* hides can be brought back, the figures above it count what its filters  *)
(* keep, the cards of the strips what a click on them leaves (but for the  *)
(* ones that choose something else), and a link shows what it names.       *)
(*                                                                         *)
(* The inductive invariant: the filters on hand are those of the lists     *)
(* that are mounted; and while the link that was followed is the address,  *)
(* the address has one of the forms its page can honour, and a table of    *)
(* the runtime page it opened has no filter of its own.  The last part     *)
(* holds because no link of the runtime page leads to one of its tables.   *)
(***************************************************************************)
EXTENDS Browse, TLAPS

\* The lists of the pages.
Lists ==
    {"agents", "skills", "sessions", "delegations", "supervisor", "events", "audit",
     "tasks", "approvals"}

\* No choice the pages offer or count is the value for nothing chosen.
LEMMA MenuWords ==
    /\ None \notin {"Active", "Idle", "Needs Attention", "Offline", "Unknown"}
    /\ None \notin {"Complete", "Incomplete", "Disabled"}
    /\ None \notin {"healthy", "degraded", "missing", "unknown"}
    /\ None \notin {"installed", "missing", "unknown"}
    /\ None \notin {"observed_active"}
    /\ None \notin {"WARNING", "ERROR", "CRITICAL"}
    /\ None \notin {"TASK", "APPROVAL", "SESSION", "DELEGATION", "GATEWAY", "SYSTEM"}
    /\ None \notin {"1h", "24h", "7d"}
  <1>1. \A menu \in Menus("agents", {}, {}) : \A x \in DOMAIN menu : None \notin menu[x]
    BY NoneAssumption
  <1>2. \A menu \in Menus("skills", {}, {}) : \A x \in DOMAIN menu : None \notin menu[x]
    BY NoneAssumption
  <1>3. \A menu \in Menus("events", {}, {}) : \A x \in DOMAIN menu : None \notin menu[x]
    BY NoneAssumption
  <1>4. /\ None \notin AgentMenu({})["state"]
        /\ None \notin AgentMenu({})["config"]
    BY <1>1 DEF Menus, AgentMenu
  <1>5. /\ None \notin SkillMenu({})["health"]
        /\ None \notin SkillMenu({})["install"]
        /\ None \notin SkillMenu({})["exec"]
    BY <1>2 DEF Menus, SkillMenu
  <1>6. /\ None \notin EventMenu({})["category"]
        /\ None \notin EventMenu({})["severity"]
        /\ None \notin EventMenu({})["time"]
    BY <1>3 DEF Menus, EventMenu
  <1>7. QED
    BY <1>4, <1>5, <1>6 DEF AgentMenu, SkillMenu, EventMenu

\* Only those lists are ever on a screen.
LEMMA OnLists == OnScreen \subseteq Lists
  BY DEF OnScreen, Mounted, Loaded, RuntimeList, Lists

-----------------------------------------------------------------------------
\* The rows that the filter named like a figure keeps.
Counted(l, rs, figure) ==
    {r \in rs : \E c \in figure.choices :
        Keeps(l, r, [x \in Fields(l) |-> IF x = c[1] THEN c[2] ELSE None])}

\* A filter in which one thing was chosen.
Chose(l, c) == [x \in Fields(l) |-> IF x = c[1] THEN c[2] ELSE None]

LEMMA OneChoice ==
    ASSUME NEW l, NEW rs, NEW figure, NEW c, figure.choices = {c}
    PROVE  Counted(l, rs, figure) = {r \in rs : Keeps(l, r, Chose(l, c))}
  BY DEF Counted, Chose

\* What is left of each filter when its other parts are not set.
LEMMA AgentKept ==
    ASSUME NEW r, NEW f, f.search = None, f.config = None, f.role = None
    PROVE  Keeps("agents", r, f) <=> AgentInState(r, f.state)
  <1>1. Trimmed(f.search) = None
    BY DEF Trimmed
  <1>2. AgentConfigured(r, f.config)
    BY MenuWords DEF AgentConfigured
  <1>3. Keeps("agents", r, f) = AgentKeeps(r, f)
    BY DEF Keeps
  <1>4. QED
    BY <1>1, <1>2, <1>3, Zenon DEF AgentKeeps, Is

LEMMA SkillKept ==
    ASSUME NEW r, NEW f, f.search = None, f.profile = None
    PROVE  Keeps("skills", r, f) <=>
             Is(r.health, f.health) /\ Is(r.installation, f.install) /\ Is(r.execution, f.exec)
  <1>1. Keeps("skills", r, f) = SkillKeeps(r, f)
    BY DEF Keeps
  <1>2. QED
    BY <1>1, Zenon DEF SkillKeeps, Finds

LEMMA EventKept ==
    ASSUME NEW r, NEW f, f.search = None, f.time = None, f.agent = None, f.correlation = None
    PROVE  Keeps("events", r, f) <=> Is(r.category, f.category) /\ Is(r.severity, f.severity)
  <1>1. Trimmed(f.search) = None
    BY DEF Trimmed
  <1>2. Within(r.age, f.time)
    BY MenuWords DEF Within
  <1>3. Keeps("events", r, f) = EventKeeps(r, f)
    BY DEF Keeps
  <1>4. QED
    BY <1>1, <1>2, <1>3, Zenon DEF EventKeeps, Is, Finds

\* A choice sets its part of the filter and no other.
LEMMA ChoseFields ==
    ASSUME NEW k, NEW v
    PROVE  /\ \A x \in {"search", "state", "role", "config"} :
                 Chose("agents", <<k, v>>)[x] = IF x = k THEN v ELSE None
           /\ \A x \in {"search", "health", "install", "exec", "profile"} :
                 Chose("skills", <<k, v>>)[x] = IF x = k THEN v ELSE None
           /\ \A x \in {"search", "category", "severity", "time", "agent", "correlation"} :
                 Chose("events", <<k, v>>)[x] = IF x = k THEN v ELSE None
  BY DEF Chose, Fields

\* The bar above the agents, the skills, the events and the tables.
LEMMA AgentFigures ==
    ASSUME NEW rs, NEW figure \in Figures("agents", rs)
    PROVE  figure.count = Cardinality(Counted("agents", rs, figure))
  <1>0. figure \in AgentSummaryBar(rs)
    BY DEF Figures
  <1>1. CASE figure = Figure(All, rs)
    <2> DEFINE f == Chose("agents", <<"search", None>>)
    <2>1. f.search = None /\ f.config = None /\ f.role = None /\ f.state = None
      BY ChoseFields
    <2> HIDE DEF f
    <2>2. \A r \in rs : Keeps("agents", r, f)
      BY <2>1, AgentKept, MenuWords DEF AgentInState
    <2>3. {r \in rs : Keeps("agents", r, f)} = rs
      BY <2>2
    <2>4. figure.choices = {<<"search", None>>} /\ figure.count = Cardinality(rs)
      BY <1>1 DEF Figure, All
    <2>5. Counted("agents", rs, figure) = rs
      BY <2>3, <2>4 DEF Counted, Chose, f
    <2>6. QED  BY <2>4, <2>5
  <1>2. CASE figure = Figure({<<"state", "Active">>}, {a \in rs : a.state = "ACTIVE"})
    <2> DEFINE f == Chose("agents", <<"state", "Active">>)
    <2>1. f.search = None /\ f.config = None /\ f.role = None /\ f.state = "Active"
      BY ChoseFields
    <2> HIDE DEF f
    <2>2. \A r \in rs : Keeps("agents", r, f) <=> r.state = "ACTIVE"
      BY <2>1, AgentKept DEF AgentInState
    <2>3. {r \in rs : Keeps("agents", r, f)} = {a \in rs : a.state = "ACTIVE"}
      BY <2>2
    <2>4. QED  BY <1>2, <2>3, OneChoice DEF Figure, f
  <1>3. CASE figure = Figure({<<"state", "Needs Attention">>},
            {a \in rs : a.state \in {"AWAITING_APPROVAL", "DEGRADED", "ERROR"}
                            \/ a.config = "INCOMPLETE"})
    <2> DEFINE f == Chose("agents", <<"state", "Needs Attention">>)
    <2>1. f.search = None /\ f.config = None /\ f.role = None /\ f.state = "Needs Attention"
      BY ChoseFields
    <2> HIDE DEF f
    <2>2. \A r \in rs : Keeps("agents", r, f) <=>
            r.state \in {"AWAITING_APPROVAL", "DEGRADED", "ERROR"} \/ r.config = "INCOMPLETE"
      BY <2>1, AgentKept DEF AgentInState
    <2>3. {r \in rs : Keeps("agents", r, f)} =
            {a \in rs : a.state \in {"AWAITING_APPROVAL", "DEGRADED", "ERROR"}
                            \/ a.config = "INCOMPLETE"}
      BY <2>2
    <2>4. figure.choices = {<<"state", "Needs Attention">>}
      BY <1>3 DEF Figure
    <2>5. Counted("agents", rs, figure) = {r \in rs : Keeps("agents", r, f)}
      BY <2>4 DEF Counted, Chose, f
    <2>6. QED  BY <1>3, <2>3, <2>5 DEF Figure
  <1>4. QED
    BY <1>0, <1>1, <1>2, <1>3 DEF AgentSummaryBar

LEMMA SkillFigures ==
    ASSUME NEW rs, NEW figure \in Figures("skills", rs)
    PROVE  figure.count = Cardinality(Counted("skills", rs, figure))
  <1>0. figure \in SkillSummary(rs) \/ figure \in SkillHealthDistribution(rs)
    BY DEF Figures
  <1> DEFINE kept(k, v) == {r \in rs : Keeps("skills", r, Chose("skills", <<k, v>>))}
  <1>b. ASSUME NEW h \in {"healthy", "degraded", "missing", "unknown"}
        PROVE  kept("health", h) = {s \in rs : s.health = h}
    <2> DEFINE f == Chose("skills", <<"health", h>>)
    <2>1. /\ f.search = None /\ f.profile = None
          /\ f.health = h /\ f.install = None /\ f.exec = None
      BY ChoseFields
    <2> HIDE DEF f
    <2>2. \A r \in rs : Keeps("skills", r, f) <=> r.health = h
      BY <2>1, SkillKept, MenuWords DEF Is
    <2>3. QED  BY <2>2 DEF f
  <1>c. ASSUME NEW h \in {"installed", "missing"}
        PROVE  kept("install", h) = {s \in rs : s.installation = h}
    <2> DEFINE f == Chose("skills", <<"install", h>>)
    <2>1. /\ f.search = None /\ f.profile = None
          /\ f.health = None /\ f.install = h /\ f.exec = None
      BY ChoseFields
    <2> HIDE DEF f
    <2>2. \A r \in rs : Keeps("skills", r, f) <=> r.installation = h
      BY <2>1, SkillKept, MenuWords DEF Is
    <2>3. QED  BY <2>2 DEF f
  <1>d. kept("exec", "observed_active") = {s \in rs : s.execution = "observed_active"}
    <2> DEFINE f == Chose("skills", <<"exec", "observed_active">>)
    <2>1. /\ f.search = None /\ f.profile = None
          /\ f.health = None /\ f.install = None /\ f.exec = "observed_active"
      BY ChoseFields
    <2> HIDE DEF f
    <2>2. \A r \in rs : Keeps("skills", r, f) <=> r.execution = "observed_active"
      BY <2>1, SkillKept, MenuWords DEF Is
    <2>3. QED  BY <2>2 DEF f
  <1>1. CASE figure = Figure({<<"install", "installed">>},
                             {s \in rs : s.installation = "installed"})
    BY <1>1, <1>c, OneChoice DEF Figure
  <1>2. ASSUME NEW h \in {"healthy", "degraded", "missing", "unknown"},
               figure = Figure({<<"health", h>>}, {s \in rs : s.health = h})
        PROVE  figure.count = Cardinality(Counted("skills", rs, figure))
    <2>1. Counted("skills", rs, figure) = kept("health", h)
      BY <1>2, OneChoice DEF Figure
    <2>2. QED  BY <1>2, <1>b, <2>1 DEF Figure
  <1>3. CASE figure = Figure({<<"health", "missing">>, <<"install", "missing">>},
            {s \in rs : s.health = "missing" \/ s.installation = "missing"})
    <2>1. Counted("skills", rs, figure) = kept("health", "missing") \cup kept("install", "missing")
      BY <1>3 DEF Counted, Chose, Figure
    <2>2. kept("health", "missing") \cup kept("install", "missing")
            = {s \in rs : s.health = "missing" \/ s.installation = "missing"}
      BY <1>b, <1>c
    <2>3. QED  BY <1>3, <2>1, <2>2 DEF Figure
  <1>4. CASE figure = Figure({<<"exec", "observed_active">>},
                             {s \in rs : s.execution = "observed_active"})
    <2>1. Counted("skills", rs, figure) = kept("exec", "observed_active")
      BY <1>4, OneChoice DEF Figure
    <2>2. QED  BY <1>4, <1>d, <2>1 DEF Figure
  <1>5. CASE figure \in SkillHealthDistribution(rs)
    BY <1>2, <1>5 DEF SkillHealthDistribution
  <1>6. CASE figure \in SkillSummary(rs)
    BY <1>1, <1>2, <1>3, <1>4, <1>6 DEF SkillSummary
  <1>7. QED
    BY <1>0, <1>5, <1>6

LEMMA EventFigures ==
    ASSUME NEW rs, NEW figure \in Figures("events", rs)
    PROVE  figure.count = Cardinality(Counted("events", rs, figure))
  <1>0. figure \in ActivitySummary(rs)
    BY DEF Figures
  <1>1. CASE figure = Figure(All, rs)
    <2> DEFINE f == Chose("events", <<"search", None>>)
    <2>1. /\ f.search = None /\ f.time = None /\ f.agent = None /\ f.correlation = None
          /\ f.category = None /\ f.severity = None
      BY ChoseFields
    <2> HIDE DEF f
    <2>2. \A r \in rs : Keeps("events", r, f)
      BY <2>1, EventKept DEF Is
    <2>3. {r \in rs : Keeps("events", r, f)} = rs
      BY <2>2
    <2>4. figure.choices = {<<"search", None>>} /\ figure.count = Cardinality(rs)
      BY <1>1 DEF Figure, All
    <2>5. Counted("events", rs, figure) = rs
      BY <2>3, <2>4 DEF Counted, Chose, f
    <2>6. QED  BY <2>4, <2>5
  <1>2. ASSUME NEW options \in SUBSET {"WARNING", "ERROR", "CRITICAL"},
               figure = Figure({<<"severity", o>> : o \in options},
                               {e \in rs : e["severity"] \in options})
        PROVE  figure.count = Cardinality(Counted("events", rs, figure))
    <2>1. ASSUME NEW r \in rs, NEW o \in options
          PROVE  Keeps("events", r, Chose("events", <<"severity", o>>)) <=> r["severity"] = o
      <3> DEFINE f == Chose("events", <<"severity", o>>)
      <3>1. /\ f.search = None /\ f.time = None /\ f.agent = None /\ f.correlation = None
            /\ f.category = None /\ f.severity = o
        BY ChoseFields
      <3> HIDE DEF f
      <3>2. Keeps("events", r, f) <=> r["severity"] = o
        BY <3>1, EventKept, MenuWords DEF Is
      <3>3. QED  BY <3>2 DEF f
    <2>2. {r \in rs : \E o \in options : Keeps("events", r, Chose("events", <<"severity", o>>))}
            = {e \in rs : e["severity"] \in options}
      BY <2>1
    <2>3. figure.choices = {<<"severity", o>> : o \in options}
      BY <1>2 DEF Figure
    <2>4. Counted("events", rs, figure) = {e \in rs : e["severity"] \in options}
      BY <2>2, <2>3 DEF Counted, Chose
    <2>5. QED  BY <1>2, <2>4 DEF Figure
  <1>3. ASSUME NEW options \in SUBSET {"TASK", "APPROVAL", "SESSION", "DELEGATION", "GATEWAY",
                                       "SYSTEM"},
               figure = Figure({<<"category", o>> : o \in options},
                               {e \in rs : e["category"] \in options})
        PROVE  figure.count = Cardinality(Counted("events", rs, figure))
    <2>1. ASSUME NEW r \in rs, NEW o \in options
          PROVE  Keeps("events", r, Chose("events", <<"category", o>>)) <=> r["category"] = o
      <3> DEFINE f == Chose("events", <<"category", o>>)
      <3>1. /\ f.search = None /\ f.time = None /\ f.agent = None /\ f.correlation = None
            /\ f.category = o /\ f.severity = None
        BY ChoseFields
      <3> HIDE DEF f
      <3>2. Keeps("events", r, f) <=> r["category"] = o
        BY <3>1, EventKept, MenuWords DEF Is
      <3>3. QED  BY <3>2 DEF f
    <2>2. {r \in rs : \E o \in options : Keeps("events", r, Chose("events", <<"category", o>>))}
            = {e \in rs : e["category"] \in options}
      BY <2>1
    <2>3. figure.choices = {<<"category", o>> : o \in options}
      BY <1>3 DEF Figure
    <2>4. Counted("events", rs, figure) = {e \in rs : e["category"] \in options}
      BY <2>2, <2>3 DEF Counted, Chose
    <2>5. QED  BY <1>3, <2>4 DEF Figure
  <1>4. QED
    <2>1. \/ figure = Figure(All, rs)
          \/ \E options \in SUBSET {"WARNING", "ERROR", "CRITICAL"} :
                figure = Figure({<<"severity", o>> : o \in options},
                                {e \in rs : e["severity"] \in options})
          \/ \E options \in SUBSET {"TASK", "APPROVAL", "SESSION", "DELEGATION", "GATEWAY",
                                    "SYSTEM"} :
                figure = Figure({<<"category", o>> : o \in options},
                                {e \in rs : e["category"] \in options})
      <3>1. /\ {"WARNING"} \in SUBSET {"WARNING", "ERROR", "CRITICAL"}
            /\ {"ERROR", "CRITICAL"} \in SUBSET {"WARNING", "ERROR", "CRITICAL"}
            /\ \A s \in {{"TASK"}, {"APPROVAL"}, {"SESSION", "DELEGATION", "GATEWAY", "SYSTEM"}} :
                  s \in SUBSET {"TASK", "APPROVAL", "SESSION", "DELEGATION", "GATEWAY", "SYSTEM"}
        OBVIOUS
      <3>2. QED
        BY <1>0, <3>1, Zenon DEF ActivitySummary
    <2>2. QED
      BY <1>1, <1>2, <1>3, <2>1, Zenon

LEMMA TableFigures ==
    ASSUME NEW l \in {"sessions", "delegations", "supervisor", "audit"}, NEW rs,
           NEW figure \in Figures(l, rs)
    PROVE  figure.count = Cardinality(Counted(l, rs, figure))
  <1>1. figure = Figure(All, rs)
    BY DEF Figures, TabFigure
  <1>2. Counted(l, rs, figure) = rs
    <2>1. CASE l = "sessions"
      BY <1>1, <2>1 DEF Counted, Figure, All, Keeps, Fields, SessionKeeps, Is, Finds
    <2>2. CASE l = "delegations"
      BY <1>1, <2>2 DEF Counted, Figure, All, Keeps, Fields, DelegationKeeps, Is, Finds
    <2>3. CASE l = "supervisor"
      BY <1>1, <2>3 DEF Counted, Figure, All, Keeps, Fields, SupervisorKeeps, Is, Finds
    <2>4. CASE l = "audit"
      BY <1>1, <2>4, MenuWords 
         DEF Counted, Figure, All, Keeps, Fields, AuditKeeps, Within, Is, Finds, Trimmed
    <2>5. QED
      BY <2>1, <2>2, <2>3, <2>4
  <1>3. QED
    BY <1>1, <1>2 DEF Figure

\* Every figure of a bar on the screen, whatever rows the page holds.
LEMMA BarsCount == BarsMatchFilters
  <1>1. ASSUME NEW l \in OnScreen, NEW figure \in Figures(l, rows[l])
        PROVE  figure.count = Cardinality(Counted(l, rows[l], figure))
    <2>1. \/ l = "agents" \/ l = "skills" \/ l = "events"
          \/ l \in {"sessions", "delegations", "supervisor", "audit"}
          \/ l \in {"tasks", "approvals"}
      BY OnLists DEF Lists
    <2>2. CASE l = "agents"  BY <2>2, <1>1, AgentFigures
    <2>3. CASE l = "skills"  BY <2>3, <1>1, SkillFigures
    <2>4. CASE l = "events"  BY <2>4, <1>1, EventFigures
    <2>5. CASE l \in {"sessions", "delegations", "supervisor", "audit"}
      BY <2>5, <1>1, TableFigures
    <2>6. CASE l \in {"tasks", "approvals"}
      BY <2>6, <1>1 DEF Figures
    <2>7. QED
      BY <2>1, <2>2, <2>3, <2>4, <2>5, <2>6
  <1>2. QED
    BY <1>1 DEF BarsMatchFilters, Counted

\* No card stands for the value for nothing chosen but those that choose it.
LEMMA CardWords == None \notin StateOptions /\ None # "CRITICAL"
  <1>1. \A menu \in Menus("tasks", {}, {}) : \A x \in DOMAIN menu : None \notin menu[x]
    BY NoneAssumption
  <1>2. \A menu \in Menus("approvals", {}, {}) : \A x \in DOMAIN menu : None \notin menu[x]
    BY NoneAssumption
  <1>3. None \notin TaskMenu({}, {})["state"] /\ None \notin ApprovalMenu["risk"]
    BY <1>1, <1>2 DEF Menus, TaskMenu, ApprovalMenu
  <1>4. QED
    BY <1>3 DEF TaskMenu, ApprovalMenu

\* The cards of the task strip, whatever is chosen beside the state.
LEMMA TaskCardsCount == TaskCardsMatch
  <1> DEFINE f == Filter("tasks")
             shown == Shown("tasks")
             left(v) == {t \in rows["tasks"] : Keeps("tasks", t, [f EXCEPT !.state = v])}
             in(states) == {t \in shown : t.state \in states}
  <1> SUFFICES ASSUME NEW card \in TaskSummary(shown), card.name # "Needs Attention",
                      \/ f.state = card.click[2]
                      \/ f.state = None /\ card.name # "In Progress"
               PROVE  card.count = Cardinality(left(card.click[2]))
    BY DEF TaskCardsMatch
  <1>1. \A v : /\ [f EXCEPT !.state = v].state = v
               /\ [f EXCEPT !.state = v].priority = f.priority
    BY DEF Filter, FilterIn, Fields
  <1>2. \A r, g : Keeps("tasks", r, g) <=> Is(r.state, g.state) /\ Is(r.priority, g.priority)
    BY DEF Keeps, TaskKeeps
  <1>3. shown = {t \in rows["tasks"] : Is(t.state, f.state) /\ Is(t.priority, f.priority)}
    BY <1>2 DEF Shown
  <1> HIDE DEF f, shown
  <1>4. ASSUME NEW v
        PROVE  left(v) = {t \in rows["tasks"] : Is(t.state, v) /\ Is(t.priority, f.priority)}
    <2> DEFINE g == [f EXCEPT !.state = v]
    <2>1. g.state = v /\ g.priority = f.priority
      BY <1>1
    <2> HIDE DEF g
    <2>2. \A r : Keeps("tasks", r, g) <=> Is(r.state, v) /\ Is(r.priority, f.priority)
      BY <1>2, <2>1
    <2>3. QED
      BY <2>2 DEF g
  <1> HIDE DEF left
  <1>5. f.state = None => shown = left(None)
    BY <1>3, <1>4
  <1>6. ASSUME NEW v \in StateOptions, NEW states, v \in states,
               f.state = v \/ (f.state = None /\ states = {v})
        PROVE  in(states) = left(v)
    <2>1. v # None
      BY CardWords
    <2>2. QED
      BY <1>3, <1>4, <1>6, <2>1 DEF Is
  <1>7. \/ card = Card("Total Tasks", "state", None, shown)
        \/ card = Card("Ready", "state", "READY", in({"READY"}))
        \/ card = Card("In Progress", "state", "RUNNING", in({"RUNNING", "DISPATCHING", "QUEUED"}))
        \/ card = Card("Needs Attention", "state", "ATTENTION",
                       in({"AWAITING_APPROVAL", "BLOCKED", "FAILED"}))
        \/ card = Card("Completed", "state", "COMPLETED", in({"COMPLETED"}))
        \/ card = Card("Failed", "state", "FAILED", in({"FAILED"}))
    BY DEF TaskSummary
  <1>8. ASSUME NEW name, NEW v, NEW counted, card = Card(name, "state", v, counted)
        PROVE  card.name = name /\ card.click[2] = v /\ card.count = Cardinality(counted)
    BY <1>8 DEF Card
  <1> HIDE DEF in
  <1>9. CASE card = Card("Total Tasks", "state", None, shown)
    <2>1. card.click[2] = None /\ card.count = Cardinality(shown)
      BY <1>8, <1>9
    <2>2. QED
      BY <1>5, <2>1
  <1>10. CASE card = Card("In Progress", "state", "RUNNING", in({"RUNNING", "DISPATCHING", "QUEUED"}))
    <2>1. /\ card.name = "In Progress" /\ card.click[2] = "RUNNING"
          /\ card.count = Cardinality(in({"RUNNING", "DISPATCHING", "QUEUED"}))
      BY <1>8, <1>10
    <2>2. in({"RUNNING", "DISPATCHING", "QUEUED"}) = left("RUNNING")
      BY <1>6, <2>1 DEF StateOptions
    <2>3. QED
      BY <2>1, <2>2
  <1>11. ASSUME NEW name, NEW v \in {"READY", "COMPLETED", "FAILED"},
                card = Card(name, "state", v, in({v}))
         PROVE  card.count = Cardinality(left(card.click[2]))
    <2>1. card.click[2] = v /\ card.count = Cardinality(in({v}))
      BY <1>8, <1>11
    <2>2. in({v}) = left(v)
      BY <1>6, <2>1 DEF StateOptions
    <2>3. QED
      BY <2>1, <2>2
  <1>12. card # Card("Needs Attention", "state", "ATTENTION",
                     in({"AWAITING_APPROVAL", "BLOCKED", "FAILED"}))
    BY <1>8
  <1>13. QED
    BY <1>7, <1>9, <1>10, <1>11, <1>12

\* The chosen card of the approvals.
LEMMA ApprovalCardsCount == ApprovalCardsMatch
  <1> DEFINE f == Filter("approvals")
             shown == Shown("approvals")
             in(state) == {a \in shown : a.state = state}
             risky == {a \in in("PENDING") : a.risk \in {"HIGH", "CRITICAL"}}
  <1> SUFFICES ASSUME NEW card \in ApprovalSummary(shown), card.click[2] # None,
                      f.risk = card.click[2]
               PROVE  card.count = Cardinality(in("PENDING"))
    BY DEF ApprovalCardsMatch
  <1>1. \A a \in shown : Is(a.risk, f.risk)
    BY DEF Shown, Keeps, ApprovalKeeps
  <1> HIDE DEF f, shown
  <1>2. card = Card("High / Critical Risk", "risk", "CRITICAL", risky)
    <2>1. ASSUME NEW name, NEW counted, card = Card(name, "risk", None, counted) PROVE FALSE
      BY <2>1 DEF Card
    <2>2. \/ card = Card("High / Critical Risk", "risk", "CRITICAL", risky)
          \/ \E name, counted : card = Card(name, "risk", None, counted)
      BY DEF ApprovalSummary
    <2>3. QED
      BY <2>1, <2>2
  <1>3. card.click[2] = "CRITICAL" /\ card.count = Cardinality(risky)
    BY <1>2 DEF Card
  <1>4. risky = in("PENDING")
    BY <1>1, <1>3, CardWords DEF Is
  <1>5. QED
    BY <1>3, <1>4

LEMMA FiguresCount == FiguresMatchFilters
  BY BarsCount, TaskCardsCount, ApprovalCardsCount DEF FiguresMatchFilters

-----------------------------------------------------------------------------
\* Which page a list on the screen belongs to.
LEMMA OnPage ==
    ASSUME NEW l \in OnScreen
    PROVE  /\ l \in Mounted(page, params)
           /\ l \in {"sessions", "delegations", "supervisor"} => page = "runtime"
           /\ l \in {"events", "audit"} => page = "activity"
           /\ l \in {"agents", "skills", "tasks", "approvals"} => page = l
  BY DEF OnScreen, Mounted, Loaded, RuntimeList

\* A list that does not call itself filtered, and has no correlation, hides nothing.
LEMMA UnfilteredKeeps ==
    ASSUME NEW l \in Lists, NEW r, NEW f, ~Filtered(l, f),
           l \in {"events", "audit"} => f.correlation = None
    PROVE  Keeps(l, r, f)
  <1>1. CASE l = "agents"
    <2>1. /\ Trimmed(f.search) = None /\ f.state = None /\ f.role = None /\ f.config = None
      BY <1>1 DEF Filtered, AgentFiltered
    <2>2. AgentInState(r, f.state) /\ AgentConfigured(r, f.config)
      BY <2>1, MenuWords DEF AgentInState, AgentConfigured
    <2>3. AgentKeeps(r, f)
      BY <2>1, <2>2, Zenon DEF AgentKeeps, Is
    <2>4. QED  BY <1>1, <2>3 DEF Keeps
  <1>2. CASE l = "skills"
    <2>1. /\ f.search = None /\ f.health = None /\ f.install = None
          /\ f.exec = None /\ f.profile = None
      BY <1>2 DEF Filtered, SkillFiltered
    <2>2. SkillKeeps(r, f)
      BY <2>1, Zenon DEF SkillKeeps, Is, Finds
    <2>3. QED  BY <1>2, <2>2 DEF Keeps
  <1>3. CASE l = "sessions"
    <2>1. /\ f.search = None /\ f.state = None /\ f.source = None /\ f.agent = None
      BY <1>3 DEF Filtered, SessionsFiltered
    <2>2. SessionKeeps(r, f)
      BY <2>1, Zenon DEF SessionKeeps, Is, Finds
    <2>3. QED  BY <1>3, <2>2 DEF Keeps
  <1>4. CASE l = "delegations"
    <2>1. /\ f.search = None /\ f.state = None /\ f.agent = None
      BY <1>4 DEF Filtered, DelegationsFiltered
    <2>2. DelegationKeeps(r, f)
      BY <2>1, Zenon DEF DelegationKeeps, Is, Finds
    <2>3. QED  BY <1>4, <2>2 DEF Keeps
  <1>5. CASE l = "supervisor"
    <2>1. /\ f.search = None /\ f.category = None /\ f.severity = None
      BY <1>5 DEF Filtered, SupervisorFiltered
    <2>2. SupervisorKeeps(r, f)
      BY <2>1, Zenon DEF SupervisorKeeps, Is, Finds
    <2>3. QED  BY <1>5, <2>2 DEF Keeps
  <1>6. CASE l = "events"
    <2>1. /\ f.search = None /\ f.category = None /\ f.severity = None /\ f.time = None
          /\ f.agent = None /\ f.correlation = None
      BY <1>6 DEF Filtered, EventsFiltered
    <2>2. Trimmed(f.search) = None /\ Within(r.age, f.time)
      BY <2>1, MenuWords DEF Trimmed, Within
    <2>3. EventKeeps(r, f)
      BY <2>1, <2>2, Zenon DEF EventKeeps, Is, Finds
    <2>4. QED  BY <1>6, <2>3 DEF Keeps
  <1>7. CASE l = "audit"
    <2>1. /\ f.search = None /\ f.actor = None /\ f.outcome = None /\ f.time = None
          /\ f.correlation = None
      BY <1>7 DEF Filtered, AuditFiltered
    <2>2. Trimmed(f.search) = None /\ Within(r.age, f.time)
      BY <2>1, MenuWords DEF Trimmed, Within
    <2>3. AuditKeeps(r, f)
      BY <2>1, <2>2, Zenon DEF AuditKeeps, Is, Finds
    <2>4. QED  BY <1>7, <2>3 DEF Keeps
  <1>8. CASE l = "tasks"
    <2>1. f.state = None /\ f.priority = None
      BY <1>8 DEF Filtered, TasksFiltered
    <2>2. TaskKeeps(r, f)
      BY <2>1, Zenon DEF TaskKeeps, Is
    <2>3. QED  BY <1>8, <2>2 DEF Keeps
  <1>9. CASE l = "approvals"
    <2>1. f.state = None /\ f.risk = None
      BY <1>9 DEF Filtered, ApprovalsFiltered
    <2>2. ApprovalKeeps(r, f)
      BY <2>1, Zenon DEF ApprovalKeeps, Is
    <2>3. QED  BY <1>9, <2>2 DEF Keeps
  <1>10. QED
    BY <1>1, <1>2, <1>3, <1>4, <1>5, <1>6, <1>7, <1>8, <1>9 DEF Lists

\* Whether a list calls itself filtered does not depend on the correlation.
LEMMA FilteredReads ==
    ASSUME NEW l \in Lists, NEW f, NEW g, \A x \in Fields(l) \ {"correlation"} : g[x] = f[x]
    PROVE  Filtered(l, f) <=> Filtered(l, g)
  BY DEF Filtered, Fields, Lists, AgentFiltered, SkillFiltered, SessionsFiltered,
         DelegationsFiltered, SupervisorFiltered, EventsFiltered, AuditFiltered, TasksFiltered,
         ApprovalsFiltered

\* A filter of which nothing is set hides nothing.
LEMMA ClearKeeps ==
    ASSUME NEW l \in Lists, NEW r, NEW f, \A x \in Fields(l) : f[x] = None
    PROVE  Keeps(l, r, f)
  <1>1. l \in {"events", "audit"} => f.correlation = None
    BY DEF Fields
  <1>2. ~Filtered(l, f)
    <2>1. \A q : q = None => Trimmed(q) = None
      BY DEF Trimmed
    <2>2. QED
      BY <2>1 DEF Filtered, Fields, Lists, AgentFiltered, SkillFiltered, SessionsFiltered,
         DelegationsFiltered, SupervisorFiltered, EventsFiltered, AuditFiltered, TasksFiltered,
         ApprovalsFiltered
  <1>3. QED
    BY <1>1, <1>2, UnfilteredKeeps

\* Reset takes the parts of the filter that are in the address out of it...
LEMMA ResetClears ==
    ASSUME NEW l \in Lists, NEW x \in Fields(l), x \notin LocalFields(l)
    PROVE  x \notin DOMAIN ResetParams(l)
  BY DEF Lists, Fields, LocalFields, ResetParams, AgentsReset, SkillsReset, TasksReset,
         ApprovalsReset, handleClearCorrelation, Only, Drop

\* ...and leaves what is open where it is.
LEMMA ResetKeepsOpen ==
    ASSUME NEW l \in OnScreen, NEW k \in Details(page)
    PROVE  /\ k \in DOMAIN ResetParams(l) <=> k \in DOMAIN params
           /\ k \in DOMAIN params => ResetParams(l)[k] = params[k]
           /\ k # "correlation"
  <1>1. l \in Lists
    BY OnLists
  <1>2. k # "correlation"
    BY DEF Details
  <1>3. CASE page = "runtime"
    <2>1. l \in {"sessions", "delegations", "supervisor"}
      BY <1>1, <1>3, OnPage DEF Lists
    <2>2. ResetParams(l) = params
      BY <2>1 DEF ResetParams
    <2>3. QED
      BY <1>2, <2>2
  <1>4. CASE page = "activity"
    <2>1. l \in {"events", "audit"}
      BY <1>1, <1>4, OnPage DEF Lists
    <2>2. k \in {"event", "audit"}
      BY <1>4 DEF Details
    <2>3. QED
      BY <2>1, <2>2 DEF ResetParams, handleClearCorrelation, Drop, Only
  <1>5. CASE page = "agents"
    <2>1. l = "agents" /\ k = "agent"
      BY <1>1, <1>5, OnPage DEF Lists, Details
    <2>2. QED
      BY <2>1 DEF ResetParams, AgentsReset, Only
  <1>6. CASE page = "skills"
    <2>1. l = "skills" /\ k = "skill"
      BY <1>1, <1>6, OnPage DEF Lists, Details
    <2>2. QED
      BY <2>1 DEF ResetParams, SkillsReset, Drop, Only
  <1>7. CASE page = "tasks"
    <2>1. l = "tasks" /\ k = "task"
      BY <1>1, <1>7, OnPage DEF Lists, Details
    <2>2. QED
      BY <2>1 DEF ResetParams, TasksReset, Only
  <1>8. CASE page = "approvals"
    <2>1. l = "approvals" /\ k = "approval"
      BY <1>1, <1>8, OnPage DEF Lists, Details
    <2>2. QED
      BY <2>1 DEF ResetParams, ApprovalsReset, Only
  <1>9. QED
    BY <1>1, <1>2, <1>3, <1>4, <1>5, <1>6, <1>7, <1>8, OnPage DEF Lists

\* The filters on hand are those of the mounted lists.
Placed == DOMAIN local = Mounted(page, params)

\* It is all that Reset needs: the list it clears has its filters on hand.
LEMMA CanBeShown == Placed => HiddenCanBeShown
  <1> SUFFICES ASSUME Placed, NEW l \in OnScreen, Shown(l) # rows[l]
               PROVE  LET flagged == Filtered(l, Filter(l))
                          base == IF flagged THEN ResetParams(l) ELSE params
                          ps == IF Banner THEN [k \in DOMAIN base \ {"correlation"} |-> base[k]]
                                ELSE base
                          held == IF flagged THEN ResetLocal(l) ELSE local
                      IN  /\ flagged \/ Banner
                          /\ \A r \in rows[l] : Keeps(l, r, FilterIn(l, ps, held))
                          /\ Opened(ps) = Opened(params)
    BY DEF HiddenCanBeShown
  <1> DEFINE flagged == Filtered(l, Filter(l))
             base == IF flagged THEN ResetParams(l) ELSE params
             ps == IF Banner THEN [k \in DOMAIN base \ {"correlation"} |-> base[k]] ELSE base
             held == IF flagged THEN ResetLocal(l) ELSE local
  <1>1. l \in Lists /\ l \in DOMAIN local
    BY OnLists, OnPage DEF Placed
  <1>2. \A k \in Details(page) : /\ k \in DOMAIN ps <=> k \in DOMAIN params
                                 /\ k \in DOMAIN params => ps[k] = params[k]
    BY ResetKeepsOpen
  <1>3. Opened(ps) = Opened(params)
    <2> HIDE DEF ps
    <2>1. QED
      BY <1>2 DEF Opened
  <1>4. ~flagged /\ l \in {"events", "audit"} /\ ~Banner => Filter(l).correlation = None
    BY OnPage DEF Filter, FilterIn, Fields, LocalFields, Banner
  <1>5. flagged \/ Banner
    <2>1. SUFFICES ASSUME ~flagged, ~Banner PROVE FALSE
      OBVIOUS
    <2>2. \A r \in rows[l] : Keeps(l, r, Filter(l))
      BY <1>1, <1>4, <2>1, UnfilteredKeeps
    <2>3. QED
      BY <2>2 DEF Shown
  <1>6. ASSUME NEW r \in rows[l]
        PROVE  Keeps(l, r, FilterIn(l, ps, held))
    <2>1. CASE flagged
      <3>1. ASSUME NEW x \in Fields(l), x \in LocalFields(l)
            PROVE  FilterIn(l, ps, held)[x] = None
        BY <1>1, <2>1, <3>1 DEF FilterIn, ResetLocal, Cleared
      <3>2. ASSUME NEW x \in Fields(l), x \notin LocalFields(l)
            PROVE  FilterIn(l, ps, held)[x] = None
        <4>1. x \notin DOMAIN ResetParams(l)
          BY <1>1, <3>2, ResetClears
        <4>2. x \notin DOMAIN ps
          BY <2>1, <4>1
        <4>3. QED
          BY <3>2, <4>2 DEF FilterIn, Value
      <3>3. QED
        BY <1>1, <3>1, <3>2, ClearKeeps
    <2>2. CASE ~flagged
      <3>1. Banner /\ page = "activity" /\ l \in {"events", "audit"}
        BY <1>1, <1>5, <2>2, OnPage DEF Banner, Lists
      <3>2. ps = [k \in DOMAIN params \ {"correlation"} |-> params[k]] /\ held = local
        BY <2>2, <3>1
      <3>3. \A x \in Fields(l) \ {"correlation"} : FilterIn(l, ps, held)[x] = Filter(l)[x]
        BY <3>2 DEF Filter, FilterIn, Value
      <3>4. FilterIn(l, ps, held)["correlation"] = None
        BY <3>1, <3>2 DEF FilterIn, Value, Fields, LocalFields
      <3>5. ~Filtered(l, FilterIn(l, ps, held))
        BY <1>1, <2>2, <3>3, FilteredReads
      <3>6. QED
        BY <1>1, <3>4, <3>5, UnfilteredKeeps
    <2>3. QED
      BY <2>1, <2>2
  <1>7. QED
    BY <1>3, <1>5, <1>6

-----------------------------------------------------------------------------
\* The addresses links go to: a list's page with a row to open, a table of the
\* runtime page with one, a profile, a filter a menu knows, a correlation.
Lister == {<<"agents", "agent">>, <<"skills", "skill">>, <<"tasks", "task">>,
           <<"approvals", "approval">>, <<"schedule", "schedule">>}
Table == {<<"sessions", "session">>, <<"delegations", "delegation">>}
Bare(ps) == DOMAIN ps \subseteq {"tab"}
OpensListed(p, ps) == \E c \in Lister : p = c[1] /\ DOMAIN ps = {c[2]}
OpensInTable(p, ps) ==
    p = "runtime" /\ \E c \in Table : DOMAIN ps = {"tab", c[2]} /\ ps["tab"] = c[1]
OpensProfile(p, ps) == p = "agent-config" /\ DOMAIN ps = {"profile", "tab"}
Filters(p, ps) ==
    /\ DOMAIN ps = {"state"}
    /\ \/ p = "agents" /\ ps["state"] = "Active"
       \/ p = "tasks" /\ ps["state"] \in StateOptions
Correlates(p, ps) == p = "activity" /\ DOMAIN ps = {"correlation"}
Honoured(p, ps) ==
    \/ Bare(ps) \/ OpensListed(p, ps) \/ OpensInTable(p, ps) \/ OpensProfile(p, ps)
    \/ Filters(p, ps) \/ Correlates(p, ps)

\* All go to such an address; none to a table of the runtime page.
Good(links) == \A link \in links : Honoured(link.page, link.params)
Elsewhere(links) == \A link \in links : ~OpensInTable(link.page, link.params)

LEMMA LinkParts == \A p, ps : Link(p, ps).page = p /\ Link(p, ps).params = ps
  BY DEF Link

LEMMA PageGood == ASSUME NEW p PROVE Honoured(Page(p).page, Page(p).params)
                                     /\ ~OpensInTable(Page(p).page, Page(p).params)
  BY DEF Page, Link, Honoured, Bare, OpensInTable, Table

LEMMA NamingGood ==
    ASSUME NEW c \in Lister, NEW ids
    PROVE  Good(Naming(c[1], c[2], ids)) /\ Elsewhere(Naming(c[1], c[2], ids))
  <1>1. ASSUME NEW i PROVE OpensListed(c[1], [x \in {c[2]} |-> i])
                           /\ ~OpensInTable(c[1], [x \in {c[2]} |-> i])
    BY DEF OpensListed, OpensInTable, Lister
  <1>2. ASSUME NEW link \in Naming(c[1], c[2], ids)
        PROVE  Honoured(link.page, link.params) /\ ~OpensInTable(link.page, link.params)
    <2>1. PICK i \in ids : link = Link(c[1], [x \in {c[2]} |-> i])
      BY DEF Naming
    <2>2. link.page = c[1] /\ link.params = [x \in {c[2]} |-> i]
      BY <2>1, LinkParts
    <2>3. QED
      BY <1>1, <2>2 DEF Honoured
  <1>3. QED
    BY <1>2 DEF Good, Elsewhere

LEMMA NamingsGood ==
    ASSUME NEW ids
    PROVE  /\ Good(Naming("approvals", "approval", ids))
           /\ Elsewhere(Naming("approvals", "approval", ids))
           /\ Good(Naming("tasks", "task", ids)) /\ Good(Naming("schedule", "schedule", ids))
           /\ Good(Naming("skills", "skill", ids))
  <1>1. ASSUME NEW k, NEW p, <<p, k>> \in Lister
        PROVE  Good(Naming(p, k, ids)) /\ Elsewhere(Naming(p, k, ids))
    BY <1>1, NamingGood
  <1>2. QED
    BY <1>1 DEF Lister

LEMMA CorrelationGood ==
    ASSUME NEW ids PROVE Good(Naming("activity", "correlation", ids))
  BY DEF Good, Naming, Link, Honoured, Correlates

LEMMA LinkGood ==
    ASSUME NEW i
    PROVE  /\ Honoured(SessionLink(i).page, SessionLink(i).params)
           /\ Honoured(DelegationLink(i).page, DelegationLink(i).params)
           /\ Honoured(ProfileLink(i).page, ProfileLink(i).params)
           /\ Honoured("tasks", [task |-> i]) /\ Honoured("agents", [agent |-> i])
           /\ Honoured("approvals", [approval |-> i]) /\ Honoured("skills", [skill |-> i])
  BY DEF SessionLink, DelegationLink, ProfileLink, Link, Honoured, OpensInTable, Table,
         OpensProfile, OpensListed, Lister

\* Whatever a record is related to.
LEMMA RelatedGood ==
    ASSUME NEW related,
           NEW kinds \in SUBSET {"session", "delegation", "task", "agent", "approval", "skill"}
    PROVE  Good(RelatedLinks(related, kinds))
  <1> SUFFICES ASSUME NEW k \in kinds
               PROVE  LET link == CASE k = "session" -> SessionLink(related[k])
                                    [] k = "delegation" -> DelegationLink(related[k])
                                    [] k = "task" -> Link("tasks", [task |-> related[k]])
                                    [] k = "agent" -> Link("agents", [agent |-> related[k]])
                                    [] k = "approval" ->
                                         Link("approvals", [approval |-> related[k]])
                                    [] k = "skill" -> Link("skills", [skill |-> related[k]])
                      IN  Honoured(link.page, link.params)
    BY DEF Good, RelatedLinks
  <1>1. CASE k = "session"  BY <1>1, LinkGood
  <1>2. CASE k = "delegation"  BY <1>2, LinkGood
  <1>3. CASE k = "task"  BY <1>3, LinkGood DEF Link
  <1>4. CASE k = "agent"  BY <1>4, LinkGood DEF Link
  <1>5. CASE k = "approval"  BY <1>5, LinkGood DEF Link
  <1>6. CASE k = "skill"  BY <1>6, LinkGood DEF Link
  <1>7. QED  BY <1>1, <1>2, <1>3, <1>4, <1>5, <1>6

\* The links of the shell, of the Command Center, of the office, of open details.
LEMMA ShellGood == Good(AppSidebar \cup GlobalHeader) /\ Elsewhere(AppSidebar \cup GlobalHeader)
  BY PageGood, NamingsGood DEF Good, Elsewhere, AppSidebar, GlobalHeader

LEMMA CommandGood ==
    Good(SystemPulse \cup WorkQueue \cup AgentFleetOverview \cup RecentActivity
           \cup UpcomingScheduleCard)
  <1>1. Good(SystemPulse)
    <2>1. Bare([tab |-> "gateway"]) /\ Bare([tab |-> "sessions"])
      BY DEF Bare
    <2>2. Filters("agents", [state |-> "Active"])
      BY DEF Filters
    <2>3. QED
      BY <2>1, <2>2, PageGood, LinkParts DEF Good, SystemPulse, Honoured
  <1>2. Good(WorkQueue)
    BY PageGood DEF Good, WorkQueue, Link, Honoured, Filters, StateOptions
  <1>3. Good(AgentFleetOverview) /\ Good(RecentActivity)
    BY PageGood DEF Good, AgentFleetOverview, RecentActivity, Link, Honoured, Bare
  <1>4. Good(UpcomingScheduleCard)
    BY PageGood, NamingsGood DEF Good, UpcomingScheduleCard
  <1>5. QED
    BY <1>1, <1>2, <1>3, <1>4 DEF Good

LEMMA OfficeGood ==
    Good(OfficeActivityStrip \cup OfficeListView \cup OfficeAttentionBanner \cup ApprovalPod
           \cup ArtifactVault \cup CollaborationZone \cup RuntimeRoom \cup AgentDesk
           \cup TemporaryWorker)
  <1>0. Honoured(Link("tasks", [state |-> "COMPLETED"]).page,
                 Link("tasks", [state |-> "COMPLETED"]).params)
    BY DEF Link, Honoured, Filters, StateOptions
  <1>1. Good(OfficeActivityStrip)
    BY PageGood, CorrelationGood DEF Good, OfficeActivityStrip
  <1>2. Good(OfficeListView)
    BY <1>0, PageGood, NamingsGood DEF Good, OfficeListView
  <1>3. Good(OfficeAttentionBanner)
    BY PageGood, NamingsGood DEF Good, OfficeAttentionBanner
  <1>4. Good(ApprovalPod)
    BY PageGood, NamingsGood DEF Good, ApprovalPod
  <1>5. Good(ArtifactVault)
    BY <1>0, NamingsGood DEF Good, ArtifactVault
  <1>6. Good(CollaborationZone) /\ Good(RuntimeRoom) /\ Good(AgentDesk)
    BY PageGood, NamingsGood DEF Good, CollaborationZone, RuntimeRoom, AgentDesk
  <1>7. Good(TemporaryWorker)
    BY LinkGood DEF Good, TemporaryWorker
  <1>8. QED
    BY <1>1, <1>2, <1>3, <1>4, <1>5, <1>6, <1>7 DEF Good

LEMMA DetailsGood == ASSUME NEW l, NEW r PROVE Good(DetailLinks(l, r))
  <1>1. Good(AgentDetailModal(r))
    BY LinkGood, NamingsGood
       DEF Good, AgentDetailModal, AgentSessionsTab, AgentDelegationsTab, AgentSkillsTab
  <1>2. Good(SkillDetailModal(r))
    BY LinkGood DEF Good, SkillDetailModal, SkillProfilesTab, SkillEvidenceTab
  <1>3. \A related : Good(CorrelationSummary(related))
    BY RelatedGood DEF CorrelationSummary
  <1>4. Good(ActivityDetailDrawer(r)) /\ Good(AuditDetailDrawer(r))
    BY <1>3, RelatedGood DEF Good, ActivityDetailDrawer, AuditDetailDrawer
  <1>5. Good(TaskLinks(r))
    <2> DEFINE link == Link("agents", [agent |-> r.agent])
    <2>1. Honoured(link.page, link.params)
      <3>1. link.page = "agents" /\ link.params = [agent |-> r.agent]
        BY LinkParts
      <3>2. QED
        BY <3>1, LinkGood
    <2>2. TaskLinks(r) = {link} \cup Naming("approvals", "approval", r.gates)
      BY DEF TaskLinks
    <2> HIDE DEF link
    <2>3. QED
      BY <2>1, <2>2, NamingsGood DEF Good
  <1>6. Good(ApprovalLinks(r))
    <2> DEFINE task == Link("tasks", [task |-> r.task])
               agent == Link("agents", [agent |-> r.agent])
    <2>1. Honoured(task.page, task.params) /\ Honoured(agent.page, agent.params)
      <3>1. /\ task.page = "tasks" /\ task.params = [task |-> r.task]
            /\ agent.page = "agents" /\ agent.params = [agent |-> r.agent]
        BY LinkParts
      <3>2. QED
        BY <3>1, LinkGood
    <2>2. ApprovalLinks(r) = {task, agent}
      BY DEF ApprovalLinks
    <2> HIDE DEF task, agent
    <2>3. QED
      BY <2>1, <2>2 DEF Good
  <1>7. QED
    BY <1>1, <1>2, <1>4, <1>5, <1>6 DEF DetailLinks, Good

\* Every link of a page is one its target can honour; the runtime page has none
\* to its own tables.
LEMMA LinksGood ==
    ASSUME NEW link \in AppSidebar \cup GlobalHeader \cup PageLinks \cup OpenLinks
    PROVE  /\ Honoured(link.page, link.params)
           /\ page = "runtime" => ~OpensInTable(link.page, link.params)
  <1>1. Good(PageLinks)
    BY CommandGood, OfficeGood, NamingsGood DEF PageLinks, TaskCostAttribution, Good
  <1>2. Good(OpenLinks)
    BY DetailsGood DEF OpenLinks, Good
  <1>3. page = "runtime" => PageLinks = {} /\ OpenLinks = {}
    BY DEF PageLinks, OpenLinks, Loaded, DetailLinks
  <1>4. QED
    BY <1>1, <1>2, <1>3, ShellGood DEF Good, Elsewhere

-----------------------------------------------------------------------------
\* While nothing else was done, the address is the link that was followed.
Landed ==
    via # None =>
        /\ via.params = params /\ Honoured(page, params)
        /\ OpensInTable(page, params) =>
             \A l \in Mounted(page, params) : \A x \in LocalFields(l) : local[l][x] = None
BrowseInv == Placed /\ Landed

\* What LinksLand asks of an address.
Lands ==
    LET asked == {<<k, params[k]>> : k \in DOMAIN params \cap Kinds}
    IN  /\ asked \subseteq Opened(params)
        /\ \A l \in Loaded(page) : \A r \in rows[l] :
              <<Detail(l), r.id>> \in asked => l \in OnScreen /\ r \in Shown(l)
        /\ \A l \in OnScreen : \A x \in Fields(l) \cap DOMAIN params :
              /\ Filter(l)[x] = params[x]
              /\ x # "correlation" =>
                   \E menu \in Menus(l, rows[l], {}) : params[x] \in menu[x]

\* Each form of address does as it says.
LEMMA BareLands == ASSUME Bare(params) PROVE Lands
  <1>1. DOMAIN params \cap Kinds = {}
    BY DEF Bare, Kinds
  <1>2. \A l \in OnScreen : Fields(l) \cap DOMAIN params = {}
    BY OnLists DEF Bare, Lists, Fields
  <1>3. QED
    BY <1>1, <1>2 DEF Lands

LEMMA ProfileLands == ASSUME OpensProfile(page, params) PROVE Lands
  <1>1. /\ DOMAIN params \cap Kinds = {"profile"} /\ "profile" \in Details(page)
        /\ Loaded(page) = {} /\ OnScreen = {}
    BY DEF OpensProfile, Kinds, Details, Loaded, OnScreen, Mounted
  <1>2. QED
    BY <1>1 DEF Lands, Opened

LEMMA FiltersLand == ASSUME Filters(page, params) PROVE Lands
  <1>1. DOMAIN params \cap Kinds = {}
    BY DEF Filters, Kinds
  <1>2. ASSUME NEW l \in OnScreen, NEW x \in Fields(l) \cap DOMAIN params
        PROVE  /\ Filter(l)[x] = params[x]
               /\ \E menu \in Menus(l, rows[l], {}) : params[x] \in menu[x]
    <2>1. x = "state" /\ l = page /\ page \in {"agents", "tasks"}
      BY DEF Filters, OnScreen, Mounted, Loaded
    <2>2. Filter(l)[x] = params[x]
      BY <2>1 DEF Filter, FilterIn, Value, LocalFields
    <2>3. CASE page = "agents"
      <3>1. params[x] \in AgentMenu(rows[l])[x]
        BY <2>1, <2>3 DEF Filters, AgentMenu
      <3>2. QED
        BY <2>1, <2>2, <2>3, <3>1 DEF Menus
    <2>4. CASE page = "tasks"
      <3>1. params[x] \in TaskMenu(rows[l], {})[x]
        BY <2>1, <2>4 DEF Filters, TaskMenu
      <3>2. QED
        BY <2>1, <2>2, <2>4, <3>1 DEF Menus
    <2>5. QED
      BY <2>1, <2>3, <2>4
  <1>3. QED
    BY <1>1, <1>2 DEF Lands

LEMMA CorrelationLands == ASSUME Correlates(page, params) PROVE Lands
  <1>1. DOMAIN params \cap Kinds = {}
    BY DEF Correlates, Kinds
  <1>2. ASSUME NEW l \in OnScreen, NEW x \in Fields(l) \cap DOMAIN params
        PROVE  x = "correlation" /\ Filter(l)[x] = params[x]
    BY OnPage, OnLists DEF Correlates, Filter, FilterIn, Value, LocalFields, Lists, Fields
  <1>3. QED
    BY <1>1, <1>2 DEF Lands

LEMMA TableLands ==
    ASSUME Placed, OpensInTable(page, params),
           \A l \in Mounted(page, params) : \A x \in LocalFields(l) : local[l][x] = None
    PROVE  Lands
  <1>1. PICK c \in Table : DOMAIN params = {"tab", c[2]} /\ params["tab"] = c[1]
    BY DEF OpensInTable
  <1>2. page = "runtime" /\ <<c[1], c[2]>> \in Table /\ c[1] \in Lists
    BY DEF OpensInTable, Table, Lists
  <1>3. None # c[1]
    BY AddressAssumption DEF Table, RuntimeTabs
  <1>4. Tab(page, params) = c[1]
    BY <1>1, <1>3 DEF Tab, Value
  <1>5. OnScreen = {c[1]} /\ Mounted(page, params) = {c[1]}
    BY <1>2, <1>4 DEF OnScreen, Mounted, RuntimeList, Table
  <1>6. DOMAIN params \cap Kinds = {c[2]} /\ c[2] \in Details(page)
    BY <1>1, <1>2 DEF Table, Kinds, Details
  <1>7. Fields(c[1]) \cap DOMAIN params = {}
    BY <1>1 DEF Table, Fields
  <1>8. \A l \in Loaded(page) : Detail(l) = c[2] => l = c[1]
    BY <1>2, AddressAssumption DEF Loaded, Detail, Table, Kinds
  <1>9. \A r : Keeps(c[1], r, Filter(c[1]))
    <2>1. Fields(c[1]) = LocalFields(c[1])
      <3>1. c[1] = "sessions" \/ c[1] = "delegations"
        BY DEF Table
      <3>2. CASE c[1] = "sessions"  BY <3>2 DEF Fields, LocalFields
      <3>3. CASE c[1] = "delegations"  BY <3>3 DEF Fields, LocalFields
      <3>4. QED  BY <3>1, <3>2, <3>3
    <2>2. \A x \in Fields(c[1]) : Filter(c[1])[x] = None
      BY <1>5, <2>1 DEF Filter, FilterIn
    <2>3. QED
      BY <1>2, <2>2, ClearKeeps
  <1>10. QED
    BY <1>5, <1>6, <1>7, <1>8, <1>9 DEF Lands, Opened, Shown

LEMMA ListedLands == ASSUME OpensListed(page, params) PROVE Lands
  <1>1. PICK c \in Lister : page = c[1] /\ DOMAIN params = {c[2]}
    BY DEF OpensListed
  <1>2. DOMAIN params \cap Kinds = {c[2]} /\ c[2] \in Details(page)
    <2>1. c[2] \in Kinds
      BY DEF Lister, Kinds
    <2>2. c[2] \in Details(page)
      BY <1>1 DEF Lister, Details
    <2>3. QED
      BY <1>1, <2>1, <2>2
  <1>3. \A l \in Loaded(page) :
            l = page /\ l \in OnScreen /\ l \in {"agents", "skills", "tasks", "approvals"}
    BY <1>1 DEF Lister, Loaded, OnScreen, Mounted
  <1>4. \A l \in OnScreen : l = page /\ l \in Loaded(page)
    BY <1>1 DEF Lister, Loaded, OnScreen, Mounted
  <1>5. \A l \in OnScreen : Fields(l) \cap DOMAIN params = {}
    BY <1>1, <1>3, <1>4 DEF Lister, Fields
  <1>6. ASSUME NEW l \in Loaded(page), NEW r PROVE Keeps(l, r, Filter(l))
    <2>1. \A x \in Fields(l) : x \notin LocalFields(l) => Filter(l)[x] = None
      BY <1>3, <1>5 DEF Filter, FilterIn, Value
    <2>2. CASE l \in {"agents", "skills"}
      <3>1. \A x \in Fields(l) : Filter(l)[x] = None
        BY <2>1, <2>2 DEF LocalFields
      <3>2. QED
        BY <2>2, <3>1, ClearKeeps DEF Lists
    <2>3. CASE l = "tasks"
      <3>1. Filter(l).state = None /\ Filter(l).priority = None
        BY <2>1, <2>3 DEF Fields, LocalFields
      <3>2. TaskKeeps(r, Filter(l))
        BY <3>1, Zenon DEF TaskKeeps, Is
      <3>3. QED
        BY <2>3, <3>2 DEF Keeps
    <2>4. CASE l = "approvals"
      <3>1. Filter(l).state = None /\ Filter(l).risk = None
        BY <2>1, <2>4 DEF Fields, LocalFields
      <3>2. ApprovalKeeps(r, Filter(l))
        BY <3>1, Zenon DEF ApprovalKeeps, Is
      <3>3. QED
        BY <2>4, <3>2 DEF Keeps
    <2>5. QED
      BY <1>3, <2>2, <2>3, <2>4
  <1>7. QED
    BY <1>2, <1>3, <1>5, <1>6 DEF Lands, Opened, Shown

\* So the invariant implies the property.
LEMMA InvLands == BrowseInv => LinksLand
  <1> SUFFICES ASSUME BrowseInv, via # None PROVE Lands
    BY DEF LinksLand, Lands, BrowseInv, Landed
  <1>1. QED
    BY BareLands, ProfileLands, FiltersLand, CorrelationLands, TableLands, ListedLands
       DEF BrowseInv, Landed, Honoured

-----------------------------------------------------------------------------
\* The invariant holds at the start and every step preserves it.
LEMMA BrowseStarts == Init => BrowseInv
  BY DEF Init, BrowseInv, Placed, Landed

\* Any change of the address by something other than a link forgets the link.
LEMMA TurnMoves ==
    ASSUME NEW ps, Turn(ps)
    PROVE  Placed' /\ via' = None
  BY DEF Turn, Arrive, Placed

LEMMA ChooseMoves ==
    ASSUME Placed, NEW l, NEW x, NEW v, Choose(l, x, v)
    PROVE  Placed' /\ via' = None
  <1>1. CASE x \in LocalFields(l)
    BY <1>1 DEF Choose, Placed
  <1>2. CASE x \notin LocalFields(l)
    <2>1. Turn(updateParam(x, v))
      BY <1>2 DEF Choose
    <2>2. QED
      BY <2>1, TurnMoves
  <1>3. QED
    BY <1>1, <1>2

\* Reset leaves every list mounted: it never turns the tab.
LEMMA ResetMounted ==
    ASSUME NEW l \in OnScreen PROVE Mounted(page, ResetParams(l)) = Mounted(page, params)
  <1>1. CASE page = "runtime"
    <2>1. l \in {"sessions", "delegations", "supervisor"}
      BY <1>1, OnPage, OnLists DEF Lists
    <2>2. QED
      BY <2>1 DEF ResetParams
  <1>2. CASE page # "runtime"
    BY <1>2 DEF Mounted
  <1>3. QED
    BY <1>1, <1>2

\* One step, by action.
LEMMA BrowseSteps == BrowseInv /\ [Next]_vars => BrowseInv'
  <1> SUFFICES ASSUME BrowseInv, [Next]_vars PROVE BrowseInv'
    OBVIOUS
  <1> DEFINE Moves == Placed' /\ via' = None
  <1>0. Moves => BrowseInv'
    BY DEF BrowseInv, Landed
  <1> HIDE DEF Moves
  <1>a. ASSUME NEW ps, Turn(ps) PROVE Moves
    BY <1>a, TurnMoves DEF Moves
  <1>b. ASSUME NEW l, NEW x, NEW v, Choose(l, x, v) PROVE Moves
    BY <1>b, ChooseMoves DEF Moves, BrowseInv
  <1>1. CASE Search
    BY <1>0, <1>1, <1>b DEF Search
  <1>2. CASE SetFilter \/ ClickCard
    BY <1>0, <1>2, <1>b DEF SetFilter, ClickCard
  <1>3. CASE Reset
    <2>1. PICK l \in OnScreen : /\ local' = ResetLocal(l) /\ params' = ResetParams(l)
                               /\ via' = None /\ page' = page
      BY <1>3 DEF Reset
    <2>2. Mounted(page', params') = Mounted(page, params)
      BY <2>1, ResetMounted
    <2>3. DOMAIN local' = Mounted(page', params')
      BY <2>1, <2>2 DEF ResetLocal, BrowseInv, Placed
    <2>4. QED
      BY <1>0, <2>1, <2>3 DEF Moves, Placed
  <1>4. CASE ClearCorrelation
    BY <1>0, <1>4, <1>a DEF ClearCorrelation
  <1>5. CASE ClickRow
    BY <1>0, <1>5, <1>a DEF ClickRow
  <1>6. CASE SelectAgent
    BY <1>0, <1>6, <1>a DEF SelectAgent
  <1>7. CASE Close
    BY <1>0, <1>7, <1>a DEF Close
  <1>8. CASE Inspect
    BY <1>0, <1>8, <1>a DEF Inspect, InspectSession, InspectDelegation
  <1>9. CASE FilterEvents
    BY <1>0, <1>9, <1>a DEF FilterEvents
  <1>10. CASE RuntimeTab
    BY <1>0, <1>10, <1>a DEF RuntimeTab
  <1>11. CASE ActivityTab
    BY <1>0, <1>11, <1>a DEF ActivityTab
  <1>12. CASE Follow
    <2>1. PICK link \in AppSidebar \cup GlobalHeader \cup PageLinks \cup OpenLinks :
            Arrive(link.page, link.params, link)
      BY <1>12 DEF Follow
    <2>2. /\ page' = link.page /\ params' = link.params /\ via' = link
          /\ local' = [l \in Mounted(page', params') |->
                IF page' = page /\ l \in DOMAIN local THEN local[l] ELSE Cleared(l)]
      BY <2>1 DEF Arrive
    <2>3. Placed'
      BY <2>2 DEF Placed
    <2>4. Honoured(page', params') /\ (page = "runtime" => ~OpensInTable(page', params'))
      BY <2>2, LinksGood
    <2>5. ASSUME OpensInTable(page', params'), NEW l \in Mounted(page', params'),
                 NEW x \in LocalFields(l)
          PROVE  local'[l][x] = None
      <3>1. page' # page
        BY <2>4, <2>5 DEF OpensInTable
      <3>2. local'[l] = Cleared(l)
        BY <2>2, <3>1
      <3>3. QED
        BY <3>2 DEF Cleared
    <2>6. QED
      BY <2>2, <2>3, <2>4, <2>5 DEF BrowseInv, Landed
  <1>13. CASE Refresh
    <2>1. UNCHANGED <<page, params, local, via>>
      BY <1>13 DEF Refresh
    <2>2. QED
      BY <2>1 DEF BrowseInv, Placed, Landed
  <1>14. CASE Reload
    BY <1>14 DEF Reload, BrowseInv, Placed, Landed
  <1>15. CASE UNCHANGED vars
    BY <1>15 DEF vars, BrowseInv, Placed, Landed
  <1>16. QED
    BY <1>1, <1>2, <1>3, <1>4, <1>5, <1>6, <1>7, <1>8, <1>9, <1>10, <1>11, <1>12, <1>13,
       <1>14, <1>15 DEF Next

\* What is mounted has its filters, and a link that was just followed led to an
\* address its page honours, wherever the operator went before.
THEOREM BrowseInvariance == Spec => []BrowseInv
  BY BrowseStarts, BrowseSteps, PTL DEF Spec

\* Whatever mix of searches, menus, tabs, correlations and links hides a row of a
\* list, the page says so and its Reset, and the banner's button, bring it back
\* without closing what is open.
THEOREM HiddenRowsCanBeShown == Spec => []HiddenCanBeShown
  <1>1. BrowseInv => HiddenCanBeShown
    BY CanBeShown DEF BrowseInv
  <1>2. QED
    BY <1>1, BrowseInvariance, PTL

\* A figure above a list is the number of rows the filter of its name would keep, and
\* a card of a strip counts what its click leaves or has left, but for those that
\* count three states or a state while they choose a risk.
THEOREM FilterFiguresHold == Spec => []FiguresMatchFilters
  BY FiguresCount, PTL

\* A link that names something arrives with it open, and with its list on the
\* screen and its row in it, whatever filters were set before.
THEOREM LinksArrive == Spec => []LinksLand
  BY InvLands, BrowseInvariance, PTL
=============================================================================
