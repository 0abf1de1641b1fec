------------------------------ MODULE Directory ------------------------------
(* The lists of the office's pages: what each filter keeps, what its menu       *)
(* offers, when a page calls itself filtered, what Reset clears, and which      *)
(* figures are printed above a list.  Every page has its own code for each of   *)
(* these.  A row is a record with an id, the attributes its filters read and    *)
(* the texts its search finds it by.                                            *)
EXTENDS Naturals, FiniteSets

CONSTANT None     \* nothing chosen (All, ALL, an empty search), or no such attribute

(* A search that is only spaces: some pages trim it, others look for it.        *)
Blank == " "
Trimmed(q) == IF q = Blank THEN None ELSE q

Finds(r, q) == q = None \/ q \in r.text
Is(value, choice) == choice = None \/ value = choice
Options(values) == values \ {None}

-----------------------------------------------------------------------------
(* Agents.                                                                      *)
AgentInState(a, s) ==
    CASE s = "Active" -> a.state = "ACTIVE"
      [] s = "Idle" -> a.state \in {"IDLE", "RECENTLY_ACTIVE"}
      [] s = "Needs Attention" ->
            a.state \in {"AWAITING_APPROVAL", "DEGRADED", "ERROR"} \/ a.config = "INCOMPLETE"
      [] s = "Offline" -> a.state = "OFFLINE"
      [] s = "Unknown" -> a.state = "UNKNOWN"
      [] OTHER -> TRUE
AgentConfigured(a, c) ==
    CASE c = "Complete" -> a.config = "COMPLETE"
      [] c = "Incomplete" -> a.config = "INCOMPLETE"
      [] c = "Disabled" -> ~a.enabled
      [] OTHER -> TRUE
AgentKeeps(a, f) ==
    /\ Trimmed(f.search) # None => Finds(a, f.search)
    /\ AgentInState(a, f.state) /\ AgentConfigured(a, f.config) /\ Is(a.role, f.role)
AgentFiltered(f) ==
    Trimmed(f.search) # None \/ f.state # None \/ f.role # None \/ f.config # None
AgentRoles(rows) == Options({a.role : a \in rows})
AgentMenu(rows) ==
    [state |-> {"Active", "Idle", "Needs Attention", "Offline", "Unknown"},
     config |-> {"Complete", "Incomplete", "Disabled"}, role |-> AgentRoles(rows)]
AgentMobileMenu(rows) ==
    [state |-> {"Active", "Idle", "Needs Attention", "Offline"},
     config |-> {"Complete", "Incomplete"}, role |-> AgentRoles(rows)]

(* A figure is the choices of the filter it speaks of and its count.            *)
Figure(choices, rows) == [choices |-> choices, count |-> Cardinality(rows)]
All == {<<"search", None>>}
(* Mutant: the bar forgets that an incomplete profile needs attention.          *)
MutantAgentSummaryBar(rows) ==
    {Figure(All, rows),
     Figure({<<"state", "Active">>}, {a \in rows : a.state = "ACTIVE"}),
     Figure({<<"state", "Needs Attention">>},
            {a \in rows : a.state \in {"AWAITING_APPROVAL", "DEGRADED", "ERROR"}})}
AgentSummaryBar(rows) ==
    {Figure(All, rows),
     Figure({<<"state", "Active">>}, {a \in rows : a.state = "ACTIVE"}),
     Figure({<<"state", "Needs Attention">>},
            {a \in rows : a.state \in {"AWAITING_APPROVAL", "DEGRADED", "ERROR"}
                            \/ a.config = "INCOMPLETE"})}

-----------------------------------------------------------------------------
(* Skills.  A profile is found by its name or its id; the menu has the names.   *)
SkillKeeps(s, f) ==
    /\ Finds(s, f.search)
    /\ Is(s.health, f.health) /\ Is(s.installation, f.install) /\ Is(s.execution, f.exec)
    /\ f.profile = None \/ f.profile \in s.profiles \cup s.profileIds
(* Mutant: the profile, which came last, is forgotten.                          *)
MutantSkillFiltered(f) ==
    f.search # None \/ f.health # None \/ f.install # None \/ f.exec # None
SkillFiltered(f) ==
    \/ f.search # None \/ f.health # None \/ f.install # None
    \/ f.exec # None \/ f.profile # None
SkillProfiles(rows) == UNION {s.profiles : s \in rows}
SkillMenu(rows) ==
    [health |-> {"healthy", "degraded", "missing", "unknown"},
     install |-> {"installed", "missing", "unknown"},
     exec |-> {"observed_active", "requested", "execution_unknown", "completed",
               "failed", "not_observed"},
     profile |-> SkillProfiles(rows)]
SkillSummary(rows) ==
    {Figure({<<"install", "installed">>}, {s \in rows : s.installation = "installed"}),
     Figure({<<"health", "healthy">>}, {s \in rows : s.health = "healthy"}),
     Figure({<<"health", "degraded">>}, {s \in rows : s.health = "degraded"}),
     Figure({<<"health", "missing">>, <<"install", "missing">>},
            {s \in rows : s.health = "missing" \/ s.installation = "missing"}),
     Figure({<<"exec", "observed_active">>}, {s \in rows : s.execution = "observed_active"})}
SkillHealthDistribution(rows) ==
    {Figure({<<"health", h>>}, {s \in rows : s.health = h})
        : h \in {"healthy", "degraded", "missing", "unknown"}}

-----------------------------------------------------------------------------
(* The tables of the runtime page; their filters are local to each table.       *)
SessionKeeps(s, f) ==
    Finds(s, f.search) /\ Is(s.state, f.state) /\ Is(s.source, f.source) /\ Is(s.agent, f.agent)
SessionsFiltered(f) == \E x \in {"search", "state", "source", "agent"} : f[x] # None
SessionMenu(rows) ==
    [state |-> {"ACTIVE", "RECENT", "COMPLETED", "FAILED", "ARCHIVED", "UNKNOWN"},
     source |-> Options({s.source : s \in rows}),
     agent |-> Options({s.agent : s \in rows})]

DelegationKeeps(d, f) ==
    Finds(d, f.search) /\ Is(d.state, f.state) /\ Is(d.agent, f.agent)
DelegationsFiltered(f) == f.search # None \/ f.state # None \/ f.agent # None
DelegationMenu(rows) ==
    [state |-> {"QUEUED", "CLAIMED", "RUNNING", "COMPLETED", "FAILED", "CANCELLED"},
     agent |-> Options({d.agent : d \in rows})]

SupervisorKeeps(e, f) ==
    Finds(e, f.search) /\ Is(e.category, f.category) /\ Is(e.severity, f.severity)
SupervisorFiltered(f) == f.search # None \/ f.category # None \/ f.severity # None
SupervisorMenu ==
    [category |-> {"GATEWAY", "SESSION", "DELEGATION", "USAGE", "SKILL", "PROFILE", "SYSTEM"},
     severity |-> {"INFO", "WARNING", "ERROR", "CRITICAL"}]
TabFigure(rows) == {Figure(All, rows)}

-----------------------------------------------------------------------------
(* Activity and audit.  The search and the filters are local, the correlation   *)
(* is in the address and belongs to both lists; neither list counts it as a     *)
(* filter of its own, the banner above them does.  Ages are in hours.           *)
Within(age, range) ==
    CASE range = "1h" -> age <= 1 [] range = "24h" -> age <= 24
      [] range = "7d" -> age <= 168 [] OTHER -> TRUE
EventKeeps(e, f) ==
    /\ Is(e.corr, f.correlation) /\ Is(e.category, f.category) /\ Is(e.severity, f.severity)
    /\ Is(e.agent, f.agent) /\ Within(e.age, f.time) /\ Finds(e, Trimmed(f.search))
EventsFiltered(f) ==
    \E x \in {"search", "category", "severity", "time", "agent"} : f[x] # None
EventMenu(rows) ==
    [category |-> {"TASK", "AGENT", "APPROVAL", "SESSION", "DELEGATION", "SKILL", "GATEWAY",
                   "SYSTEM"},
     severity |-> {"INFO", "WARNING", "ERROR", "CRITICAL"}, time |-> {"1h", "24h", "7d"},
     agent |-> Options({e.agent : e \in rows})]
ActivitySummary(rows) ==
    LET counted(field, options) ==
            Figure({<<field, o>> : o \in options}, {e \in rows : e[field] \in options})
    IN  {Figure(All, rows), counted("severity", {"WARNING"}),
         counted("severity", {"ERROR", "CRITICAL"}), counted("category", {"APPROVAL"}),
         counted("category", {"TASK"}),
         counted("category", {"SESSION", "DELEGATION", "GATEWAY", "SYSTEM"})}

AuditKeeps(r, f) ==
    /\ Is(r.corr, f.correlation) /\ Is(r.actor, f.actor) /\ Is(r.outcome, f.outcome)
    /\ Within(r.age, f.time) /\ Finds(r, Trimmed(f.search))
AuditFiltered(f) == f.search # None \/ f.actor # None \/ f.outcome # None \/ f.time # None
AuditMenu ==
    [actor |-> {"USER", "AGENT", "SYSTEM", "RUNTIME"},
     outcome |-> {"SUCCESS", "FAILED", "DENIED", "CANCELLED"}, time |-> {"1h", "24h", "7d"}]

-----------------------------------------------------------------------------
(* Tasks and approvals are filtered by the server, which knows two of the       *)
(* parts of each filter.                                                        *)
TaskKeeps(t, f) == Is(t.state, f.state) /\ Is(t.priority, f.priority)
TasksFiltered(f) ==
    \/ Trimmed(f.search) # None \/ f.state # None \/ f.priority # None
    \/ f.agent # None \/ f.attention # None \/ f.skill # None
StateOptions ==
    {"DRAFT", "READY", "QUEUED", "DISPATCHING", "RUNNING", "AWAITING_APPROVAL",
     "BLOCKED", "COMPLETED", "FAILED", "CANCELLED"}
TaskMenu(rows, agents) ==
    [state |-> StateOptions, priority |-> {"CRITICAL", "HIGH", "MEDIUM", "LOW"},
     attention |-> {"APPROVAL", "BLOCKED", "FAILED"}, agent |-> {"UNASSIGNED"} \cup agents,
     skill |-> UNION {t.needs : t \in rows}]

ApprovalKeeps(a, f) == Is(a.state, f.state) /\ Is(a.risk, f.risk)
ApprovalsFiltered(f) ==
    Trimmed(f.search) # None \/ f.risk # None \/ f.actionType # None \/ f.state # None
ApprovalMenu ==
    [risk |-> {"CRITICAL", "HIGH", "MEDIUM", "LOW"},
     actionType |-> {"SEND_EMAIL", "POST_CONTENT", "WRITE_EXTERNAL", "DELETE_EXTERNAL",
                     "EXECUTE_CODE", "INFRASTRUCTURE_CHANGE", "FINANCIAL_ACTION"},
     state |-> {"PENDING", "APPROVED", "REJECTED", "EXPIRED", "FAILED"}]

(* The strips above the tasks and the approvals count the rows that are shown,  *)
(* each card some of them; a click on a card chooses in the filter.  What it    *)
(* chooses is not always what it counts: In Progress and Needs Attention count  *)
(* three states each and choose one, which for the latter no task is in, and    *)
(* the cards of the approvals choose a risk.                                    *)
Card(name, field, choice, counted) ==
    [name |-> name, click |-> <<field, choice>>, count |-> Cardinality(counted)]
TaskSummary(shown) ==
    LET in(states) == {t \in shown : t.state \in states}
        card(name, choice, counted) == Card(name, "state", choice, counted)
    IN  {card("Total Tasks", None, shown),
         card("Ready", "READY", in({"READY"})),
         card("In Progress", "RUNNING", in({"RUNNING", "DISPATCHING", "QUEUED"})),
         card("Needs Attention", "ATTENTION", in({"AWAITING_APPROVAL", "BLOCKED", "FAILED"})),
         card("Completed", "COMPLETED", in({"COMPLETED"})),
         card("Failed", "FAILED", in({"FAILED"}))}
ApprovalSummary(shown) ==
    LET in(state) == {a \in shown : a.state = state}
        card(name, choice, counted) == Card(name, "risk", choice, counted)
    IN  {card("Pending Reviews", None, in("PENDING")),
         card("High / Critical Risk", "CRITICAL",
              {a \in in("PENDING") : a.risk \in {"HIGH", "CRITICAL"}}),
         card("Expiring Soon", None, {a \in in("PENDING") : a.soon}),
         card("Approved Today", None, in("APPROVED")),
         card("Rejected Today", None, in("REJECTED"))}

-----------------------------------------------------------------------------
(* By list.                                                                     *)
Fields(l) ==
    CASE l = "agents" -> {"search", "state", "role", "config"}
      [] l = "skills" -> {"search", "health", "install", "exec", "profile"}
      [] l = "sessions" -> {"search", "state", "source", "agent"}
      [] l = "delegations" -> {"search", "state", "agent"}
      [] l = "supervisor" -> {"search", "category", "severity"}
      [] l = "events" -> {"search", "category", "severity", "time", "agent", "correlation"}
      [] l = "audit" -> {"search", "actor", "outcome", "time", "correlation"}
      [] l = "tasks" -> {"search", "state", "priority", "agent", "attention", "skill"}
      [] l = "approvals" -> {"search", "risk", "actionType", "state"}
Keeps(l, r, f) ==
    CASE l = "agents" -> AgentKeeps(r, f) [] l = "skills" -> SkillKeeps(r, f)
      [] l = "sessions" -> SessionKeeps(r, f) [] l = "delegations" -> DelegationKeeps(r, f)
      [] l = "supervisor" -> SupervisorKeeps(r, f) [] l = "events" -> EventKeeps(r, f)
      [] l = "audit" -> AuditKeeps(r, f) [] l = "tasks" -> TaskKeeps(r, f)
      [] l = "approvals" -> ApprovalKeeps(r, f)
Filtered(l, f) ==
    CASE l = "agents" -> AgentFiltered(f) [] l = "skills" -> SkillFiltered(f)
      [] l = "sessions" -> SessionsFiltered(f) [] l = "delegations" -> DelegationsFiltered(f)
      [] l = "supervisor" -> SupervisorFiltered(f) [] l = "events" -> EventsFiltered(f)
      [] l = "audit" -> AuditFiltered(f) [] l = "tasks" -> TasksFiltered(f)
      [] l = "approvals" -> ApprovalsFiltered(f)
Menus(l, rows, agents) ==
    CASE l = "agents" -> {AgentMenu(rows), AgentMobileMenu(rows)} [] l = "skills" -> {SkillMenu(rows)}
      [] l = "sessions" -> {SessionMenu(rows)} [] l = "delegations" -> {DelegationMenu(rows)}
      [] l = "supervisor" -> {SupervisorMenu} [] l = "events" -> {EventMenu(rows)}
      [] l = "audit" -> {AuditMenu} [] l = "tasks" -> {TaskMenu(rows, agents)}
      [] l = "approvals" -> {ApprovalMenu}
(* Nothing chosen is no choice of a menu: the values ALL, All and the empty      *)
(* text stand for it on the pages, and no menu has another use for them.        *)
ASSUME NoneAssumption ==
    \A l \in {"agents", "skills", "sessions", "delegations", "supervisor", "events", "audit",
              "tasks", "approvals"} :
        \A menu \in Menus(l, {}, {}) : \A x \in DOMAIN menu : None \notin menu[x]
(* The figures that count every row of a list, and the cards that count those   *)
(* that are shown.                                                              *)
Figures(l, rows) ==
    CASE l = "agents" -> AgentSummaryBar(rows)
      [] l = "skills" -> SkillSummary(rows) \cup SkillHealthDistribution(rows)
      [] l = "events" -> ActivitySummary(rows)
      [] l \in {"sessions", "delegations", "supervisor", "audit"} -> TabFigure(rows)
      [] OTHER -> {}
Cards(l, shown) ==
    CASE l = "tasks" -> TaskSummary(shown) [] l = "approvals" -> ApprovalSummary(shown)
      [] OTHER -> {}
=============================================================================
