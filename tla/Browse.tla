------------------------------- MODULE Browse -------------------------------
(* An operator who browses the office: pages, tabs, filters, details and links. *)
(* Part of the state is the address, which links replace and a reload keeps;    *)
(* the rest belongs to components, and is lost when they leave the screen.      *)
EXTENDS Links

CONSTANTS
    Loads,      \* by list: the sets of rows an answer may bring
    Queries,    \* what is typed into a search
    Starts,     \* addresses a browser may be opened at
    MaxSet      \* bound: filters that are set at the same time

ASSUME BrowseAssumption ==
    MaxSet \in Nat /\ \A l \in DOMAIN Loads : Rows[l] \in Loads[l]

VARIABLES
    page, params,   \* the address: the page and its parameters
    local,          \* the filters components hold, by list
    rows,           \* what the page's queries hold, by list
    via             \* the link that was followed to get here, or None

vars == <<page, params, local, rows, via>>

-----------------------------------------------------------------------------
(* The address.                                                                 *)
Value(ps, k) == IF k \in DOMAIN ps THEN ps[k] ELSE None
PutAll(ks, v) == [x \in DOMAIN params \cup ks |-> IF x \in ks THEN v ELSE params[x]]
Put(k, v) == PutAll({k}, v)
Only(ks) == [k \in DOMAIN params \cap ks |-> params[k]]
Drop(ks) == Only(DOMAIN params \ ks)
updateParam(k, v) == IF v = None THEN Drop({k}) ELSE Put(k, v)

RuntimeTabs == {"overview", "sessions", "gateway", "delegations", "usage", "events"}
ActivityTabs == {"events", "audit", "usage"}
Tab(p, ps) ==
    IF Value(ps, "tab") # None THEN ps["tab"]
    ELSE CASE p = "runtime" -> "overview" [] p = "activity" -> "events" [] OTHER -> None

(* The kinds of things a link may name.  No tab and no kind is called nothing.   *)
Kinds == {"agent", "skill", "session", "delegation", "task", "approval", "schedule", "profile"}
ASSUME AddressAssumption == None \notin RuntimeTabs \cup ActivityTabs \cup Kinds

(* The lists a page queries, those whose filters exist, and those it shows.     *)
Loaded(p) ==
    CASE p = "runtime" -> {"sessions", "delegations", "supervisor"}
      [] p = "activity" -> {"events", "audit"}
      [] OTHER -> {p} \cap {"agents", "skills", "tasks", "approvals"}
RuntimeList(t) == IF t = "events" THEN {"supervisor"} ELSE {t} \cap {"sessions", "delegations"}
Mounted(p, ps) == IF p = "runtime" THEN RuntimeList(Tab(p, ps)) ELSE Loaded(p)
OnScreen == IF page = "activity" THEN {Tab(page, params)} \cap {"events", "audit"}
            ELSE Mounted(page, params)

(* The details a page opens from its address.                                   *)
Details(p) ==
    CASE p \in {"agents", "command", "office"} -> {"agent"} [] p = "skills" -> {"skill"}
      [] p = "runtime" -> {"session", "delegation"} [] p = "activity" -> {"event", "audit"}
      [] p = "tasks" -> {"task"} [] p = "approvals" -> {"approval"}
      [] p = "schedule" -> {"schedule"} [] p = "agent-config" -> {"profile"} [] OTHER -> {}
Opened(ps) == {<<k, ps[k]>> : k \in Details(page) \cap DOMAIN ps}
Detail(l) ==
    CASE l = "agents" -> "agent" [] l = "skills" -> "skill" [] l = "sessions" -> "session"
      [] l = "delegations" -> "delegation" [] l = "events" -> "event" [] l = "audit" -> "audit"
      [] l = "tasks" -> "task" [] l = "approvals" -> "approval" [] OTHER -> None
InDetail(l) == {r \in rows[l] : Value(params, Detail(l)) = r.id}

(* Which part of a filter a component holds; the rest is in the address.        *)
LocalFields(l) ==
    CASE l \in {"agents", "skills"} -> {}
      [] l \in {"tasks", "approvals"} -> {"search"}
      [] OTHER -> Fields(l) \ {"correlation"}
Cleared(l) == [x \in LocalFields(l) |-> None]
FilterIn(l, ps, held) ==
    [x \in Fields(l) |-> IF x \in LocalFields(l) THEN held[l][x] ELSE Value(ps, x)]
Filter(l) == FilterIn(l, params, local)
Shown(l) == {r \in rows[l] : Keeps(l, r, Filter(l))}

-----------------------------------------------------------------------------
(* Another address: a page that was not on the screen is mounted afresh, and so *)
(* is a table when its tab is chosen.                                           *)
Arrive(p, ps, link) ==
    /\ page' = p /\ params' = ps /\ via' = link
    /\ local' = [l \in Mounted(p, ps) |->
                    IF p = page /\ l \in DOMAIN local THEN local[l] ELSE Cleared(l)]
    /\ rows' = IF p = page THEN rows ELSE [l \in Loaded(p) |-> Rows[l]]
Turn(ps) == ps # params /\ Arrive(page, ps, None)

Chosen == UNION {{<<l, x>> : x \in {y \in Fields(l) : Filter(l)[y] # None}} : l \in DOMAIN local}
Choose(l, x, v) ==
    /\ v # Filter(l)[x] /\ v # None => Cardinality(Chosen \ {<<l, x>>}) < MaxSet
    /\ IF x \in LocalFields(l)
       THEN /\ local' = [local EXCEPT ![l][x] = v] /\ via' = None
            /\ UNCHANGED <<page, params, rows>>
       ELSE Turn(updateParam(x, v))
Search == \E l \in OnScreen : \E q \in Queries \cup {None} : Choose(l, "search", q)
SetFilter ==
    \E l \in OnScreen :
        \E menu \in Menus(l, IF l = "tasks" THEN Shown(l) ELSE rows[l],
                          {a.id : a \in Rows["agents"]}) :
            \E x \in DOMAIN menu : \E v \in menu[x] \cup {None} : Choose(l, x, v)
ClickCard ==
    \E l \in OnScreen : \E card \in Cards(l, Shown(l)) :
        Choose(l, card.click[1], card.click[2])

(* Reset, which each page wrote for itself, and the banner of the correlation.  *)
AgentsReset == Only({"agent"})
SkillsReset == Drop({"search", "health", "install", "exec", "profile"})
TasksReset == Only({"task", "view"})
ApprovalsReset == Only({"approval"})
handleClearCorrelation == Drop({"correlation"})
ResetParams(l) ==
    CASE l = "agents" -> AgentsReset [] l = "skills" -> SkillsReset
      [] l = "tasks" -> TasksReset [] l = "approvals" -> ApprovalsReset
      [] l \in {"events", "audit"} -> handleClearCorrelation [] OTHER -> params
ResetLocal(l) == [local EXCEPT ![l] = Cleared(l)]
Reset ==
    \E l \in OnScreen :
        /\ Filtered(l, Filter(l)) /\ local' = ResetLocal(l) /\ params' = ResetParams(l)
        /\ via' = None /\ UNCHANGED <<page, rows>>
Banner == page = "activity" /\ Value(params, "correlation") # None
ClearCorrelation == Banner /\ Turn(handleClearCorrelation)

-----------------------------------------------------------------------------
(* Rows: what a click on each of their drawings does.                           *)
Correlated(r) == IF r.corr = None THEN {} ELSE {Put("correlation", r.corr)}
AgentCard(a) == {Put("agent", a.id)}
AgentListRow(a) == {Put("agent", a.id)}
SkillTable(s) == {Put("skill", s.id)}
SkillCard(s) == {Put("skill", s.id)}
SessionsTable(s) == {Put("session", s.id)}
DelegationsTable(d) == {Put("delegation", d.id)}
ActivityTimeline(e) == {Put("event", e.id)} \cup Correlated(e)
ActivityTable(e) == {Put("event", e.id)} \cup Correlated(e)
AuditTable(r) == {Put("audit", r.id)} \cup Correlated(r)
RowClicks(l, r) ==
    CASE l = "agents" -> AgentCard(r) \cup AgentListRow(r)
      [] l = "skills" -> SkillTable(r) \cup SkillCard(r)
      [] l = "sessions" -> SessionsTable(r) [] l = "delegations" -> DelegationsTable(r)
      [] l = "events" -> ActivityTimeline(r) \cup ActivityTable(r)
      [] l = "audit" -> AuditTable(r)
      [] l \in {"tasks", "approvals"} -> {Put(Detail(l), r.id)} [] OTHER -> {}
ClickRow == \E l \in OnScreen : \E r \in Shown(l) : \E ps \in RowClicks(l, r) : Turn(ps)

(* The Command Center and the office open agents they draw elsewhere.           *)
SelectAgent ==
    \E a \in Rows["agents"] :
        \/ page = "command" /\ Turn(Put("agent", a.id))
        \/ page = "office" /\ Turn(PutAll({"agent", "focus"}, a.id))
Close == \E k \in Details(page) \ {"profile"} : k \in DOMAIN params /\ Turn(Drop({k}))

(* In the dialog of a session or a delegation.  Three changes of the address in *)
(* one tick each start from the address the page was drawn with, so the last    *)
(* one counts: the first dialog stays open under the second.                    *)
SessionRelatedTab(s) ==
    {Put("session", i) : i \in s.related} \cup {Put("delegation", i) : i \in s.delegations}
DelegationOverviewTab(d) == {Put("session", d.origin)}
InspectSession ==
    \E s \in InDetail("sessions") : \E ps \in SessionRelatedTab(s) : Turn(ps)
InspectDelegation ==
    \E d \in InDetail("delegations") : \E ps \in DelegationOverviewTab(d) : Turn(ps)
Inspect == page = "runtime" /\ (InspectSession \/ InspectDelegation)
FilterEvents ==
    page = "activity" /\ \E l \in {"events", "audit"} : \E r \in InDetail(l) :
        \E ps \in Correlated(r) : Turn(ps)

(* The tabs, and the cards of the overview that lead to them.                   *)
RecentEvents == {"events"}
RuntimeOverview ==
    IF Tab(page, params) = "overview"
    THEN {"gateway", "sessions", "delegations", "usage"} \cup RecentEvents ELSE {}
RuntimeTab ==
    page = "runtime" /\ \E t \in RuntimeTabs \cup RuntimeOverview :
        Turn(IF t = "overview" THEN Drop({"tab"}) ELSE Put("tab", t))
ActivityTab == page = "activity" /\ \E t \in ActivityTabs : Turn(Put("tab", t))

-----------------------------------------------------------------------------
(* The links of the page and of what is open on it.                             *)
PageLinks ==
    CASE page = "command" -> SystemPulse \cup WorkQueue \cup AgentFleetOverview
                               \cup RecentActivity \cup UpcomingScheduleCard
      [] page = "office" -> OfficeActivityStrip \cup OfficeListView \cup OfficeAttentionBanner
                              \cup ApprovalPod \cup ArtifactVault \cup CollaborationZone
                              \cup RuntimeRoom \cup AgentDesk \cup TemporaryWorker
      [] page = "activity" /\ Tab(page, params) = "usage" -> TaskCostAttribution
      [] OTHER -> {}
DetailLinks(l, r) ==
    CASE l = "agents" -> AgentDetailModal(r) [] l = "skills" -> SkillDetailModal(r)
      [] l = "events" -> ActivityDetailDrawer(r) [] l = "audit" -> AuditDetailDrawer(r)
      [] l = "tasks" -> TaskLinks(r) [] l = "approvals" -> ApprovalLinks(r) [] OTHER -> {}
OpenLinks == UNION {UNION {DetailLinks(l, r) : r \in InDetail(l)} : l \in Loaded(page)}
Follow ==
    \E link \in AppSidebar \cup GlobalHeader \cup PageLinks \cup OpenLinks :
        Arrive(link.page, link.params, link)

(* The answer to a query of the page, and a reload of the browser.              *)
Refresh ==
    \E l \in Loaded(page) : \E rs \in Loads[l] \ {rows[l]} :
        rows' = [rows EXCEPT ![l] = rs] /\ UNCHANGED <<page, params, local, via>>
Reload ==
    /\ local' = [l \in Mounted(page, params) |-> Cleared(l)] /\ local' # local
    /\ via' = None /\ UNCHANGED <<page, params, rows>>

Init ==
    /\ \E s \in Starts : page = s.page /\ params = s.params
    /\ local = [l \in Mounted(page, params) |-> Cleared(l)]
    /\ rows = [l \in Loaded(page) |-> Rows[l]] /\ via = None

Next ==
    \/ Search \/ SetFilter \/ ClickCard \/ Reset \/ ClearCorrelation \/ ClickRow \/ SelectAgent
    \/ Close \/ Inspect \/ FilterEvents \/ RuntimeTab \/ ActivityTab
    \/ Follow \/ Refresh \/ Reload

Spec == Init /\ [][Next]_vars

-----------------------------------------------------------------------------
(* Where a list hides a row, the page says so and offers the way back: after    *)
(* Reset, and Clear Filter of the banner where it is up, every row is shown and *)
(* what was open is still open.  It takes the filters, the flag, the button and *)
(* the address, four pieces of code on each page, to agree.                     *)
HiddenCanBeShown ==
    \A l \in OnScreen : Shown(l) # rows[l] =>
        LET flagged == Filtered(l, Filter(l))
            base == IF flagged THEN ResetParams(l) ELSE params
            ps == IF Banner THEN [k \in DOMAIN base \ {"correlation"} |-> base[k]] ELSE base
            held == IF flagged THEN ResetLocal(l) ELSE local
        IN  /\ flagged \/ Banner
            /\ \A r \in rows[l] : Keeps(l, r, FilterIn(l, ps, held))
            /\ Opened(ps) = Opened(params)

(* The summary bars and strips and the filters are separate code, on other      *)
(* components, for the same notions.  A figure of a bar counts the rows that    *)
(* the filter named like it would leave.                                        *)
BarsMatchFilters ==
    \A l \in OnScreen : \A figure \in Figures(l, rows[l]) :
        figure.count = Cardinality({r \in rows[l] : \E c \in figure.choices :
            Keeps(l, r, [x \in Fields(l) |-> IF x = c[1] THEN c[2] ELSE None])})

(* A card of the task strip counts the tasks a click on it leaves, while no     *)
(* state is chosen and while its own is.  Needs Attention, which leaves none,   *)
(* is excepted, and In Progress until it is chosen.                             *)
TaskCardsMatch ==
    "tasks" \in OnScreen =>
        LET f == Filter("tasks") IN
        \A card \in TaskSummary(Shown("tasks")) :
            (/\ card.name # "Needs Attention"
             /\ \/ f.state = card.click[2]
                \/ f.state = None /\ card.name # "In Progress")
            => card.count = Cardinality({t \in rows["tasks"] :
                                Keeps("tasks", t, [f EXCEPT !.state = card.click[2]])})

(* A card of the approvals that is marked as chosen counts the queue under it.  *)
(* (Its mark speaks of a risk; unchosen, no click on these cards leaves what    *)
(* they count.)                                                                 *)
ApprovalCardsMatch ==
    "approvals" \in OnScreen =>
        \A card \in ApprovalSummary(Shown("approvals")) :
            card.click[2] # None /\ Filter("approvals").risk = card.click[2]
            => card.count = Cardinality({a \in Shown("approvals") : a.state = "PENDING"})

(* What is printed above a list agrees with what its filters leave of it.       *)
FiguresMatchFilters == BarsMatchFilters /\ TaskCardsMatch /\ ApprovalCardsMatch

(* A link that names a session, an agent, a task... arrives with that one open, *)
(* and where the page lists its kind the list is on the screen with it in it,   *)
(* whatever filters the page had before; a filter in a link is one the page's   *)
(* menu knows.                                                                  *)
LinksLand ==
    via # None =>
        LET asked == {<<k, via.params[k]>> : k \in DOMAIN via.params \cap Kinds}
        IN  /\ asked \subseteq Opened(params)
            /\ \A l \in Loaded(page) : \A r \in rows[l] :
                  <<Detail(l), r.id>> \in asked => l \in OnScreen /\ r \in Shown(l)
            /\ \A l \in OnScreen : \A x \in Fields(l) \cap DOMAIN via.params :
                  /\ Filter(l)[x] = via.params[x]
                  /\ x # "correlation" =>
                       \E menu \in Menus(l, rows[l], {}) : via.params[x] \in menu[x]
=============================================================================
