-------------------------------- MODULE Links --------------------------------
(* The links of the office's pages: every button, card and row that leads to    *)
(* another page, as the address it navigates to.  The pages that receive them   *)
(* are in Browse.                                                               *)
EXTENDS Directory

CONSTANT Rows     \* by list: every row there can be
LOCAL Ids(l) == {r.id : r \in Rows[l]}

Link(p, ps) == [page |-> p, params |-> ps]
Page(p) == Link(p, [k \in {} |-> p])
Naming(p, k, ids) == {Link(p, [x \in {k} |-> i]) : i \in ids}
(* Mutant: the tab is left out, so the page opens on its overview.              *)
MutantSessionLink(id) == Link("runtime", [session |-> id])
SessionLink(id) == Link("runtime", [tab |-> "sessions", session |-> id])
DelegationLink(id) == Link("runtime", [tab |-> "delegations", delegation |-> id])
ProfileLink(id) == Link("agent-config", [profile |-> id, tab |-> "skills"])

(* The shell.                                                                   *)
NAVIGATION_SECTIONS ==
    {"command", "tasks", "schedule", "approvals", "agents", "agent-config", "office",
     "activity", "skills", "runtime", "settings"}
AppSidebar == {Page(p) : p \in NAVIGATION_SECTIONS}
Pending == {a \in Rows["approvals"] : a.state = "PENDING"}
GlobalHeader == Naming("approvals", "approval", {a.id : a \in Pending}) \cup {Page("approvals")}

(* The Command Center.                                                          *)
SystemPulse ==
    {Link("runtime", [tab |-> "gateway"]), Page("agent-config"),
     Link("agents", [state |-> "Active"]), Link("runtime", [tab |-> "sessions"]), Page("skills")}
WorkQueue ==
    {Page("tasks"), Page("approvals")}
      \cup {Link("tasks", [state |-> s]) : s \in {"READY", "RUNNING", "FAILED"}}
AgentFleetOverview == {Page("agents")}
RecentActivity == {Link("activity", [tab |-> "events"])}
UpcomingScheduleCard == Naming("schedule", "schedule", Ids("schedule")) \cup {Page("schedule")}

(* The office.                                                                  *)
OfficeActivityStrip ==
    Naming("activity", "correlation", {e.corr : e \in {x \in Rows["events"] : x.corr # None}})
      \cup {Page("activity")}
OfficeListView ==
    Naming("tasks", "task", Ids("tasks"))
      \cup {Page("approvals"), Page("runtime"), Link("tasks", [state |-> "COMPLETED"])}
OfficeAttentionBanner ==
    Naming("approvals", "approval", {a.id : a \in Pending})
      \cup Naming("tasks", "task", Ids("tasks")) \cup {Page("approvals"), Page("tasks")}
ApprovalPod ==
    IF Pending = {} THEN {Page("approvals")}
    ELSE Naming("approvals", "approval", {a.id : a \in Pending})
ArtifactVault ==
    Naming("tasks", "task", {t.id : t \in {u \in Rows["tasks"] : u.state = "COMPLETED"}})
      \cup {Link("tasks", [state |-> "COMPLETED"])}
CollaborationZone == Naming("tasks", "task", Ids("tasks")) \cup {Page("tasks")}
RuntimeRoom == {Page("runtime")}
AgentDesk == Naming("tasks", "task", Ids("tasks"))
TemporaryWorker == {DelegationLink(i) : i \in Ids("delegations")}

(* What is open on an agent, a skill, an event or an audit record.              *)
AgentSessionsTab(a) == {SessionLink(i) : i \in a.sessions}
AgentDelegationsTab(a) == {DelegationLink(i) : i \in a.delegations}
AgentSkillsTab(a) == Naming("skills", "skill", a.skills)
AgentDetailModal(a) ==
    {ProfileLink(a.id)} \cup AgentSessionsTab(a) \cup AgentDelegationsTab(a) \cup AgentSkillsTab(a)
SkillProfilesTab(s) == {ProfileLink(i) : i \in s.profileIds}
SkillEvidenceTab(s) ==
    {SessionLink(i) : i \in s.sessions} \cup {ProfileLink(i) : i \in s.profileIds}
SkillDetailModal(s) == SkillProfilesTab(s) \cup SkillEvidenceTab(s)

(* What a record is related to is a function from kinds to ids.                 *)
RelatedLinks(related, kinds) ==
    {CASE k = "session" -> SessionLink(related[k])
       [] k = "delegation" -> DelegationLink(related[k])
       [] k = "task" -> Link("tasks", [task |-> related[k]])
       [] k = "agent" -> Link("agents", [agent |-> related[k]])
       [] k = "approval" -> Link("approvals", [approval |-> related[k]])
       [] k = "skill" -> Link("skills", [skill |-> related[k]]) : k \in kinds \cap DOMAIN related}
CorrelationSummary(related) ==
    RelatedLinks(related, {"task", "agent", "session", "delegation", "approval"})
ActivityDetailDrawer(e) ==
    RelatedLinks(e.related, {"task", "agent", "session", "delegation", "approval", "skill"})
      \cup CorrelationSummary(e.related)
AuditDetailDrawer(r) ==
    RelatedLinks(r.related, {"task", "approval", "agent", "session", "delegation"})
      \cup CorrelationSummary(r.related)
TaskCostAttribution == Naming("tasks", "task", Ids("tasks"))
ApprovalLinks(a) == {Link("tasks", [task |-> a.task]), Link("agents", [agent |-> a.agent])}
TaskLinks(t) ==
    {Link("agents", [agent |-> t.agent])} \cup Naming("approvals", "approval", t.gates)
=============================================================================
