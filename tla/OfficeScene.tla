----------------------------- MODULE OfficeScene -----------------------------
(* What the virtual office shows, computed from the operational data: rooms    *)
(* and desks, the docks of delegated workers, current tasks, meetings, and the *)
(* counts that the strip, the banner, the phone summary and the list give.     *)
(* w is the data as the page's queries hold it:                                *)
(*   fleet  the agents listed          state  the runtime state of each        *)
(*   deleg  the state of each delegation, Gone when it is not listed           *)
(*   task   the state of each task     asks   agents with a pending approval   *)
EXTENDS Integers, FiniteSets, SequencesExt

CONSTANTS
    Roster,       \* agents in the order of their ids
    Leads,        \* those whose role or name makes them the command agent
    RoomOf,       \* the room of an agent that is not
    Delegations, ParentOf,           \* in the order they are listed
    TaskList, TaskOwner, TaskHelpers,
    Gone, NoTask

Agents == ToSet(Roster)
Workers == ToSet(Delegations)
DelegationStates ==
    {"QUEUED", "CLAIMED", "RUNNING", "COMPLETED", "FAILED", "CANCELLED", "UNKNOWN"}

(* The characters of agents and of workers have different names (agent:,       *)
(* worker:), ids are unique, and a task names delegations that are listed.     *)
ASSUME SceneAssumption ==
    /\ Roster \in Seq(Agents) /\ Delegations \in Seq(Workers) /\ TaskList \in Seq(ToSet(TaskList))
    /\ \A i, j \in DOMAIN Delegations : Delegations[i] = Delegations[j] => i = j
    /\ Agents \cap Workers = {} /\ \A d \in Workers : ParentOf[d] \notin Workers
    /\ \A t \in ToSet(TaskList) : TaskOwner[t] \notin Workers /\ TaskHelpers[t] \subseteq Workers
    /\ Gone \notin DelegationStates /\ NoTask \notin {"FAILED", "BLOCKED"}

(* The first lead in the fleet takes the command room, the others their own.   *)
Command(w) ==
    LET leads == SelectSeq(Roster, LAMBDA a : a \in w.fleet \cap Leads)
    IN  IF leads = <<>> THEN {} ELSE {Head(leads)}
Zone(w, a) == IF a \in Command(w) THEN "COMMAND" ELSE RoomOf[a]
Rank(s, x) == CHOOSE i \in DOMAIN s : s[i] = x
Desk(w, a) ==
    <<Zone(w, a), Cardinality({b \in w.fleet : /\ Zone(w, b) = Zone(w, a)
                                               /\ Rank(Roster, b) < Rank(Roster, a)})>>

ActiveDelegation == {"RUNNING", "QUEUED", "CLAIMED"}
ActiveDelegations(w, a) ==
    SelectSeq(Delegations, LAMBDA d : ParentOf[d] = a /\ w.deleg[d] \in ActiveDelegation)
(* Workers stand in line beside the desk of the agent they work for.           *)
Dock(w, d) == <<Desk(w, ParentOf[d]), Rank(ActiveDelegations(w, ParentOf[d]), d)>>
WorkersAt(w, shown) ==
    {d \in Workers : ParentOf[d] \in shown /\ w.deleg[d] \in ActiveDelegation}

(* The task an agent is on: the last one running, else the last one awaiting   *)
(* approval, else the first one on its way.                                    *)
TasksIn(w, a, S) ==
    {i \in DOMAIN TaskList : TaskOwner[TaskList[i]] = a /\ w.task[TaskList[i]] \in S}
CurrentTask(w, a) ==
    LET running == TasksIn(w, a, {"RUNNING"})
        awaiting == TasksIn(w, a, {"AWAITING_APPROVAL"})
        coming == TasksIn(w, a, {"DISPATCHING", "QUEUED"})
    IN  IF running # {} THEN TaskList[Max(running)]
        ELSE IF awaiting # {} THEN TaskList[Max(awaiting)]
        ELSE IF coming # {} THEN TaskList[Min(coming)] ELSE NoTask
CurrentState(w, a) ==
    IF CurrentTask(w, a) = NoTask THEN NoTask ELSE w.task[CurrentTask(w, a)]

(* Who works together on a running task: its agent, the running delegations it *)
(* names and the agents these come from.  Only the first group meets.          *)
Helpers(w, t) == {d \in TaskHelpers[t] : w.deleg[d] = "RUNNING"}
Group(w, t) == {TaskOwner[t]} \cup {ParentOf[d] : d \in Helpers(w, t)} \cup Helpers(w, t)
Meeting(w) ==
    LET together == {i \in DOMAIN TaskList : /\ w.task[TaskList[i]] = "RUNNING"
                                             /\ Cardinality(Group(w, TaskList[i])) > 1}
    IN  IF together = {} THEN {} ELSE Group(w, TaskList[Min(together)])

(* The filters of the controls: an agent state, a room, a text and the agents  *)
(* it is found with.                                                           *)
Shown(w, f) ==
    {a \in w.fleet \cap f.found : /\ f.state \in {"ALL", w.state[a]}
                                  /\ f.zone \in {"ALL", Zone(w, a)}}

-----------------------------------------------------------------------------
(* The counts of the fleet strip, of the attention banner, of the phone        *)
(* summary, and of a row of the list.  An approval stands for its agent.       *)
InState(w, S) == {a \in w.fleet : w.state[a] \in S}
SummaryAttention(w) ==
    Cardinality(InState(w, {"AWAITING_APPROVAL", "DEGRADED", "ERROR"})) + Cardinality(w.asks)
SummaryWorkers(w) == Cardinality(WorkersAt(w, w.fleet))
BannerItems(w) ==
    Cardinality(w.asks) + Cardinality(InState(w, {"DEGRADED", "ERROR"}))
      + Cardinality({a \in w.fleet : CurrentState(w, a) \in {"FAILED", "BLOCKED"}})
MobileWaiting(w) ==
    Cardinality({a \in w.fleet : \/ w.state[a] = "AWAITING_APPROVAL"
                                 \/ CurrentState(w, a) = "AWAITING_APPROVAL"})
RowWorkers(w, a) ==
    Cardinality({i \in DOMAIN Delegations : /\ ParentOf[Delegations[i]] = a
                                            /\ w.deleg[Delegations[i]] \in ActiveDelegation})
=============================================================================
