------------------------------ MODULE TaskViews ------------------------------
(* What the task pages make of a list of tasks: the states they know, the      *)
(* columns of the board, the figures of the summary strip, the filters, and    *)
(* which buttons a row, a card or the detail dialog carries.                   *)
EXTENDS Naturals, FiniteSets

CONSTANTS
    Tasks,
    Missing,      \* the state of an id no task has yet
    TaskFacts     \* [Tasks -> [agent, priority, needs, gates]]: what never changes here

TaskStates ==
    {"DRAFT", "READY", "QUEUED", "DISPATCHING", "RUNNING", "AWAITING_APPROVAL",
     "BLOCKED", "COMPLETED", "FAILED", "CANCELLED"}

(* A state the page does not know is shown as queued.                          *)
ShownState(s) == IF s \in TaskStates THEN s ELSE "QUEUED"

mapStateToKanbanColumn(s) ==
    CASE s \in {"DRAFT", "READY"} -> "TODO"
      [] s \in {"QUEUED", "DISPATCHING", "RUNNING"} -> "IN_PROGRESS"
      [] s \in {"AWAITING_APPROVAL", "BLOCKED", "FAILED"} -> "NEEDS_ATTENTION"
      [] s \in {"COMPLETED", "CANCELLED"} -> "DONE"
      [] OTHER -> "TODO"

(* A list is a function from the ids it holds to the states it shows.          *)
BoardColumn(list, c) == {t \in DOMAIN list : mapStateToKanbanColumn(list[t]) = c}

(* The buttons of one task: the row of the list, the card of the board, the    *)
(* header of the detail dialog.  gates are the approvals the page has loaded.  *)
RowOffers(list, t) ==
    (IF list[t] \in {"READY", "DRAFT"} THEN {"dispatch"} ELSE {})
      \cup (IF list[t] = "AWAITING_APPROVAL" /\ TaskFacts[t].gates # {}
            THEN {"review"} ELSE {}) \cup {"open"}
CardOffers(list, t) ==
    (IF list[t] = "READY" \/ list[t] = "DRAFT" THEN {"dispatch"} ELSE {})
      \cup (IF list[t] = "AWAITING_APPROVAL" /\ TaskFacts[t].gates # {}
            THEN {"review"} ELSE {}) \cup {"open"}
ModalOffers(list, t, gates) ==
    (IF list[t] \in {"DRAFT", "READY"} THEN {"dispatch"} ELSE {})
      \cup (IF TaskFacts[t].gates \cap gates # {} THEN {"review"} ELSE {})

(* The summary strip counts the list that is already filtered.  A click on a   *)
(* card filters by its key, which is not what it counts for two of them: the   *)
(* card of "RUNNING" counts three states, and no task is in "ATTENTION".       *)
SummaryCount(list, card) ==
    Cardinality({t \in DOMAIN list :
        CASE card = "ALL" -> TRUE
          [] card = "RUNNING" -> list[t] \in {"RUNNING", "DISPATCHING", "QUEUED"}
          [] card = "ATTENTION" -> list[t] \in {"AWAITING_APPROVAL", "BLOCKED", "FAILED"}
          [] OTHER -> list[t] = card})

(* A filter set is a record [state, priority, agent, attention, need], "ALL"   *)
(* where nothing is chosen.  The mock provider applies every part of it; the   *)
(* server knows state and priority under the names the page sends, and not     *)
(* agentId, attention, skill or search.                                        *)
NoFilter ==
    [state |-> "ALL", priority |-> "ALL", agent |-> "ALL", attention |-> "ALL",
     need |-> "ALL"]
AttentionState(a) == IF a = "APPROVAL" THEN "AWAITING_APPROVAL" ELSE a

ServerKeeps(f, t, s) ==
    /\ f.state \in {"ALL", s}
    /\ f.priority \in {"ALL", TaskFacts[t].priority}
MockKeeps(f, t, s) ==
    /\ ServerKeeps(f, t, s)
    /\ f.agent \in {"ALL", TaskFacts[t].agent}
    /\ f.attention = "ALL" \/ s = AttentionState(f.attention)
    /\ f.need = "ALL" \/ f.need \in TaskFacts[t].needs

(* The list an answer carries: the tasks that exist and pass the filter.       *)
TaskList(store, f, mock) ==
    [t \in {u \in Tasks : /\ store[u] # Missing
                          /\ IF mock THEN MockKeeps(f, u, store[u])
                                     ELSE ServerKeeps(f, u, store[u])}
        |-> ShownState(store[t])]
=============================================================================
