---------------------------- MODULE ApprovalViews ----------------------------
(* What the approval center makes of a list of approvals: the queue and its    *)
(* order, the history, the summary strip and the filters.                      *)
EXTENDS Integers, FiniteSets

CONSTANTS
    Gates,        \* approvals
    NoExpiry,
    GateFacts     \* [Gates -> [risk, actionType, expires, requested, task]]

ASSUME GateFactsAssumption ==
    \A g \in Gates :
        /\ GateFacts[g].risk \in {"LOW", "MEDIUM", "HIGH", "CRITICAL"}
        /\ GateFacts[g].expires \in Nat \cup {NoExpiry} /\ GateFacts[g].requested \in Nat

ApprovalStates ==
    {"PENDING", "APPROVED", "REJECTED", "EXPIRED", "CANCELLED", "FAILED"}
Risky(g) == GateFacts[g].risk \in {"HIGH", "CRITICAL"}

(* A state the page does not know is shown as pending.                         *)
ShownApproval(s) == IF s \in ApprovalStates THEN s ELSE "PENDING"

RISK_WEIGHT == [LOW |-> 1, MEDIUM |-> 2, HIGH |-> 3, CRITICAL |-> 4]

(* The order of the queue: risk, then the earliest expiry (none comes last),   *)
(* then the oldest request.                                                    *)
Before(a, b) ==
    LET w(g) == RISK_WEIGHT[GateFacts[g].risk]
        x(g) == GateFacts[g].expires
        r(g) == GateFacts[g].requested
    IN  \/ w(a) > w(b)
        \/ w(a) = w(b) /\ x(a) # NoExpiry /\ (x(b) = NoExpiry \/ x(a) < x(b))
        \/ w(a) = w(b) /\ x(a) = x(b) /\ r(a) < r(b)

Queue(list) == {g \in DOMAIN list : list[g] = "PENDING"}
History(list) == {g \in DOMAIN list : list[g] # "PENDING"}
QueuePosition(list, g) == Cardinality({h \in Queue(list) : Before(h, g)}) + 1

ApprovalCount(list, card) ==
    Cardinality({g \in DOMAIN list :
        CASE card = "Pending Reviews" -> list[g] = "PENDING"
          [] card = "High / Critical Risk" -> list[g] = "PENDING" /\ Risky(g)
          [] card = "Approved Today" -> list[g] = "APPROVED"
          [] card = "Rejected Today" -> list[g] = "REJECTED"})

(* A filter set is [risk, actionType, state]; the server knows risk and state  *)
(* under the names the page sends, and not actionType or search.               *)
NoGateFilter == [risk |-> "ALL", actionType |-> "ALL", state |-> "ALL"]
GateKept(f, g, s, mock) ==
    /\ f.risk \in {"ALL", GateFacts[g].risk}
    /\ f.state \in {"ALL", s}
    /\ mock => f.actionType \in {"ALL", GateFacts[g].actionType}
GateList(store, f, mock) ==
    [g \in {h \in Gates : GateKept(f, h, store[h], mock)} |-> ShownApproval(store[g])]
=============================================================================
