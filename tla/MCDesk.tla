------------------------------- MODULE MCDesk -------------------------------
(* A small instance of the Tasks and Approvals pages for TLC.  *)
EXTENDS Desk, TLC

CONSTANTS t1, t2, t3, g1, g2, agent

MCTaskFacts ==
    (t1 :> [agent |-> agent, priority |-> "HIGH", needs |-> {}, gates |-> {}])
 @@ (t2 :> [agent |-> agent, priority |-> "LOW", needs |-> {}, gates |-> {g1}])
 @@ (t3 :> [agent |-> None, priority |-> "LOW", needs |-> {}, gates |-> {}])
MCGateFacts ==
    (g1 :> [risk |-> "HIGH", actionType |-> "SEND_EMAIL", expires |-> 30,
            requested |-> 1, task |-> t2])
 @@ (g2 :> [risk |-> "LOW", actionType |-> "SEND_EMAIL", expires |-> NoExpiry,
            requested |-> 0, task |-> t1])

MCStartTasks == t1 :> "READY" @@ t2 :> "AWAITING_APPROVAL" @@ t3 :> Missing
MCStartGates == g1 :> "PENDING" @@ g2 :> "PENDING"
MCTaskFilters == {NoFilter, [NoFilter EXCEPT !.attention = "APPROVAL"]}
MCGateFilters == {NoGateFilter}
MCFailing == {g2}
MCNews == {"DISPATCHING", "CANCELLED", "APPROVED"}
MCUrls == {TasksUrl(None), ApprovalsUrl(None), ApprovalsUrl(g1)}
MCBounds == [moves |-> 2, calls |-> 2, mishaps |-> 2, all |-> 3]
=============================================================================
