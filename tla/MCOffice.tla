------------------------------- MODULE MCOffice -------------------------------
(* A small instance of the office for TLC: two agents in one room, who may     *)
(* come and go, one of them with two delegated workers on a task of its own.   *)
EXTENDS Office, TLC
CONSTANTS a1, a2, d1, d2, t1
MCRoster == <<a1, a2>>
MCRooms == [a \in {a1, a2} |-> "DEV_ZONE"]
MCDelegations == <<d1, d2>>
MCParents == [d \in {d1, d2} |-> a2]
MCTasks == <<t1>>
MCOwners == [t \in {t1} |-> a2]
MCHelpers == [t \in {t1} |-> {d1}]
AllShown == [state |-> "ALL", zone |-> "ALL", found |-> {a1, a2}]
MCFilters == {AllShown, [AllShown EXCEPT !.state = "ACTIVE"]}
Quiet == [mood |-> [a \in {a1, a2} |-> "idle"], meeting |-> FALSE]
MCWindows == {Quiet, [mood |-> (a1 :> "stand" @@ a2 :> "coffee"), meeting |-> TRUE]}
MCSettings == {[travel |-> TRUE, reduced |-> FALSE], [travel |-> FALSE, reduced |-> TRUE]}
MCStart ==
    [fleet |-> {a1, a2}, state |-> [a \in {a1, a2} |-> "ACTIVE"],
     deleg |-> (d1 :> "RUNNING") @@ (d2 :> "QUEUED"),
     task |-> [t \in {t1} |-> "RUNNING"], asks |-> {}]
MCData ==
    {[fleet |-> f, state |-> (a1 :> "ACTIVE" @@ a2 :> s), deleg |-> (d1 :> x @@ d2 :> y),
      task |-> [t \in {t1} |-> z], asks |-> p] :
        f \in {{a2}, {a1, a2}}, s \in {"ACTIVE", "IDLE", "OFFLINE"},
        x \in {"RUNNING", "COMPLETED", "UNKNOWN", Gone}, y \in {"QUEUED", "FAILED"},
        z \in {"RUNNING", "AWAITING_APPROVAL", "FAILED"}, p \in {{}, {a2}}}
(* One thing changes at a time.                                                *)
MCWorlds(w) ==
    {[w EXCEPT !.fleet = f] : f \in {{a2}, {a1, a2}}}
      \cup {[w EXCEPT !.state[a2] = s] : s \in {"ACTIVE", "IDLE", "OFFLINE"}}
      \cup {[w EXCEPT !.deleg[d1] = s] : s \in {"RUNNING", "COMPLETED", "UNKNOWN", Gone}}
      \cup {[w EXCEPT !.deleg[d2] = "FAILED"]}
      \cup {[w EXCEPT !.task[t1] = s] : s \in {"AWAITING_APPROVAL", "FAILED"}}
      \cup {[w EXCEPT !.asks = {a2}]}
===============================================================================
