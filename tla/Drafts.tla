------------------------------- MODULE Drafts -------------------------------
(* The agent configuration page: skill changes staged in a store that one tab  *)
(* holds in memory and copies to localStorage, the recommended blueprint, the  *)
(* skill matrix, and Apply, which writes one profile after the other.          *)
EXTENDS Naturals, FiniteSets

CONSTANTS
    Profiles, Skills, Tabs,
    NotLoaded,       \* the agent list has not arrived
    Blueprint,       \* [a subset of Profiles -> SUBSET Skills]
    StartSkills,     \* [Profiles -> SUBSET Skills]: allowed_skills when the page loads
    Views,           \* views an instance shows: "profile", "matrix", "away"
    Answers,         \* what a write may be answered: "ok", "refused"
    Bound            \* of an instance: open tabs, loops of Apply, refused writes

ASSUME BlueprintAssumption ==
    /\ DOMAIN Blueprint \subseteq Profiles
    /\ \A p \in DOMAIN Blueprint : Blueprint[p] \subseteq Skills
ASSUME SkillsAssumption ==
    /\ StartSkills \in [Profiles -> SUBSET Skills]
    /\ NotLoaded \notin [Profiles -> SUBSET Skills]
    /\ Bound \in Nat
ASSUME InstanceAssumption ==
    /\ Views \subseteq {"profile", "matrix", "away"}
    /\ Answers \subseteq {"ok", "refused"}

VARIABLES
    server,     \* allowed_skills of profile.yaml
    stored,     \* localStorage
    drafts,     \* draftChanges of each tab
    agents,     \* the agent list of each tab, or NotLoaded
    view,       \* "profile", "matrix", "away" from the page, "closed"
    matrix,     \* profileSkillsMap of the mounted matrix
    applying,   \* isApplying of the mounted page
    applies,    \* the loops of handleApplyToProduction under way
    begun,      \* how many have begun
    refused     \* writes that localStorage did not take

vars == <<server, stored, drafts, agents, view, matrix, applying, applies, begun, refused>>
page == <<view, matrix, applying>>

(* A staged change; n orders the changes of one skill of one profile.          *)
Changes(ds, p, s) == {c \in ds : c.profile = p /\ c.skill = s}
Change(p, s, a, n) == [profile |-> p, skill |-> s, action |-> a, n |-> n]
OfProfile(ds, p) == {c \in ds : c.profile = p}

(* The page knows the skills of an agent once the list is there.               *)
Known(as, p) == IF as = NotLoaded THEN {} ELSE as[p]

(* getEffectiveSkills, the list of the skills tab and the loop of Apply: the   *)
(* changes are replayed in order over the skills the agent has.                *)
Effective(ds, p, own) ==
    {s \in Skills :
        LET cs == Changes(ds, p, s)
        IN  IF cs = {} THEN s \in own
            ELSE \E c \in cs : /\ c.action = "ADD_SKILL"
                               /\ \A d \in cs : d.n <= c.n}

(* addSkillDraft and removeSkillDraft: the first opposite change is cancelled, *)
(* without one a change is appended.                                           *)
Opposite(a) == IF a = "ADD_SKILL" THEN "REMOVE_SKILL" ELSE "ADD_SKILL"
(* Mutant: the opposite change is not looked for.                              *)
MutantStaged(ds, p, s, a) ==
    ds \cup {Change(p, s, a, 1 + Cardinality(Changes(ds, p, s)))}
Staged(ds, p, s, a) ==
    LET against == {c \in Changes(ds, p, s) : c.action = Opposite(a)}
    IN  IF against # {}
        THEN ds \ {CHOOSE c \in against : \A d \in against : c.n <= d.n}
        ELSE ds \cup {Change(p, s, a, 1 + Cardinality(Changes(ds, p, s)))}

(* stageRecommendedBlueprint: the difference to the skills the agents have.    *)
FromBlueprint(as) ==
    UNION {{Change(p, s, "ADD_SKILL", 1) : s \in Blueprint[p] \ as[p]}
             \cup {Change(p, s, "REMOVE_SKILL", 1) : s \in as[p] \ Blueprint[p]}
           : p \in IF as = NotLoaded THEN {} ELSE DOMAIN Blueprint}

(* computeProfileDiff: what the preview says a profile will have.  A profile   *)
(* without a recommendation is shown as losing everything.                     *)
Recommended(p) == IF p \in DOMAIN Blueprint THEN Blueprint[p] ELSE {}
Preview(p, own) ==
    LET gone == own \ Recommended(p)
    IN  (own \ gone) \cup (Recommended(p) \ own)

-----------------------------------------------------------------------------
OnPage(t) == view[t] \in {"profile", "matrix"}
Room == begun + refused + Cardinality({t \in Tabs : view[t] # "closed"}) < Bound

(* persistDrafts and set, in one step of the tab; localStorage may refuse the  *)
(* write, which is ignored.                                                    *)
Save(t, ds) ==
    /\ drafts' = [drafts EXCEPT ![t] = ds]
    /\ \/ stored' = ds /\ UNCHANGED refused
       \/ Room /\ refused' = refused + 1 /\ UNCHANGED stored
Quiet == UNCHANGED <<server, agents, applies, begun>>

(* The two columns of the skills tab offer what is assigned and what is not.   *)
AddSkill(t, p, s) ==
    /\ view[t] = "profile" /\ agents[t] # NotLoaded
    /\ s \notin Effective(drafts[t], p, Known(agents[t], p))
    /\ Save(t, Staged(drafts[t], p, s, "ADD_SKILL"))
    /\ Quiet /\ UNCHANGED page
RemoveSkill(t, p, s) ==
    /\ view[t] = "profile" /\ agents[t] # NotLoaded
    /\ s \in Effective(drafts[t], p, Known(agents[t], p))
    /\ Save(t, Staged(drafts[t], p, s, "REMOVE_SKILL"))
    /\ Quiet /\ UNCHANGED page

(* The review dialog and the header of the page.                               *)
DiscardProfile(t, p) ==
    /\ OnPage(t) /\ OfProfile(drafts[t], p) # {}
    /\ Save(t, drafts[t] \ OfProfile(drafts[t], p))
    /\ Quiet /\ UNCHANGED page
DiscardAll(t) ==
    /\ OnPage(t) /\ drafts[t] # {}
    /\ Save(t, {})
    /\ Quiet /\ UNCHANGED page
StageBlueprint(t) ==
    /\ OnPage(t)
    /\ Save(t, FromBlueprint(agents[t]))
    /\ Quiet /\ UNCHANGED page

(* The matrix computes its map when it mounts and when the agent list changes, *)
(* and not when the drafts do.                                                 *)
MatrixOf(t, as) == [p \in Profiles |-> Effective(drafts[t], p, Known(as, p))]
Show(t, v) ==
    /\ view[t] \notin {v, "closed"}
    /\ view' = [view EXCEPT ![t] = v]
    /\ matrix' = [matrix EXCEPT ![t] = IF v = "matrix" THEN MatrixOf(t, agents[t])
                                       ELSE NotLoaded]
    /\ applying' = [applying EXCEPT ![t] = @ /\ v # "away"]
    /\ Quiet /\ UNCHANGED <<stored, drafts, refused>>

(* An answer of the agent query, or a realtime delta.                          *)
LoadAgents(t) ==
    /\ view[t] # "closed" /\ agents[t] # server
    /\ agents' = [agents EXCEPT ![t] = server]
    /\ matrix' = [matrix EXCEPT ![t] = IF view[t] = "matrix" THEN MatrixOf(t, server)
                                       ELSE NotLoaded]
    /\ UNCHANGED <<server, stored, drafts, view, applying, applies, begun, refused>>

-----------------------------------------------------------------------------
(* Apply.  A loop keeps the changeset and the agents of the render it was      *)
(* clicked in, and writes the profiles one by one; at is the profile whose     *)
(* request is out, sent until the server has answered it; alone says that no   *)
(* other loop has run beside it.                                               *)
(* Mutant: the loop reads the drafts as they are by now.                        *)
MutantBody(a) == Effective(drafts[a.tab], a.at, Known(a.base, a.at))
Body(a) == Effective(a.batch, a.at, Known(a.base, a.at))
Others(a) == applies \ {a}

Apply(t) ==
    /\ OnPage(t) /\ drafts[t] # {} /\ ~applying[t] /\ Room
    /\ applying' = [applying EXCEPT ![t] = TRUE]
    /\ \E p \in {c.profile : c \in drafts[t]} :
          applies' = {[a EXCEPT !.alone = FALSE] : a \in applies} \cup
             {[n |-> begun + 1, tab |-> t, batch |-> drafts[t], base |-> agents[t],
               at |-> p, left |-> {c.profile : c \in drafts[t]} \ {p}, st |-> "sent",
               alone |-> applies = {}]}
    /\ begun' = begun + 1
    /\ UNCHANGED <<server, stored, drafts, agents, view, matrix, refused>>

(* The server replaces allowed_skills by the list in the request, or answers   *)
(* with an error that fetch does not throw.                                    *)
Serve(a, answer) ==
    /\ a.st = "sent" /\ answer \in Answers
    /\ applies' = Others(a) \cup {[a EXCEPT !.st = "answered"]}
    /\ IF answer = "ok"
       THEN server' = [server EXCEPT ![a.at] = Body(a)]
       ELSE UNCHANGED server
    /\ UNCHANGED <<stored, drafts, agents, page, begun, refused>>

(* The next profile, or the end: the drafts are cleared, whichever they are by *)
(* now, and the success notice stands for a second.                            *)
Proceed(a) ==
    /\ a.st = "answered"
    /\ IF a.left # {}
       THEN /\ \E p \in a.left : applies' = Others(a) \cup
                  {[a EXCEPT !.at = p, !.left = @ \ {p}, !.st = "sent"]}
            /\ UNCHANGED <<stored, drafts, applying, refused>>
       ELSE /\ applies' = Others(a)
            /\ Save(a.tab, {})
            /\ applying' = [applying EXCEPT ![a.tab] = FALSE]
    /\ UNCHANGED <<server, agents, view, matrix, begun>>

(* The request or its answer is lost: fetch throws, the loop stops, the drafts *)
(* stay.                                                                       *)
(* Mutant: the flag is only cleared after a success.                           *)
MutantLose(a) ==
    /\ applies' = Others(a)
    /\ UNCHANGED <<server, stored, drafts, agents, page, begun, refused>>
Lose(a) ==
    /\ applies' = Others(a)
    /\ applying' = [applying EXCEPT ![a.tab] = FALSE]
    /\ UNCHANGED <<server, stored, drafts, agents, view, matrix, begun, refused>>

(* A tab opens, or reloads, by the operator or by the timer of a finished      *)
(* Apply: it starts from localStorage, its loops end.                          *)
Reload(t) ==
    /\ view[t] = "closed" => Room
    /\ drafts' = [drafts EXCEPT ![t] = stored]
    /\ agents' = [agents EXCEPT ![t] = NotLoaded]
    /\ view' = [view EXCEPT ![t] = "profile"]
    /\ matrix' = [matrix EXCEPT ![t] = NotLoaded]
    /\ applying' = [applying EXCEPT ![t] = FALSE]
    /\ applies' = {a \in applies : a.tab # t}
    /\ UNCHANGED <<server, stored, begun, refused>>

-----------------------------------------------------------------------------
Init ==
    /\ server = StartSkills
    /\ stored = {} /\ drafts = [t \in Tabs |-> {}]
    /\ agents = [t \in Tabs |-> NotLoaded]
    /\ view = [t \in Tabs |-> "closed"] /\ matrix = [t \in Tabs |-> NotLoaded]
    /\ applying = [t \in Tabs |-> FALSE] /\ applies = {} /\ begun = 0
    /\ refused = 0

Operator(t) ==
    \/ \E p \in Profiles, s \in Skills : AddSkill(t, p, s) \/ RemoveSkill(t, p, s)
    \/ \E p \in Profiles : DiscardProfile(t, p)
    \/ DiscardAll(t) \/ StageBlueprint(t) \/ Apply(t) \/ Reload(t)
    \/ \E v \in Views : Show(t, v)
Loop == \E a \in applies : (\E x \in Answers : Serve(a, x)) \/ Proceed(a)
Next ==
    \/ \E t \in Tabs : Operator(t) \/ LoadAgents(t)
    \/ Loop \/ \E a \in applies : Lose(a)

(* A write that is not lost is answered, and the loop goes on.                 *)
Spec == Init /\ [][Next]_vars /\ WF_vars(Loop)
-----------------------------------------------------------------------------
AllChanges ==
    [profile : Profiles, skill : Skills, action : {"ADD_SKILL", "REMOVE_SKILL"}, n : Nat]
AgentLists == [Profiles -> SUBSET Skills] \cup {NotLoaded}

(* Every variable holds what the page, its store and the server put there.     *)
DraftsTypeOK ==
    /\ server \in [Profiles -> SUBSET Skills]
    /\ stored \subseteq AllChanges /\ drafts \in [Tabs -> SUBSET AllChanges]
    /\ agents \in [Tabs -> AgentLists]
    /\ view \in [Tabs -> {"profile", "matrix", "away", "closed"}]
    /\ matrix \in [Tabs -> AgentLists] /\ applying \in [Tabs -> BOOLEAN]
    /\ \A a \in applies : a.tab \in Tabs /\ a.batch \subseteq AllChanges
    /\ begun \in Nat /\ refused \in Nat

(* A skill of a profile is staged at most once, whatever the agent list does   *)
(* meanwhile and whichever tab the changes were loaded from: addSkillDraft and *)
(* removeSkillDraft rely on it, because they cancel only one change.           *)
OneChangePerSkill ==
    \A t \in Tabs : \A c, d \in drafts[t] :
        (c.profile = d.profile /\ c.skill = d.skill) => c = d

(* Staging the blueprint leaves every profile it covers with the skills the    *)
(* preview announces, whatever was staged before.                              *)
PreviewIsStaged ==
    [][\A t \in Tabs : (StageBlueprint(t) /\ agents[t] # NotLoaded) =>
          \A p \in DOMAIN Blueprint :
             Effective(drafts'[t], p, agents[t][p]) = Preview(p, agents[t][p])]_vars

(* When a changeset is announced as applied, each of its changes holds on the  *)
(* server, also after earlier attempts that stopped half way, unless another   *)
(* Apply ran at the same time.                                                 *)
AppliedMeansWritten ==
    [][\A a \in applies : (Proceed(a) /\ a.left = {} /\ a.alone) =>
          \A c \in a.batch :
             (c.skill \in server[c.profile]) = (c.action = "ADD_SKILL")]_vars

(* Staging does what the preview announced, Apply what was staged.             *)
ChangesAreKept == PreviewIsStaged /\ AppliedMeansWritten

(* The matrix shows each profile with its effective skill set, staged changes  *)
(* included, as the comment above its map says.  It does not always: the map   *)
(* is kept when the drafts change under it.                                    *)
MatrixShowsDrafts ==
    \A t \in Tabs : view[t] = "matrix" => matrix[t] = MatrixOf(t, agents[t])

(* The Apply button comes back: the loop ends in a success or in an error.     *)
ApplyEnds == \A t \in Tabs : applying[t] ~> ~applying[t]
=============================================================================
