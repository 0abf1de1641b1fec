-------------------------------- MODULE Desk --------------------------------
(* One operator at the Tasks and Approvals pages: the address bar, the dialogs *)
(* of the two pages, their cached lists, the mutations under way and the store *)
(* that answers them, which is the server's, or the page's own in mock mode.   *)
EXTENDS QueryCache, TaskViews, ApprovalViews

CONSTANTS
    None,
    TaskFilters, GateFilters,     \* what the filter bars are set to in an instance
    StartTasks, StartGates,       \* the stores when the page loads
    StartUrls,                    \* the addresses a page is opened at
    FailingGates,                 \* approvals the mock provider refuses to decide
    News,                         \* states that others move tasks and approvals to
    Bounds        \* of an instance: moves, calls, mishaps, and all together

ASSUME DeskAssumption ==
    /\ StartTasks \in [Tasks -> TaskStates \cup {Missing}]
    /\ StartGates \in [Gates -> ApprovalStates] /\ IsFiniteSet(Gates)
    /\ NoFilter \in TaskFilters /\ NoGateFilter \in GateFilters
    /\ Bounds \in [{"moves", "calls", "mishaps", "all"} -> Nat]

VARIABLES
    mock,     \* isMockMode(), fixed for the life of the page
    tasks,    \* the store: the state of each task
    gates,    \* the store: the state of each approval
    cache,    \* one entry per query key
    url,      \* [page, by, at]: the page, its filters, the selected id
    behind,   \* where Back or Forward leads
    desk,     \* Tasks page: the dispatch dialog and the create drawer
    bench,    \* approval dialog: decision and the dialogs on top of it
    calls,    \* mutations under way
    unseen,   \* per list, changes of the store its reader has not been told of
    spent     \* what the bounds count

vars == <<mock, tasks, gates, cache, url, behind, desk, bench, calls, unseen, spent>>

(* Query keys: a list under its filter set; None is the key without filters,   *)
(* the one each page uses for the other page's list.                           *)
Key(list, f) == [of |-> list, by |-> f]
Keys == {Key("tasks", f) : f \in TaskFilters \cup {None}}
          \cup {Key("approvals", f) : f \in GateFilters \cup {None}}

Answer(k) ==
    IF k.of = "tasks"
    THEN TaskList(tasks, IF k.by = None THEN NoFilter ELSE k.by, mock)
    ELSE GateList(gates, IF k.by = None THEN NoGateFilter ELSE k.by, mock)

Url(p, f, x) == [page |-> p, by |-> f, at |-> x]
TasksUrl(x) == Url("tasks", NoFilter, x)
ApprovalsUrl(x) == Url("approvals", NoGateFilter, x)
Elsewhere == Url("elsewhere", None, None)

Primary(u) == Key(u.page, u.by)
OnScreen(u) ==
    CASE u.page = "tasks" -> {Primary(u), Key("approvals", None)}
      [] u.page = "approvals" -> {Primary(u), Key("tasks", None)}
      [] OTHER -> {}

(* data = []: an entry without data shows an empty list.                       *)
List(k) == IF cache[k].data = Absent THEN <<>> ELSE cache[k].data
Shown == List(Primary(url))

(* A failed list replaces the page by its error state, dialogs and all.        *)
BodyUp == url.page # "elsewhere" => ~cache[Primary(url)].error
Selected(page) ==
    IF url.page = page /\ BodyUp /\ url.at \in DOMAIN Shown THEN url.at ELSE None
SelectedTask == Selected("tasks")
SelectedGate == Selected("approvals")

ModalOpen ==
    \/ SelectedTask # None \/ SelectedGate # None
    \/ url.page = "tasks" /\ BodyUp /\ (desk.candidate # None \/ desk.drawer)
Nested == bench.approving \/ bench.rejecting

(* A page is opened at an address of its router: filters it has, any id.       *)
IsAddress(u) ==
    /\ u = Url(u.page, u.by, u.at)
    /\ u = Elsewhere \/ (u.page \in {"tasks", "approvals"} /\ Primary(u) \in Keys)
ASSUME AddressAssumption == \A u \in StartUrls : IsAddress(u)

NoDesk == [candidate |-> None, seen |-> None, busy |-> FALSE,
           drawer |-> FALSE]
NoBench == [submitting |-> FALSE, approving |-> FALSE, rejecting |-> FALSE,
            typed |-> FALSE]

(* What a render leaves of the dialogs: another page starts afresh; the error  *)
(* state keeps what the page component holds and loses what its dialogs hold;  *)
(* without a selected approval the typed phrase is gone.  A call remembers     *)
(* whether the page and the dialogs that sent it are still there.              *)
Render(d, b, cs) ==
    LET same == url'.page = url.page
    IN  /\ desk' = IF ~same THEN NoDesk
                   ELSE IF BodyUp' THEN d
                   ELSE [d EXCEPT !.busy = FALSE]
        /\ bench' = IF ~same \/ ~BodyUp' THEN NoBench
                    ELSE IF SelectedGate' = None THEN [b EXCEPT !.typed = FALSE]
                    ELSE b
        /\ calls' = {[c EXCEPT !.page = @ /\ same,
                               !.body = @ /\ same /\ BodyUp'] : c \in cs}

NoMove == UNCHANGED <<url, behind>>
NoNews == UNCHANGED <<mock, tasks, gates, unseen>>
Spend(what) ==
    /\ spent[what] < Bounds[what]
    /\ spent.moves + spent.calls + spent.mishaps < Bounds.all
    /\ spent' = [spent EXCEPT ![what] = @ + 1]
Rerender(d, b) == Render(d, b, calls)

-----------------------------------------------------------------------------
(* Moving: every address is pushed on the history; the queries of the new      *)
(* page mount, and are asked again if they are out of date.                    *)
Go(u, d) ==
    /\ u # url
    /\ Spend("moves")
    /\ url' = u /\ behind' = url
    /\ \E aged \in BOOLEAN :
          cache' = [k \in Keys |-> IF k \in OnScreen(u) \ OnScreen(url)
                                   THEN Mounted(cache[k], aged) ELSE cache[k]]
    /\ NoNews
    /\ Rerender(d, bench)

(* Back and Forward work whatever dialog is open; links do not.                *)
Back == Go(behind, desk)
FollowLink ==
    /\ ~ModalOpen
    /\ \E u \in {TasksUrl(None), ApprovalsUrl(None), Elsewhere} : Go(u, desk)

SetFilter(f) ==
    /\ BodyUp /\ ~ModalOpen
    /\ Key(url.page, f) \in Keys
    /\ Go([url EXCEPT !.by = f], desk)

SelectTask(t) ==
    /\ url.page = "tasks" /\ BodyUp /\ ~ModalOpen
    /\ t \in DOMAIN Shown /\ "open" \in RowOffers(Shown, t)
    /\ Go([url EXCEPT !.at = t], desk)
SelectGate(g) ==
    /\ url.page = "approvals" /\ BodyUp /\ ~ModalOpen
    /\ g \in Queue(Shown) \cup History(Shown)
    /\ Go([url EXCEPT !.at = g], desk)
CloseTask == SelectedTask # None /\ Go([url EXCEPT !.at = None], desk)
CloseGate == SelectedGate # None /\ ~Nested /\ Go([url EXCEPT !.at = None], desk)

ReviewApproval(t, g) ==
    /\ url.page = "tasks" /\ BodyUp /\ g \in TaskFacts[t].gates
    /\ \/ ~ModalOpen /\ t \in DOMAIN Shown
          /\ "review" \in RowOffers(Shown, t) \cup CardOffers(Shown, t)
       \/ /\ SelectedTask = t
          /\ "review" \in ModalOffers(Shown, t, DOMAIN List(Key("approvals", None)))
    /\ Go(ApprovalsUrl(g), desk)
InspectTask ==
    /\ SelectedGate # None /\ ~Nested
    /\ GateFacts[SelectedGate].task \in DOMAIN List(Key("tasks", None))
    /\ Go(TasksUrl(GateFacts[SelectedGate].task), desk)

-----------------------------------------------------------------------------
(* Mutations.                                                                  *)
Send(kind, x, d, b) ==
    /\ Spend("calls")
    /\ NoMove /\ NoNews /\ UNCHANGED cache
    /\ Render(d, b, calls \cup {[n |-> spent.calls + 1, kind |-> kind, of |-> x,
                                 st |-> "sent", page |-> TRUE, body |-> TRUE]})

(* A click that only changes the dialogs.                                      *)
Click(d, b) == NoMove /\ NoNews /\ UNCHANGED <<cache, spent>> /\ Rerender(d, b)

Candidate(t) == [desk EXCEPT !.candidate = t, !.seen = Shown[t]]
PrepareDispatch(t) ==
    /\ url.page = "tasks" /\ BodyUp /\ t \in DOMAIN Shown
    /\ \/ /\ ~ModalOpen
          /\ "dispatch" \in RowOffers(Shown, t) \cup CardOffers(Shown, t)
          /\ Click(Candidate(t), bench)
       \/ /\ SelectedTask = t /\ "dispatch" \in ModalOffers(Shown, t, {})
          /\ Go([url EXCEPT !.at = None], Candidate(t))

AlreadyDispatched == {"DISPATCHING", "RUNNING", "COMPLETED"}
(* Mutant: the confirm button does not wait for the call it started.           *)
MutantConfirmDispatch ==
    /\ url.page = "tasks" /\ BodyUp /\ desk.candidate # None
    /\ desk.seen \notin AlreadyDispatched
    /\ Send("dispatch", desk.candidate, [desk EXCEPT !.busy = TRUE], bench)
ConfirmDispatch ==
    /\ url.page = "tasks" /\ BodyUp /\ desk.candidate # None
    /\ desk.seen \notin AlreadyDispatched /\ ~desk.busy
    /\ Send("dispatch", desk.candidate, [desk EXCEPT !.busy = TRUE], bench)
CancelDispatch ==
    /\ url.page = "tasks" /\ BodyUp /\ desk.candidate # None /\ ~desk.busy
    /\ Click([desk EXCEPT !.candidate = None, !.seen = None], bench)

(* The create drawer: it closes at any time; its buttons wait for isPending,   *)
(* which belongs to the page.                                                  *)
OpenDrawer == url.page = "tasks" /\ BodyUp /\ ~ModalOpen /\ Click([desk EXCEPT !.drawer = TRUE], bench)
CloseDrawer == BodyUp /\ desk.drawer /\ Click([desk EXCEPT !.drawer = FALSE], bench)
CreatePending == \E c \in calls : c.kind = "create" /\ c.page
RoomForTask ==   \* bound: ids left for new tasks
    Cardinality({c \in calls : c.kind = "create" /\ c.st = "sent"})
      < Cardinality({t \in Tasks : tasks[t] = Missing})
CreateTask(s) ==
    /\ RoomForTask
    /\ BodyUp /\ desk.drawer /\ ~CreatePending
    /\ Send("create", s, desk, bench)

(* The approval dialog.                                                        *)
Submitting == bench.submitting
Undecided(g) == g # None /\ Shown[g] = "PENDING" /\ ~Submitting /\ ~Nested
Approve(g) == Send("approve", g, desk, [bench EXCEPT !.submitting = TRUE])
ClickApprove ==
    /\ Undecided(SelectedGate)
    /\ IF Risky(SelectedGate)
       THEN Click(desk, [bench EXCEPT !.approving = TRUE])
       ELSE Approve(SelectedGate)
TypePhrase ==
    /\ bench.approving /\ ~Submitting /\ SelectedGate # None /\ Risky(SelectedGate)
    /\ Click(desk, [bench EXCEPT !.typed = TRUE])
ConfirmApprove ==
    /\ bench.approving /\ ~Submitting /\ SelectedGate # None
    /\ Risky(SelectedGate) => bench.typed
    /\ Approve(SelectedGate)
CancelApprove ==
    /\ bench.approving /\ ~Submitting /\ SelectedGate # None
    /\ Click(desk, [bench EXCEPT !.approving = FALSE, !.typed = FALSE])
ClickReject ==
    /\ Undecided(SelectedGate)
    /\ Click(desk, [bench EXCEPT !.rejecting = TRUE])
ConfirmReject ==
    /\ bench.rejecting /\ ~Submitting /\ SelectedGate # None
    /\ Send("reject", SelectedGate, desk, [bench EXCEPT !.submitting = TRUE])
CancelReject ==
    /\ bench.rejecting /\ ~Submitting /\ SelectedGate # None
    /\ Click(desk, [bench EXCEPT !.rejecting = FALSE])

-----------------------------------------------------------------------------
(* The store answers a mutation: accepted with its effect, or refused.  The    *)
(* server dispatches a task in any state but two, whatever the dialog takes    *)
(* for dispatched; the mock provider refuses a completed one as well.          *)
Dispatchable(s) ==
    s \notin IF mock THEN AlreadyDispatched ELSE {"DISPATCHING", "RUNNING"}
Resolved == {"APPROVED", "REJECTED", "EXPIRED", "CANCELLED"}
(* Mutant: the server decides an approval again.                               *)
MutantAccepts(c) ==
    CASE c.kind = "dispatch" -> c.st = "read" \/ Dispatchable(tasks[c.of])
      [] c.kind \in {"approve", "reject"} -> ~mock \/ c.of \notin FailingGates
      [] c.kind = "create" -> TRUE
Accepts(c) ==
    CASE c.kind = "dispatch" -> c.st = "read" \/ Dispatchable(tasks[c.of])
      [] c.kind \in {"approve", "reject"} ->
            IF mock THEN c.of \notin FailingGates ELSE gates[c.of] \notin Resolved
      [] c.kind = "create" -> TRUE

Dispatched(c) == [tasks EXCEPT ![c.of] = "DISPATCHING"]
Created(c) == [tasks EXCEPT ![CHOOSE t \in Tasks : tasks[t] = Missing] = c.of]
(* The mock provider also moves the task that waits for the approval; the      *)
(* server leaves that to the runtime.                                          *)
Resumed(c, s) ==
    [t \in Tasks |-> IF mock /\ GateFacts[c.of].task = t
                             /\ tasks[t] = "AWAITING_APPROVAL"
                     THEN s ELSE tasks[t]]
Approved(c) == tasks' = Resumed(c, "RUNNING") /\ gates' = [gates EXCEPT ![c.of] = "APPROVED"]
Rejected(c) == tasks' = Resumed(c, "BLOCKED") /\ gates' = [gates EXCEPT ![c.of] = "REJECTED"]
Effect(c) ==
    IF ~Accepts(c) THEN UNCHANGED <<tasks, gates>>
    ELSE CASE c.kind = "dispatch" -> tasks' = Dispatched(c) /\ UNCHANGED gates
           [] c.kind = "create" -> tasks' = Created(c) /\ UNCHANGED gates
           [] c.kind = "approve" -> Approved(c)
           [] c.kind = "reject" -> Rejected(c)

(* What useCreateTask, useDispatchTask, useApproveAction and useRejectAction   *)
(* invalidate when their call succeeds.                                        *)
(* Mutant: a decision refreshes the approvals only.                            *)
MutantInvalidates(kind) ==
    IF kind \in {"create", "dispatch"} THEN {"tasks"} ELSE {"approvals"}
Invalidates(kind) ==
    IF kind \in {"create", "dispatch"} THEN {"tasks"} ELSE {"approvals", "tasks"}
Invalidate(lists) ==
    cache' = [k \in Keys |-> IF k.of \in lists
                             THEN Invalidated(cache[k], k \in OnScreen(url))
                             ELSE cache[k]]

(* The answer reaches the dialog that waits for it, if it is still there; the  *)
(* page's own closers run as long as the page is.                              *)
(* Mutant: the error path leaves the dialog submitting.                        *)
MutantDeskAfter(c, ok) ==
    CASE c.kind = "dispatch" /\ ok ->
            [desk EXCEPT !.busy = @ /\ ~c.body,
                         !.candidate = IF c.page THEN None ELSE @,
                         !.seen = IF c.page THEN None ELSE @]
      [] c.kind = "create" /\ ok ->
            [desk EXCEPT !.drawer = @ /\ ~c.page]
      [] OTHER -> desk
DeskAfter(c, ok) ==
    CASE c.kind = "dispatch" ->
            [desk EXCEPT !.busy = @ /\ ~c.body,
                         !.candidate = IF ok /\ c.page THEN None ELSE @,
                         !.seen = IF ok /\ c.page THEN None ELSE @]
      [] c.kind = "create" /\ ok ->
            [desk EXCEPT !.drawer = @ /\ ~c.page]
      [] OTHER -> desk
BenchAfter(c) ==
    IF c.kind \in {"approve", "reject"} /\ c.body
    THEN [bench EXCEPT !.submitting = FALSE,
                       !.approving = @ /\ c.kind = "reject",
                       !.rejecting = @ /\ c.kind = "approve",
                       !.typed = @ /\ c.kind = "reject"]
    ELSE bench
Settle(c, ok) ==
    /\ NoMove
    /\ IF ok THEN Invalidate(Invalidates(c.kind)) ELSE UNCHANGED cache
    /\ Render(DeskAfter(c, ok), BenchAfter(c), calls \ {c})

(* Over HTTP the effect and the answer are two steps, and the network may fail *)
(* before, between or after them; the mock provider does both at once.         *)
ServeCall(c) ==
    /\ ~mock /\ c.st \in {"sent", "read"}
    /\ Effect(c)
    /\ unseen' = [l \in {"tasks", "approvals"} |->
                    IF Accepts(c) /\ l \in (IF c.kind \in {"approve", "reject"}
                                            THEN {"approvals"} ELSE {"tasks"})
                    THEN unseen[l] \cup {c.n} ELSE unseen[l]]
    /\ calls' = (calls \ {c}) \cup {[c EXCEPT !.st = IF Accepts(c) THEN "ok" ELSE "refused"]}
    /\ NoMove /\ UNCHANGED <<mock, cache, desk, bench, spent>>
(* A task of the job database or a cron file is read in a thread: between the  *)
(* test of its state and the write anything may happen to it.                  *)
ReadTask(c) ==
    /\ ~mock /\ c.kind = "dispatch" /\ c.st = "sent"
    /\ StartTasks[c.of] # Missing /\ Dispatchable(tasks[c.of])
    /\ calls' = (calls \ {c}) \cup {[c EXCEPT !.st = "read"]}
    /\ NoMove /\ NoNews /\ UNCHANGED <<cache, desk, bench, spent>>
LandCall(c) ==
    /\ c.st \in {"ok", "refused"}
    /\ unseen' = [l \in {"tasks", "approvals"} |-> unseen[l] \ {c.n}]
    /\ Settle(c, c.st = "ok")
    /\ UNCHANGED <<mock, tasks, gates, spent>>
LoseCall(c) ==
    /\ ~mock /\ c.st \in {"sent", "ok"}
    /\ Spend("mishaps") /\ NoNews
    /\ Settle(c, FALSE)
MockCall(c) ==
    /\ mock
    /\ Effect(c)
    /\ Settle(c, Accepts(c))
    /\ UNCHANGED <<mock, unseen, spent>>

-----------------------------------------------------------------------------
(* Queries.                                                                    *)
Query(k, e) ==
    /\ cache' = [cache EXCEPT ![k] = e]
    /\ NoMove /\ NoNews /\ Rerender(desk, bench)
ServeQuery(k) ==
    /\ cache[k].flight = "asked"
    /\ UNCHANGED spent
    /\ LET e == Served(cache[k], Answer(k)) IN Query(k, IF mock THEN Landed(e) ELSE e)
LandQuery(k) ==
    /\ cache[k].flight = "answered"
    /\ UNCHANGED spent
    /\ Query(k, Landed(cache[k]))
FailQuery(k) ==
    /\ ~mock /\ cache[k].flight = "asked"
    /\ IF cache[k].tries = 0 THEN Spend("mishaps") ELSE UNCHANGED spent
    /\ Query(k, Failed(cache[k], k \in OnScreen(url)))

(* The Refresh button of the page, the Retry button of its error state.        *)
Refresh ==
    /\ url.page # "elsewhere" /\ ~ModalOpen
    /\ Spend("moves")
    /\ Query(Primary(url), Refetched(cache[Primary(url)]))

(* Others change the store: the runtime, another operator, an expiry; a delta  *)
(* of the realtime stream may tell of it (a snapshot does not).                *)
Progress(s) ==
    CASE s = "READY" -> {"DISPATCHING", "CANCELLED"}
      [] s = "DISPATCHING" -> {"RUNNING", "FAILED"}
      [] s = "RUNNING" -> {"COMPLETED", "AWAITING_APPROVAL"}
      [] OTHER -> {}
Change ==
    /\ ~mock
    /\ Spend("mishaps")
    /\ \/ \E t \in Tasks : \E s \in Progress(tasks[t]) \cap News :
             /\ tasks' = [tasks EXCEPT ![t] = s]
             /\ unseen' = [unseen EXCEPT !["tasks"] = @ \cup {0}]
             /\ UNCHANGED gates
       \/ \E g \in Gates : \E s \in {"APPROVED", "EXPIRED"} \cap News :
             /\ gates[g] = "PENDING"
             /\ gates' = [gates EXCEPT ![g] = s]
             /\ unseen' = [unseen EXCEPT !["approvals"] = @ \cup {0}]
             /\ UNCHANGED tasks
    /\ UNCHANGED <<mock, cache, url, behind, desk, bench, calls>>
HearDelta(list) ==
    /\ 0 \in unseen[list]
    /\ unseen' = [unseen EXCEPT ![list] = @ \ {0}]
    /\ Invalidate({list})
    /\ NoMove /\ UNCHANGED <<mock, tasks, gates, spent>>
    /\ Rerender(desk, bench)

-----------------------------------------------------------------------------
(* The page is open and its lists have loaded.                                 *)
Init ==
    /\ mock \in BOOLEAN
    /\ tasks = StartTasks /\ gates = StartGates
    /\ url \in StartUrls
    /\ behind = Elsewhere
    /\ cache = [k \in Keys |-> IF k \in OnScreen(url)
                               THEN Landed(Served(Mounted(EmptyEntry, FALSE), Answer(k)))
                               ELSE EmptyEntry]
    /\ desk = NoDesk /\ bench = NoBench /\ calls = {}
    /\ unseen = [l \in {"tasks", "approvals"} |-> {}]
    /\ spent = [moves |-> 0, calls |-> 0, mishaps |-> 0]

Operator ==
    \/ Back \/ FollowLink \/ CloseTask \/ CloseGate \/ InspectTask \/ Refresh
    \/ \E f \in TaskFilters \cup GateFilters : SetFilter(f)
    \/ \E t \in Tasks : SelectTask(t) \/ PrepareDispatch(t)
                          \/ \E g \in Gates : ReviewApproval(t, g)
    \/ \E g \in Gates : SelectGate(g)
    \/ ConfirmDispatch \/ CancelDispatch
    \/ OpenDrawer \/ CloseDrawer \/ \E s \in {"DRAFT", "READY"} : CreateTask(s)
    \/ ClickApprove \/ TypePhrase \/ ConfirmApprove \/ CancelApprove
    \/ ClickReject \/ ConfirmReject \/ CancelReject
CallSteps == \E c \in calls : ReadTask(c) \/ ServeCall(c) \/ LandCall(c) \/ MockCall(c)
Network ==
    \/ \E c \in calls : LoseCall(c)
    \/ \E k \in Keys : ServeQuery(k) \/ LandQuery(k) \/ FailQuery(k)
    \/ Change \/ \E l \in {"tasks", "approvals"} : HearDelta(l)
Next == Operator \/ CallSteps \/ Network

(* A request that is not lost is answered: fetch has no timeout of its own, so *)
(* this is what the transport promises.                                        *)
Spec == Init /\ [][Next]_vars /\ WF_vars(CallSteps)
-----------------------------------------------------------------------------
Snapshots(Ids, States) == UNION {[S -> States] : S \in SUBSET Ids}

(* Every variable holds what the pages and the store can put there.            *)
DeskTypeOK ==
    /\ mock \in BOOLEAN
    /\ tasks \in [Tasks -> TaskStates \cup {Missing}]
    /\ gates \in [Gates -> ApprovalStates]
    /\ \A k \in Keys : cache[k] \in Entries(IF k.of = "tasks"
                                            THEN Snapshots(Tasks, TaskStates)
                                            ELSE Snapshots(Gates, ApprovalStates))
    /\ url.page \in {"tasks", "approvals", "elsewhere"}
    /\ url # Elsewhere => Primary(url) \in Keys
    /\ desk.candidate \in Tasks \cup {None}
    /\ bench \in [{"submitting", "approving", "rejecting", "typed"} -> BOOLEAN]
    /\ \A c \in calls : c.n \in 1..Bounds.calls /\ (c.body => c.page)

(* A list on screen that is neither loading nor failed shows the store as it   *)
(* is, unless someone changed it and the page has not heard, or the answer was *)
(* read before the change and its query could not be asked again.  About the   *)
(* invalidations of hooks.ts and the cancelled fetches they rely on.           *)
SettledListsAreCurrent ==
    \A k \in OnScreen(url) :
        (/\ cache[k].flight = "idle" /\ ~cache[k].error /\ ~cache[k].late
         /\ unseen[k.of] = {})
        => cache[k].data = Answer(k)

(* While its dialog stays mounted, a confirmation has one call under way: the  *)
(* submitting flags of DispatchReviewDialog and ApprovalDetailModal, and the   *)
(* pending mutation of the create drawer.                                      *)
DialogOf(kind) == IF kind = "reject" THEN "approve" ELSE kind
OneCallPerDialog ==
    \A c, d \in calls :
        c.body /\ d.body /\ DialogOf(c.kind) = DialogOf(d.kind) => c = d

(* A decided approval stays as it was decided, however stale the list the next *)
(* decision was taken from and whoever else decides (the server's check; the   *)
(* mock provider has none).                                                    *)
DecisionsAreFinal ==
    [][~mock => \A g \in Gates : gates[g] \in Resolved => gates'[g] = gates[g]]_vars

(* Two computations of one list agree: the strip and the board count the same  *)
(* tasks, and the queue gives each pending approval a place of its own.        *)
ListsAddUp ==
    /\ url.page = "tasks" =>
          /\ SummaryCount(Shown, "ATTENTION") = Cardinality(BoardColumn(Shown, "NEEDS_ATTENTION"))
          /\ SummaryCount(Shown, "RUNNING") = Cardinality(BoardColumn(Shown, "IN_PROGRESS"))
    /\ url.page = "approvals" =>
          /\ ApprovalCount(Shown, "Pending Reviews") + Cardinality(History(Shown))
                = Cardinality(DOMAIN Shown)
          /\ {QueuePosition(Shown, g) : g \in Queue(Shown)}
                = 1..ApprovalCount(Shown, "Pending Reviews")

(* What the two pages show is the store, and its parts add up.                 *)
ListsAreTrue == SettledListsAreCurrent /\ ListsAddUp

(* A dialog that waits for an answer gets one: the spinner of the dispatch     *)
(* dialog and of the approval dialog ends, on success and on every error path. *)
DialogsSettle == (desk.busy \/ Submitting) ~> (~desk.busy /\ ~Submitting)
=============================================================================
