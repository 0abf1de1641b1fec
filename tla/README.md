# Sagara Mission Control: TLA+ verification project

Sagara Mission Control is the operations console of a fleet of Hermes agents: a
FastAPI backend (`src/backend/app`) over one SQLite control database, and a React
client (`src/frontend/src`). The backend samples what the agents do and pushes it to
the browsers; it lets operators propose actions, approve them, and execute an approved
action exactly as far as an execution lock and its budgets allow. The client shows all
of this on some dozen pages, each over the same cache of answers and messages.

This directory holds TLA+ models of the parts whose correctness depends on the order
in which things happen, TLC configurations that check them on small instances, and
proofs that TLAPS checks for every value of the constants. Paths are relative to
`src/backend/app` where a sentence names a file of the backend and to
`src/frontend/src` where it names one of the client; `docs/` is `src/docs/`.

Contents

1. [The system](#1-the-system)
2. [The modules and the code they model](#2-the-modules-and-the-code-they-model)
3. [The runs](#3-the-runs)
4. [Fairness](#4-fairness)
5. [The proofs](#5-the-proofs)
6. [Where code and documents disagree](#6-where-code-and-documents-disagree)
7. [What is not modelled, and what the models leave out](#7-what-is-not-modelled-and-what-the-models-leave-out)
8. [The plan](#8-the-plan)

To repeat everything, in this directory:

    tlc -workers 2 -config MCDispatchOne.cfg MCDispatch     # any pair of section 3
    tlapm DispatchProofs.tla                                # any *Proofs module

## 1. The system

### Processes

The server is one uvicorn process (`src/backend/scripts/deploy_service_vps.py:39`),
one asyncio event loop. The operator scripts `src/backend/scripts/run_production_*.py`
run beside it in processes of their own, with their own coordinator and connection on
the same database (`run_production_canary.py` unlocks, approves, dispatches and locks).
So both kinds of interleaving are real:

- handlers of one process interleave only where an `await` really suspends. In the
  dispatch path that is `asyncio.to_thread` in the catalogue of tasks and profiles
  (`adapters/sagara_jobs.py:225`); Hermes itself is run by a synchronous
  `subprocess.run`, which holds the loop;
- processes interleave at every database statement and transaction.

Within the server the coordinator is a singleton with one SQLite connection
(`api/dependencies.py:189`), so its handlers see each other's uncommitted writes, and
a second `BEGIN` on it fails.

### Components

| Component | State it keeps | Operations | Hard behaviour | What makes it correct |
|---|---|---|---|---|
| Execution lock (`execution_lock_service.py`, `execution_kill_switch.py`, `execution_repo.py`) | lock row; windows with state, counter, limit, expiry | `unlock`, `lock`, `get_effective_status` (expires windows as a side effect), `claim_execution_slot` | racing unlocks; two tables; time limits that pass between read and claim | a budget is never exceeded, added up or reopened; an open gate is bounded |
| Execution dispatch (`task_dispatch_coordinator.py`, `final_preflight_service.py`, `executor.py`, `idempotency_repo.py`) | attempts, authorizations, receipts, stored responses | `execute_task_dispatch`, replay of a stored response | suspensions between check and use, and inside a transaction; crash around the external process; unknown outcomes; retries | slot, attempt, receipt and stored response agree; nothing is executed twice or without a slot |
| Reconciler (`reconciliation_service.py`) | the same tables | `reconcile_attempt` | races with the handler of the same attempt | a settled attempt stays settled |
| Action intents (`action_intent_service.py`) | intents, approvals | create, preflight, request, approve, reject, cancel, expiry on read | status read, catalogue awaited, status written without a test | no decision is lost or contradicted |
| Execution policy (`execution_policy_service.py`) | policy revision | install, limits per profile and per minute | limits counted outside the transaction that inserts | limits hold |
| Tool security, resource registry | static registries | validation of paths, units, contents | none (pure) | rejects what the registry does not name |
| Audit ledger (`audit_repo.py`, `audit_verifier.py`) | hash chain | append, verify | appends of two processes | one chain, no two entries with one predecessor |
| Realtime server (`backend/app/realtime`) | latest snapshot, sequence, replay buffer, a queue per connection | sample, publish, heartbeat, accept and replay, write | full queues, evicted replays, restarts, reconnects that name an older instance | a client is told everything or told to start over |
| Realtime client (`frontend/src/features/realtime`) | instance, last sequence, query cache, status | connect, handle message, resync, close | deltas around a reconnect | the cache is a state the server published, and catches up |
| Tasks, approvals, in-memory stores (`task_service.py`, `approval_service.py`, `repositories/memory`) | tasks with revisions, idempotency keys | compare-and-set updates, moves, decisions | a suspending read inside `update_task` | no lost update, one effect per key |
| Runtime state (`domain/runtime_state.py`, `runtime_correlation.py`) | none (derived) | derive the state of agents from evidence | order of rules, freshness boundaries | the derivation meets its table |
| Query cache (`api/hooks.ts`, `app/query-client.ts`, TanStack Query) | one entry per key: data, validity, error, the fetch under way | mount, refetch, invalidate, write from the channel, retry | answers read before a change and delivered after it | at rest, a page shows what the server would answer |
| Tasks and Approvals pages | address, filters, dialogs, mutations under way | select, filter, dispatch, create, approve, reject | dialogs over lists that change, answers for dialogs that are gone | one call per dialog, which always ends; decisions are final |
| Agent configuration page | staged changes in memory and in localStorage, the loop of Apply | stage, discard, blueprint, apply | two tabs, lost requests half way, agents that load late | what is announced as applied was written |
| Schedule page | schedule items in memory and in localStorage, views, the editor | create, edit, duplicate, move through the calendar | two tabs, time zones, intervals | conflicts are shared time; an edit keeps the day |
| Virtual office | a character per agent and worker, scene, filters | a frame of animation, new data, pointer, scroll | data between two frames, journeys interrupted | nobody drawn at work who is not; every trip ends |
| Execution lock on the pages | the cached status, the unlock dialog | unlock, Emergency Lock, walk between pages | the gate changes and nobody is told | a settled page shows the gate, the pages agree |
| Live figures (Command Center, agents, runtime) | cache entries that answers and the channel both write | snapshot, delta, refresh | two writers of one entry, figures derived from lists | figures agree; at rest the pages show the fleet |
| Directory pages | filters in the address or in components, details, tabs | filter, reset, follow links, reload | separate code for filter, flag, Reset, menu and figure on every page | what is hidden can be shown again; links arrive |
| Readiness, seeder, adapters, shell | see `PROJECT.json` | reports, one-shot import, parsing, layout | none that a model checker reaches | |

### How they meet

`POST /action-intents/{id}/execute` enters `execute_task_dispatch`. It reads the
idempotency store, the intent (whose read may expire it), and in the final preflight
the approval, the lock and its window (whose read may expire it), the receipts, the
task and profile catalogues (where it may suspend), the policy and the number of
attempts in flight. Then one transaction claims a slot, issues an authorization and
inserts the attempt; the executor runs Hermes; a second transaction records the
outcome and, before it commits, updates the task (where it may suspend with the
transaction open); and the response is stored. The reconciler, operators using the
lock, and operators deciding on intents act on the same tables meanwhile, and every
decision appends to the audit ledger.

The realtime half shares nothing with this but the adapters: the sampler reads a
snapshot of the runtime, the manager compares it with the last one and sends the
difference to every connection, and the client applies it to the cache the pages
show. The same cache is written by the answers of the pages' own requests, and read by
every page; pages lead to one another by links, whose parameters are filters and
details of the page they name. The lock has no realtime event and no polling: pages
learn of a change by asking.

`PROJECT.json` lists every hazard met while reading, with the line where it bites and
the properties that watch it; those without a property say why.

## 2. The modules and the code they model

| Module | Models | Extends |
|---|---|---|
| `ExecutionBudget` | the promise of the lock to its operators (abstract) | |
| `ExecutionGate` | lock, windows and slots, one action per transaction | |
| `ActionIntent` | statuses, and the read and the write half of each operation | |
| `Dispatch` | execution requests, reconciler, crashes, time | `ExecutionGate`, `ActionIntent` |
| `IntentLifecycle` | operators of two processes deciding on intents, the audit ledger | `ActionIntent` |
| `Realtime` | sampler, manager, queues, transport, client, restarts | |
| `QueryCache` | an entry of the query cache (operators) | |
| `TaskViews`, `ApprovalViews` | what the pages make of a list (operators) | |
| `Desk` | Tasks and Approvals pages, their dialogs, the stores | `QueryCache`, `TaskViews`, `ApprovalViews` |
| `Drafts` | the agent configuration page | |
| `Schedules` | the schedule page | |
| `OfficeScene` | rooms, desks, docks, current tasks, counts (operators) | |
| `Office` | the characters, frame by frame | `OfficeScene` |
| `Console` | the execution lock on the pages | `ExecutionGate`, `QueryCache` |
| `Projections` | what mappers make of responses and messages (operators) | |
| `Fleet` | live figures: answers and the channel over one cache | `Projections`, `QueryCache` |
| `Directory` | filters, menus, flags and figures of every list (operators) | |
| `Links` | where every button, card and row leads (operators) | `Directory` |
| `Browse` | an operator walking through the pages | `Links` |
| `MCDispatch`, `MCIntents`, `MCRealtime`, `MCDesk`, `MCDrafts`, `MCSchedules`, `MCOffice`, `MCConsole`, `MCFleet`, `MCBrowse` | small instances | the module they instantiate |
| `ExecutionGateProofs`, `DispatchProofs`, `RealtimeProofs`, `DeskProofs`, `BrowseProofs`, `OfficeProofs` | theorems | the module they are about |
| `OperatorProofs` | theorems about what operators change by reading first and writing later | `IntentLifecycle`, `Drafts`, `Schedules` |
| `PagesProofs` | theorems about pages that show the backend through the cache | `Console`, `Fleet`, `ExecutionGateProofs` |

Definitions that begin with the comment "Mutant:" are deliberately wrong variants of
the definition that follows or is named. No specification uses them; replacing the
original by its variant must break the property that `PROJECT.json` pairs them with,
which shows that the property depends on that line of the code.

### ExecutionGate

`windowState`, `consumed`, `granted` are the columns `state`, `executions_consumed`,
`max_executions` of `execution_windows`, a row per element of `Windows`;
`latest` is the row with the greatest `opened_at`, which the status reads, and
`timedOut` the rows whose `expires_at` has passed. `RacingUnlocks` says whether a
window committed later may carry an earlier `opened_at`: `unlock` reads the clock
before its transaction, so with two processes it may. `Unlock`, `Lock` and `ClaimSlot`
are one transaction each, `StatusExpiresWindows` is the write that `get_effective_status`
performs, `ClaimLatestSlot` is `ExecutionLockService.claim_execution_slot` (which looks
at the latest window, where the coordinator looks at the open one). The environment
flag that disables real execution is taken as set: without it every status is locked.
Permissions, the confirmation phrase and audit entries depend on the caller alone.

`ExecutionBudget` says the same without tables: a number `left`, set by an unlock,
spent one at a time, withdrawn by lock or expiry. `ImplementsBudget` is the refinement,
with `left <- SlotsLeft`.

### ActionIntent and IntentLifecycle

An operation reads the intent (`Seen`, which expires a late one), tests what it read
(`MayApprove`, ...), and writes without testing again (`WriteApproval`, ...).
`ActionIntent` gives the two halves; `Dispatch` composes them in one step, because none
of these operations suspends in between, except the preflight, which it leaves out
wherever the catalogues suspend. Intents are `TASK_DISPATCH` intents (risk HIGH,
approval always required). Hash and signature have no second writer and are left out.

`IntentLifecycle` takes the halves apart. `Read` is what a handler takes from
`get_intent`; `Request`, `Approve`, `Reject`, `Cancel` and `Preflight` write from it, in
a transaction with the approvals row and an audit record; `GiveUp` is the error path.
Handlers of one process interleave only while `run_preflight` awaits the catalogues
(`action_intent_service.py:408`), handlers of two anywhere (`OthersParked`). `ledger` is
`audit_ledger` in the order of insertion. An append inside a write transaction reads
the end of the chain and extends it at once (`Recorded`); `request_unlock` appends
outside one, so it is two steps, `UnlockReads` and `UnlockRecords`, and the `UNIQUE`
sequence number (`Taken`) decides between two that read the same end. `Verifies` is
`verify_audit_chain`, as the chain of predecessors; recomputing a record's own hash
detects tampering, which is not modelled.

### Dispatch

A step per database statement or external call of `execute_task_dispatch`; `pc[h]`
names the next.

| Step | Code |
|---|---|
| `Receive`, `CheckIdempotency` | endpoint; `PersistentIdempotencyStore.get_response` with its conflict rule |
| `LoadIntent`, `LoadFails` | `get_intent`; revision of `If-Match` |
| `CheckApproval`, `CheckGate`, `CheckReceipt`, `CheckTarget`, `CheckLimits` | the checks of `FinalExecutionPreflightService.evaluate`, which go on after a failing one and add up reasons |
| `Prepare`, `PrepareFails` | preparation transaction: slot, authorization, attempt |
| `RefuseTool`, `NotSpawned`, `Spawn`, `Return` | tool policy, `HermesTaskDispatchExecutor.dispatch_task` and its outcomes |
| `RecordAcknowledged`, `SuspendInTransaction`, `ResumeTransaction`, `RecordOther`, `RecordFails` | recording transaction, with `update_task` inside |
| `SaveReply`, `SaveReplyFails` | `save_response` |
| `FindEvidence`, `Reconcile`, `ReconcileFails` | `reconcile_attempt` |
| `OperatesGate`, `OperatesIntent` | other requests and scripts |
| `TimePasses`, `Crash` | limits of windows, intents, attempts and responses; death of a process |

`Runs(h)` is the event loop: a handler moves only if no other handler of its process is
between two suspension points; `Parked` are those points. `writer` is the handler
suspended inside its open transaction; while there is one, nobody else's transaction
can begin. Everyone else's failure to begin one is the code's own error path, not an
extra disjunct. `Uncommitted(p)` is what the shared connection shows of that
transaction to the other handlers of its process, and `txnExpires` records that one of
them wrote an expiry of windows into it, to be committed or rolled back with it.
`Suspends` selects whether the catalogue reads leave the loop: they do for tasks and
profiles that the process does not hold in memory.

### Realtime

| Action | Code |
|---|---|
| `SampleStart`, `SampleDone` | `sampler.sample_once`, `manager.handle_new_snapshot` |
| `Heartbeat` | `manager.send_heartbeat` |
| `Accept`, `FetchDone` | `realtime_websocket_endpoint`: registration, replay or snapshot, its own reading when there is none yet |
| `Refuse` | connection limit |
| `Connect`, `Receive`, `OnClose` | `RealtimeClient.connect`, `handleMessage` (snapshot, delta, resync, other), `onclose` |
| `Lose`, `Restart`, `WorldChanges` | network, process, runtime |

`history[n]` is what instance `n` published; its length is the sequence number, its last
element `_latest_snapshot`, and its last `ReplaySize` elements the replay buffer, so a
message is named by type and sequence. `Put` is `send_to_client` with its full queue,
`Written` and `Waiting` are the writer task: it runs as soon as the loop is free, long
before a queue of 64 can fill, so it is the end of every action that puts a message.
`wire` is what the writer and the transport hold; it empties only as the client reads.

### QueryCache

What TanStack Query does with an entry, as `api/hooks.ts` and `app/query-client.ts`
configure it: it is a library, so its operators are marked external. An answer has two
moments, `Served` (the server read its store) and `Landed` (it is delivered), and what
may happen between them is what the pages' modules are about. An invalidation cancels
and repeats a fetch only if the entry already holds data; `late` records the one case
in which it does not.

### Desk

`tasks`, `gates` are the stores of tasks and approvals, the server's or in mock mode the
provider's own (`api/provider.ts`); `url` and `behind` the address bar; `desk` and `bench`
the dialogs of the two pages; `calls` the mutations under way. Actions of the operator
are named like the handlers: `SelectTask`, `PrepareDispatch`, `ConfirmDispatch`,
`ClickApprove`, `TypePhrase`, `ConfirmReject`, ... A mutation is `Send`, `ServeCall`
(carried out or refused), and `LandCall` or `LoseCall`; on success `Invalidate` marks the
lists its hook names. `Accepts` is the server's answer: tasks are dispatched by
`SagaraJobRepository` (`api/dependencies.py:55`), which refuses only what is dispatching or
running (`Dispatchable`) and reads a native or cron task in a thread between the request
and its test, so that anything may happen before it writes (`ReadTask`). `Change` and
`HearDelta` are other operators and the channel.
`TaskViews` and `ApprovalViews` hold what is computed from a list: columns of the board,
order of the queue, buttons of a row, card and dialog, figures of the strip, filters.

### Drafts and Schedules

`Drafts`: `drafts` is the store of each tab (`draft-store.ts`), `stored` localStorage,
`server` the `allowed_skills` that `PUT /profiles/{id}` writes
(`adapters/sagara_profiles.py:260`). Apply (`ConfigurationChangesModal.tsx:32`) is a loop
over profiles: `Apply` starts it, `Serve` writes one, `Proceed` goes on or announces the
end, `Lose` is its `catch`. `Others` and `alone` tell whether another loop ran meanwhile.
`Save` changes the tab and writes localStorage, or does not: `persistDrafts` ignores a
write that fails.

`Schedules`: `items` of each tab and `saved`, localStorage. Times are slots of half an
hour, `Offset` the time zone. `Conflicts` is `detectScheduleConflicts`, `FormOf` the effect
that fills the editor, `Filled` its submit, `Keep` and `With` the store. `Keep`, too, changes
the tab whether localStorage takes the list or not (`saveSchedules`); `adrift` are the tabs
whose last write was refused, or written over since by another tab. The four calendar views
decide which items can be selected.

### OfficeScene and Office

`OfficeScene` computes, from the data of the page's queries (a record `w`), what
`office-layout-engine.ts` and the components around the scene compute: zones and desks,
docks of workers, the current task of an agent, meetings, and the counts of the strip,
the banner, the phone summary and the list. `Office` adds the characters: `actors` are
the journeys, postures and points of the last frame, `Frame` is one `tick` of
`OfficeCharacterLayer` with the whole of `stepOfficeCharacters` (`Depart`, `TurnBack`,
`Visit`, `BackHome`, `StayHome`, workers, exits), and between frames come `NewData`,
`SetFilter`, `SetSettings`, `SetMode`, `ToggleTab`, `Hover`, `Leave`, `Scroll`. A frame takes
a character to the next point of its route; times are counted in frames. `Effective` is
the behaviour that is drawn, with its render-time guard.

### Console

`ExecutionGate` with the pages in front of it. `entry` is the query of the lock,
`Inspect` what `GET /execution-lock` would answer, `dialog` the unlock dialog, `calls` the
mutations. `page` ranges over a page with the safety card, one with badges only and one
that does not observe the lock. `ServeCall` is an action of the gate; `Elsewhere` are other
operators, executions, and time. `CardSaysLocked`, `Badge`, `WindowsCounted` and
`BudgetShown` are what different components read from one answer.

### Fleet

`world` is what the backend would answer, `published` what the sampler published, `wire`
the messages of the channel: `Realtime` shows that they arrive in order and without
gaps, `Fleet` says what they do. `Deliver` applies a snapshot (`Hydrated`) or a delta
(`Patched`) to every entry that `realtime-cache.ts` touches; `Serve`, `Land` and `Fail` are
answers of the pages' own requests, which write the same entries. `Lose` and
`Reconnect` are the socket. `drift` names the figures whose last writer was an answer,
`unheard` what an answer told that the sampler had not published: the two ways, in the
code as it stands, in which a page may disagree with the channel.

### Directory, Links and Browse

`Directory` has, list by list, the rows a filter keeps, the options its menu offers, the
flag that calls the page filtered, and the figures above the list: agents, skills,
sessions, delegations, supervisor events, events, audit records, tasks, approvals. The
strips of the last two count the rows that are shown and are made of cards, whose click
sets a filter: `TaskSummary`, `ApprovalSummary`, with what each card counts and chooses.
`Links` has the address that every card, row, badge and drawer leads to. `Browse` is the
state: `page` and `params` are the address, `local` the filters that components hold and
lose when they leave the screen, `rows` what the queries hold, `via` the link followed.
Its actions are named like the handlers (`Search`, `SetFilter`, `ClickCard`, `Reset`, `ClickRow`,
`ClearCorrelation`, `FilterEvents`, ...). Where code calls `setSearchParams` several times
in one tick, the last call counts: that is React Router's documented behaviour, and
`InspectSession` and `InspectDelegation` model it.

## 3. The runs

| Run | Instance | States | Checks |
|---|---|---|---|
| `one_process` | 1 process, 2 handlers, 1 reconciler, 2 intents, 1 key, 2 attempts, 2 windows, racing unlocks, suspending | 1.2M | `SlotsAreAccounted`, `StartedAttemptsAreOnRecord`, `LedgerAgrees`, `StoredResponsesAreTrue`, `ConcurrencyCapHolds`, `SettledForGood` |
| `serial` | 1 process, 1 handler, 1 intent with every event, budgets 1 and 2, no suspension | 1.5M | `ExecutionsAreBounded`, `OpenWindowIsLatest`, `OpenGateIsBounded`, `ImplementsBudget`, `AttemptsRestOnFreshChecks` |
| `two_processes` | 2 processes with a handler each, 1 intent, 1 window, budgets 1 and 2, fair | 0.1M | `StoredAcknowledgementsHaveReceipts`, `RequestsAreAnswered` |
| `realtime` | 1 client, 2 items, replay 3, queue 2, wire 1, 3 changes, 2 instances, 1 heartbeat, 1 mishap, fair | 1.0M | `ViewIsPublishedState`, `QuietMeansCurrent`, `EventuallyCurrent` |
| `desk` | 3 tasks (one not yet created), 2 approvals, HTTP and mock, 1 retry, at most 2 moves between addresses, 2 calls, 2 mishaps, 3 together | 0.3M | `ListsAreTrue`, `OneCallPerDialog`, `DecisionsAreFinal`, `DialogsSettle` |
| `drafts` | 2 profiles, 1 skill, 2 tabs; open tabs, loops of Apply and refused writes 3 together | 0.2M | `OneChangePerSkill`, `ChangesAreKept`, `ApplyEnds` |
| `schedules` | 2 tabs, 2 days of 48 slots, 7 hours east of UTC, 3 writes, refused or not | 0.8M | `ConflictsAreSharedSlots`, `NothingIsLostAlone`, `EditKeepsTheDay` |
| `office` | 2 agents who come and go, 2 workers, 1 task, 2 changes, fair | 0.3M | `DrawnAndCounted`, `ExitsAreObserved`, `TripsEnd` |
| `intents` | 2 handlers of the server and one of a script, 1 intent, 5 audit records | 1.9M | `ChainVerifies`, `LedgerTellsDecisions`, `ReadyMeansApproved` |
| `console` | 2 routes, 2 windows of budget 1, 2 calls, fair | 0.9M | `StatusIsShownRight`, `EmergencyLockIsShown` |
| `fleet` | 1 agent, 1 alarm, 1 delegation, 2 changes, 1 refresh, 1 loss | 3.0M | `FiguresAgree`, `QuietPagesAreCurrent`, `DelegationsAreCurrent` |
| `browse` | 9 lists of 2 to 4 rows, 2 searches, at most 2 filters set | 0.1M | `HiddenCanBeShown`, `FiguresMatchFilters`, `LinksLand` |

What they show.

- **Budgets** (`serial`, and the theorems of section 5). Whatever order unlocks, locks,
  claims and expiries come in, a window grants what it was opened for and never
  reopens, two windows are never open together, and an unlocked status implies that a
  claim would succeed. What racing unlocks break is `OpenWindowIsLatest`: the window
  that is open need not be the one the status looks at, so an unlock can leave the gate
  shut. It fails safe; `serial` checks it for unlocks that do not race.
- **The ledger** (`one_process`, `two_processes`). In one process, with suspensions
  inside the open transaction, unlocks by scripts that race, a reconciler and crashes at
  every step, slots, attempts, authorizations, receipts and stored responses agree, and
  a settled attempt stays as it is. In two processes a stored acknowledgement still has
  its receipt, and every request is answered. The concurrency cap is a property of one process only: it is
  counted outside the transaction that inserts, and adding `ConcurrencyCapHolds` to
  `MCDispatchTwo.cfg` shows it exceeded.
- **Freshness** (`serial`). When reads do not suspend, an attempt rests on checks that
  are still true, has a slot, and an intent gets one receipt. The run covers requests in
  sequence, and tasks and profiles held in memory; for those that the adapters read in a
  thread none of this holds: section 6.
- **Intents** (`intents`). The audit chain verifies and tells every decision, and
  nothing becomes executable that nobody approved. Which of two racing decisions the
  intent shows is another matter: section 6.
- **Delivery** (`realtime`). A client never shows a state that was not published, is
  never behind with nothing under way, and ends up current, through full queues,
  evicted replays, lost and refused connections, and a restart of the server whose new
  sequence numbers overlap the old ones.
- **Pages** (`desk`, `console`, `fleet`). A list, a lock status or a figure at rest is
  what the server would answer, except in the ways the properties name: somebody else
  changed it and no message told the page, an answer was read before a change and could
  not be asked again, an answer overtook or was overtaken by the channel. Those
  exceptions are variables of the models (`unseen`, `late`, `foreign`, `drift`,
  `unheard`), set by the steps that cause them, so that a page wrong for any other reason
  would be found.
- **Dialogs and loops** (`desk`, `drafts`). A dialog has one call under way and always
  ends it; decided approvals are never decided again by the server; an announced Apply
  was written.
- **Calendar** (`schedules`). Conflicts are exactly shared slots; an unchanged edit keeps
  the day, although the hour moves by the offset; and items are lost only to another tab
  or to a refused write: as long as neither came in between, a reload brings back what the
  tab showed and a write drops no stored item.
- **Office** (`office`). Nobody is drawn at work who is not; only observed ends make a
  worker leave; every trip ends but for two ways to get stuck, named in `Stuck`.
- **Browsing** (`browse`). Every hidden row can be brought back, figures count what the
  filter named like them leaves, and links arrive. Of the cards above tasks and approvals
  less is true, and the property says what: a task card counts what a click on it leaves,
  except "Needs Attention" always and "In Progress" until it is chosen, and the card of the
  approvals that is marked as chosen counts the queue under it (section 6).

Bounds, and why they are enough.

- `MaxWindows`: two windows are needed for a lost or a second budget, and for an open
  window that is not the latest. Budgets 1 and 2 have a last slot and one that is not.
- `MaxAttempts = 2`, two handlers, one or two intents: every property speaks of at most
  two attempts, intents or requests. `Receive` counts the requests that may still make
  an attempt, so the bound stops new requests and never a running one.
- One key: two requests with different keys never meet in the idempotency store, so a
  shared key is the interesting case. Two intents under one key are in `one_process`.
- Symmetry: handlers and intents of `one_process`, and the handlers of the server in
  `intents`, differ only in their names; neither run checks liveness.
- Replay 3, queue 2, wire 1, three changes: the queue overflows (a broadcast to a full
  queue and a replay longer than the queue), and the replay buffer evicts what a client
  asks for. Clients share only what is published, so one is enough.
- `MaxMishaps = 1`, `MaxInstances = 2`: one lost or refused connection, or a restart,
  at any point. `MaxHeartbeats = 1`: see section 4.
- `IntentEvents` lists what happens to intents besides execution; `serial` has all, the
  instances with two handlers or two processes only approvals.
- `MaxRecords = 5` of the audit ledger: the genesis record, an unlock request, and three
  operations, one for each handler, so that each order of three racing writers occurs.
- `desk`: the dispatch dialog needs a task to dispatch, the approval dialog a high-risk
  approval (phrase) and a low-risk one, a task with a gate and one without. A mishap
  is a change by somebody else or a lost answer, so three steps together are, for
  instance, a page turned, a call on it, and a change under that call. Others dispatch or
  cancel tasks and approve: a dialog then confirms a dispatch that the store refuses, or
  one that it carries out although the task is no longer what the dialog shows.
- `drafts`: one skill, because changes of different skills never meet; a profile with a
  recommendation and one without. `Bound = 3`: two
  tabs and a loop, two loops of one tab that was reloaded in between, or a refused write
  in place of one of these.
- `schedules`: a stored item and two writes, so that two created items meet, in one
  tab or in two, with either of the writes refused. The two tabs start alike, so they are
  interchangeable (symmetry; no liveness is checked). A
  positive offset is where a UTC date and a local date differ in the morning.
- `office`: `MaxChanges = 2` puts any two changes at any two moments of any journey; in
  `MCWorlds` one thing changes at a time, to values that each test in the code tells
  apart. `TripLegs = 2` has an inner point, rest and visit of one frame an expiry.
- `console`: `MaxCalls = 2` is an unlock and an Emergency Lock in either order. No
  retries: a retry is another fetch, which the routes already give. The routes are the
  safety page and one that does not show the lock; a page with a badge observes the same
  entry as the card and has no dialog, and what it would show is part of
  `StatusIsShownRight` on every route. Unlocks do not race in this instance;
  `StatusShown` (section 5) holds for those that do.
- `fleet`: each figure and list is patched per element, so one agent, alarm and
  delegation; two changes give an answer that tells the first or both. The gateway goes
  from healthy to a status that neither the pulse nor the badge calls so; the theorems
  speak of all statuses. `MaxLosses` is shared by lost sockets and failed requests.
- `browse`: `MaxSet = 2`, because filters are independent conjuncts: two can only
  exclude a row together or not. Each list is either full or without its first row. The
  tasks include one that "In Progress" counts and its click does not show.
- Deadlock is checked in the runs of the backend, `realtime`, `intents` and `console`;
  the others switch it off because their bounds on calls, changes or writes really end
  a behaviour.

## 4. Fairness

`Dispatch` (`two_processes`). `WF(Step(h))`: a handler that can take its next step does;
the Hermes process ends because its timeout is enforced, a statement that finds the
database busy gives up. `SF(CheckTarget(h))` and `SF(ResumeTransaction(h))`: a handler
whose await has ended is queued by the event loop and gets its turn, however often
others are run in between; weak fairness would allow the others to keep the loop from
it for ever. No fairness is assumed of operators, time, the reconciler or crashes.

`Realtime`. Weak fairness of the sampler (it loops), of a reading (it ends), of
delivery and acceptance, and of the client's timers and handlers. Nothing is assumed of
heartbeats, changes, losses or restarts; they are bounded, so that `EventuallyCurrent`
speaks of what happens once they stop. The bound on heartbeats is needed: with
unlimited heartbeats to a client that reads less than half of what is sent, the full
queue gives up its oldest message each time, and the `resync_required` the client
needs is itself pushed out by the next one. `docs/REALTIME_PROTOCOL_V1.md:224` says
that persistently stalled clients are disconnected; the branch that would do so is
reached only if a put fails directly after a removal, which it cannot.

Pages. `Desk`: `WF(CallSteps)`, `Drafts`: `WF(Loop)`, `Console`: weak fairness of serving and
delivering a request; in each, a request that is not lost is answered, and losing it is
an action too, whose answer is the error path. `Office`: `WF(Beat)`, a frame per
`requestAnimationFrame` while the tab is visible; `TripsEnd` therefore speaks of visible
tabs. `Schedules`, `IntentLifecycle`, `Fleet` and `Browse` have no fairness and no liveness
property.

## 5. The proofs

Assumptions on the constants are the named `ASSUME`s of the modules: finitely many
handlers and approvals, `ProcessOf` a function into the processes, distinct model values,
positive sizes, starting stores of their type, pages opened at addresses of the router
(`AddressAssumption` of `Desk`), items that are records (`ItemsAssumption`), risks the type
of an approval allows (`GateFactsAssumption`), names of agents that are no word for a
missing value (`NamesAssumption`), a "nothing chosen" that no menu offers and no tab is
called (`NoneAssumption`, `AddressAssumption` of `Browse`), ids of delegations that are
unique and different from those of agents, tasks that name delegations of the list
(`SceneAssumption`), and data of the office that are followed by such data
(`DataAssumption`). TLC evaluates each on the instances. Bounds
(`MaxAttempts`, `MaxWindows`, `Bounds`, `MaxRecords`, ...) are arbitrary naturals, so the
theorems hold for any length of run, any number of processes, handlers, tabs, clients,
tasks, approvals, filters and profiles.

| Module | Theorems |
|---|---|
| `ExecutionGateProofs` | `GateInvariance`, `GateTypeCorrect`, `BudgetsHold`, `OneWindow`, `LockClosesAll`, `OpenGateBounded`, `SpentStaysSpent`, `OpenIsLatest` (no racing unlocks), `GateImplementsBudget` |
| `DispatchProofs`, any number of processes | `DispatchUsesGate`, `GateHoldsInUse`, `DispatchInvariance`, `DispatchTypeCorrect`, `StoredAcknowledgementsHold`, `StartedAttemptsHold`, `SlotsAccounted`, `SlotsWithinBudgets`, `StoredResponsesHold` |
| `DispatchProofs`, with a hypothesis | `LedgerHolds`, `SettledStaysSettled` (`SafeReconcilers`); `ConcurrencyCap` (`OneProcess`) |
| `DispatchProofs`, requests whose reads are answered from memory | `FreshChecks`, `SlotForEveryAttempt` (`OneProcess`, no suspension); `ExecutionsBounded` (these two and no reconciler) |
| `OperatorProofs`, intents | `LifecycleInvariance`, `LifecycleTypeCorrect`, `ChainAlwaysVerifies`, `LedgerAlwaysTells`, `ReadyIsApproved` |
| `RealtimeProofs` | `RealtimeInvariance`, `RealtimeTypeCorrect`, `ViewsArePublished`, `QuietIsCurrent` |
| `DeskProofs` | `DeskInvariance`, `DeskTypeCorrect`, `OneCallHolds`, `DecisionsHold`, `ListsAreCurrent`, `ListsHold` (`NoTies`) |
| `OperatorProofs`, configuration | `DraftsInvariance`, `DraftsTypeCorrect`, `OneChangeHolds`, `PreviewHolds`, `AppliedHolds` and `ChangesKept` (no write refused) |
| `OperatorProofs`, calendar | `SchedulesInvariance`, `NothingLost`, `ConflictsShareSlots`, `EditKeepsDay` |
| `PagesProofs`, lock | `ConsoleInvariance`, `ConsoleTypeCorrect`, `StatusShown` |
| `PagesProofs`, live figures | `FleetInvariance`, `FleetTypeCorrect`, `FiguresHold`, `QuietPagesHold`, `DelegationsHold` |
| `BrowseProofs` | `BrowseInvariance`, `HiddenRowsCanBeShown`, `FilterFiguresHold`, `LinksArrive` |
| `OfficeProofs` | `OfficeInvariance`, `OfficeTellsTheTruth`, `ExitsHold` |

The hypotheses are stated in the theorems, because the properties fail without them:

- `SafeReconcilers`: one process with any number of reconcilers, or any number of
  processes while no reconciler runs. `RecordOther` writes the outcome of an attempt
  without looking at its state. That is safe while no reconciler can settle the attempt
  before its handler records it.
- `OneProcess`, no suspension, no reconciler: section 6 says what happens otherwise. A
  reconciler adds the receipt of an earlier attempt of unknown outcome, so that an intent
  retried meanwhile has two. Reads of the adapters do suspend (`adapters/sagara_jobs.py:225`),
  so the three theorems that exclude it are no statement about dispatch in general:
  they isolate the suspension as what breaks freshness, and are not among the results of
  `PROJECT.json`. What holds with it is `SlotsWithinBudgets`: attempts that took a slot never
  exceed the budget their window was opened with, while others take none.
- No write refused (`Answers \subseteq {"ok"}`): Apply does not look at the status of a
  response.
- `NoTies`: of approvals with one risk, expiry and time of request the code keeps the
  order of the answer, which the list of the model does not have, so that they would
  share a place.

The arguments.

- **Gate.** `GateInv` joins the state properties and two facts about rows: exactly the
  inserted rows have a state and a limit of at least one (`RowsInserted`), and an
  unlocked gate has a latest window (`UnlockedHasWindow`). `OpenGateIsBounded` follows
  from it. The refinement then goes action by action: `SlotsLeft` is well defined
  because at most one window is open.
- **Dispatch uses the gate.** `DispatchUsesGate`: every step of `Dispatch` is a step of
  `ExecutionGate` or leaves its tables alone. The commit that carries an expiry is the
  delicate one, since the status that asked for it may be long past. `TxnInv` says that
  an expiry carried by the open transaction is still due: nobody else can write while
  it is open, and time only makes it more due. Everything proved of the gate then holds
  in use (`GateHoldsInUse`).
- **Types.** `TypeOK` contains that receipts and evidence are of attempts whose process
  was started, so it is not inductive alone. `DispatchInv` adds what a handler's place
  says of its request and attempt (`HandlersInv`), that no two requests share an attempt
  (`AttemptsOwned`), that inserted attempts are complete (`AttemptsOnRecord`), and that
  the requests still to make one fit the bound (`PendingFit`).
- **Slots.** `SlotsAreAccounted` relates a counter to a cardinality; `SlotsInv` adds that
  rows not yet inserted hold no slot (`FreeRows`), so `Prepare` adds exactly one element
  to exactly one of the sets. With the budgets of the gate, `SlotsWithinBudgets` follows.
- **Ledger.** `InFlightFits`: until its handler records an outcome, an attempt can only
  have been settled by the reconciler; `StartedAttemptsHold` follows. Under
  `SafeReconcilers` not even that: an attempt that a handler is still going to record
  (`Unrecorded`) is `SUBMITTING` and its authorization `CLAIMED` (`OpenAttempts`). In one
  process the reconciler writes only while every handler is parked, and one that is
  parked with an attempt in hand holds the transaction, which keeps the reconciler out.
  With `UnusedRows` (rows not made yet have no state) this is inductive beside
  `LedgerAgrees`, as `LedgerInv`; `SettledForGood` follows from it step by step.
- **Responses.** `ResponsesInv`: the attempt of a request that is about to store its
  response is in the state the response tells, or reconciled (`RecordedKnown`), and no
  request still works on an attempt whose response is stored (`StoredUnowned`). So
  after `save_response` only the reconciler can change that attempt, and it settles
  outcomes that were unknown, which the property allows.
- **One event loop.** While a handler of the only process runs, every other one is parked
  (`Alone`) and makes no step (`WhileBusy`). So the room that `limits` found is still
  there at the insertion (`RoomForOne`), which is `ConcurrencyCap`. Without suspending
  reads no handler is ever parked inside a request (`Calm`), and what each check of the
  preflight found stays so until the insertion (`Fresh`): that gives `FreshChecks` and
  `SlotForEveryAttempt`. `ExecutionsBounded` adds that the intent of an attempt not yet
  recorded has no receipt (`Unreceipted`).
- **Intents.** `Chained`: the record in place k has the number k - 1 and holds the hash of
  the one before. An unlock request that read an older end finds its number taken, so it
  cannot break the chain; a verifier accepts every chain in this order. The other two
  follow the last verdict and the last decision of an intent through `Recorded`: an
  append changes them for its own intent only (`LastPlace` and its companions).
- **Realtime.** `LinksInv` describes each connection. `LinkFits`: messages are only where
  a socket is, and exist in the history of the instance at its end. `BaseFits`: a
  client without a base meets a snapshot, a demand to start over or an error first, or
  the server has published nothing. `SnapshotFirst`: a snapshot meets a client without a
  base, or is behind a demand to start over. `Told`: a client that is behind has a
  message of the last sequence, or such a demand, under way. Types need that a delta's
  number is in the history, the view needs that its head has the right base, quietness
  needs `Told`, and `Told` needs the other two, so all are proved together as
  `RealtimeInv`.
- **Lists of the pages.** `EntryOK` is what holds of a cache entry, on the screen or off
  it: an answer under way that is not late, and data that are not marked invalid, are the
  store's, unless a change waits to be heard of. The property speaks of the screen only,
  which is not inductive: an entry leaves the screen, is invalidated there, and comes
  back. Each operator of `QueryCache` has a lemma that says what it leaves of `EntryOK`
  (`MountedOK`, `LandedOK`, `InvalidatedOK`, ...). `UnseenFit` closes the gap between a
  change and its news: what a call changed is on record only while the call is carried
  out and not yet answered, and its answer invalidates that very list.
- **Dialogs.** `CallsFit`: a call whose dialog is still mounted is the one for which that
  dialog is busy, so a dialog that is not busy has none. `RenderFits` says that a render
  keeps this, whatever it unmounts. `DecisionsHold` needs the server's refusal only: all
  other steps leave the store alone or act on pending approvals.
- **Queue.** `BeforeOrders`: the comparator is a strict order, total under `NoTies`. `Ranks`:
  in such an order the number of elements before an element is an injection of a finite
  set into 1..n, hence a surjection.
- **Configuration.** Two changes of a skill in one changeset would make its replay depend
  on their order, so `Singles` is proved of tabs, of localStorage and of the batches being
  applied at once. `WrittenInv`: of a loop that no other ran beside, the changes of the
  profiles it has passed hold on the server; `AloneInv` keeps it from being disturbed.
- **Calendar.** `ShownInv`: a tab that is not adrift shows what is stored, or the defaults
  while nothing is, so `NothingLost` needs only what `Keep` and `Load` do to either. Lists hold
  the defaults and more, so `Earlier` is defined on them; the slot
  shared by two overlapping intervals is the later of their starts; the day of an edited
  item comes from `DayOfSlot`, division with remainder, for every offset.
- **Lock on the pages.** `AnswersFit`: an answer under way, or landed, is what the gate says
  unless something is on record that makes it out of date. `AnswersSound`: an answer that
  says unlocked names a window that had slots left, and what a window was granted never
  changes. The invariant of the gate (`ExecutionGateProofs`) is used as it stands.
- **Live figures.** What a page shows of an agent, an alarm or the active delegations is
  what was published last, unless an answer said otherwise (`unheard`), or a message not
  yet applied tells of it (`Told`): `ListFits`, `DetailsFit`, `AlarmsFit`, `WorkFits`.
  `WireFits`: each message starts where the one before it ended, and the last one ends at
  what was published, so a delta that does not name a thing leaves it equal at both
  ends. `FiguresFit` relates the entries that only the channel wrote. `QuietPagesAreCurrent`
  and `DelegationsAreCurrent` are the case in which nothing is left to be told.
- **Directory.** What a filter hides comes back by Reset or by an option of its menu: for
  each list, a case per filter. The figures are compared with the rows that the filter of
  the same name keeps, as sets, before they are counted. `LinksLand` is not inductive:
  while the link followed is the address (`Landed`), the address must be one the page
  can honour (`Honoured`, proved for every link of `Links`), and a table that opens a
  detail by itself must have no filter of its own left. That last part is no accident of
  the router: components keep their filters while they stay on the screen, and it holds
  because no link of the runtime page leads to a table of the runtime page.
- **Office.** `WorkerSeen`: a worker that is not leaving was last seen in an active
  delegation, and was shown at work only where it was seen running. The frame of a worker
  restores it from today's data; an exit is made only of delegations that ended, so the
  step that makes it leave has seen the end. A worker in a meeting is a running helper of
  the task (`MeetingRuns`). What is drawn between frames uses the data of now, with one
  exception that `BusyMeansBusy` names. The figures add up because a delegation has one
  place in the list and one parent: `RowsCountWorkers` is the bijection.

The gate's type, the budgets of windows, the single open window, the closed windows
under the emergency lock and the rule that a spent window stays spent are stated by
theorems alone (`GateTypeCorrect`, `BudgetsHold`, `OneWindow`, `LockClosesAll`,
`SpentStaysSpent`), like the types of the modules, `PreviewHolds`, `AppliedHolds`,
`SlotsWithinBudgets` and `SlotForEveryAttempt`: adding their properties to a `.cfg` of
section 3 checks them on
its instance too.

Only model-checked:

- liveness (`RequestsAreAnswered`, `EventuallyCurrent`, `DialogsSettle`, `ApplyEnds`, `TripsEnd`,
  `EmergencyLockIsShown`), which is beyond the prover together with `ENABLED`. Every other
  property of section 3 is a theorem, under the hypotheses above;
- `LedgerAgrees` and `SettledForGood` for a reconciler beside a second process, where no
  run claims them either.

Induction over data and recursive operators are out of the prover's reach; the models use
neither.

## 6. Where code and documents disagree

Met while modelling; the models follow the code. Where a definition in a module states
what the document says, checking it shows the behaviour.

### Execution and intents

- **A dispatch without a slot.** `docs/EXECUTION_KILL_SWITCH_RUNBOOK.md:84` says that an
  exhausted budget refuses every concurrent or further dispatch. The coordinator claims
  a slot only if it finds an open window (`task_dispatch_coordinator.py:216`), and looks
  after the catalogue reads have suspended: a window used up or closed meanwhile leaves
  none, and the dispatch goes on without a slot. `EveryAttemptHasSlot` in an instance
  like `MCDispatchSerial.cfg` with two handlers and `Suspends = TRUE` shows it.
- **The emergency lock and submissions in flight.** `docs/EXECUTION_KILL_SWITCH_RUNBOOK.md:110`
  says it stops them; nothing looks at the lock after the preflight
  (`LockStopsSubmissions`).
- **At most once.** `docs/API_CONTRACT_V1_1_PROPOSAL.md:86`; two requests, even with one key,
  pass the receipt check before either has a receipt (`final_preflight_service.py:136`).
  `OneReceiptPerIntent` with two handlers and suspension shows it.
- **No blind retries.** `docs/HERMES_EXECUTION_MODEL.md:117`; earlier attempts are not looked
  at (`NoRetryAfterUnknown`).
- **`FAILED_PRE_SUBMISSION` means not executed.** `docs/HERMES_EXECUTION_MODEL.md:80`; a
  non-zero exit without a session line is recorded so (`FailedMeansNotStarted`).
- **One winner.** `docs/APPROVAL_POLICY_V1.md:65` says exactly one caller decides an intent.
  Two processes both do: the status is read on one connection and written on another
  without a test. The ledger has both decisions, which is what `LedgerTellsDecisions`
  says.
- An intent in state `CANCELLED` may be approved, one in `EXPIRED` or `CANCELLED` rejected;
  a preflight of a rejected intent revives it; one that suspended across a cancellation
  can write `READY_TO_EXECUTE` over it; `request_approval` from `READY_TO_EXECUTE` sets the
  approval back to `PENDING` while the decision stays. `ReadyMeansApproved` says what
  remains true.
- `execution_readiness_service.py:284` selects a column `remaining_executions` that no
  table has, so the readiness report counts no open window; `broadcast_event`
  (`execution_lock_service.py:290`) exists on no realtime manager, so no page is told of a
  lock or unlock.

### Realtime and live figures

- `realtime-client.ts:57` says a snapshot or heartbeat confirms the connection; only a
  snapshot does, and after a replay the user goes on seeing RECONNECTING
  (`HeartbeatsConfirm`).
- "UNKNOWN is not zero" (`api/mappers/common.mapper.ts:28`), but the snapshot over HTTP has
  none of the counts of the pulse (`services/mission_control.py:85`), and
  `mission-control.mapper.ts:49` shows 0 for each, with "Queue clear" beside a queue that
  has items.
- Severities are upper case in the backend and lower case in the mapper, so every alarm
  is "medium", the critical count 0, and the order that `AttentionQueue.tsx:27` promises
  never applies. The gateway mapper reads `state`, the backend sends `status`: UNKNOWN
  after every HTTP answer.
- A snapshot cuts the list of delegations to the active ones (`realtime-cache.ts:39`); a
  delta to a list that was not loaded makes a list of the changed agents only; the
  detail of an agent that went between two snapshots stays cached. An answer that told
  something the sampler never published stays until that item changes again.

### Pages

- **Lock.** Readiness and principal arrive in snake case and are read in camel case
  (`api/actionSafety.ts:266`), so the console always says "EXECUTION ARMED: NO". The page
  header, the policy card and the badge of the shell say LOCKED whatever the lock says.
  A window is counted while an expired or spent one keeps the gate locked. An unlock
  dialog opened again is closed, or given an error, by the answer to the earlier call.
  A failed Emergency Lock only reaches the browser's log.
- **Configuration.** The comment at `SkillMatrixView.tsx:32` says the matrix shows staged
  changes; its memo does not depend on them (`:41`). `MatrixShowsDrafts` with the view
  "matrix" in `MCDrafts.cfg` shows it. Apply ends by discarding all drafts, also those
  staged while it ran, takes the bodies from the agents of its render, and does not look
  at the status of a response (`ConfigurationChangesModal.tsx:47`); `AppliedMeansWritten`
  speaks of answered writes of a loop without a rival.
- **Dispatch from the Tasks page.** The dialog takes a task for dispatched when it is
  COMPLETED, DISPATCHING or RUNNING, the mock provider likewise (`api/provider.ts:591`), but
  the server's store refuses only the last two (`adapters/sagara_jobs.py:292`): a dialog that
  was opened before a task was cancelled or completed dispatches it all the same. The test
  is of a state read before a thread ended, so two dispatches of one native or cron task
  may both be carried out.
- **Local storage.** `features/schedule/store.ts:147` and
  `features/agent-config/draft-store.ts:19` ignore a write that fails, and the page shows the
  item or the change as if it were kept; a reload shows that it was not. Two tabs write over
  each other's lists without notice.
- **Strips.** "Needs Attention" counts three states and filters by `ATTENTION`, which is the
  state of no task, so a click on it empties the list (`TaskSummary.tsx:54`); "In Progress"
  counts three states and filters by one (`:46`). The strip counts the list the server
  filtered already, so with a state chosen the cards that do not count it are 0. The cards
  of the approvals count states and filter by risk (`ApprovalSummary.tsx:38`): "Approved Today" and "Rejected
  Today" take the risk filter away and count every day, and "High / Critical Risk" counts two
  risks and chooses one.
- **Office.** A worker keeps its place while the dock beside it moves up
  (`controller.ts:87`), so two may stand at one place. A desk that moves while its agent
  returns, and a delegation that runs again while its worker leaves, leave a character
  stuck (`Stuck`). `UNKNOWN` also makes a worker leave, against the comment at
  `controller.ts:112`; a worker whose delegation is no longer listed is drawn as it was
  (`OfficeCharacterLayer.tsx:86`). Five zones that the filter offers have no desk
  (`OfficeControls.tsx:57`); the failed tasks of the banner are always none.
- **Links.** `useEntityDetailNavigation.ts:40` removes open details "to prevent stacking";
  `RuntimePage.tsx:239` and `:251` do the same by three updates of one tick, of which the
  last counts: the first modal stays under the second and the tab does not change.
  `SchedulePage.tsx:381` and `ProfileRuntimeTab.tsx:31` set `agent` on pages that do not
  read it, and open nothing. `SessionRelatedTab.tsx:140` is a plain anchor: it reloads.
- **Filters.** Delegations in state UNKNOWN and cancelled approvals cannot be chosen;
  the agents' menu of phones lacks two states; the "Running" card counts three states
  and links to one; the "Approval" card counts tasks and opens the approvals; the
  search of tasks and approvals is ignored by the server; relative times of
  `ActivityPage.tsx` count from a fixed day.

## 7. What is not modelled, and what the models leave out

Not modelled:

- tool security and resource registry (pure validation; `Dispatch` takes the refusal as
  an outcome), execution readiness (a report), the seeder (one-shot, sequential), the
  adapters to Hermes and the host (parsing of other programs' files);
- the catalogue of tasks and the in-memory stores behind it, but for what the pages meet of
  them in `Desk`: dispatch, creation, and decisions of approvals. `update_task`
  (`adapters/sagara_jobs.py:252`) writes a merged copy of what it read before a
  suspension, and two updates of one task lose one as the code stands;
- derivation of runtime states from evidence (pure);
- drawing: the 3D renderer, palettes, desks and avatars, pan and zoom of the viewport;
- drawers and dialogs without a caller (`TaskDetailDrawer`, `ApprovalDetailDrawer`,
  `AgentDetailDrawer`, `DelegationDetailDrawer`, `SessionDetailDrawer`, `SkillDetailDrawer`,
  `ActionReviewModal`, `ExecutionConfirmModal`, `MetricCard`), and cards with fixed texts
  (`SecondProfileReadinessCard`, `ToolSecurityPolicyCard`);
- panels of usage, cost, services and governance, what is printed inside a detail, the
  readiness query, mock mode outside the Tasks and Approvals pages.

Left out of the models:

- `Dispatch`: prompt text, hashes, signatures and audit content; limits per profile and
  per minute (they may block, like the tool policy, by the free choice of
  `CheckTarget`); installation of policies; expiry of authorizations (issued and claimed
  in one transaction); commit failures other than "busy" and "receipt exists".
- `Dispatch` with two processes and a reconciler: the reconciler of a second process is
  covered by `one_process` only as far as it interleaves between suspension points.
- `IntentLifecycle`: `preflight_revision`, which only refuses more; recomputed hashes.
- `Realtime`: the reading of a snapshot counts as one instant, although it is several
  awaits; capacity is an outcome; a client has one socket (`disconnect()` has no caller
  in the application, and one layout mounts the hook; a remount while the old socket
  closes could open a second). The reading a connection makes for itself before the
  first sample may be published after a newer one of the sampler: the model has it, and
  it is why `EventuallyCurrent` and not a monotone view is claimed.
- `Desk`: free text search; tabs inside a dialog. A task that was dispatched is listed by
  the server beside the native or cron job it was copied from, under one id; the model has
  the copy, which the code finds first. Ids of created tasks are taken as fresh, although
  `create_task` (`adapters/sagara_jobs.py:235`) counts the local tasks and may give an id
  again after a deletion. A request is not lost between the server's read and its write.
  The audit and activity records of a dispatch, and the `hermes cron` call it starts, change
  nothing on these pages. Queries fail for good only as a
  counted mishap, and the retry before it is a step.
- `Drafts`: a write that the server refuses (`Answers = {"ok"}` in the instance): section 6.
- `Schedules`: items whose end is not after their start are left out of the conflicts
  that are compared; recurrence, type and notes are carried along; `deleteSchedule` and
  `resetToDefaults` have no caller.
- `Office`: points between two corners of a route; speeds.
- `Console`: permissions, the typed phrase, other queries the same mutations refetch. The
  answer when the database cannot be read or the expiry not be written
  (`execution_lock_service.py:86` and `:98`: locked, no window, and the status `UNKNOWN` if
  the row cannot be read either) is left out of `Inspect`: it fails closed, and such an
  answer would stay on a settled page until the next one.
- `Fleet`: the runtime overview and its summary, health, models, token totals.
- `Browse`: the profile that the configuration page picks by itself; links of review
  items, which carry no entity over HTTP; lists of tasks and approvals are filtered by
  the server, as `TasksPage.tsx` and `ApprovalsPage.tsx` ask it to.

## 8. The plan

Done since the first version: intents with their suspensions and the audit ledger,
the pages with the cache behind them, the office, the lock on the pages, the live
figures, and the links between pages; proofs of all safety properties of dispatch,
intents, the realtime channel, the Tasks and Approvals pages, the configuration, the
calendar, the lock on the pages, the live figures, the directory and the office. What is
left, in order:

1. `AtMostOnce`, an abstract specification of execution (an intent is executed or not,
   once), implemented by serial dispatch; `ExecutionsBounded` and `FreshChecks` are the
   invariants its refinement rests on.
2. `TaskCatalogue`: revisions, idempotency keys, `update_task` with its suspending read.
3. `ExecutionPolicy`: installation racing dispatch, limits per profile and per minute.
4. `RuntimeState`: the derivation of agent states as operators, against a reference
   definition, over all evidence of a small domain.
5. The runtime overview and the readiness report in `Fleet` and `Console`.
