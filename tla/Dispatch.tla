------------------------------ MODULE Dispatch ------------------------------
(***************************************************************************)
(* Controlled execution of approved intents: the requests that run         *)
(* TaskDispatchCoordinator.execute_task_dispatch, with the idempotency     *)
(* store, the final preflight, the executor and the reconciler they meet,  *)
(* over one control database shared by one or more processes.              *)
(*                                                                         *)
(* Concurrency.  A process runs an event loop: a handler keeps it from one *)
(* suspension point (an await that really suspends) to the next, and the   *)
(* suspension points of execute_task_dispatch are the reads of the task    *)
(* and profile catalogues in the final preflight and in update_task.       *)
(* Handlers of different processes interleave at every database statement. *)
(* All handlers of a process share one connection, so they see each        *)
(* other's uncommitted writes; a second BEGIN on it fails.                 *)
(*                                                                         *)
(* A step per database statement or external call; pc[h] names the next    *)
(* one.                                                                    *)
(***************************************************************************)
EXTENDS ExecutionGate, ActionIntent

CONSTANTS
  Processes, Handlers, Reconcilers,
  ProcessOf,       \* the process each handler and reconciler runs in
  Keys,            \* Idempotency-Key values
  None,            \* no intent, no key, no handler
  MaxAttempts,     \* bound: attempts ever made
  MaxConcurrency,  \* max_global_concurrency of the installed policy
  Suspends,        \* do the catalogue reads suspend (a task or profile that
                   \* is not in the process's memory is read in a thread)
  IntentEvents     \* bound: what happens to intents besides being executed

ASSUME DispatchAssumption ==
  /\ IsFiniteSet(Handlers)
  /\ ProcessOf \in [Handlers \cup Reconcilers -> Processes]
  /\ None \notin Intents \cup Keys \cup Handlers
  /\ MaxAttempts \in Nat
  /\ MaxConcurrency \in Nat \ {0}
  /\ Suspends \in BOOLEAN

VARIABLES
  pc,          \* the next step of each handler
  intent,      \* the intent each request names
  key,         \* the Idempotency-Key each request carries
  blocked,     \* has the final preflight found a blocking reason
  attempt,     \* the attempt each request made, 0 before it makes one
  outcome,     \* what the executor returned
  made,        \* number of rows in execution_attempts; attempt a is the a-th
               \* one inserted, and the next four are its columns
  attemptOf,   \* intent_id
  slot,        \* the window whose slot it claimed, 0 if none was open
  attemptState,\* state
  authState,   \* state of the authorization issued with it
  receipts,    \* the attempts with a row in execution_receipts
  ran,         \* the attempts whose Hermes process was started
  aged,        \* the attempts created more than 600 seconds ago
  writer,      \* the handler suspended inside an open write transaction
  txnExpires,  \* does that transaction carry an expiry of stale windows
  reply,       \* idempotency_records of scope "task_execution"
  found        \* the attempt each reconciler has evidence for, 0 if none

handlerVars == <<pc, intent, key, blocked, attempt, outcome>>
attemptVars == <<made, attemptOf, slot, attemptState, authState, receipts, ran, aged>>
txnVars     == <<writer, txnExpires>>
dispatchVars == <<handlerVars, attemptVars, txnVars, reply, found>>
vars == <<gateVars, intentVars, dispatchVars>>

Attempts == 1 .. MaxAttempts

NoReply == [attempt |-> 0, outcome |-> "NONE", expired |-> FALSE]

DispatchInit ==
  /\ pc = [h \in Handlers |-> "idle"]
  /\ intent = [h \in Handlers |-> None]
  /\ key = [h \in Handlers |-> None]
  /\ blocked = [h \in Handlers |-> FALSE]
  /\ attempt = [h \in Handlers |-> 0]
  /\ outcome = [h \in Handlers |-> "NONE"]
  /\ made = 0
  /\ attemptOf = [a \in Attempts |-> None]
  /\ slot = [a \in Attempts |-> 0]
  /\ attemptState = [a \in Attempts |-> "NONE"]
  /\ authState = [a \in Attempts |-> "NONE"]
  /\ receipts = {}
  /\ ran = {}
  /\ aged = {}
  /\ writer = None
  /\ txnExpires = FALSE
  /\ reply = [k \in Keys |-> NoReply]
  /\ found = [r \in Reconcilers |-> 0]

Init == GateInit /\ IntentInit /\ DispatchInit

-----------------------------------------------------------------------------
\* The event loop and the shared connection.

\* Where a handler leaves its event loop to others.
Parked == {"idle", "awaitTarget", "awaitUpdate"}

LoopFree(p) == \A h \in Handlers : ProcessOf[h] = p => pc[h] \in Parked

\* h may take its next step: no other handler of its process is between two
\* suspension points.
Runs(h) ==
  \A g \in Handlers \ {h} : ProcessOf[g] = ProcessOf[h] => pc[g] \in Parked

SomeLoopFree == \E p \in Processes : LoopFree(p)

\* The attempt whose acknowledgement is written but not committed, where the
\* connection of process p shows it.
Uncommitted(p) ==
  {attempt[g] : g \in {x \in Handlers : x = writer /\ ProcessOf[x] = p}}

Goto(h, step) == pc' = [pc EXCEPT ![h] = step]

\* The request ends: with a response, an error, or the death of its process.
End(hs) ==
  /\ pc' = [h \in Handlers |-> IF h \in hs THEN "idle" ELSE pc[h]]
  /\ intent' = [h \in Handlers |-> IF h \in hs THEN None ELSE intent[h]]
  /\ key' = [h \in Handlers |-> IF h \in hs THEN None ELSE key[h]]
  /\ blocked' = [h \in Handlers |-> h \notin hs /\ blocked[h]]
  /\ attempt' = [h \in Handlers |-> IF h \in hs THEN 0 ELSE attempt[h]]
  /\ outcome' = [h \in Handlers |-> IF h \in hs THEN "NONE" ELSE outcome[h]]

\* The preflight goes on whatever a check says; it adds up the reasons.
Check(h, reason, step) ==
  /\ blocked' = [blocked EXCEPT ![h] = @ \/ reason]
  /\ Goto(h, step)
  /\ UNCHANGED <<intent, key, attempt, outcome>>

-----------------------------------------------------------------------------
\* execute_task_dispatch, one step at a time.

\* POST /action-intents/{id}/execute arrives, first or repeated.
Receive(h) ==
  /\ pc[h] = "idle" /\ Runs(h)
  /\ made + Cardinality({g \in Handlers : pc[g] # "idle" /\ attempt[g] = 0}) < MaxAttempts
  /\ \E i \in Intents, k \in Keys :
       /\ intent' = [intent EXCEPT ![h] = i]
       /\ key' = [key EXCEPT ![h] = k]
  /\ Goto(h, "idempotency")
  /\ UNCHANGED <<blocked, attempt, outcome, gateVars, intentVars, attemptVars, txnVars, reply, found>>

\* 1. A stored response is returned; a key used for another intent is refused
\* even when its record has expired.
CheckIdempotency(h) ==
  /\ pc[h] = "idempotency" /\ Runs(h)
  /\ LET r == reply[key[h]]
         answered == r.attempt # 0 /\ (attemptOf[r.attempt] = intent[h] => ~r.expired)
     IN  IF answered THEN End({h})
         ELSE Goto(h, "load") /\ UNCHANGED <<intent, key, blocked, attempt, outcome>>
  /\ UNCHANGED <<gateVars, intentVars, attemptVars, txnVars, reply, found>>

\* Mutant: the preflight takes the status for granted.
LoadIntentUnchecked(h) ==
  /\ pc[h] = "load" /\ Runs(h)
  /\ Check(h, FALSE, "approval")
  /\ UNCHANGED <<gateVars, intentVars, attemptVars, txnVars, reply, found>>

\* 2. get_intent, then the status check of the preflight on what it returned.
\* It expires a late intent in a connection of its own.
LoadIntent(h) ==
  /\ pc[h] = "load" /\ Runs(h)
  /\ IF Expires(intent[h]) THEN writer = None /\ WriteExpired(intent[h])
     ELSE UNCHANGED intentVars
  /\ Check(h, Seen(intent[h]) # "READY_TO_EXECUTE", "approval")
  /\ UNCHANGED <<gateVars, attemptVars, txnVars, reply, found>>

\* The request carries another revision in If-Match, or the expiry cannot be
\* written because a transaction is open.
LoadFails(h) ==
  /\ pc[h] = "load" /\ Runs(h)
  /\ End({h})
  /\ UNCHANGED <<gateVars, intentVars, attemptVars, txnVars, reply, found>>

\* Preflight checks 3 and 5: time limit and approval record.
CheckApproval(h) ==
  /\ pc[h] = "approval" /\ Runs(h)
  /\ Check(h, intent[h] \in late \/ decision[intent[h]] # "APPROVE", "gate")
  /\ UNCHANGED <<gateVars, intentVars, attemptVars, txnVars, reply, found>>

\* Preflight check 7.  Asking for the status expires the window it finds past
\* its limit: at once; inside the transaction another handler of this process
\* has left open; or not at all when another process is writing.
CheckGate(h) ==
  /\ pc[h] = "gate" /\ Runs(h)
  /\ Check(h, GateLocked, "receipt")
  /\ LET expires == ReachesExpiryCheck /\ latest \in timedOut
         inTransaction == Uncommitted(ProcessOf[h]) # {}
     IN  /\ IF expires /\ writer = None THEN StatusExpiresWindows ELSE UNCHANGED gateVars
         /\ txnExpires' = (txnExpires \/ (expires /\ inTransaction))
  /\ UNCHANGED <<intentVars, attemptVars, writer, reply, found>>

\* Mutant: the preflight does not look for a receipt.
CheckReceiptNever(h) ==
  /\ pc[h] = "receipt" /\ Runs(h)
  /\ Check(h, FALSE, IF Suspends THEN "awaitTarget" ELSE "target")
  /\ UNCHANGED <<gateVars, intentVars, attemptVars, txnVars, reply, found>>

\* Preflight check 9: has the intent a receipt already, committed or shown by
\* the shared connection.
CheckReceipt(h) ==
  /\ pc[h] = "receipt" /\ Runs(h)
  /\ Check(h, \E a \in receipts \cup Uncommitted(ProcessOf[h]) : attemptOf[a] = intent[h],
           IF Suspends THEN "awaitTarget" ELSE "target")
  /\ UNCHANGED <<gateVars, intentVars, attemptVars, txnVars, reply, found>>

\* Preflight checks 10 to 12: task, profile, policy and the limits per profile
\* may each give a reason.
CheckTarget(h) ==
  /\ pc[h] \in {"target", "awaitTarget"} /\ Runs(h)
  /\ \E reason \in BOOLEAN : Check(h, reason, "limits")
  /\ UNCHANGED <<gateVars, intentVars, attemptVars, txnVars, reply, found>>

\* The attempts check_concurrency_and_rate_limits counts.
InFlight == {a \in Attempts : attemptState[a] = "SUBMITTING" /\ a \notin aged}

\* Mutant: the concurrency limit is off by one.
CheckLimitsOffByOne(h) ==
  /\ pc[h] = "limits" /\ Runs(h)
  /\ IF blocked[h] \/ Cardinality(InFlight \ Uncommitted(ProcessOf[h])) > MaxConcurrency
     THEN End({h})
     ELSE Goto(h, "prepare") /\ UNCHANGED <<intent, key, blocked, attempt, outcome>>
  /\ UNCHANGED <<gateVars, intentVars, attemptVars, txnVars, reply, found>>

\* The global concurrency limit, then the verdict of the whole preflight.
CheckLimits(h) ==
  /\ pc[h] = "limits" /\ Runs(h)
  /\ LET active == InFlight \ Uncommitted(ProcessOf[h])
     IN  IF blocked[h] \/ Cardinality(active) >= MaxConcurrency
         THEN End({h})
         ELSE Goto(h, "prepare") /\ UNCHANGED <<intent, key, blocked, attempt, outcome>>
  /\ UNCHANGED <<gateVars, intentVars, attemptVars, txnVars, reply, found>>

\* Mutant: the attempt is inserted after the executor returns, not before.
PrepareUnsaved(h) ==
  /\ pc[h] = "prepare" /\ Runs(h) /\ writer = None
  /\ made' = made + 1
  /\ \E w \in ActiveWindows : ClaimSlot(w) /\ slot' = [slot EXCEPT ![made + 1] = w]
  /\ attemptOf' = [attemptOf EXCEPT ![made + 1] = intent[h]]
  /\ authState' = [authState EXCEPT ![made + 1] = "CLAIMED"]
  /\ attempt' = [attempt EXCEPT ![h] = made + 1]
  /\ Goto(h, "submit")
  /\ UNCHANGED <<intent, key, blocked, outcome, intentVars, attemptState, receipts, ran, aged,
                 txnVars, reply, found>>

\* 4. The preparation transaction: claim a slot of the open window if there is
\* one, issue and claim an authorization, insert the attempt.
Prepare(h) ==
  /\ pc[h] = "prepare" /\ Runs(h) /\ writer = None
  /\ made' = made + 1
  /\ \/ \E w \in ActiveWindows : ClaimSlot(w) /\ slot' = [slot EXCEPT ![made + 1] = w]
     \/ ActiveWindows = {} /\ UNCHANGED <<gateVars, slot>>
  /\ attemptOf' = [attemptOf EXCEPT ![made + 1] = intent[h]]
  /\ attemptState' = [attemptState EXCEPT ![made + 1] = "SUBMITTING"]
  /\ authState' = [authState EXCEPT ![made + 1] = "CLAIMED"]
  /\ attempt' = [attempt EXCEPT ![h] = made + 1]
  /\ Goto(h, "submit")
  /\ UNCHANGED <<intent, key, blocked, outcome, intentVars, receipts, ran, aged, txnVars, reply, found>>

\* Mutant: a failure after the claim is not rolled back.
PrepareFailsAfterClaim(h) ==
  /\ pc[h] = "prepare" /\ Runs(h) /\ writer = None
  /\ \E w \in ActiveWindows : ClaimSlot(w)
  /\ End({h})
  /\ UNCHANGED <<intentVars, attemptVars, txnVars, reply, found>>

\* Mutant: the handler waits for a slot instead of failing.
PrepareWaits(h) ==
  /\ pc[h] = "prepare" /\ Runs(h) /\ writer # None
  /\ End({h})
  /\ UNCHANGED <<gateVars, intentVars, attemptVars, txnVars, reply, found>>

\* The open window cannot be claimed, or the transaction cannot begin.
PrepareFails(h) ==
  /\ pc[h] = "prepare" /\ Runs(h)
  /\ writer # None \/ \E w \in ActiveWindows : ~Claimable(w)
  /\ End({h})
  /\ UNCHANGED <<gateVars, intentVars, attemptVars, txnVars, reply, found>>

\* 5. The tool policy refuses, or the tool fails: the attempt stays SUBMITTING.
RefuseTool(h) ==
  /\ pc[h] = "submit" /\ Runs(h)
  /\ End({h})
  /\ UNCHANGED <<gateVars, intentVars, attemptVars, txnVars, reply, found>>

\* The executor starts Hermes ...
Spawn(h) ==
  /\ pc[h] = "submit" /\ Runs(h)
  /\ ran' = ran \cup {attempt[h]}
  /\ Goto(h, "hermes")
  /\ UNCHANGED <<intent, key, blocked, attempt, outcome, gateVars, intentVars, made, attemptOf,
                 slot, attemptState, authState, receipts, aged, txnVars, reply, found>>

\* ... or cannot: no binary, no profile directory, no process.
NotSpawned(h) ==
  /\ pc[h] = "submit" /\ Runs(h)
  /\ outcome' = [outcome EXCEPT ![h] = "FAILED_PRE_SUBMISSION"]
  /\ Goto(h, "record")
  /\ UNCHANGED <<intent, key, blocked, attempt, gateVars, intentVars, attemptVars, txnVars, reply, found>>

\* Hermes ends or times out: a session receipt, a failing exit without one, or
\* neither of the two.
HermesOutcomes == {"ACKNOWLEDGED", "FAILED_PRE_SUBMISSION", "OUTCOME_UNKNOWN"}

Return(h) ==
  /\ pc[h] = "hermes" /\ Runs(h)
  /\ \E o \in HermesOutcomes : outcome' = [outcome EXCEPT ![h] = o]
  /\ Goto(h, "record")
  /\ UNCHANGED <<intent, key, blocked, attempt, gateVars, intentVars, attemptVars, txnVars, reply, found>>

\* 6. The recording transaction for an acknowledged outcome commits: receipt,
\* consumed authorization, attempt, and whatever the transaction carried.
CommitAcknowledged(h) ==
  /\ receipts' = receipts \cup {attempt[h]}
  /\ attemptState' = [attemptState EXCEPT ![attempt[h]] = "ACKNOWLEDGED"]
  /\ authState' = [authState EXCEPT ![attempt[h]] = IF @ = "CLAIMED" THEN "CONSUMED" ELSE @]
  /\ windowState' = IF txnExpires THEN ExpireStaleWindows ELSE windowState
  /\ writer' = None
  /\ txnExpires' = FALSE
  /\ Goto(h, "reply")
  /\ UNCHANGED <<intent, key, blocked, attempt, outcome, lock, opened, consumed, granted, latest,
                 timedOut, intentVars, made, attemptOf, slot, ran, aged, reply, found>>

RecordAcknowledged(h) ==
  /\ pc[h] = "record" /\ Runs(h) /\ writer = None
  /\ outcome[h] = "ACKNOWLEDGED"
  /\ attempt[h] \notin receipts
  /\ CommitAcknowledged(h)

\* update_task reads a task the process does not hold: the handler suspends
\* with the transaction open.
SuspendInTransaction(h) ==
  /\ pc[h] = "record" /\ Runs(h) /\ writer = None
  /\ outcome[h] = "ACKNOWLEDGED"
  /\ attempt[h] \notin receipts
  /\ Suspends
  /\ writer' = h
  /\ Goto(h, "awaitUpdate")
  /\ UNCHANGED <<intent, key, blocked, attempt, outcome, gateVars, intentVars, attemptVars,
                 txnExpires, reply, found>>

ResumeTransaction(h) ==
  /\ pc[h] = "awaitUpdate" /\ Runs(h)
  /\ CommitAcknowledged(h)

\* Mutant: an unknown outcome is reported but not recorded.
RecordOtherIfFailed(h) ==
  /\ pc[h] = "record" /\ Runs(h) /\ writer = None
  /\ outcome[h] # "ACKNOWLEDGED"
  /\ attemptState' = [attemptState EXCEPT ![attempt[h]] =
                        IF outcome[h] = "FAILED_PRE_SUBMISSION" THEN outcome[h] ELSE @]
  /\ Goto(h, "reply")
  /\ UNCHANGED <<intent, key, blocked, attempt, outcome, gateVars, intentVars, made, attemptOf,
                 slot, authState, receipts, ran, aged, txnVars, reply, found>>

\* Any other outcome overwrites the attempt's state.
RecordOther(h) ==
  /\ pc[h] = "record" /\ Runs(h) /\ writer = None
  /\ outcome[h] # "ACKNOWLEDGED"
  /\ attemptState' = [attemptState EXCEPT ![attempt[h]] = outcome[h]]
  /\ Goto(h, "reply")
  /\ UNCHANGED <<intent, key, blocked, attempt, outcome, gateVars, intentVars, made, attemptOf,
                 slot, authState, receipts, ran, aged, txnVars, reply, found>>

\* Mutant: a failed recording is swallowed and answered as a success.
RecordFailsSilently(h) ==
  /\ pc[h] = "record" /\ Runs(h) /\ writer # None
  /\ Goto(h, "reply")
  /\ UNCHANGED <<intent, key, blocked, attempt, outcome, gateVars, intentVars, attemptVars,
                 txnVars, reply, found>>

\* The transaction cannot begin, or the attempt has a receipt already and the
\* insertion fails: the error leaves the attempt as it is.
RecordFails(h) ==
  /\ pc[h] = "record" /\ Runs(h)
  /\ writer # None \/ (outcome[h] = "ACKNOWLEDGED" /\ attempt[h] \in receipts)
  /\ End({h})
  /\ UNCHANGED <<gateVars, intentVars, attemptVars, txnVars, reply, found>>

\* The response is stored under the key, replacing any other, and returned.
SaveReply(h) ==
  /\ pc[h] = "reply" /\ Runs(h) /\ writer = None
  /\ reply' = [reply EXCEPT ![key[h]] =
                 [attempt |-> attempt[h], outcome |-> outcome[h], expired |-> FALSE]]
  /\ End({h})
  /\ UNCHANGED <<gateVars, intentVars, attemptVars, txnVars, found>>

SaveReplyFails(h) ==
  /\ pc[h] = "reply" /\ Runs(h) /\ writer # None
  /\ End({h})
  /\ UNCHANGED <<gateVars, intentVars, attemptVars, txnVars, reply, found>>

Step(h) ==
  \/ CheckIdempotency(h) \/ LoadIntent(h) \/ LoadFails(h)
  \/ CheckApproval(h) \/ CheckGate(h) \/ CheckReceipt(h) \/ CheckTarget(h) \/ CheckLimits(h)
  \/ Prepare(h) \/ PrepareFails(h)
  \/ RefuseTool(h) \/ NotSpawned(h) \/ Spawn(h) \/ Return(h)
  \/ RecordAcknowledged(h) \/ SuspendInTransaction(h) \/ ResumeTransaction(h)
  \/ RecordOther(h) \/ RecordFails(h)
  \/ SaveReply(h) \/ SaveReplyFails(h)

-----------------------------------------------------------------------------
\* ReconciliationService.reconcile_attempt.

\* It reads an unsettled attempt and finds direct evidence of its session.
FindEvidence(r) ==
  /\ found[r] = 0 /\ LoopFree(ProcessOf[r])
  /\ \E a \in ran :
       /\ attemptState[a] \notin {"ACKNOWLEDGED", "RECONCILED"}
       /\ found' = [found EXCEPT ![r] = a]
  /\ UNCHANGED <<gateVars, intentVars, handlerVars, attemptVars, txnVars, reply>>

\* Mutant: the reconciler replaces a receipt that exists.
ReconcileReplacing(r) ==
  /\ found[r] # 0 /\ LoopFree(ProcessOf[r]) /\ writer = None
  /\ receipts' = receipts \cup {found[r]}
  /\ attemptState' = [attemptState EXCEPT ![found[r]] = "RECONCILED"]
  /\ found' = [found EXCEPT ![r] = 0]
  /\ UNCHANGED <<gateVars, intentVars, handlerVars, made, attemptOf, slot, authState, ran, aged,
                 txnVars, reply>>

\* Mutant: the reconciler records an acknowledgement.
ReconcileAcknowledges(r) ==
  /\ found[r] \notin receipts \cup {0} /\ LoopFree(ProcessOf[r]) /\ writer = None
  /\ receipts' = receipts \cup {found[r]}
  /\ attemptState' = [attemptState EXCEPT ![found[r]] = "ACKNOWLEDGED"]
  /\ found' = [found EXCEPT ![r] = 0]
  /\ UNCHANGED <<gateVars, intentVars, handlerVars, made, attemptOf, slot, authState, ran, aged,
                 txnVars, reply>>

\* Its transaction tests nothing but the uniqueness of the receipt.
Reconcile(r) ==
  /\ found[r] \notin receipts \cup {0} /\ LoopFree(ProcessOf[r]) /\ writer = None
  /\ receipts' = receipts \cup {found[r]}
  /\ attemptState' = [attemptState EXCEPT ![found[r]] = "RECONCILED"]
  /\ found' = [found EXCEPT ![r] = 0]
  /\ UNCHANGED <<gateVars, intentVars, handlerVars, made, attemptOf, slot, authState, ran, aged,
                 txnVars, reply>>

ReconcileFails(r) ==
  /\ found[r] # 0 /\ LoopFree(ProcessOf[r])
  /\ writer # None \/ found[r] \in receipts
  /\ found' = [found EXCEPT ![r] = 0]
  /\ UNCHANGED <<gateVars, intentVars, handlerVars, attemptVars, txnVars, reply>>

-----------------------------------------------------------------------------
\* What operators do, from a process whose loop is free.  Each operation is a
\* request with a connection of its own.  None suspends but the preflight, which
\* is one step only where the catalogue reads do not suspend.
OperatorWrites == SomeLoopFree /\ writer = None

OperatesGate ==
  /\ OperatorWrites
  /\ (\E max \in Budgets : Unlock(max)) \/ Lock \/ StatusExpiresWindows
  /\ UNCHANGED <<intentVars, dispatchVars>>

OperatesIntent(i) ==
  /\ OperatorWrites
  /\ \/ "expire" \in IntentEvents /\ WriteExpired(i)
     \/ "request" \in IntentEvents /\ MayRequestApproval(Seen(i)) /\ WriteApprovalRequest(i)
     \/ "approve" \in IntentEvents /\ MayApprove(Seen(i)) /\ WriteApproval(i)
     \/ "reject" \in IntentEvents /\ MayReject(Seen(i)) /\ WriteRejection(i)
     \/ "cancel" \in IntentEvents /\ MayCancel(Seen(i)) /\ WriteCancellation(i)
     \/ "preflight" \in IntentEvents /\ ~Suspends
        /\ \E result \in {"BLOCKED", "REQUIRES_APPROVAL"} :
             WritePreflight(i, PreflightStatus(Seen(i), result))
  /\ UNCHANGED <<gateVars, dispatchVars>>

\* Time limits pass: of a window, an intent, an attempt, a stored response.
TimePasses ==
  \/ (\E w \in Windows : WindowTimesOut(w)) /\ UNCHANGED <<intentVars, dispatchVars>>
  \/ "expire" \in IntentEvents /\ (\E i \in Intents : IntentTimesOut(i))
     /\ UNCHANGED <<gateVars, dispatchVars>>
  \/ /\ \E a \in (1 .. made) \ aged : aged' = aged \cup {a}
     /\ UNCHANGED <<gateVars, intentVars, handlerVars, made, attemptOf, slot, attemptState,
                    authState, receipts, ran, txnVars, reply, found>>
  \/ /\ \E k \in Keys : reply[k].attempt # 0 /\ ~reply[k].expired
                        /\ reply' = [reply EXCEPT ![k].expired = TRUE]
     /\ UNCHANGED <<gateVars, intentVars, handlerVars, attemptVars, txnVars, found>>

\* A process dies: its requests are gone and its open transaction rolls back.
\* Hermes processes it started may go on; ran keeps them.
Crash(p) ==
  /\ End({h \in Handlers : ProcessOf[h] = p})
  /\ LET mine == writer # None /\ ProcessOf[writer] = p
     IN  /\ writer' = IF mine THEN None ELSE writer
         /\ txnExpires' = (txnExpires /\ ~mine)
  /\ found' = [r \in Reconcilers |-> IF ProcessOf[r] = p THEN 0 ELSE found[r]]
  /\ UNCHANGED <<gateVars, intentVars, attemptVars, reply>>

Next ==
  \/ \E h \in Handlers : Receive(h) \/ Step(h)
  \/ \E r \in Reconcilers : FindEvidence(r) \/ Reconcile(r) \/ ReconcileFails(r)
  \/ OperatesGate
  \/ \E i \in Intents : OperatesIntent(i)
  \/ TimePasses
  \/ \E p \in Processes : Crash(p)

Spec == Init /\ [][Next]_vars

\* A request keeps moving: every await and the Hermes subprocess end (its
\* timeout is enforced), a statement that finds the database busy gives up, and
\* the event loop takes the handlers that are ready in turn, so one that is
\* ready again and again is resumed.
Fairness == \A h \in Handlers :
  /\ WF_vars(Step(h))
  /\ SF_vars(CheckTarget(h))
  /\ SF_vars(ResumeTransaction(h))

FairSpec == Spec /\ Fairness

-----------------------------------------------------------------------------
Steps == Parked \cup {"idempotency", "load", "approval", "gate", "receipt", "target", "limits",
                      "prepare", "submit", "hermes", "record", "reply"}

AttemptStates == {"NONE", "SUBMITTING", "ACKNOWLEDGED", "RECONCILED", "FAILED_PRE_SUBMISSION",
                  "OUTCOME_UNKNOWN"}

HandlersTypeOK ==
  /\ pc \in [Handlers -> Steps]
  /\ intent \in [Handlers -> Intents \cup {None}]
  /\ key \in [Handlers -> Keys \cup {None}]
  /\ blocked \in [Handlers -> BOOLEAN]
  /\ attempt \in [Handlers -> 0 .. made]
  /\ outcome \in [Handlers -> HermesOutcomes \cup {"NONE"}]

AttemptsTypeOK ==
  /\ made \in 0 .. MaxAttempts
  /\ attemptOf \in [Attempts -> Intents \cup {None}]
  /\ slot \in [Attempts -> 0 .. opened]
  /\ attemptState \in [Attempts -> AttemptStates]
  /\ authState \in [Attempts -> {"NONE", "CLAIMED", "CONSUMED"}]
  /\ receipts \subseteq ran
  /\ ran \subseteq 1 .. made
  /\ aged \subseteq 1 .. made

StoresTypeOK ==
  /\ writer \in Handlers \cup {None}
  /\ txnExpires \in BOOLEAN
  /\ reply \in [Keys -> [attempt : 0 .. made, outcome : HermesOutcomes \cup {"NONE"},
                         expired : BOOLEAN]]
  /\ found \in [Reconcilers -> ran \cup {0}]

\* Type invariant.  A receipt, and the evidence for one, is of an attempt whose
\* Hermes process was started.
TypeOK == GateTypeOK /\ IntentTypeOK /\ HandlersTypeOK /\ AttemptsTypeOK /\ StoresTypeOK

-----------------------------------------------------------------------------
\* What holds however the handlers interleave.

\* The counter of every window is the number of attempts that claimed a slot of
\* it: no slot is spent without a durable attempt, whatever crashes or is
\* refused after the claim (the claim and the insertion share a transaction).
SlotsAreAccounted ==
  \A w \in 1 .. opened : consumed[w] = Cardinality({a \in 1 .. made : slot[a] = w})

\* Attempts that took a slot never exceed the budget of the window they took it
\* from, whatever suspends or crashes; attempts without a slot are not counted.
SlotsStayInBudget ==
  \A w \in 1 .. opened : Cardinality({a \in 1 .. made : slot[a] = w}) <= granted[w]

\* A Hermes process is only ever started for an attempt that is on record, and
\* until someone records its end the attempt stays SUBMITTING, so a crash at
\* any point leaves the reconciler something to find.
StartedAttemptsAreOnRecord ==
  \A a \in ran :
    /\ attemptState[a] # "NONE" /\ authState[a] # "NONE"
    /\ (\E h \in Handlers : attempt[h] = a /\ pc[h] = "hermes")
         => attemptState[a] \in {"SUBMITTING", "RECONCILED"}

\* A stored response never claims more than the ledger: an acknowledged
\* response has its receipt for ever, whichever request wrote the key last.
StoredAcknowledgementsHaveReceipts ==
  \A k \in Keys : reply[k].outcome = "ACKNOWLEDGED" => reply[k].attempt \in receipts

-----------------------------------------------------------------------------
\* What one process, or two without a reconciler, keep.

Settled == {"ACKNOWLEDGED", "RECONCILED"}

\* The three tables agree: an attempt is settled exactly when it has a receipt,
\* and its authorization is consumed exactly when it was acknowledged.
LedgerAgrees ==
  \A a \in 1 .. made :
    /\ attemptState[a] \in Settled <=> a \in receipts
    /\ attemptState[a] = "ACKNOWLEDGED" <=> authState[a] = "CONSUMED"

\* A settled attempt is never reopened or relabelled, by a handler that comes
\* back late or by a reconciler that read it before it was settled.
SettledForGood ==
  [][\A a \in Attempts : attemptState[a] \in Settled
       => attemptState'[a] = attemptState[a]]_vars

\* A stored response agrees with the attempt it speaks of, unless evidence
\* found later settled that attempt.
StoredResponsesAreTrue ==
  \A k \in Keys : reply[k].attempt # 0
    => attemptState[reply[k].attempt] \in {reply[k].outcome, "RECONCILED"}

\* max_global_concurrency: as many executions in flight as the policy allows.
ConcurrencyCapHolds == Cardinality(InFlight) <= MaxConcurrency

-----------------------------------------------------------------------------
\* What one process keeps as long as its catalogue reads do not suspend.

\* No dispatch without a slot: the budget of the window bounds what is made.
EveryAttemptHasSlot == \A a \in 1 .. made : slot[a] # 0

\* An attempt is made only while the gate is open and its intent approved and
\* without a receipt: nothing the preflight read is stale by then, except that
\* the intent's time limit may pass in between.
AttemptsRestOnFreshChecks ==
  [][made' # made => LET i == attemptOf'[made'] IN
       /\ ~GateLocked
       /\ status[i] = "READY_TO_EXECUTE" /\ decision[i] = "APPROVE"
       /\ \A a \in receipts : attemptOf[a] # i]_vars

\* An intent is executed to a receipt at most once.
OneReceiptPerIntent ==
  \A a, b \in receipts : attemptOf[a] = attemptOf[b] => a = b

\* Every execution takes one from a budget, and one intent is executed once.
ExecutionsAreBounded == EveryAttemptHasSlot /\ OneReceiptPerIntent

-----------------------------------------------------------------------------
\* Every request is answered, and so every open transaction ends.
RequestsAreAnswered == \A h \in Handlers : pc[h] # "idle" ~> pc[h] = "idle"

-----------------------------------------------------------------------------
\* What the documents say and the code does not keep.

\* HERMES_EXECUTION_MODEL.md, section 7: no blind retries.  An intent with an
\* attempt of unknown outcome is not executed again.
NoRetryAfterUnknown ==
  [][made' # made => \A a \in 1 .. made :
       attemptState[a] = "OUTCOME_UNKNOWN" => attemptOf[a] # attemptOf'[made']]_vars

\* EXECUTION_KILL_SWITCH_RUNBOOK.md, section 5: the emergency lock keeps
\* submissions in flight from starting Hermes.
LockStopsSubmissions == [][ran' # ran => lock = "UNLOCKED"]_vars

\* HERMES_EXECUTION_MODEL.md, section 5: FAILED_PRE_SUBMISSION is for attempts
\* whose process never executed.
FailedMeansNotStarted == \A a \in ran : attemptState[a] # "FAILED_PRE_SUBMISSION"
=============================================================================
