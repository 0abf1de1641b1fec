--------------------------- MODULE DispatchProofs ---------------------------
(***************************************************************************)
(* Theorems about controlled execution, for every number of processes,     *)
(* handlers, reconcilers, intents and keys, reads that suspend or not:     *)
(* first that the gate is used as ExecutionGate says and that types hold,  *)
(* then what the control database keeps, then what one event loop adds.    *)
(***************************************************************************)
EXTENDS Dispatch, ExecutionGateProofs, FiniteSetTheorems

\* An expiry carried by the open transaction is still due when it commits:
\* nobody else can write, and time only makes it more due.
TxnInv == txnExpires => writer # None /\ ReachesExpiryCheck /\ latest \in timedOut

-----------------------------------------------------------------------------
\* What the steps of a request leave alone.

\* The steps that only read the database, and move their handler.
QuietStep(h) ==
  \/ Receive(h) \/ CheckIdempotency(h) \/ LoadFails(h) \/ CheckApproval(h) \/ CheckReceipt(h)
  \/ CheckTarget(h) \/ CheckLimits(h) \/ PrepareFails(h) \/ RefuseTool(h) \/ NotSpawned(h)
  \/ Return(h) \/ RecordFails(h) \/ SaveReplyFails(h)

LEMMA QuietSteps ==
  ASSUME NEW h \in Handlers, QuietStep(h)
  PROVE  UNCHANGED <<gateVars, intentVars, attemptVars, txnVars, reply, found>>
BY DEF QuietStep, Receive, CheckIdempotency, LoadFails, CheckApproval, CheckReceipt, CheckTarget,
   CheckLimits, PrepareFails, RefuseTool, NotSpawned, Return, RecordFails, SaveReplyFails

LEMMA HandlerSteps ==
  ASSUME NEW h \in Handlers, Receive(h) \/ Step(h)
  PROVE  \/ QuietStep(h) \/ LoadIntent(h) \/ CheckGate(h) \/ Prepare(h) \/ Spawn(h)
         \/ RecordAcknowledged(h) \/ SuspendInTransaction(h) \/ ResumeTransaction(h)
         \/ RecordOther(h) \/ SaveReply(h)
BY DEF Step, QuietStep

-----------------------------------------------------------------------------
\* Every step of the whole is a step of the lock and its windows, or leaves
\* them alone.
LEMMA StepIsGateStep == ASSUME TxnInv, [Next]_vars PROVE [GateNext]_gateVars
<1>1. ASSUME NEW h \in Handlers, Receive(h) \/ Step(h) PROVE [GateNext]_gateVars
  <2>1. CASE QuietStep(h)
    BY <2>1, QuietSteps
  <2>2. CASE LoadIntent(h) \/ Spawn(h) \/ SuspendInTransaction(h) \/ RecordOther(h) \/ SaveReply(h)
    BY <2>2 DEF LoadIntent, Spawn, SuspendInTransaction, RecordOther, SaveReply
  <2>3. CASE CheckGate(h)
    BY <2>3 DEF CheckGate, GateNext
  <2>4. CASE Prepare(h)
    BY <2>4 DEF Prepare, GateNext
  <2>5. ASSUME CommitAcknowledged(h) PROVE [GateNext]_gateVars
    BY <2>5 DEF CommitAcknowledged, TxnInv, GateNext, StatusExpiresWindows, gateVars
  <2> QED
    BY <1>1, <2>1, <2>2, <2>3, <2>4, <2>5, HandlerSteps DEF RecordAcknowledged, ResumeTransaction
<1>2. ASSUME NEW r \in Reconcilers, FindEvidence(r) \/ Reconcile(r) \/ ReconcileFails(r)
      PROVE  UNCHANGED gateVars
  BY <1>2 DEF FindEvidence, Reconcile, ReconcileFails
<1>3. CASE OperatesGate
  BY <1>3 DEF OperatesGate, GateNext
<1>4. ASSUME NEW i \in Intents, OperatesIntent(i) PROVE UNCHANGED gateVars
  BY <1>4 DEF OperatesIntent
<1>5. CASE TimePasses
  BY <1>5 DEF TimePasses, GateNext
<1>6. ASSUME NEW p \in Processes, Crash(p) PROVE UNCHANGED gateVars
  BY <1>6 DEF Crash
<1>7. CASE UNCHANGED vars
  BY <1>7 DEF vars
<1> QED BY <1>1, <1>2, <1>3, <1>4, <1>5, <1>6, <1>7 DEF Next

LEMMA TxnInvStep == ASSUME TxnInv, [Next]_vars PROVE TxnInv'
<1> USE DEF TxnInv
<1>1. CASE UNCHANGED <<gateVars, txnVars>>
  BY <1>1 DEF gateVars, txnVars, ReachesExpiryCheck
<1>2. CASE writer = None /\ UNCHANGED txnVars
  BY <1>2 DEF txnVars
<1>3. ASSUME NEW h \in Handlers, Receive(h) \/ Step(h) PROVE TxnInv'
  <2>1. CASE CheckGate(h)
    <3>1. writer' = writer
      BY <2>1 DEF CheckGate
    <3>2. CASE writer = None
      <4>1. Uncommitted(ProcessOf[h]) = {}
        BY <3>2, DispatchAssumption DEF Uncommitted
      <4> QED BY <2>1, <3>2, <4>1, Zenon DEF CheckGate
    <3>3. CASE writer # None
      <4>1. UNCHANGED gateVars
        BY <2>1, <3>3 DEF CheckGate
      <4>2. ReachesExpiryCheck' = ReachesExpiryCheck /\ latest' = latest /\ timedOut' = timedOut
        BY <4>1 DEF gateVars, ReachesExpiryCheck
      <4>3. txnExpires' = (txnExpires \/ (ReachesExpiryCheck /\ latest \in timedOut
                                         /\ Uncommitted(ProcessOf[h]) # {}))
        BY <2>1, Zenon DEF CheckGate
      <4> QED BY <3>1, <3>3, <4>2, <4>3, Zenon
    <3> QED BY <3>2, <3>3
  <2>2. CASE SuspendInTransaction(h)
    BY <2>2 DEF SuspendInTransaction
  <2>3. ASSUME CommitAcknowledged(h) PROVE TxnInv'
    BY <2>3 DEF CommitAcknowledged
  <2>4. CASE LoadIntent(h) \/ Spawn(h) \/ RecordOther(h) \/ SaveReply(h)
    BY <1>1, <2>4 DEF LoadIntent, Spawn, RecordOther, SaveReply
  <2>5. CASE Prepare(h)
    BY <1>2, <2>5 DEF Prepare
  <2> QED
    BY <1>1, <1>3, <2>1, <2>2, <2>3, <2>4, <2>5, HandlerSteps, QuietSteps
    DEF RecordAcknowledged, ResumeTransaction
<1>4. ASSUME NEW r \in Reconcilers, FindEvidence(r) \/ Reconcile(r) \/ ReconcileFails(r) PROVE TxnInv'
  BY <1>1, <1>4 DEF FindEvidence, Reconcile, ReconcileFails
<1>5. CASE OperatesGate
  BY <1>2, <1>5 DEF OperatesGate, OperatorWrites, dispatchVars
<1>6. ASSUME NEW i \in Intents, OperatesIntent(i) PROVE TxnInv'
  BY <1>1, <1>6 DEF OperatesIntent, dispatchVars
<1>7. CASE TimePasses
  <2>1. ASSUME NEW w \in Windows, WindowTimesOut(w), UNCHANGED txnVars PROVE TxnInv'
    BY <2>1 DEF WindowTimesOut, txnVars, ReachesExpiryCheck
  <2> QED BY <1>1, <1>7, <2>1 DEF TimePasses, dispatchVars
<1>8. ASSUME NEW p \in Processes, Crash(p) PROVE TxnInv'
  BY <1>8 DEF Crash, gateVars, ReachesExpiryCheck
<1>9. CASE UNCHANGED vars
  BY <1>1, <1>9 DEF vars, dispatchVars
<1> QED BY <1>3, <1>4, <1>5, <1>6, <1>7, <1>8, <1>9 DEF Next

\* Controlled execution uses the lock as its module says: whatever handlers,
\* operators and processes do, the two tables only take the steps of GateSpec.
THEOREM DispatchUsesGate == Spec => GateSpec
<1>1. Init => GateInit /\ TxnInv
  BY DEF Init, DispatchInit, TxnInv
<1>2. TxnInv /\ [Next]_vars => TxnInv' /\ [GateNext]_gateVars
  BY StepIsGateStep, TxnInvStep
<1> QED BY <1>1, <1>2, PTL DEF Spec, GateSpec

\* So everything proved of the lock alone holds of it in use: budgets, one open
\* window, the emergency lock.
THEOREM GateHoldsInUse == Spec => [](GateInv /\ TxnInv)
<1>1. Init => TxnInv
  BY DEF Init, DispatchInit, TxnInv
<1>2. TxnInv /\ [Next]_vars => TxnInv'
  BY TxnInvStep
<1> QED BY <1>1, <1>2, DispatchUsesGate, GateInvariance, PTL DEF Spec

-----------------------------------------------------------------------------
\* The handlers and their attempts.

\* The steps before a request has made its attempt, and those after.
Before == {"idle", "idempotency", "load", "approval", "gate", "receipt", "target", "awaitTarget",
           "limits", "prepare"}
After == {"submit", "hermes", "record", "awaitUpdate", "reply"}

\* The requests that may still make an attempt; Receive keeps room for each.
Pending == {h \in Handlers : pc[h] # "idle" /\ attempt[h] = 0}

PendingFit == made + Cardinality(Pending) <= MaxAttempts

\* What a handler's place says of its request and of its attempt.
HandlerFits(h) ==
  /\ pc[h] # "idle" => intent[h] \in Intents /\ key[h] \in Keys
  /\ attempt[h] = 0 <=> pc[h] \in Before
  /\ pc[h] = "awaitUpdate" <=> writer = h
  /\ pc[h] = "hermes" => attempt[h] \in ran
  /\ pc[h] \in {"record", "awaitUpdate", "reply"} =>
       outcome[h] \in HermesOutcomes /\ (outcome[h] = "ACKNOWLEDGED" => attempt[h] \in ran)
  /\ pc[h] = "awaitUpdate" => outcome[h] = "ACKNOWLEDGED"
  /\ pc[h] = "reply" /\ outcome[h] = "ACKNOWLEDGED" => attempt[h] \in receipts

HandlersInv == \A h \in Handlers : HandlerFits(h)

\* No two requests share an attempt.
AttemptsOwned ==
  \A g, h \in Handlers : attempt[g] = attempt[h] /\ attempt[h] # 0 => g = h

\* Every attempt inserted is complete.
AttemptsOnRecord ==
  \A a \in 1 .. made : attemptOf[a] \in Intents /\ attemptState[a] # "NONE" /\ authState[a] # "NONE"

DispatchInv == TypeOK /\ GateInv /\ TxnInv /\ PendingFit /\ HandlersInv /\ AttemptsOwned /\ AttemptsOnRecord

LEMMA InitInv == ASSUME Init PROVE DispatchInv
<1> USE DEF Init, DispatchInit
<1>1. GateInv
  BY GateInitInv
<1>2. IntentTypeOK
  BY DEF IntentInit, IntentTypeOK
<1>3. HandlersTypeOK
  BY DEF HandlersTypeOK, Steps, Parked
<1>4. AttemptsTypeOK
  BY DispatchAssumption, GateAssumption DEF AttemptsTypeOK, Attempts, AttemptStates, GateInit
<1>5. StoresTypeOK
  <2>1. NoReply \in [attempt : 0 .. made, outcome : HermesOutcomes \cup {"NONE"}, expired : BOOLEAN]
    BY DEF NoReply
  <2> QED BY <2>1 DEF StoresTypeOK
<1>6. PendingFit
  <2>1. Pending = {}
    BY DEF Pending
  <2> QED BY <2>1, FS_EmptySet, DispatchAssumption DEF PendingFit
<1>7. HandlersInv /\ AttemptsOwned /\ AttemptsOnRecord
  BY DispatchAssumption DEF HandlersInv, HandlerFits, AttemptsOwned, AttemptsOnRecord, Before
<1>8. TxnInv
  BY DEF TxnInv
<1> QED BY <1>1, <1>2, <1>3, <1>4, <1>5, <1>6, <1>7, <1>8 DEF DispatchInv, TypeOK, GateInv

\* The ways a step leaves a handler: its request ends, or moves on.
LEMMA EndTypes ==
  ASSUME HandlersTypeOK, made \in Nat, UNCHANGED made, NEW hs \in SUBSET Handlers, End(hs)
  PROVE  HandlersTypeOK'
<1>1. 0 \in 0 .. made'
  OBVIOUS
<1> QED BY <1>1 DEF HandlersTypeOK, End, Steps, Parked

LEMMA MoveTypes ==
  ASSUME HandlersTypeOK, made \in Nat, UNCHANGED made,
         NEW h \in Handlers, NEW s \in Steps, NEW b \in BOOLEAN,
         \/ Goto(h, s) /\ UNCHANGED <<intent, key, blocked, attempt, outcome>>
         \/ Check(h, b, s)
         \/ End({h})
  PROVE  HandlersTypeOK'
<1>1. CASE Goto(h, s) /\ UNCHANGED <<intent, key, blocked, attempt, outcome>>
  BY <1>1 DEF Goto, HandlersTypeOK
<1>2. CASE Check(h, b, s)
  BY <1>2 DEF Check, Goto, HandlersTypeOK
<1> QED BY <1>1, <1>2, EndTypes

LEMMA QuietTypes ==
  ASSUME HandlersTypeOK, made \in Nat, NEW h \in Handlers, QuietStep(h)
  PROVE  HandlersTypeOK'
<1>1. UNCHANGED made
  BY QuietSteps DEF attemptVars
<1>2. {"idempotency", "load", "approval", "gate", "receipt", "target", "awaitTarget", "limits",
       "prepare", "hermes", "record"} \subseteq Steps
  BY DEF Steps, Parked
<1>3. CASE Receive(h)
  BY <1>1, <1>2, <1>3 DEF Receive, Goto, HandlersTypeOK
<1>4. CASE CheckIdempotency(h) \/ CheckLimits(h)
  BY <1>1, <1>2, <1>4, MoveTypes DEF CheckIdempotency, CheckLimits
<1>5. CASE LoadFails(h) \/ PrepareFails(h) \/ RefuseTool(h) \/ RecordFails(h) \/ SaveReplyFails(h)
  BY <1>1, <1>2, <1>5, MoveTypes DEF LoadFails, PrepareFails, RefuseTool, RecordFails, SaveReplyFails
<1>6. CASE CheckApproval(h)
  BY <1>1, <1>2, <1>6, MoveTypes DEF CheckApproval
<1>7. CASE CheckReceipt(h)
  BY <1>1, <1>2, <1>7, MoveTypes DEF CheckReceipt
<1>8. CASE CheckTarget(h)
  BY <1>1, <1>2, <1>8, MoveTypes DEF CheckTarget
<1>9. CASE NotSpawned(h) \/ Return(h)
  BY <1>1, <1>2, <1>9 DEF NotSpawned, Return, Goto, HandlersTypeOK, HermesOutcomes
<1> QED BY <1>3, <1>4, <1>5, <1>6, <1>7, <1>8, <1>9 DEF QuietStep

\* Typing is inductive.

LEMMA HandlersTypeStep ==
  ASSUME DispatchInv, [Next]_vars
  PROVE  HandlersTypeOK'
<1>1. HandlersTypeOK /\ made \in Nat
  BY DEF DispatchInv, TypeOK, AttemptsTypeOK
<1>2. {"approval", "receipt", "submit", "hermes", "reply", "awaitUpdate"} \subseteq Steps
  BY DEF Steps, Parked
<1>3. ASSUME UNCHANGED <<handlerVars, made>> PROVE HandlersTypeOK'
  BY <1>1, <1>3 DEF handlerVars, HandlersTypeOK
<1>4. ASSUME NEW h \in Handlers, Receive(h) \/ Step(h) PROVE HandlersTypeOK'
  <2>1. CASE QuietStep(h)
    BY <1>1, <2>1, QuietTypes
  <2>2. CASE LoadIntent(h)
    BY <1>1, <1>2, <2>2, MoveTypes DEF LoadIntent, attemptVars
  <2>3. CASE CheckGate(h)
    <3>1. GateLocked \in BOOLEAN
      BY DEF GateLocked
    <3> QED BY <1>1, <1>2, <2>3, <3>1, MoveTypes DEF CheckGate, attemptVars
  <2>4. CASE Prepare(h)
    BY <1>1, <1>2, <2>4 DEF Prepare, Goto, HandlersTypeOK
  <2>5. CASE Spawn(h)
    BY <1>1, <1>2, <2>5, MoveTypes DEF Spawn
  <2>6. ASSUME CommitAcknowledged(h) PROVE HandlersTypeOK'
    BY <1>1, <1>2, <2>6, MoveTypes DEF CommitAcknowledged
  <2>7. CASE SuspendInTransaction(h)
    BY <1>1, <1>2, <2>7, MoveTypes DEF SuspendInTransaction, attemptVars
  <2>8. CASE RecordOther(h)
    BY <1>1, <1>2, <2>8, MoveTypes DEF RecordOther
  <2>9. CASE SaveReply(h)
    BY <1>1, <1>2, <2>9, MoveTypes DEF SaveReply, attemptVars
  <2> QED
    BY <1>4, <2>1, <2>2, <2>3, <2>4, <2>5, <2>6, <2>7, <2>8, <2>9, HandlerSteps
    DEF RecordAcknowledged, ResumeTransaction
<1>5. ASSUME NEW r \in Reconcilers, FindEvidence(r) \/ Reconcile(r) \/ ReconcileFails(r)
      PROVE  HandlersTypeOK'
  BY <1>3, <1>5 DEF FindEvidence, Reconcile, ReconcileFails, attemptVars
<1>6. CASE OperatesGate \/ (\E i \in Intents : OperatesIntent(i)) \/ TimePasses \/ UNCHANGED vars
  BY <1>3, <1>6 DEF OperatesGate, OperatesIntent, TimePasses, dispatchVars, attemptVars, vars
<1>7. ASSUME NEW p \in Processes, Crash(p) PROVE HandlersTypeOK'
  BY <1>1, <1>7, EndTypes DEF Crash, attemptVars
<1> QED BY <1>4, <1>5, <1>6, <1>7 DEF Next

LEMMA IntentTypeStep ==
  ASSUME DispatchInv, [Next]_vars
  PROVE  IntentTypeOK'
<1>1. IntentTypeOK
  BY DEF DispatchInv, TypeOK
<1>2. ASSUME UNCHANGED intentVars PROVE IntentTypeOK'
  BY <1>1, <1>2 DEF intentVars, IntentTypeOK
<1>3. ASSUME NEW i \in Intents, WriteExpired(i) PROVE IntentTypeOK'
  BY <1>1, <1>3 DEF WriteExpired, SetStatus, IntentTypeOK
<1>4. ASSUME NEW h \in Handlers, Receive(h) \/ Step(h) PROVE IntentTypeOK'
  <2>1. CASE LoadIntent(h)
    <3>1. intent[h] \in Intents
      BY <2>1 DEF LoadIntent, DispatchInv, HandlersInv, HandlerFits
    <3> QED BY <1>2, <1>3, <2>1, <3>1 DEF LoadIntent
  <2>2. CASE ~LoadIntent(h)
    BY <1>2, <1>4, <2>2, HandlerSteps, QuietSteps
    DEF CheckGate, Prepare, Spawn, RecordAcknowledged, ResumeTransaction, CommitAcknowledged,
        SuspendInTransaction, RecordOther, SaveReply
  <2> QED BY <2>1, <2>2
<1>5. ASSUME NEW i \in Intents, OperatesIntent(i) PROVE IntentTypeOK'
  <2>1. ASSUME NEW result \in {"BLOCKED", "REQUIRES_APPROVAL"}
        PROVE  PreflightStatus(Seen(i), result) \in
                 {"READY_FOR_APPROVAL", "PREFLIGHT_FAILED", "PENDING_APPROVAL",
                  "READY_TO_EXECUTE", "REJECTED", "CANCELLED", "EXPIRED"}
    BY <1>1 DEF PreflightStatus, Seen, IntentTypeOK
  <2>2. ASSUME WriteApprovalRequest(i) \/ WriteApproval(i) \/ WriteRejection(i) \/ WriteCancellation(i)
        PROVE  IntentTypeOK'
    BY <1>1, <2>2 DEF WriteApprovalRequest, WriteApproval, WriteRejection, WriteCancellation,
       SetStatus, IntentTypeOK
  <2>3. ASSUME NEW result \in {"BLOCKED", "REQUIRES_APPROVAL"},
               WritePreflight(i, PreflightStatus(Seen(i), result))
        PROVE  IntentTypeOK'
    BY <1>1, <2>1, <2>3 DEF WritePreflight, SetStatus, IntentTypeOK
  <2> QED BY <1>3, <1>5, <2>2, <2>3 DEF OperatesIntent
<1>6. CASE TimePasses
  BY <1>1, <1>2, <1>6 DEF TimePasses, IntentTimesOut, IntentTypeOK
<1>7. ASSUME NEW r \in Reconcilers, FindEvidence(r) \/ Reconcile(r) \/ ReconcileFails(r)
      PROVE  IntentTypeOK'
  BY <1>2, <1>7 DEF FindEvidence, Reconcile, ReconcileFails
<1>8. CASE OperatesGate \/ (\E p \in Processes : Crash(p)) \/ UNCHANGED vars
  BY <1>2, <1>8 DEF OperatesGate, Crash, vars
<1> QED BY <1>4, <1>5, <1>6, <1>7, <1>8 DEF Next

\* Windows are only ever added, and a running handler fits the bound.
LEMMA OpenedGrows ==
  ASSUME GateInv, [GateNext]_gateVars
  PROVE  opened \in Nat /\ opened' \in Nat /\ opened <= opened'
BY DEF GateInv, GateTypeOK, GateNext, gateVars, Unlock, Lock, StatusExpiresWindows, ClaimSlot,
   ClaimLatestSlot, WindowTimesOut

LEMMA PendingRoom ==
  ASSUME DispatchInv, NEW h \in Pending
  PROVE  made + 1 \in 1 .. MaxAttempts
<1>1. IsFiniteSet(Pending)
  BY FS_Subset, DispatchAssumption DEF Pending
<1>2. Cardinality(Pending) \in Nat /\ Cardinality(Pending) # 0
  BY <1>1, FS_EmptySet, FS_CardinalityType
<1> QED BY <1>2, DispatchAssumption DEF DispatchInv, PendingFit, TypeOK, AttemptsTypeOK

LEMMA PreparePending ==
  ASSUME DispatchInv, NEW h \in Handlers, Prepare(h)
  PROVE  h \in Pending /\ made + 1 \in Attempts
<1>1. h \in Pending
  BY DEF Prepare, DispatchInv, HandlersInv, HandlerFits, Before, Pending
<1> QED BY <1>1, PendingRoom DEF Attempts

\* A step that writes the columns of attempts it may write, and no others.
LEMMA ColumnTypes ==
  ASSUME AttemptsTypeOK, opened \in Nat, opened' \in Nat, opened <= opened',
         UNCHANGED <<made, attemptOf, slot, aged>>,
         attemptState' \in [Attempts -> AttemptStates],
         authState' \in [Attempts -> {"NONE", "CLAIMED", "CONSUMED"}],
         receipts' \subseteq ran', ran' \subseteq 1 .. made
  PROVE  AttemptsTypeOK'
<1>1. slot' \in [Attempts -> 0 .. opened']
  <2>1. 0 .. opened \subseteq 0 .. opened'
    OBVIOUS
  <2> QED BY <2>1 DEF AttemptsTypeOK
<1> QED BY <1>1 DEF AttemptsTypeOK

LEMMA AttemptsTypeStep ==
  ASSUME DispatchInv, [Next]_vars
  PROVE  AttemptsTypeOK'
<1>1. AttemptsTypeOK /\ GateInv
  BY DEF DispatchInv, TypeOK
<1>2. opened \in Nat /\ opened' \in Nat /\ opened <= opened'
  BY StepIsGateStep, OpenedGrows DEF DispatchInv
<1>a. /\ attemptState \in [Attempts -> AttemptStates]
      /\ authState \in [Attempts -> {"NONE", "CLAIMED", "CONSUMED"}]
      /\ receipts \subseteq ran /\ ran \subseteq 1 .. made
  BY <1>1 DEF AttemptsTypeOK
<1>3. ASSUME UNCHANGED attemptVars PROVE AttemptsTypeOK'
  BY <1>1, <1>2, <1>a, <1>3, ColumnTypes DEF attemptVars
<1>4. ASSUME NEW h \in Handlers, Receive(h) \/ Step(h) PROVE AttemptsTypeOK'
  <2>1. CASE QuietStep(h) \/ LoadIntent(h) \/ CheckGate(h) \/ SuspendInTransaction(h) \/ SaveReply(h)
    BY <1>3, <2>1, QuietSteps DEF LoadIntent, CheckGate, SuspendInTransaction, SaveReply
  <2>2. CASE Prepare(h)
    <3>1. /\ UNCHANGED <<receipts, ran, aged>> /\ made' = made + 1
          /\ attemptOf' = [attemptOf EXCEPT ![made + 1] = intent[h]]
          /\ attemptState' = [attemptState EXCEPT ![made + 1] = "SUBMITTING"]
          /\ authState' = [authState EXCEPT ![made + 1] = "CLAIMED"]
      BY <2>2 DEF Prepare
    <3>2. made + 1 \in 1 .. MaxAttempts /\ intent[h] \in Intents
      BY <2>2, PreparePending DEF Attempts, DispatchInv, HandlersInv, HandlerFits, Pending
    <3>3. slot' \in [Attempts -> 0 .. opened]
      <4>1. \A w \in ActiveWindows : w \in 0 .. opened
        BY <1>1 DEF GateInv, GateTypeOK, RowsInserted, ActiveWindows, Windows
      <4> QED BY <1>1, <2>2, <4>1 DEF Prepare, AttemptsTypeOK
    <3>4. slot' \in [Attempts -> 0 .. opened']
      <4>1. 0 .. opened \subseteq 0 .. opened'
        BY <1>2
      <4> QED BY <3>3, <4>1
    <3>5. made \in 0 .. MaxAttempts /\ 1 .. made \subseteq 1 .. (made + 1)
      BY <1>1, DispatchAssumption DEF AttemptsTypeOK
    <3>6. /\ attemptState' \in [Attempts -> AttemptStates]
          /\ authState' \in [Attempts -> {"NONE", "CLAIMED", "CONSUMED"}]
      BY <1>a, <3>1 DEF AttemptStates
    <3>7. attemptOf' \in [Attempts -> Intents \cup {None}]
      BY <1>1, <3>1, <3>2 DEF AttemptsTypeOK
    <3>8. receipts' \subseteq ran' /\ ran' \subseteq 1 .. made' /\ aged' \subseteq 1 .. made'
      BY <1>1, <3>1, <3>5 DEF AttemptsTypeOK
    <3>9. made' \in 0 .. MaxAttempts
      BY <3>1, <3>2, DispatchAssumption
    <3> QED BY <3>4, <3>6, <3>7, <3>8, <3>9 DEF AttemptsTypeOK
  <2>3. CASE Spawn(h)
    <3>1. attempt[h] \in 1 .. made
      <4>1. attempt[h] \in 0 .. made /\ attempt[h] # 0 /\ made \in Nat
        BY <2>3 DEF Spawn, DispatchInv, TypeOK, HandlersTypeOK, AttemptsTypeOK, HandlersInv, HandlerFits, Before
      <4> QED BY <4>1
    <3>2. ran' = ran \cup {attempt[h]} /\ UNCHANGED <<made, attemptOf, slot, aged, attemptState,
                                                     authState, receipts>>
      BY <2>3 DEF Spawn
    <3> QED BY <1>1, <1>2, <1>a, <3>1, <3>2, ColumnTypes
  <2>4. ASSUME CommitAcknowledged(h), pc[h] \in {"record", "awaitUpdate"}, outcome[h] = "ACKNOWLEDGED"
        PROVE  AttemptsTypeOK'
    <3>1. attempt[h] \in ran
      BY <2>4 DEF DispatchInv, HandlersInv, HandlerFits
    <3>2. /\ UNCHANGED <<made, attemptOf, slot, aged, ran>>
          /\ receipts' = receipts \cup {attempt[h]}
      BY <2>4 DEF CommitAcknowledged
    <3>3. attemptState' \in [Attempts -> AttemptStates]
      BY <1>a, <2>4 DEF CommitAcknowledged, AttemptStates
    <3>4. authState' \in [Attempts -> {"NONE", "CLAIMED", "CONSUMED"}]
      BY <1>a, <2>4 DEF CommitAcknowledged
    <3> QED BY <1>1, <1>2, <1>a, <3>1, <3>2, <3>3, <3>4, ColumnTypes
  <2>5. CASE RecordOther(h)
    <3>1. outcome[h] \in AttemptStates
      BY <2>5 DEF RecordOther, DispatchInv, HandlersInv, HandlerFits, HermesOutcomes, AttemptStates
    <3>2. attemptState' \in [Attempts -> AttemptStates]
      BY <1>a, <2>5, <3>1 DEF RecordOther
    <3> QED BY <1>1, <1>2, <1>a, <2>5, <3>2, ColumnTypes DEF RecordOther
  <2>6. ResumeTransaction(h) => outcome[h] = "ACKNOWLEDGED"
    BY DEF ResumeTransaction, DispatchInv, HandlersInv, HandlerFits
  <2> QED
    BY <1>4, <2>1, <2>2, <2>3, <2>4, <2>5, <2>6, HandlerSteps DEF RecordAcknowledged, ResumeTransaction
<1>5. ASSUME NEW r \in Reconcilers, FindEvidence(r) \/ Reconcile(r) \/ ReconcileFails(r)
      PROVE  AttemptsTypeOK'
  <2>1. CASE Reconcile(r)
    <3>1. found[r] \in ran
      BY <2>1 DEF Reconcile, DispatchInv, TypeOK, StoresTypeOK
    <3>2. /\ UNCHANGED <<made, attemptOf, slot, aged, ran, authState>>
          /\ receipts' = receipts \cup {found[r]}
      BY <2>1 DEF Reconcile
    <3>3. attemptState' \in [Attempts -> AttemptStates]
      BY <1>a, <2>1 DEF Reconcile, AttemptStates
    <3> QED BY <1>1, <1>2, <1>a, <3>1, <3>2, <3>3, ColumnTypes
  <2> QED BY <1>3, <1>5, <2>1 DEF FindEvidence, ReconcileFails
<1>6. CASE TimePasses
  <2>1. ASSUME NEW a \in (1 .. made) \ aged, aged' = aged \cup {a},
               UNCHANGED <<made, attemptOf, slot, attemptState, authState, receipts, ran>>
        PROVE  AttemptsTypeOK'
    BY <1>1, <1>2, <2>1 DEF AttemptsTypeOK
  <2> QED BY <1>3, <1>6, <2>1 DEF TimePasses, dispatchVars
<1>7. CASE OperatesGate \/ (\E i \in Intents : OperatesIntent(i)) \/ (\E p \in Processes : Crash(p))
           \/ UNCHANGED vars
  BY <1>3, <1>7 DEF OperatesGate, OperatesIntent, Crash, dispatchVars, vars
<1> QED BY <1>4, <1>5, <1>6, <1>7 DEF Next

\* Attempts and started processes are only ever added.
LEMMA LedgerGrows ==
  ASSUME DispatchInv, [Next]_vars
  PROVE  made \in Nat /\ made' \in Nat /\ made <= made' /\ ran \subseteq ran'
<1>1. made \in Nat
  BY DEF DispatchInv, TypeOK, AttemptsTypeOK
<1>2. UNCHANGED <<made, ran>> \/ (made' = made + 1 /\ ran' = ran) \/ (made' = made /\ ran \subseteq ran')
  <2>1. ASSUME NEW h \in Handlers, Receive(h) \/ Step(h)
        PROVE  UNCHANGED <<made, ran>> \/ (made' = made + 1 /\ ran' = ran)
                 \/ (made' = made /\ ran \subseteq ran')
    BY <2>1, HandlerSteps, QuietSteps
    DEF attemptVars, LoadIntent, CheckGate, Prepare, Spawn, RecordAcknowledged, ResumeTransaction,
        CommitAcknowledged, SuspendInTransaction, RecordOther, SaveReply
  <2>2. CASE TimePasses
    BY <2>2 DEF TimePasses, dispatchVars, attemptVars
  <2> QED
    BY <2>1, <2>2 DEF Next, FindEvidence, Reconcile, ReconcileFails, OperatesGate, OperatesIntent,
       Crash, dispatchVars, attemptVars, vars
<1> QED BY <1>1, <1>2

LEMMA StoresTypeStep ==
  ASSUME DispatchInv, [Next]_vars
  PROVE  StoresTypeOK'
<1> DEFINE Replies(n) == [attempt : 0 .. n, outcome : HermesOutcomes \cup {"NONE"}, expired : BOOLEAN]
           Types == /\ writer' \in Handlers \cup {None}
                    /\ txnExpires' \in BOOLEAN
                    /\ reply' \in [Keys -> Replies(made)]
                    /\ found' \in [Reconcilers -> ran \cup {0}]
<1>1. /\ writer \in Handlers \cup {None} /\ txnExpires \in BOOLEAN
      /\ reply \in [Keys -> Replies(made)] /\ found \in [Reconcilers -> ran \cup {0}]
  BY DEF DispatchInv, TypeOK, StoresTypeOK
<1>2. Types => StoresTypeOK'
  <2>1. 0 .. made \subseteq 0 .. made' /\ ran \subseteq ran'
    BY LedgerGrows
  <2>2. Replies(made) \subseteq Replies(made')
    BY <2>1
  <2>3. [Keys -> Replies(made)] \subseteq [Keys -> Replies(made')]
    BY <2>2
  <2>4. [Reconcilers -> ran \cup {0}] \subseteq [Reconcilers -> ran' \cup {0}]
    BY <2>1
  <2> HIDE DEF Replies
  <2> QED BY <2>3, <2>4 DEF StoresTypeOK, Replies
<1>3. ASSUME UNCHANGED <<txnVars, reply, found>> PROVE Types
  BY <1>1, <1>3 DEF txnVars
<1>4. ASSUME NEW h \in Handlers, Receive(h) \/ Step(h) PROVE Types
  <2>1. CASE QuietStep(h) \/ LoadIntent(h) \/ Prepare(h) \/ Spawn(h) \/ RecordOther(h)
    BY <1>3, <2>1, QuietSteps DEF LoadIntent, Prepare, Spawn, RecordOther
  <2>2. CASE CheckGate(h)
    <3>1. txnExpires' \in BOOLEAN
      BY <1>1, <2>2, Zenon DEF CheckGate
    <3> QED BY <1>1, <2>2, <3>1 DEF CheckGate
  <2>3. ASSUME CommitAcknowledged(h) PROVE Types
    BY <1>1, <2>3 DEF CommitAcknowledged
  <2>4. CASE SuspendInTransaction(h)
    BY <1>1, <2>4 DEF SuspendInTransaction
  <2>5. CASE SaveReply(h)
    <3>1. [attempt |-> attempt[h], outcome |-> outcome[h], expired |-> FALSE] \in Replies(made)
      BY DEF DispatchInv, TypeOK, HandlersTypeOK
    <3>2. reply' \in [Keys -> Replies(made)]
      BY <1>1, <2>5, <3>1 DEF SaveReply
    <3> QED BY <1>1, <2>5, <3>2 DEF SaveReply, txnVars
  <2> QED
    BY <1>4, <2>1, <2>2, <2>3, <2>4, <2>5, HandlerSteps DEF RecordAcknowledged, ResumeTransaction
<1>5. ASSUME NEW r \in Reconcilers, FindEvidence(r) \/ Reconcile(r) \/ ReconcileFails(r) PROVE Types
  BY <1>1, <1>5 DEF FindEvidence, Reconcile, ReconcileFails, txnVars
<1>6. CASE TimePasses
  <2>1. ASSUME NEW k \in Keys, reply' = [reply EXCEPT ![k].expired = TRUE], UNCHANGED <<txnVars, found>>
        PROVE  Types
    <3>1. [reply[k] EXCEPT !.expired = TRUE] \in Replies(made)
      BY <1>1
    <3>2. reply' = [reply EXCEPT ![k] = [reply[k] EXCEPT !.expired = TRUE]]
      BY <2>1
    <3> HIDE DEF Replies
    <3> QED BY <1>1, <2>1, <3>1, <3>2 DEF txnVars
  <2> HIDE DEF Types
  <2>2. ASSUME UNCHANGED <<txnVars, reply, found>> PROVE Types
    BY <1>3, <2>2
  <2> QED BY <1>2, <1>6, <2>1, <2>2 DEF TimePasses, dispatchVars
<1>7. CASE OperatesGate \/ (\E i \in Intents : OperatesIntent(i)) \/ UNCHANGED vars
  BY <1>2, <1>3, <1>7 DEF OperatesGate, OperatesIntent, dispatchVars, vars
<1>8. ASSUME NEW p \in Processes, Crash(p) PROVE Types
  <2>1. txnExpires' \in BOOLEAN
    BY <1>1, <1>8, Zenon DEF Crash
  <2>2. writer' \in Handlers \cup {None}
    BY <1>1, <1>8 DEF Crash
  <2>3. found' \in [Reconcilers -> ran \cup {0}]
    BY <1>1, <1>8 DEF Crash
  <2> QED BY <1>1, <1>8, <2>1, <2>2, <2>3 DEF Crash
<1> QED BY <1>2, <1>4, <1>5, <1>6, <1>7, <1>8 DEF Next

-----------------------------------------------------------------------------
\* What a step does to the handlers that do not take it.

LEMMA ReceiptsGrow ==
  ASSUME [Next]_vars
  PROVE  receipts \subseteq receipts'
<1>1. ASSUME NEW h \in Handlers, Receive(h) \/ Step(h) PROVE receipts \subseteq receipts'
  BY <1>1, HandlerSteps, QuietSteps
  DEF attemptVars, LoadIntent, CheckGate, Prepare, Spawn, RecordAcknowledged, ResumeTransaction,
      CommitAcknowledged, SuspendInTransaction, RecordOther, SaveReply
<1>2. CASE TimePasses
  BY <1>2 DEF TimePasses, dispatchVars, attemptVars
<1> QED
  BY <1>1, <1>2 DEF Next, FindEvidence, Reconcile, ReconcileFails, OperatesGate, OperatesIntent,
     Crash, dispatchVars, attemptVars, vars

Same(g) ==
  /\ pc'[g] = pc[g] /\ intent'[g] = intent[g] /\ key'[g] = key[g]
  /\ attempt'[g] = attempt[g] /\ outcome'[g] = outcome[g]
  /\ writer' = g <=> writer = g

LEMMA SameFits ==
  ASSUME DispatchInv, [Next]_vars, NEW g \in Handlers, Same(g)
  PROVE  HandlerFits(g)'
<1>1. receipts \subseteq receipts' /\ ran \subseteq ran'
  BY ReceiptsGrow, LedgerGrows
<1>2. HandlerFits(g)
  BY DEF DispatchInv, HandlersInv
<1> QED BY <1>1, <1>2 DEF Same, HandlerFits

LEMMA EndedFits ==
  ASSUME NEW hs \in SUBSET Handlers, End(hs), NEW h \in hs, writer' # h
  PROVE  HandlerFits(h)'
BY DEF End, HandlerFits, Before

\* A step of h leaves the others as they were, and moves h on or ends it.
LEMMA OthersSame ==
  ASSUME DispatchInv, NEW h \in Handlers, Receive(h) \/ Step(h), NEW g \in Handlers \ {h}
  PROVE  Same(g)
<1>1. HandlersTypeOK
  BY DEF DispatchInv, TypeOK
<1>2. ASSUME NEW s, Goto(h, s) PROVE pc'[g] = pc[g]
  BY <1>1, <1>2 DEF Goto, HandlersTypeOK
<1>3. ASSUME NEW s, Goto(h, s), UNCHANGED <<intent, key, attempt, outcome>>,
             writer' = g <=> writer = g
      PROVE  Same(g)
  BY <1>2, <1>3 DEF Same
<1>4. ASSUME NEW s, NEW b, Check(h, b, s), writer' = writer PROVE Same(g)
  BY <1>3, <1>4 DEF Check
<1>5. ASSUME End({h}), writer' = writer PROVE Same(g)
  BY <1>1, <1>5 DEF End, Same, HandlersTypeOK
<1>6. CASE Receive(h)
  BY <1>1, <1>2, <1>6 DEF Receive, Same, HandlersTypeOK, txnVars
<1>7. CASE NotSpawned(h) \/ Return(h)
  BY <1>1, <1>2, <1>7 DEF NotSpawned, Return, Same, HandlersTypeOK, txnVars
<1>8. CASE Prepare(h)
  BY <1>1, <1>2, <1>8 DEF Prepare, Same, HandlersTypeOK, txnVars
<1>9. ASSUME CommitAcknowledged(h), writer # g PROVE Same(g)
  BY <1>3, <1>9, DispatchAssumption DEF CommitAcknowledged
<1>10. ResumeTransaction(h) => writer = h
  BY DEF ResumeTransaction, DispatchInv, HandlersInv, HandlerFits
<1>11. CASE RecordAcknowledged(h) \/ ResumeTransaction(h)
  BY <1>9, <1>10, <1>11, DispatchAssumption DEF RecordAcknowledged, ResumeTransaction
<1>12. CASE SuspendInTransaction(h)
  BY <1>3, <1>12, DispatchAssumption DEF SuspendInTransaction
<1>13. CASE CheckIdempotency(h) \/ CheckLimits(h)
  BY <1>3, <1>5, <1>13 DEF CheckIdempotency, CheckLimits, txnVars
<1>14. CASE LoadFails(h) \/ PrepareFails(h) \/ RefuseTool(h) \/ RecordFails(h) \/ SaveReplyFails(h)
  BY <1>5, <1>14 DEF LoadFails, PrepareFails, RefuseTool, RecordFails, SaveReplyFails, txnVars
<1>15. CASE LoadIntent(h) \/ CheckApproval(h) \/ CheckGate(h)
  BY <1>4, <1>15 DEF LoadIntent, CheckApproval, CheckGate, txnVars
<1>16. CASE CheckReceipt(h) \/ CheckTarget(h)
  BY <1>4, <1>16 DEF CheckReceipt, CheckTarget, txnVars
<1>17. CASE Spawn(h) \/ RecordOther(h)
  BY <1>3, <1>17 DEF Spawn, RecordOther, txnVars
<1>18. CASE SaveReply(h)
  BY <1>5, <1>18 DEF SaveReply, txnVars
<1> QED
  BY <1>6, <1>7, <1>8, <1>11, <1>12, <1>13, <1>14, <1>15, <1>16, <1>17, <1>18 DEF Step

\* What a step of h leaves h with.
LEMMA MoverFits ==
  ASSUME DispatchInv, NEW h \in Handlers, Receive(h) \/ Step(h), [Next]_vars
  PROVE  HandlerFits(h)'
<1>1. HandlersTypeOK /\ HandlerFits(h) /\ receipts \subseteq receipts' /\ ran \subseteq ran'
  BY ReceiptsGrow, LedgerGrows DEF DispatchInv, TypeOK, HandlersInv
<1>2. ASSUME NEW s \in Before \ {"idle"}, pc[h] \in Before \ {"idle"}, Goto(h, s),
             UNCHANGED <<intent, key, attempt, writer>>
      PROVE  HandlerFits(h)'
  <2>1. pc'[h] = s
    BY <1>1, <1>2 DEF Goto, HandlersTypeOK
  <2> QED BY <1>1, <1>2, <2>1 DEF HandlerFits, Before
<1>3. ASSUME End({h}), writer' = writer, pc[h] # "awaitUpdate" PROVE HandlerFits(h)'
  BY <1>1, <1>3, EndedFits DEF HandlerFits
<1>4. CASE Receive(h)
  <2>1. pc'[h] = "idempotency" /\ intent'[h] \in Intents /\ key'[h] \in Keys
    BY <1>1, <1>4 DEF Receive, Goto, HandlersTypeOK
  <2>2. pc[h] = "idle" /\ UNCHANGED <<attempt, writer>>
    BY <1>4 DEF Receive, txnVars
  <2> QED BY <1>1, <2>1, <2>2 DEF HandlerFits, Before
<1>5. CASE CheckIdempotency(h) \/ CheckLimits(h)
  BY <1>2, <1>3, <1>5 DEF CheckIdempotency, CheckLimits, txnVars, Before
<1>6. CASE LoadFails(h) \/ PrepareFails(h) \/ RefuseTool(h) \/ RecordFails(h) \/ SaveReplyFails(h)
  BY <1>3, <1>6 DEF LoadFails, PrepareFails, RefuseTool, RecordFails, SaveReplyFails, txnVars
<1>7. CASE LoadIntent(h) \/ CheckApproval(h)
  BY <1>2, <1>7 DEF LoadIntent, CheckApproval, Check, txnVars, Before
<1>8. CASE CheckGate(h)
  BY <1>2, <1>8 DEF CheckGate, Check, Before
<1>9. CASE CheckReceipt(h) \/ CheckTarget(h)
  BY <1>2, <1>9 DEF CheckReceipt, CheckTarget, Check, txnVars, Before
<1>10. CASE Prepare(h)
  <2>1. attempt'[h] = made + 1 /\ pc'[h] = "submit" /\ UNCHANGED <<intent, key, writer>>
    BY <1>1, <1>10 DEF Prepare, Goto, HandlersTypeOK, txnVars
  <2>2. made + 1 # 0
    BY <1>10, PreparePending DEF Attempts
  <2>3. pc[h] = "prepare"
    BY <1>10 DEF Prepare
  <2> QED BY <1>1, <2>1, <2>2, <2>3 DEF HandlerFits, Before
<1>11. CASE Spawn(h)
  <2>1. pc'[h] = "hermes" /\ attempt[h] \in ran'
    BY <1>1, <1>11 DEF Spawn, Goto, HandlersTypeOK
  <2> QED BY <1>1, <1>11, <2>1 DEF Spawn, HandlerFits, Before, txnVars
<1>12. CASE NotSpawned(h) \/ Return(h)
  <2>1. pc'[h] = "record" /\ outcome'[h] \in HermesOutcomes
    BY <1>1, <1>12 DEF NotSpawned, Return, Goto, HandlersTypeOK, HermesOutcomes
  <2>2. outcome'[h] = "ACKNOWLEDGED" => attempt[h] \in ran
    BY <1>1, <1>12 DEF NotSpawned, Return, HandlersTypeOK, HandlerFits
  <2> QED
    BY <1>1, <1>12, <2>1, <2>2 DEF NotSpawned, Return, HandlerFits, Before, txnVars, attemptVars
<1>13. CASE RecordAcknowledged(h) \/ ResumeTransaction(h)
  <2>1. CommitAcknowledged(h) /\ pc[h] \in {"record", "awaitUpdate"} /\ outcome[h] = "ACKNOWLEDGED"
    BY <1>1, <1>13 DEF RecordAcknowledged, ResumeTransaction, HandlerFits
  <2>2. pc'[h] = "reply" /\ attempt[h] \in receipts' /\ writer' = None
    BY <1>1, <2>1 DEF CommitAcknowledged, Goto, HandlersTypeOK
  <2> QED
    BY <1>1, <2>1, <2>2, DispatchAssumption DEF CommitAcknowledged, HandlerFits, Before
<1>14. CASE SuspendInTransaction(h)
  <2>1. pc'[h] = "awaitUpdate" /\ writer' = h /\ pc[h] = "record" /\ outcome[h] = "ACKNOWLEDGED"
    BY <1>1, <1>14 DEF SuspendInTransaction, Goto, HandlersTypeOK
  <2> QED BY <1>1, <1>14, <2>1 DEF SuspendInTransaction, HandlerFits, Before, attemptVars
<1>15. CASE RecordOther(h)
  <2>1. pc'[h] = "reply"
    BY <1>1, <1>15 DEF RecordOther, Goto, HandlersTypeOK
  <2> QED BY <1>1, <1>15, <2>1 DEF RecordOther, HandlerFits, Before, txnVars
<1>16. CASE SaveReply(h)
  BY <1>3, <1>16 DEF SaveReply, txnVars
<1> QED
  BY <1>4, <1>5, <1>6, <1>7, <1>8, <1>9, <1>10, <1>11, <1>12, <1>13, <1>14, <1>15, <1>16 DEF Step

LEMMA HandlersInvStep ==
  ASSUME DispatchInv, [Next]_vars
  PROVE  HandlersInv'
<1>1. ASSUME NEW h \in Handlers, Receive(h) \/ Step(h) PROVE HandlersInv'
  BY <1>1, MoverFits, OthersSame, SameFits DEF HandlersInv
<1>2. ASSUME UNCHANGED <<handlerVars, writer>> PROVE HandlersInv'
  <2>1. \A g \in Handlers : Same(g)
    BY <1>2 DEF handlerVars, Same
  <2> QED BY <2>1, SameFits DEF HandlersInv
<1>3. CASE OperatesGate \/ (\E i \in Intents : OperatesIntent(i)) \/ TimePasses \/ UNCHANGED vars
  BY <1>2, <1>3 DEF OperatesGate, OperatesIntent, TimePasses, dispatchVars, txnVars, vars
<1>4. ASSUME NEW r \in Reconcilers, FindEvidence(r) \/ Reconcile(r) \/ ReconcileFails(r)
      PROVE  HandlersInv'
  BY <1>2, <1>4 DEF FindEvidence, Reconcile, ReconcileFails, txnVars
<1>5. ASSUME NEW p \in Processes, Crash(p) PROVE HandlersInv'
  <2> DEFINE hs == {h \in Handlers : ProcessOf[h] = p}
  <2>1. End(hs) /\ writer' = IF writer # None /\ ProcessOf[writer] = p THEN None ELSE writer
    BY <1>5 DEF Crash
  <2>2. writer \in Handlers \cup {None}
    BY DEF DispatchInv, TypeOK, StoresTypeOK
  <2>3. ASSUME NEW h \in hs PROVE HandlerFits(h)'
    BY <2>1, <2>2, EndedFits, DispatchAssumption
  <2>4. ASSUME NEW h \in Handlers \ hs PROVE Same(h)
    BY <2>1, <2>2, DispatchAssumption DEF End, Same
  <2> QED BY <2>3, <2>4, SameFits DEF HandlersInv
<1> QED BY <1>1, <1>3, <1>4, <1>5 DEF Next

-----------------------------------------------------------------------------
\* There is room for the attempts to come, and each belongs to one request.

\* How a step moves a handler's claim on an attempt.
Claims(h) == attempt'[h] \in {0, attempt[h]}

LEMMA MoverClaims ==
  ASSUME DispatchInv, NEW h \in Handlers, Step(h), ~Prepare(h)
  PROVE  Claims(h) /\ UNCHANGED made /\ (h \in Pending' => h \in Pending)
<1>1. HandlersTypeOK
  BY DEF DispatchInv, TypeOK
<1>2. pc[h] # "idle" /\ UNCHANGED made
  BY HandlerSteps, QuietSteps
  DEF Step, CheckIdempotency, LoadIntent, LoadFails, CheckApproval, CheckGate, CheckReceipt,
      CheckTarget, CheckLimits, PrepareFails, RefuseTool, NotSpawned, Spawn, Return,
      RecordAcknowledged, SuspendInTransaction, ResumeTransaction, CommitAcknowledged, RecordOther,
      RecordFails, SaveReply, SaveReplyFails, attemptVars
<1>3. ASSUME End({h}) PROVE Claims(h) /\ pc'[h] = "idle"
  BY <1>3 DEF End, Claims
<1>4. attempt' = attempt \/ End({h})
  BY DEF Step, CheckIdempotency, LoadIntent, LoadFails, CheckApproval, CheckGate, CheckReceipt,
      CheckTarget, CheckLimits, PrepareFails, RefuseTool, NotSpawned, Spawn, Return, Check,
      RecordAcknowledged, SuspendInTransaction, ResumeTransaction, CommitAcknowledged, RecordOther,
      RecordFails, SaveReply, SaveReplyFails
<1> QED BY <1>2, <1>3, <1>4 DEF Claims, Pending

LEMMA PendingFinite ==
  ASSUME NEW S \in SUBSET Handlers
  PROVE  IsFiniteSet(S) /\ Cardinality(S) \in Nat
BY FS_Subset, FS_CardinalityType, DispatchAssumption

LEMMA PendingShrinks ==
  ASSUME DispatchInv, Pending' \subseteq Pending, UNCHANGED made
  PROVE  PendingFit'
<1>1. made \in Nat /\ Pending \subseteq Handlers /\ Pending' \subseteq Handlers
  BY DEF DispatchInv, TypeOK, AttemptsTypeOK, Pending
<1>2. Cardinality(Pending') <= Cardinality(Pending)
  BY <1>1, PendingFinite, FS_Subset
<1>3. Cardinality(Pending) \in Nat /\ Cardinality(Pending') \in Nat
  BY <1>1, PendingFinite
<1> QED BY <1>1, <1>2, <1>3, DispatchAssumption DEF DispatchInv, PendingFit

LEMMA PendingFitStep ==
  ASSUME DispatchInv, [Next]_vars
  PROVE  PendingFit'
<1>1. made \in Nat /\ Pending \subseteq Handlers /\ HandlersTypeOK
  BY DEF DispatchInv, TypeOK, AttemptsTypeOK, Pending
<1>2. IsFiniteSet(Pending) /\ Cardinality(Pending) \in Nat
  BY <1>1, PendingFinite
<1>3. ASSUME NEW h \in Handlers, Receive(h) PROVE PendingFit'
  <2>1. Pending' \subseteq Pending \cup {h} /\ UNCHANGED made
    BY <1>3, OthersSame DEF Pending, Same, Receive, attemptVars
  <2>2. made + Cardinality(Pending) < MaxAttempts
    BY <1>3 DEF Receive, Pending
  <2>3. Cardinality(Pending \cup {h}) <= Cardinality(Pending) + 1
    BY <1>2, FS_AddElement
  <2>4. Cardinality(Pending') <= Cardinality(Pending \cup {h})
    BY <1>1, <2>1, PendingFinite, FS_Subset
  <2>5. Cardinality(Pending') \in Nat /\ Cardinality(Pending \cup {h}) \in Nat
    BY <1>1, <2>1, PendingFinite DEF Pending
  <2> QED BY <1>1, <1>2, <2>1, <2>2, <2>3, <2>4, <2>5, DispatchAssumption DEF PendingFit
<1>4. ASSUME NEW h \in Handlers, Prepare(h) PROVE PendingFit'
  <2>1. h \in Pending /\ made' = made + 1
    BY <1>4, PreparePending DEF Prepare
  <2>2. attempt'[h] = made + 1
    BY <1>1, <1>4 DEF Prepare, HandlersTypeOK
  <2>3. Pending' \subseteq Pending \ {h}
    BY <1>1, <1>4, <2>2, OthersSame DEF Pending, Same, Step
  <2>4. Cardinality(Pending \ {h}) = Cardinality(Pending) - 1
    BY <1>2, <2>1, FS_RemoveElement
  <2>5. Cardinality(Pending') <= Cardinality(Pending \ {h})
    BY <1>1, <2>3, PendingFinite, FS_Subset
  <2>6. Cardinality(Pending') \in Nat
    BY <1>1, <2>3, PendingFinite
  <2> QED
    BY <1>1, <1>2, <2>1, <2>4, <2>5, <2>6, DispatchAssumption DEF DispatchInv, PendingFit
<1>5. ASSUME NEW h \in Handlers, Step(h), ~Prepare(h) PROVE PendingFit'
  <2>1. Pending' \subseteq Pending
    BY <1>5, OthersSame, MoverClaims DEF Pending, Same
  <2> QED BY <1>5, <2>1, MoverClaims, PendingShrinks
<1>6. ASSUME UNCHANGED <<handlerVars, made>> PROVE PendingFit'
  BY <1>6, PendingShrinks DEF handlerVars, Pending
<1>7. CASE OperatesGate \/ (\E i \in Intents : OperatesIntent(i)) \/ TimePasses \/ UNCHANGED vars
  BY <1>6, <1>7 DEF OperatesGate, OperatesIntent, TimePasses, dispatchVars, attemptVars, vars
<1>8. ASSUME NEW r \in Reconcilers, FindEvidence(r) \/ Reconcile(r) \/ ReconcileFails(r)
      PROVE  PendingFit'
  BY <1>6, <1>8 DEF FindEvidence, Reconcile, ReconcileFails, attemptVars
<1>9. ASSUME NEW p \in Processes, Crash(p) PROVE PendingFit'
  BY <1>9, PendingShrinks DEF Crash, End, Pending, attemptVars
<1> QED BY <1>3, <1>4, <1>5, <1>7, <1>8, <1>9 DEF Next

LEMMA AttemptsOwnedStep ==
  ASSUME DispatchInv, [Next]_vars
  PROVE  AttemptsOwned'
<1>1. AttemptsOwned /\ HandlersTypeOK /\ made \in Nat
  BY DEF DispatchInv, TypeOK, AttemptsTypeOK
<1>2. ASSUME \A g \in Handlers : Claims(g) PROVE AttemptsOwned'
  BY <1>1, <1>2 DEF Claims, AttemptsOwned
<1>3. ASSUME NEW h \in Handlers, Prepare(h) PROVE AttemptsOwned'
  <2>1. attempt' = [attempt EXCEPT ![h] = made + 1]
    BY <1>3 DEF Prepare
  <2>2. \A g \in Handlers : attempt[g] # made + 1
    BY <1>1 DEF HandlersTypeOK
  <2> QED BY <1>1, <2>1, <2>2 DEF HandlersTypeOK, AttemptsOwned
<1>4. ASSUME NEW h \in Handlers, Step(h), ~Prepare(h) PROVE AttemptsOwned'
  BY <1>2, <1>4, MoverClaims, OthersSame DEF Claims, Same
<1>5. ASSUME UNCHANGED attempt PROVE AttemptsOwned'
  BY <1>2, <1>5 DEF Claims
<1>6. ASSUME NEW p \in Processes, Crash(p) PROVE AttemptsOwned'
  BY <1>2, <1>6 DEF Crash, End, Claims
<1> QED
  BY <1>3, <1>4, <1>5, <1>6
  DEF Next, Receive, FindEvidence, Reconcile, ReconcileFails, OperatesGate, OperatesIntent,
      TimePasses, dispatchVars, handlerVars, vars

LEMMA AttemptsOnRecordStep ==
  ASSUME DispatchInv, [Next]_vars
  PROVE  AttemptsOnRecord'
<1>1. /\ AttemptsOnRecord /\ AttemptsTypeOK /\ made \in Nat
      /\ attemptOf \in [Attempts -> Intents \cup {None}]
      /\ attemptState \in [Attempts -> AttemptStates]
      /\ authState \in [Attempts -> {"NONE", "CLAIMED", "CONSUMED"}]
      /\ 1 .. made \subseteq Attempts
  BY DispatchAssumption DEF DispatchInv, TypeOK, AttemptsTypeOK, Attempts
\* It holds after a step that leaves no column of a row empty.
<1>2. ASSUME UNCHANGED <<made, attemptOf>>,
             \A a \in 1 .. made : (attemptState'[a] = attemptState[a] \/ attemptState'[a] # "NONE")
                               /\ (authState'[a] = authState[a] \/ authState'[a] # "NONE")
      PROVE  AttemptsOnRecord'
  BY <1>1, <1>2 DEF AttemptsOnRecord
<1>3. ASSUME UNCHANGED <<made, attemptOf, attemptState, authState>> PROVE AttemptsOnRecord'
  BY <1>2, <1>3
<1>4. ASSUME NEW h \in Handlers, Prepare(h) PROVE AttemptsOnRecord'
  <2>1. made + 1 \in Attempts /\ intent[h] \in Intents
    BY <1>4, PreparePending DEF DispatchInv, HandlersInv, HandlerFits, Pending
  <2>2. /\ made' = made + 1
        /\ attemptOf' = [attemptOf EXCEPT ![made + 1] = intent[h]]
        /\ attemptState' = [attemptState EXCEPT ![made + 1] = "SUBMITTING"]
        /\ authState' = [authState EXCEPT ![made + 1] = "CLAIMED"]
    BY <1>4 DEF Prepare
  <2>3. ASSUME NEW a \in 1 .. made'
        PROVE  attemptOf'[a] \in Intents /\ attemptState'[a] # "NONE" /\ authState'[a] # "NONE"
    <3>1. CASE a = made + 1
      BY <1>1, <2>1, <2>2, <3>1
    <3>2. CASE a \in 1 .. made
      BY <1>1, <2>2, <3>2 DEF AttemptsOnRecord
    <3> QED BY <1>1, <2>2, <2>3, <3>1, <3>2
  <2> QED BY <2>3 DEF AttemptsOnRecord
<1>5. ASSUME NEW h \in Handlers, CommitAcknowledged(h) PROVE AttemptsOnRecord'
  BY <1>1, <1>2, <1>5 DEF CommitAcknowledged
<1>6. ASSUME NEW h \in Handlers, RecordOther(h) PROVE AttemptsOnRecord'
  <2>1. outcome[h] # "NONE"
    BY <1>6 DEF RecordOther, DispatchInv, HandlersInv, HandlerFits, HermesOutcomes
  <2> QED BY <1>1, <1>2, <1>6, <2>1 DEF RecordOther
<1>7. ASSUME NEW h \in Handlers, Receive(h) \/ Step(h) PROVE AttemptsOnRecord'
  BY <1>3, <1>4, <1>5, <1>6, <1>7, HandlerSteps, QuietSteps
  DEF LoadIntent, CheckGate, Spawn, SuspendInTransaction, SaveReply, attemptVars,
      RecordAcknowledged, ResumeTransaction
<1>8. ASSUME NEW r \in Reconcilers, FindEvidence(r) \/ Reconcile(r) \/ ReconcileFails(r)
      PROVE  AttemptsOnRecord'
  BY <1>1, <1>2, <1>3, <1>8 DEF FindEvidence, Reconcile, ReconcileFails, attemptVars
<1>9. CASE TimePasses
  BY <1>3, <1>9 DEF TimePasses, dispatchVars, attemptVars
<1>10. CASE OperatesGate \/ (\E i \in Intents : OperatesIntent(i)) \/ (\E p \in Processes : Crash(p))
            \/ UNCHANGED vars
  BY <1>3, <1>10 DEF OperatesGate, OperatesIntent, Crash, dispatchVars, attemptVars, vars
<1> QED BY <1>7, <1>8, <1>9, <1>10 DEF Next

-----------------------------------------------------------------------------
\* The invariant is inductive.
THEOREM DispatchInvariance == Spec => []DispatchInv
<1>1. Init => DispatchInv
  BY InitInv
<1>2. GateInv /\ TxnInv /\ GateInv' /\ TxnInv' /\ DispatchInv /\ [Next]_vars => DispatchInv'
  <2> SUFFICES ASSUME GateInv', TxnInv', DispatchInv, [Next]_vars PROVE DispatchInv'
    OBVIOUS
  <2>1. HandlersTypeOK' /\ IntentTypeOK' /\ AttemptsTypeOK' /\ StoresTypeOK'
    BY HandlersTypeStep, IntentTypeStep, AttemptsTypeStep, StoresTypeStep
  <2>2. GateTypeOK'
    BY DEF GateInv
  <2>3. PendingFit' /\ HandlersInv' /\ AttemptsOwned' /\ AttemptsOnRecord'
    BY PendingFitStep, HandlersInvStep, AttemptsOwnedStep, AttemptsOnRecordStep
  <2> QED BY <2>1, <2>2, <2>3 DEF DispatchInv, TypeOK
<1> QED BY <1>1, <1>2, GateHoldsInUse, PTL DEF Spec

\* Every variable keeps its type, receipts and evidence only ever concern
\* attempts whose Hermes process was started, and no request ever refers to an
\* attempt that was not made.
THEOREM DispatchTypeCorrect == Spec => []TypeOK
<1>1. DispatchInv => TypeOK
  BY DEF DispatchInv
<1> QED BY <1>1, DispatchInvariance, PTL

-----------------------------------------------------------------------------
(***************************************************************************)
(* What the control database keeps of every execution, however handlers,   *)
(* processes, crashes and the reconciler interleave; and what it keeps on  *)
(* top of that where no reconciler runs beside other processes.            *)
(***************************************************************************)

\* How a step leaves the columns the ledger is read from.
LEMMA LedgerWrites ==
  ASSUME DispatchInv, [Next]_vars
  PROVE  \/ UNCHANGED <<made, slot, attemptState, authState, receipts>>
         \/ \E h \in Handlers : Prepare(h) \/ RecordOther(h)
         \/ \E h \in Handlers : /\ RecordAcknowledged(h) \/ ResumeTransaction(h)
                                /\ CommitAcknowledged(h)
         \/ \E r \in Reconcilers : Reconcile(r)
<1>1. ASSUME NEW h \in Handlers, Receive(h) \/ Step(h)
      PROVE  \/ UNCHANGED <<made, slot, attemptState, authState, receipts>>
             \/ Prepare(h) \/ RecordOther(h)
             \/ (RecordAcknowledged(h) \/ ResumeTransaction(h)) /\ CommitAcknowledged(h)
  BY <1>1, HandlerSteps, QuietSteps
  DEF LoadIntent, CheckGate, Spawn, SuspendInTransaction, SaveReply, attemptVars,
      RecordAcknowledged, ResumeTransaction
<1>2. CASE TimePasses
  BY <1>2 DEF TimePasses, dispatchVars, attemptVars
<1> QED
  BY <1>1, <1>2 DEF Next, FindEvidence, ReconcileFails, OperatesGate, OperatesIntent, Crash,
     dispatchVars, attemptVars, vars

-----------------------------------------------------------------------------
\* The event loop.

\* Everything runs in one process: every request shares one event loop.
OneProcess == \A p, q \in Processes : p = q

\* In one process a handler that takes a step has the loop for itself, and while
\* it is between two suspension points nobody else takes one: only time passes
\* and the process may die.
LEMMA Alone ==
  ASSUME OneProcess, NEW h \in Handlers, Runs(h), NEW g \in Handlers \ {h}
  PROVE  pc[g] \in Parked
BY DispatchAssumption DEF OneProcess, Runs

LEMMA WhileBusy ==
  ASSUME OneProcess, [Next]_vars, NEW h \in Handlers, pc[h] \notin Parked
  PROVE  \/ Step(h) \/ TimePasses \/ UNCHANGED vars
         \/ \E p \in Processes : Crash(p) /\ pc'[h] = "idle"
<1>1. ASSUME NEW p \in Processes PROVE ~LoopFree(p) /\ p = ProcessOf[h]
  BY DispatchAssumption DEF OneProcess, LoopFree
<1>2. ASSUME NEW r \in Reconcilers PROVE ~LoopFree(ProcessOf[r])
  BY <1>1, DispatchAssumption
<1>3. ASSUME NEW g \in Handlers \ {h} PROVE ~Runs(g)
  BY <1>3, Alone
<1>4. ASSUME NEW g \in Handlers, Receive(g) \/ Step(g) PROVE Runs(g)
  BY <1>4
  DEF Receive, Step, CheckIdempotency, LoadIntent, LoadFails, CheckApproval, CheckGate,
      CheckReceipt, CheckTarget, CheckLimits, Prepare, PrepareFails, RefuseTool, NotSpawned, Spawn,
      Return, RecordAcknowledged, SuspendInTransaction, ResumeTransaction, RecordOther, RecordFails,
      SaveReply, SaveReplyFails
<1>5. ~Receive(h)
  BY DEF Receive, Parked
<1>6. ~SomeLoopFree
  BY <1>1 DEF SomeLoopFree
<1>7. ASSUME NEW p \in Processes, Crash(p) PROVE pc'[h] = "idle"
  BY <1>1, <1>7 DEF Crash, End
<1> QED
  BY <1>2, <1>3, <1>4, <1>5, <1>6, <1>7
  DEF Next, FindEvidence, Reconcile, ReconcileFails, OperatesGate, OperatesIntent, OperatorWrites

\* The step that brings a handler to each place.
LEMMA CameFrom ==
  ASSUME DispatchInv, NEW h \in Handlers, Receive(h) \/ Step(h)
  PROVE  /\ pc'[h] = "idempotency" => Receive(h)
         /\ pc'[h] = "load" => CheckIdempotency(h)
         /\ pc'[h] = "approval" => LoadIntent(h)
         /\ pc'[h] = "gate" => CheckApproval(h)
         /\ pc'[h] = "receipt" => CheckGate(h)
         /\ pc'[h] \in {"target", "awaitTarget"} => CheckReceipt(h)
         /\ pc'[h] = "limits" => CheckTarget(h)
         /\ pc'[h] = "prepare" => CheckLimits(h) /\ ~End({h})
         /\ pc'[h] = "submit" => Prepare(h)
         /\ pc'[h] = "hermes" => Spawn(h)
         /\ pc'[h] = "record" => NotSpawned(h) \/ Return(h)
         /\ pc'[h] = "awaitUpdate" => SuspendInTransaction(h)
         /\ pc'[h] = "reply" => RecordAcknowledged(h) \/ ResumeTransaction(h) \/ RecordOther(h)
<1>1. HandlersTypeOK
  BY DEF DispatchInv, TypeOK
<1>2. \A s : Goto(h, s) => pc'[h] = s
  BY <1>1 DEF Goto, HandlersTypeOK
<1>3. End({h}) => pc'[h] = "idle"
  BY DEF End
<1>4. /\ Receive(h) => pc'[h] = "idempotency"
      /\ CheckIdempotency(h) => pc'[h] \in {"idle", "load"}
      /\ LoadIntent(h) => pc'[h] = "approval"
      /\ LoadFails(h) => pc'[h] = "idle"
      /\ CheckApproval(h) => pc'[h] = "gate"
      /\ CheckGate(h) => pc'[h] = "receipt"
  BY <1>2, <1>3 DEF Receive, CheckIdempotency, LoadIntent, LoadFails, CheckApproval, CheckGate, Check
<1>5. /\ CheckReceipt(h) => pc'[h] \in {"target", "awaitTarget"}
      /\ CheckTarget(h) => pc'[h] = "limits"
      /\ CheckLimits(h) => pc'[h] \in {"idle", "prepare"}
      /\ Prepare(h) => pc'[h] = "submit"
      /\ PrepareFails(h) => pc'[h] = "idle"
      /\ RefuseTool(h) => pc'[h] = "idle"
  BY <1>2, <1>3 DEF CheckReceipt, CheckTarget, CheckLimits, Prepare, PrepareFails, RefuseTool, Check
<1>6. /\ NotSpawned(h) \/ Return(h) => pc'[h] = "record"
      /\ Spawn(h) => pc'[h] = "hermes"
      /\ SuspendInTransaction(h) => pc'[h] = "awaitUpdate"
      /\ RecordAcknowledged(h) \/ ResumeTransaction(h) \/ RecordOther(h) => pc'[h] = "reply"
      /\ RecordFails(h) \/ SaveReply(h) \/ SaveReplyFails(h) => pc'[h] = "idle"
  BY <1>2, <1>3
  DEF NotSpawned, Return, Spawn, SuspendInTransaction, RecordAcknowledged, ResumeTransaction,
      CommitAcknowledged, RecordOther, RecordFails, SaveReply, SaveReplyFails
<1> QED BY <1>3, <1>4, <1>5, <1>6 DEF Step

-----------------------------------------------------------------------------
\* A stored acknowledgement.

LEMMA StoredAcknowledgementsStep ==
  ASSUME DispatchInv, StoredAcknowledgementsHaveReceipts, [Next]_vars
  PROVE  StoredAcknowledgementsHaveReceipts'
<1>1. receipts \subseteq receipts' /\ reply \in [Keys -> [attempt : 0 .. made,
        outcome : HermesOutcomes \cup {"NONE"}, expired : BOOLEAN]]
  BY ReceiptsGrow DEF DispatchInv, TypeOK, StoresTypeOK
<1>2. ASSUME UNCHANGED reply PROVE StoredAcknowledgementsHaveReceipts'
  BY <1>1, <1>2 DEF StoredAcknowledgementsHaveReceipts
<1>3. ASSUME NEW h \in Handlers, SaveReply(h) PROVE StoredAcknowledgementsHaveReceipts'
  <2>1. outcome[h] = "ACKNOWLEDGED" => attempt[h] \in receipts
    BY <1>3 DEF SaveReply, DispatchInv, HandlersInv, HandlerFits
  <2>2. reply' = [reply EXCEPT ![key[h]] =
                    [attempt |-> attempt[h], outcome |-> outcome[h], expired |-> FALSE]]
    BY <1>3 DEF SaveReply
  <2>3. ASSUME NEW k \in Keys, reply'[k].outcome = "ACKNOWLEDGED" PROVE reply'[k].attempt \in receipts'
    <3>1. CASE k = key[h]
      BY <1>1, <2>1, <2>2, <2>3, <3>1
    <3>2. CASE k # key[h]
      BY <1>1, <2>2, <2>3, <3>2 DEF StoredAcknowledgementsHaveReceipts
    <3> QED BY <3>1, <3>2
  <2> QED BY <2>3 DEF StoredAcknowledgementsHaveReceipts
<1>4. ASSUME NEW h \in Handlers, Receive(h) \/ Step(h), ~SaveReply(h) PROVE UNCHANGED reply
  BY <1>4, HandlerSteps, QuietSteps
  DEF LoadIntent, CheckGate, Prepare, Spawn, RecordAcknowledged, ResumeTransaction,
      CommitAcknowledged, SuspendInTransaction, RecordOther
<1>5. CASE TimePasses
  <2>1. ASSUME NEW k \in Keys, reply' = [reply EXCEPT ![k].expired = TRUE]
        PROVE  StoredAcknowledgementsHaveReceipts'
    <3>1. \A j \in Keys : reply'[j].outcome = reply[j].outcome /\ reply'[j].attempt = reply[j].attempt
      BY <1>1, <2>1
    <3> QED BY <1>1, <3>1 DEF StoredAcknowledgementsHaveReceipts
  <2> QED BY <1>2, <1>5, <2>1 DEF TimePasses, dispatchVars
<1>6. ASSUME NEW r \in Reconcilers, FindEvidence(r) \/ Reconcile(r) \/ ReconcileFails(r)
      PROVE  UNCHANGED reply
  BY <1>6 DEF FindEvidence, Reconcile, ReconcileFails
<1> QED
  BY <1>2, <1>3, <1>4, <1>5, <1>6 DEF Next, OperatesGate, OperatesIntent, Crash, dispatchVars, vars

\* An acknowledged response that is returned again for its key is backed by a
\* receipt, whichever requests shared the key and whatever crashed since.
THEOREM StoredAcknowledgementsHold == Spec => []StoredAcknowledgementsHaveReceipts
<1>1. Init => StoredAcknowledgementsHaveReceipts
  BY DEF Init, DispatchInit, StoredAcknowledgementsHaveReceipts, NoReply
<1>2. DispatchInv /\ StoredAcknowledgementsHaveReceipts /\ [Next]_vars
        => StoredAcknowledgementsHaveReceipts'
  BY StoredAcknowledgementsStep
<1> QED BY <1>1, <1>2, DispatchInvariance, PTL DEF Spec

-----------------------------------------------------------------------------
\* Attempts in flight.

\* Until its handler records an outcome, an attempt can only be settled by the
\* reconciler.
Unrecorded == {"submit", "hermes", "record", "awaitUpdate"}

InFlightFits ==
  \A h \in Handlers :
    pc[h] \in Unrecorded => attemptState[attempt[h]] \in {"SUBMITTING", "RECONCILED"}

\* A handler with an attempt it has not recorded had it before, or makes it now.
LEMMA UnrecordedBefore ==
  ASSUME DispatchInv, [Next]_vars, NEW g \in Handlers, pc'[g] \in Unrecorded
  PROVE  \/ pc[g] \in Unrecorded /\ attempt'[g] = attempt[g]
         \/ Prepare(g)
<1>1. HandlersTypeOK
  BY DEF DispatchInv, TypeOK
<1>2. ASSUME NEW h \in Handlers, Receive(h) \/ Step(h), h # g
      PROVE  pc[g] \in Unrecorded /\ attempt'[g] = attempt[g]
  BY <1>2, OthersSame DEF Same
<1>3. ASSUME Receive(g) \/ Step(g), ~Prepare(g) PROVE pc[g] \in Unrecorded /\ attempt'[g] = attempt[g]
  <2>1. ~End({g})
    BY DEF End, Unrecorded
  <2>2. \A s : Goto(g, s) => pc'[g] = s
    BY <1>1 DEF Goto, HandlersTypeOK
  <2>3. CASE NotSpawned(g) \/ Return(g) \/ Spawn(g) \/ SuspendInTransaction(g)
    BY <2>3 DEF NotSpawned, Return, Spawn, SuspendInTransaction, Unrecorded
  <2>4. CASE Receive(g) \/ CheckIdempotency(g) \/ LoadIntent(g) \/ CheckApproval(g) \/ CheckGate(g)
    BY <2>1, <2>2, <2>4
    DEF Receive, CheckIdempotency, LoadIntent, CheckApproval, CheckGate, Check, Unrecorded
  <2>5. CASE CheckReceipt(g) \/ CheckTarget(g) \/ CheckLimits(g)
    BY <2>1, <2>2, <2>5 DEF CheckReceipt, CheckTarget, CheckLimits, Check, Unrecorded
  <2>6. CASE RecordAcknowledged(g) \/ ResumeTransaction(g) \/ RecordOther(g)
    BY <2>2, <2>6
    DEF RecordAcknowledged, ResumeTransaction, CommitAcknowledged, RecordOther, Unrecorded
  <2> QED
    BY <1>3, <2>1, <2>3, <2>4, <2>5, <2>6
    DEF Step, LoadFails, PrepareFails, RefuseTool, RecordFails, SaveReply, SaveReplyFails
<1>4. ASSUME UNCHANGED handlerVars PROVE pc[g] \in Unrecorded /\ attempt'[g] = attempt[g]
  BY <1>4 DEF handlerVars
<1>5. ASSUME NEW p \in Processes, Crash(p) PROVE pc[g] \in Unrecorded /\ attempt'[g] = attempt[g]
  BY <1>5 DEF Crash, End, Unrecorded
<1> QED
  BY <1>2, <1>3, <1>4, <1>5
  DEF Next, FindEvidence, Reconcile, ReconcileFails, OperatesGate, OperatesIntent, TimePasses,
      dispatchVars, handlerVars, vars

\* A write to attempt a leaves an attempt that another request holds alone.
LEMMA InFlightStep ==
  ASSUME DispatchInv, InFlightFits, [Next]_vars
  PROVE  InFlightFits'
<1>1. /\ HandlersTypeOK /\ made \in Nat
      /\ attemptState \in [Attempts -> AttemptStates] /\ AttemptsOwned
      /\ \A h \in Handlers : pc[h] \in Unrecorded => attempt[h] \in Attempts /\ attempt[h] \in 1 .. made
  <2>1. HandlersTypeOK /\ made \in 0 .. MaxAttempts
        /\ attemptState \in [Attempts -> AttemptStates] /\ AttemptsOwned
    BY DEF DispatchInv, TypeOK, AttemptsTypeOK
  <2>2. ASSUME NEW h \in Handlers, pc[h] \in Unrecorded PROVE attempt[h] \in 0 .. made /\ attempt[h] # 0
    BY <2>1, <2>2 DEF DispatchInv, HandlersInv, HandlerFits, HandlersTypeOK, Unrecorded, Before
  <2> QED BY <2>1, <2>2, DispatchAssumption DEF Attempts
<1> SUFFICES ASSUME NEW g \in Handlers, pc'[g] \in Unrecorded
             PROVE  attemptState'[attempt'[g]] \in {"SUBMITTING", "RECONCILED"}
  BY DEF InFlightFits
<1>2. CASE Prepare(g)
  <2>1. made + 1 \in Attempts /\ attempt'[g] = made + 1
    BY <1>1, <1>2, PreparePending DEF Prepare, HandlersTypeOK
  <2> QED BY <1>1, <1>2, <2>1 DEF Prepare
<1>3. CASE pc[g] \in Unrecorded /\ attempt'[g] = attempt[g]
  <2>1. attemptState[attempt[g]] \in {"SUBMITTING", "RECONCILED"}
    BY <1>3 DEF InFlightFits
  <2>2. ASSUME NEW h \in Handlers, RecordOther(h) \/ CommitAcknowledged(h), pc'[h] = "reply"
        PROVE  attemptState'[attempt[g]] = attemptState[attempt[g]]
    <3>1. g # h
      BY <2>2 DEF Unrecorded
    <3>2. attempt[g] # attempt[h]
      BY <1>1, <1>3, <3>1 DEF AttemptsOwned
    <3> QED BY <1>1, <1>3, <2>2, <3>2 DEF RecordOther, CommitAcknowledged
  <2>3. \A h \in Handlers : RecordOther(h) \/ CommitAcknowledged(h) => pc'[h] = "reply"
    BY <1>1 DEF RecordOther, CommitAcknowledged, Goto, HandlersTypeOK
  <2>4. ASSUME NEW h \in Handlers, Prepare(h)
        PROVE  attemptState'[attempt[g]] = attemptState[attempt[g]]
    BY <1>1, <1>3, <2>4 DEF Prepare
  <2>5. ASSUME NEW r \in Reconcilers, Reconcile(r)
        PROVE  attemptState'[attempt[g]] \in {attemptState[attempt[g]], "RECONCILED"}
    BY <1>1, <1>3, <2>5 DEF Reconcile
  <2> QED BY <1>3, <2>1, <2>2, <2>3, <2>4, <2>5, LedgerWrites
<1> QED BY <1>2, <1>3, UnrecordedBefore

\* Hermes is only ever started for an attempt on record, and while it runs the
\* attempt is open or settled by the reconciler: a crash at any point leaves an
\* attempt that can still be found and settled.
THEOREM StartedAttemptsHold == Spec => []StartedAttemptsAreOnRecord
<1>1. Init => InFlightFits
  BY DEF Init, DispatchInit, InFlightFits, Unrecorded
<1>2. DispatchInv /\ InFlightFits /\ [Next]_vars => InFlightFits'
  BY InFlightStep
<1>3. DispatchInv /\ InFlightFits => StartedAttemptsAreOnRecord
  <2> SUFFICES ASSUME DispatchInv, InFlightFits, NEW a \in ran
               PROVE  /\ attemptState[a] # "NONE" /\ authState[a] # "NONE"
                      /\ (\E h \in Handlers : attempt[h] = a /\ pc[h] = "hermes")
                           => attemptState[a] \in {"SUBMITTING", "RECONCILED"}
    BY DEF StartedAttemptsAreOnRecord
  <2>1. a \in 1 .. made
    BY DEF DispatchInv, TypeOK, AttemptsTypeOK
  <2>2. attemptState[a] # "NONE" /\ authState[a] # "NONE"
    BY <2>1 DEF DispatchInv, AttemptsOnRecord
  <2>3. ASSUME NEW h \in Handlers, attempt[h] = a, pc[h] = "hermes"
        PROVE  attemptState[a] \in {"SUBMITTING", "RECONCILED"}
    BY <2>3 DEF InFlightFits, Unrecorded
  <2> QED BY <2>2, <2>3
<1> QED BY <1>1, <1>2, <1>3, DispatchInvariance, PTL DEF Spec

-----------------------------------------------------------------------------
\* Slots.

SlotHolders(w) == {a \in 1 .. made : slot[a] = w}

LEMMA HoldersFinite ==
  ASSUME DispatchInv, NEW w
  PROVE  IsFiniteSet(SlotHolders(w))
<1>1. made \in Nat
  BY DEF DispatchInv, TypeOK, AttemptsTypeOK
<1>2. IsFiniteSet(1 .. made)
  BY <1>1, FS_Interval
<1> QED BY <1>2, FS_Subset DEF SlotHolders

\* A row that is not inserted holds no slot.
FreeRows == \A a \in Attempts : a > made => slot[a] = 0

SlotsInv == SlotsAreAccounted /\ FreeRows

\* The columns the accounts are read from, and who writes them.
LEMMA SlotWrites ==
  ASSUME DispatchInv, [Next]_vars
  PROVE  \/ UNCHANGED <<made, slot, opened, consumed>>
         \/ (\E max \in Budgets : Unlock(max)) /\ UNCHANGED <<made, slot>>
         \/ \E h \in Handlers : Prepare(h)
<1>1. ASSUME NEW h \in Handlers, Receive(h) \/ Step(h)
      PROVE  UNCHANGED <<made, slot, opened, consumed>> \/ Prepare(h)
  BY <1>1, HandlerSteps, QuietSteps
  DEF LoadIntent, CheckGate, StatusExpiresWindows, Spawn, SuspendInTransaction, SaveReply,
      attemptVars, gateVars, RecordAcknowledged, ResumeTransaction, CommitAcknowledged, RecordOther
<1>2. CASE OperatesGate
  BY <1>2 DEF OperatesGate, Lock, StatusExpiresWindows, dispatchVars, attemptVars
<1>3. CASE TimePasses
  BY <1>3 DEF TimePasses, WindowTimesOut, dispatchVars, attemptVars, gateVars
<1> QED
  BY <1>1, <1>2, <1>3 DEF Next, FindEvidence, Reconcile, ReconcileFails, OperatesIntent, Crash,
     dispatchVars, attemptVars, gateVars, vars

LEMMA SlotTypes ==
  ASSUME DispatchInv
  PROVE  /\ made \in Nat /\ made <= MaxAttempts /\ slot \in [Attempts -> 0 .. opened]
         /\ opened \in Nat /\ opened <= MaxWindows
         /\ consumed \in [Windows -> 0 .. 10]
<1>1. made \in 0 .. MaxAttempts /\ slot \in [Attempts -> 0 .. opened]
  BY DEF DispatchInv, TypeOK, AttemptsTypeOK
<1>2. opened \in 0 .. MaxWindows /\ consumed \in [Windows -> 0 .. 10]
  BY DEF DispatchInv, TypeOK, GateTypeOK
<1> QED BY <1>1, <1>2, DispatchAssumption, GateAssumption

\* A claimed slot and the attempt that claimed it are inserted together.
LEMMA SlotsPrepare ==
  ASSUME DispatchInv, SlotsInv, NEW h \in Handlers, Prepare(h)
  PROVE  SlotsInv'
<1>1. made + 1 \in Attempts /\ made' = made + 1
  BY PreparePending DEF Prepare
<1>2. CASE ActiveWindows = {} /\ UNCHANGED <<gateVars, slot>>
  <2>1. slot[made + 1] = 0
    BY <1>1, SlotTypes DEF SlotsInv, FreeRows
  <2>2. ASSUME NEW w \in 1 .. opened PROVE SlotHolders(w)' = SlotHolders(w)
    BY <1>1, <1>2, <2>1, SlotTypes DEF SlotHolders
  <2>3. UNCHANGED <<opened, consumed>>
    BY <1>2 DEF gateVars
  <2>4. SlotsAreAccounted'
    BY <2>2, <2>3 DEF SlotsInv, SlotsAreAccounted, SlotHolders
  <2>5. FreeRows'
    BY <1>1, <1>2, SlotTypes DEF SlotsInv, FreeRows, Attempts
  <2> QED BY <2>4, <2>5 DEF SlotsInv
<1>3. ASSUME NEW w \in ActiveWindows, ClaimSlot(w), slot' = [slot EXCEPT ![made + 1] = w]
      PROVE  SlotsInv'
  <2>1. w \in 1 .. opened /\ UNCHANGED opened /\ consumed' = [consumed EXCEPT ![w] = consumed[w] + 1]
    <3>1. w \in Windows /\ w <= opened
      BY <1>3 DEF ActiveWindows, DispatchInv, GateInv, RowsInserted
    <3> QED BY <1>3, <3>1, SlotTypes DEF ClaimSlot, Windows
  <2>2. ASSUME NEW v \in 1 .. opened, v # w PROVE SlotHolders(v)' = SlotHolders(v)
    <3>1. slot[made + 1] # v
      BY <1>1, SlotTypes DEF SlotsInv, FreeRows
    <3> QED BY <1>1, <1>3, <2>2, <3>1, SlotTypes DEF SlotHolders, Attempts
  <2>3. SlotHolders(w)' = SlotHolders(w) \cup {made + 1} /\ made + 1 \notin SlotHolders(w)
    BY <1>1, <1>3, SlotTypes DEF SlotHolders, Attempts
  <2>4. Cardinality(SlotHolders(w)') = Cardinality(SlotHolders(w)) + 1
    BY <2>3, HoldersFinite, FS_AddElement
  <2>5. ASSUME NEW v \in 1 .. opened PROVE consumed'[v] = Cardinality(SlotHolders(v)')
    <3>1. consumed[v] = Cardinality(SlotHolders(v)) /\ v \in Windows /\ w \in Windows
      BY <2>1, SlotTypes, GateAssumption DEF SlotsInv, SlotsAreAccounted, SlotHolders, Windows
    <3> QED BY <2>1, <2>2, <2>4, <3>1, SlotTypes
  <2>6. SlotsAreAccounted'
    BY <2>1, <2>5 DEF SlotsAreAccounted, SlotHolders
  <2>7. FreeRows'
    BY <1>1, <1>3, SlotTypes DEF SlotsInv, FreeRows, Attempts
  <2> QED BY <2>6, <2>7 DEF SlotsInv
<1> QED BY <1>2, <1>3 DEF Prepare

LEMMA SlotsStep ==
  ASSUME DispatchInv, SlotsInv, [Next]_vars
  PROVE  SlotsInv'
<1>1. CASE UNCHANGED <<made, slot, opened, consumed>>
  BY <1>1 DEF SlotsInv, SlotsAreAccounted, FreeRows
<1>2. ASSUME NEW max \in Budgets, Unlock(max), UNCHANGED <<made, slot>> PROVE SlotsInv'
  <2>1. opened' = opened + 1 /\ consumed' = [consumed EXCEPT ![opened + 1] = 0] /\ opened < MaxWindows
    BY <1>2 DEF Unlock
  <2>2. ASSUME NEW w \in 1 .. opened' PROVE consumed'[w] = Cardinality(SlotHolders(w))
    <3>1. w \in Windows /\ opened + 1 \in Windows
      BY <2>1, SlotTypes, GateAssumption DEF Windows
    <3>2. CASE w = opened + 1
      <4>1. SlotHolders(w) = {}
        <5>1. opened \in Nat /\ \A a \in 1 .. made : slot[a] \in 0 .. opened
          <6>1. \A a \in 1 .. made : a \in Attempts
            BY SlotTypes, DispatchAssumption DEF Attempts
          <6> QED BY <6>1, SlotTypes
        <5>2. \A a \in 1 .. made : slot[a] # w
          BY <3>2, <5>1
        <5> QED BY <5>2 DEF SlotHolders
      <4> QED BY <2>1, <3>1, <3>2, <4>1, FS_EmptySet, SlotTypes
    <3>3. CASE w # opened + 1
      BY <2>1, <3>1, <3>3, SlotTypes DEF SlotsInv, SlotsAreAccounted, SlotHolders
    <3> QED BY <3>2, <3>3
  <2>3. SlotsAreAccounted'
    BY <1>2, <2>2 DEF SlotsAreAccounted, SlotHolders
  <2> QED BY <1>2, <2>3 DEF SlotsInv, FreeRows
<1> QED BY <1>1, <1>2, SlotsPrepare, SlotWrites

\* No slot of a window is lost or spent twice: its counter is the number of
\* durable attempts that claimed one, whatever fails or crashes after the claim.
THEOREM SlotsAccounted == Spec => []SlotsAreAccounted
<1>1. Init => SlotsInv
  BY GateAssumption, DispatchAssumption
  DEF Init, DispatchInit, GateInit, SlotsInv, SlotsAreAccounted, FreeRows
<1>2. DispatchInv /\ SlotsInv /\ [Next]_vars => SlotsInv'
  BY SlotsStep
<1>3. SlotsInv => SlotsAreAccounted
  BY DEF SlotsInv
<1> QED BY <1>1, <1>2, <1>3, DispatchInvariance, PTL DEF Spec

\* What one unlock lets through, for ever: no more durable attempts hold a slot of
\* a window than it was opened for, whatever suspends, fails, crashes or runs in
\* other processes.  A dispatch that passed its preflight before a suspension and
\* then finds no open window is not among them: it goes on without a slot
\* (task_dispatch_coordinator.py:216).
THEOREM SlotsWithinBudgets == Spec => []SlotsStayInBudget
<1>1. GateInv /\ SlotsAreAccounted => SlotsStayInBudget
  BY DEF GateInv, BudgetRespected, SlotsAreAccounted, SlotsStayInBudget
<1> QED BY <1>1, GateHoldsInUse, SlotsAccounted, PTL

-----------------------------------------------------------------------------
\* Where the reconciler shares the event loop of the handlers, or none runs, it
\* never settles an attempt that a handler is still going to record.
SafeReconcilers == OneProcess \/ Reconcilers = {}

OpenAttempts ==
  \A h \in Handlers : pc[h] \in Unrecorded =>
    attemptState[attempt[h]] = "SUBMITTING" /\ authState[attempt[h]] = "CLAIMED"

UnusedRows == \A a \in Attempts : a > made => attemptState[a] = "NONE"

LedgerInv == OpenAttempts /\ UnusedRows /\ LedgerAgrees

\* A recording step writes the row of its own attempt, which is open.
LEMMA RecordingOpen ==
  ASSUME DispatchInv, LedgerInv, NEW h \in Handlers, pc[h] \in Unrecorded
  PROVE  /\ attempt[h] \in 1 .. made /\ attempt[h] \in Attempts
         /\ attemptState[attempt[h]] = "SUBMITTING" /\ authState[attempt[h]] = "CLAIMED"
         /\ attempt[h] \notin receipts
<1>1. attempt[h] \in 0 .. made /\ attempt[h] # 0 /\ made \in 0 .. MaxAttempts
  BY DEF DispatchInv, TypeOK, HandlersTypeOK, AttemptsTypeOK, HandlersInv, HandlerFits, Unrecorded,
     Before
<1>2. attempt[h] \in 1 .. made /\ attempt[h] \in Attempts
  BY <1>1, DispatchAssumption DEF Attempts
<1> QED BY <1>2 DEF LedgerInv, OpenAttempts, LedgerAgrees, Settled

LEMMA LedgerTypes ==
  ASSUME DispatchInv
  PROVE  /\ made \in Nat /\ HandlersTypeOK /\ AttemptsOwned
         /\ attemptState \in [Attempts -> AttemptStates]
         /\ authState \in [Attempts -> {"NONE", "CLAIMED", "CONSUMED"}]
         /\ \A a \in 1 .. made : a \in Attempts
         /\ \A a \in receipts : a \in 1 .. made
<1>1. made \in 0 .. MaxAttempts
  BY DEF DispatchInv, TypeOK, AttemptsTypeOK
<1>2. \A a \in 1 .. made : a \in Attempts
  BY <1>1, DispatchAssumption DEF Attempts
<1> QED BY <1>1, <1>2 DEF DispatchInv, TypeOK, AttemptsTypeOK

\* What a step does to the open attempts of others, and to settled ones.
LEMMA OnlyRow ==
  ASSUME DispatchInv, LedgerInv, NEW h \in Handlers, NEW s \in AttemptStates, NEW c \in {"CLAIMED", "CONSUMED"},
         pc[h] \in Unrecorded, pc'[h] = "reply", UNCHANGED <<made, attempt>>,
         attemptState' = [attemptState EXCEPT ![attempt[h]] = s],
         authState' = [authState EXCEPT ![attempt[h]] = c],
         \A g \in Handlers \ {h} : pc'[g] = pc[g],
         s # "RECONCILED",
         s = "ACKNOWLEDGED" => receipts' = receipts \cup {attempt[h]} /\ c = "CONSUMED",
         s # "ACKNOWLEDGED" => receipts' = receipts /\ c = "CLAIMED"
  PROVE  LedgerInv'
<1>1. \A a \in Attempts \ {attempt[h]} : attemptState'[a] = attemptState[a] /\ authState'[a] = authState[a]
  BY LedgerTypes
<1>2. attemptState'[attempt[h]] = s /\ authState'[attempt[h]] = c
  BY LedgerTypes, RecordingOpen
<1>3. OpenAttempts'
  <2> SUFFICES ASSUME NEW g \in Handlers, pc'[g] \in Unrecorded
               PROVE  attemptState'[attempt'[g]] = "SUBMITTING" /\ authState'[attempt'[g]] = "CLAIMED"
    BY DEF OpenAttempts
  <2>1. g # h /\ pc[g] \in Unrecorded
    BY DEF Unrecorded
  <2>2. attempt[g] # attempt[h] /\ attempt[g] \in Attempts
    BY <2>1, LedgerTypes, RecordingOpen DEF AttemptsOwned, DispatchInv, HandlersInv, HandlerFits, Unrecorded, Before
  <2> QED BY <1>1, <2>1, <2>2, RecordingOpen
<1>4. UnusedRows'
  BY <1>1, LedgerTypes, RecordingOpen DEF LedgerInv, UnusedRows
<1>5. LedgerAgrees'
  <2> SUFFICES ASSUME NEW a \in 1 .. made
               PROVE  /\ attemptState'[a] \in Settled <=> a \in receipts'
                      /\ attemptState'[a] = "ACKNOWLEDGED" <=> authState'[a] = "CONSUMED"
    BY DEF LedgerAgrees
  <2>1. CASE a = attempt[h]
    BY <1>2, <2>1, RecordingOpen DEF Settled
  <2>2. CASE a # attempt[h]
    <3>1. attemptState'[a] = attemptState[a] /\ authState'[a] = authState[a]
      BY <1>1, <2>2, LedgerTypes
    <3>2. a \in receipts' <=> a \in receipts
      BY <2>2
    <3> QED BY <3>1, <3>2 DEF LedgerInv, LedgerAgrees
  <2> QED BY <2>1, <2>2
<1> QED BY <1>3, <1>4, <1>5 DEF LedgerInv

LEMMA CommitLedger ==
  ASSUME DispatchInv, LedgerInv, NEW h \in Handlers, Step(h),
         RecordAcknowledged(h) \/ ResumeTransaction(h), CommitAcknowledged(h)
  PROVE  LedgerInv'
<1>1. pc[h] \in Unrecorded /\ pc'[h] = "reply" /\ \A g \in Handlers \ {h} : pc'[g] = pc[g]
  BY LedgerTypes
  DEF RecordAcknowledged, ResumeTransaction, CommitAcknowledged, Goto, HandlersTypeOK, Unrecorded
<1>2. authState' = [authState EXCEPT ![attempt[h]] = "CONSUMED"]
  BY <1>1, RecordingOpen DEF CommitAcknowledged
<1> QED BY <1>1, <1>2, OnlyRow DEF CommitAcknowledged, AttemptStates

LEMMA OtherLedger ==
  ASSUME DispatchInv, LedgerInv, NEW h \in Handlers, RecordOther(h)
  PROVE  LedgerInv'
<1>1. pc[h] \in Unrecorded /\ pc'[h] = "reply" /\ \A g \in Handlers \ {h} : pc'[g] = pc[g]
  BY LedgerTypes DEF RecordOther, Goto, HandlersTypeOK, Unrecorded
<1>2. authState' = [authState EXCEPT ![attempt[h]] = "CLAIMED"]
  BY <1>1, RecordingOpen, LedgerTypes DEF RecordOther
<1>3. outcome[h] \in AttemptStates \ {"RECONCILED", "ACKNOWLEDGED"}
  BY DEF RecordOther, DispatchInv, HandlersInv, HandlerFits, HermesOutcomes, AttemptStates
<1> QED BY <1>1, <1>2, <1>3, OnlyRow DEF RecordOther

LEMMA PrepareLedger ==
  ASSUME DispatchInv, LedgerInv, NEW h \in Handlers, Prepare(h), [Next]_vars
  PROVE  LedgerInv'
<1>1. /\ made + 1 \in Attempts /\ made' = made + 1 /\ attempt'[h] = made + 1 /\ UNCHANGED receipts
      /\ attemptState' = [attemptState EXCEPT ![made + 1] = "SUBMITTING"]
      /\ authState' = [authState EXCEPT ![made + 1] = "CLAIMED"]
  BY PreparePending, LedgerTypes DEF Prepare, HandlersTypeOK
<1>2. \A a \in Attempts \ {made + 1} : attemptState'[a] = attemptState[a] /\ authState'[a] = authState[a]
  BY <1>1, LedgerTypes
<1>3. attemptState'[made + 1] = "SUBMITTING" /\ authState'[made + 1] = "CLAIMED"
  BY <1>1, LedgerTypes
<1>4. OpenAttempts'
  <2> SUFFICES ASSUME NEW g \in Handlers, pc'[g] \in Unrecorded
               PROVE  attemptState'[attempt'[g]] = "SUBMITTING" /\ authState'[attempt'[g]] = "CLAIMED"
    BY DEF OpenAttempts
  <2>1. CASE g = h
    BY <1>1, <1>3, <2>1
  <2>2. CASE g # h
    <3>1. pc[g] \in Unrecorded /\ attempt'[g] = attempt[g]
      BY <2>2, OthersSame DEF Same, Step
    <3>2. attempt[g] # made + 1
      BY <3>1, RecordingOpen, LedgerTypes
    <3> QED BY <1>2, <3>1, <3>2, RecordingOpen
  <2> QED BY <2>1, <2>2
<1>5. UnusedRows'
  BY <1>1, <1>2, LedgerTypes DEF LedgerInv, UnusedRows, Attempts
<1>6. LedgerAgrees'
  <2> SUFFICES ASSUME NEW a \in 1 .. (made + 1)
               PROVE  /\ attemptState'[a] \in Settled <=> a \in receipts
                      /\ attemptState'[a] = "ACKNOWLEDGED" <=> authState'[a] = "CONSUMED"
    BY <1>1 DEF LedgerAgrees
  <2>1. CASE a = made + 1
    BY <1>3, <2>1, LedgerTypes DEF Settled
  <2>2. CASE a \in 1 .. made
    <3>1. a \in Attempts /\ a # made + 1
      BY <2>2, LedgerTypes
    <3> QED BY <1>2, <2>2, <3>1 DEF LedgerInv, LedgerAgrees
  <2> QED BY <2>1, <2>2, LedgerTypes
<1> QED BY <1>4, <1>5, <1>6 DEF LedgerInv

\* In one process no handler is between its claim and its record when the
\* reconciler writes: one that is suspended there holds the transaction.
LEMMA ReconcileLedger ==
  ASSUME SafeReconcilers, DispatchInv, LedgerInv, NEW r \in Reconcilers, Reconcile(r)
  PROVE  LedgerInv'
<1> DEFINE a == found[r]
<1>1. a \in 1 .. made /\ a \in Attempts /\ a \notin receipts
  <2>1. a \in ran /\ a \notin receipts
    BY DEF Reconcile, DispatchInv, TypeOK, StoresTypeOK
  <2> QED BY <2>1, LedgerTypes DEF DispatchInv, TypeOK, AttemptsTypeOK
<1>2. /\ attemptState' = [attemptState EXCEPT ![a] = "RECONCILED"] /\ receipts' = receipts \cup {a}
      /\ UNCHANGED <<made, authState, handlerVars>>
  BY DEF Reconcile
<1>3. ASSUME NEW h \in Handlers PROVE pc[h] \notin Unrecorded
  <2>1. ProcessOf[h] = ProcessOf[r]
    BY DispatchAssumption DEF SafeReconcilers, OneProcess
  <2>2. pc[h] \in Parked
    BY <2>1 DEF Reconcile, LoopFree
  <2>3. pc[h] # "awaitUpdate"
    BY DispatchAssumption DEF Reconcile, DispatchInv, HandlersInv, HandlerFits
  <2> QED BY <2>2, <2>3 DEF Parked, Unrecorded
<1>4. OpenAttempts'
  BY <1>2, <1>3 DEF OpenAttempts, handlerVars
<1> HIDE DEF a
<1>5. UnusedRows'
  BY <1>1, <1>2, LedgerTypes DEF LedgerInv, UnusedRows
<1>6. authState[a] # "CONSUMED"
  BY <1>1 DEF LedgerInv, LedgerAgrees, Settled
<1>7. LedgerAgrees'
  <2> SUFFICES ASSUME NEW b \in 1 .. made
               PROVE  /\ attemptState'[b] \in Settled <=> b \in receipts'
                      /\ attemptState'[b] = "ACKNOWLEDGED" <=> authState'[b] = "CONSUMED"
    BY <1>2 DEF LedgerAgrees
  <2>1. CASE b = a
    BY <1>1, <1>2, <1>6, <2>1, LedgerTypes DEF Settled
  <2>2. CASE b # a
    <3>1. attemptState'[b] = attemptState[b] /\ authState'[b] = authState[b]
      BY <1>2, <2>2, LedgerTypes
    <3>2. b \in receipts' <=> b \in receipts
      BY <1>2, <2>2
    <3> QED BY <3>1, <3>2 DEF LedgerInv, LedgerAgrees
  <2> QED BY <2>1, <2>2
<1> QED BY <1>4, <1>5, <1>7 DEF LedgerInv

LEMMA LedgerStep ==
  ASSUME SafeReconcilers, DispatchInv, LedgerInv, [Next]_vars
  PROVE  LedgerInv'
<1>1. CASE UNCHANGED <<made, slot, attemptState, authState, receipts>>
  <2>1. ASSUME NEW g \in Handlers, pc'[g] \in Unrecorded, ~Prepare(g)
        PROVE  pc[g] \in Unrecorded /\ attempt'[g] = attempt[g]
    BY <2>1, UnrecordedBefore
  <2>2. \A g \in Handlers : ~Prepare(g)
    BY <1>1, LedgerTypes DEF Prepare
  <2>3. OpenAttempts'
    BY <1>1, <2>1, <2>2 DEF LedgerInv, OpenAttempts
  <2> QED BY <1>1, <2>3 DEF LedgerInv, UnusedRows, LedgerAgrees
<1>2. ASSUME NEW h \in Handlers, RecordAcknowledged(h) \/ ResumeTransaction(h), CommitAcknowledged(h)
      PROVE  LedgerInv'
  BY <1>2, CommitLedger DEF Step
<1> QED BY <1>1, <1>2, PrepareLedger, OtherLedger, ReconcileLedger, LedgerWrites

LEMMA SettledStep ==
  ASSUME SafeReconcilers, DispatchInv, LedgerInv, [Next]_vars,
         NEW a \in Attempts, attemptState[a] \in Settled
  PROVE  attemptState'[a] = attemptState[a]
<1>1. ASSUME NEW h \in Handlers, pc[h] \in Unrecorded PROVE a # attempt[h]
  BY <1>1, RecordingOpen DEF Settled
<1>2. ASSUME NEW h \in Handlers, RecordOther(h) PROVE attemptState'[a] = attemptState[a]
  <2>1. pc[h] \in Unrecorded
    BY <1>2 DEF RecordOther, Unrecorded
  <2> QED BY <1>1, <1>2, <2>1, LedgerTypes DEF RecordOther
<1>3. ASSUME NEW h \in Handlers, RecordAcknowledged(h) \/ ResumeTransaction(h), CommitAcknowledged(h)
      PROVE  attemptState'[a] = attemptState[a]
  <2>1. pc[h] \in Unrecorded
    BY <1>3 DEF RecordAcknowledged, ResumeTransaction, Unrecorded
  <2> QED BY <1>1, <1>3, <2>1, LedgerTypes DEF CommitAcknowledged
<1>4. ASSUME NEW h \in Handlers, Prepare(h) PROVE attemptState'[a] = attemptState[a]
  <2>1. a # made + 1
    BY LedgerTypes DEF LedgerInv, UnusedRows, Settled
  <2> QED BY <1>4, <2>1, LedgerTypes DEF Prepare
<1>5. ASSUME NEW r \in Reconcilers, Reconcile(r) PROVE attemptState'[a] = attemptState[a]
  <2>1. found[r] \in ran /\ found[r] \notin receipts
    BY <1>5 DEF Reconcile, DispatchInv, TypeOK, StoresTypeOK
  <2>2. found[r] \in 1 .. made
    BY <2>1 DEF DispatchInv, TypeOK, AttemptsTypeOK
  <2>3. a # found[r]
    BY <2>1, <2>2 DEF LedgerInv, LedgerAgrees
  <2> QED BY <1>5, <2>3, LedgerTypes DEF Reconcile
<1> QED BY <1>2, <1>3, <1>4, <1>5, LedgerWrites

LEMMA LedgerInvariance == ASSUME SafeReconcilers PROVE Spec => []LedgerInv
<1>1. Init => LedgerInv
  BY DispatchAssumption
  DEF Init, DispatchInit, LedgerInv, OpenAttempts, UnusedRows, LedgerAgrees, Unrecorded
<1>2. DispatchInv /\ LedgerInv /\ [Next]_vars => LedgerInv'
  BY LedgerStep
<1> QED BY <1>1, <1>2, DispatchInvariance, PTL DEF Spec

\* The tables of attempts, receipts and authorizations agree at every moment,
\* whatever crashes between two statements: in one process with any number of
\* reconcilers, and in any number of processes as long as no reconciler runs.
THEOREM LedgerHolds == ASSUME SafeReconcilers PROVE Spec => []LedgerAgrees
<1>1. LedgerInv => LedgerAgrees
  BY DEF LedgerInv
<1> QED BY <1>1, LedgerInvariance, PTL

\* And a settled attempt is never reopened or relabelled.
THEOREM SettledStaysSettled == ASSUME SafeReconcilers PROVE Spec => SettledForGood
<1>1. DispatchInv /\ LedgerInv /\ [Next]_vars
        => [\A a \in Attempts : attemptState[a] \in Settled
              => attemptState'[a] = attemptState[a]]_vars
  BY SettledStep
<1> QED BY <1>1, DispatchInvariance, LedgerInvariance, PTL DEF Spec, SettledForGood

-----------------------------------------------------------------------------
(***************************************************************************)
(* What controlled execution keeps because its requests share one event    *)
(* loop: the concurrency limit, and, as long as the catalogue reads do not *)
(* suspend, one slot per attempt, one receipt per intent and checks that   *)
(* are still true when the attempt is made.  And what the stored responses *)
(* say, which needs neither.                                               *)
(***************************************************************************)

\* The state of an attempt is only written by the request that owns it, when it
\* makes or records it, or by the reconciler.
LEMMA StateWrites ==
  ASSUME DispatchInv, [Next]_vars
  PROVE  \/ UNCHANGED attemptState
         \/ \E h \in Handlers : /\ Prepare(h)
                                /\ attemptState' = [attemptState EXCEPT ![made + 1] = "SUBMITTING"]
                                /\ attempt'[h] = made + 1
         \/ \E h \in Handlers : /\ RecordAcknowledged(h) \/ ResumeTransaction(h) \/ RecordOther(h)
                                /\ pc[h] \in Unrecorded /\ UNCHANGED <<attempt, outcome>>
                                /\ attemptState' = [attemptState EXCEPT ![attempt[h]] = outcome[h]]
         \/ \E r \in Reconcilers :
              Reconcile(r) /\ attemptState' = [attemptState EXCEPT ![found[r]] = "RECONCILED"]
<1>1. ASSUME NEW h \in Handlers, Prepare(h)
      PROVE  /\ attemptState' = [attemptState EXCEPT ![made + 1] = "SUBMITTING"]
             /\ attempt'[h] = made + 1
  BY <1>1, LedgerTypes DEF Prepare, HandlersTypeOK
<1>2. ASSUME NEW h \in Handlers, RecordAcknowledged(h) \/ ResumeTransaction(h), CommitAcknowledged(h)
      PROVE  /\ pc[h] \in Unrecorded /\ UNCHANGED <<attempt, outcome>>
             /\ attemptState' = [attemptState EXCEPT ![attempt[h]] = outcome[h]]
  <2>1. outcome[h] = "ACKNOWLEDGED" /\ pc[h] \in Unrecorded
    BY <1>2 DEF RecordAcknowledged, ResumeTransaction, DispatchInv, HandlersInv, HandlerFits, Unrecorded
  <2> QED BY <1>2, <2>1 DEF CommitAcknowledged
<1>3. ASSUME NEW h \in Handlers, RecordOther(h)
      PROVE  /\ pc[h] \in Unrecorded /\ UNCHANGED <<attempt, outcome>>
             /\ attemptState' = [attemptState EXCEPT ![attempt[h]] = outcome[h]]
  BY <1>3 DEF RecordOther, Unrecorded
<1>4. ASSUME NEW r \in Reconcilers, Reconcile(r)
      PROVE  attemptState' = [attemptState EXCEPT ![found[r]] = "RECONCILED"]
  BY <1>4 DEF Reconcile
<1> QED BY <1>1, <1>2, <1>3, <1>4, LedgerWrites

\* A request that has made its attempt is not done with it until it ends.
LEMMA OwnersAttempt ==
  ASSUME DispatchInv, NEW h \in Handlers, pc[h] \in Unrecorded \cup {"reply"}
  PROVE  attempt[h] \in 1 .. made /\ attempt[h] \in Attempts
<1>1. attempt[h] \in 0 .. made /\ attempt[h] # 0
  BY DEF DispatchInv, TypeOK, HandlersTypeOK, HandlersInv, HandlerFits, Unrecorded, Before
<1> QED BY <1>1, LedgerTypes

-----------------------------------------------------------------------------
\* Stored responses.

\* A request about to store its response knows the state of its attempt.
RecordedKnown ==
  \A h \in Handlers : pc[h] = "reply" => attemptState[attempt[h]] \in {outcome[h], "RECONCILED"}

\* The request whose response is stored is over: nobody else records its attempt.
StoredUnowned ==
  \A k \in Keys, h \in Handlers : reply[k].attempt # 0 => attempt[h] # reply[k].attempt

ResponsesInv == RecordedKnown /\ StoredUnowned /\ StoredResponsesAreTrue

LEMMA ReplyType ==
  ASSUME DispatchInv, NEW k \in Keys
  PROVE  reply[k].attempt \in 0 .. made /\ (reply[k].attempt # 0 => reply[k].attempt \in Attempts)
<1>1. reply[k].attempt \in 0 .. made
  BY DEF DispatchInv, TypeOK, StoresTypeOK
<1> QED BY <1>1, LedgerTypes

\* What a step does to the attempts nobody is working on.
LEMMA UnownedState ==
  ASSUME DispatchInv, [Next]_vars, NEW a \in 1 .. made,
         \A h \in Handlers : attempt[h] = a => pc[h] \notin Unrecorded
  PROVE  attemptState'[a] \in {attemptState[a], "RECONCILED"}
<1>1. a \in Attempts /\ a # made + 1
  BY LedgerTypes
<1>2. ASSUME NEW h \in Handlers, pc[h] \in Unrecorded PROVE attempt[h] # a
  BY <1>2
<1> QED BY <1>1, <1>2, LedgerTypes, StateWrites

LEMMA StoreStep ==
  ASSUME DispatchInv, [Next]_vars
  PROVE  \/ \A k \in Keys : /\ reply'[k].attempt = reply[k].attempt
                            /\ reply'[k].outcome = reply[k].outcome
         \/ \E h \in Handlers : SaveReply(h)
<1>1. reply \in [Keys -> [attempt : 0 .. made, outcome : HermesOutcomes \cup {"NONE"},
                          expired : BOOLEAN]]
  BY DEF DispatchInv, TypeOK, StoresTypeOK
<1>2. ASSUME NEW h \in Handlers, Receive(h) \/ Step(h), ~SaveReply(h) PROVE UNCHANGED reply
  BY <1>2, HandlerSteps, QuietSteps
  DEF LoadIntent, CheckGate, Prepare, Spawn, RecordAcknowledged, ResumeTransaction,
      CommitAcknowledged, SuspendInTransaction, RecordOther
<1>3. CASE TimePasses
  <2>1. ASSUME NEW j \in Keys, reply' = [reply EXCEPT ![j].expired = TRUE]
        PROVE  \A k \in Keys : reply'[k].attempt = reply[k].attempt /\ reply'[k].outcome = reply[k].outcome
    BY <1>1, <2>1
  <2> QED BY <1>3, <2>1 DEF TimePasses, dispatchVars
<1> QED
  BY <1>2, <1>3 DEF Next, FindEvidence, Reconcile, ReconcileFails, OperatesGate, OperatesIntent,
     Crash, dispatchVars, vars

\* What a step makes of a request that is about to answer.
LEMMA RecordedKnownStep ==
  ASSUME DispatchInv, ResponsesInv, [Next]_vars
  PROVE  RecordedKnown'
<1> SUFFICES ASSUME NEW g \in Handlers, pc'[g] = "reply"
             PROVE  attemptState'[attempt'[g]] \in {outcome'[g], "RECONCILED"}
  BY DEF RecordedKnown
<1>1. CASE pc[g] = "reply" /\ attempt'[g] = attempt[g] /\ outcome'[g] = outcome[g]
  <2>1. attempt[g] \in 1 .. made
    BY <1>1, OwnersAttempt
  <2>2. \A h \in Handlers : attempt[h] = attempt[g] => pc[h] \notin Unrecorded
    BY <1>1, <2>1, LedgerTypes DEF AttemptsOwned, Unrecorded
  <2>3. attemptState'[attempt[g]] \in {attemptState[attempt[g]], "RECONCILED"}
    BY <2>1, <2>2, UnownedState
  <2> QED BY <1>1, <2>3 DEF ResponsesInv, RecordedKnown
<1>2. CASE RecordAcknowledged(g) \/ ResumeTransaction(g) \/ RecordOther(g)
  <2>1. /\ pc[g] \in Unrecorded /\ UNCHANGED <<attempt, outcome>>
        /\ attemptState' = [attemptState EXCEPT ![attempt[g]] = outcome[g]]
    <3>1. CASE RecordOther(g)
      BY <3>1 DEF RecordOther, Unrecorded
    <3>2. CASE RecordAcknowledged(g) \/ ResumeTransaction(g)
      <4>1. outcome[g] = "ACKNOWLEDGED" /\ pc[g] \in Unrecorded /\ CommitAcknowledged(g)
        BY <3>2 DEF RecordAcknowledged, ResumeTransaction, DispatchInv, HandlersInv, HandlerFits,
           Unrecorded
      <4> QED BY <4>1 DEF CommitAcknowledged
    <3> QED BY <1>2, <3>1, <3>2
  <2> QED BY <2>1, OwnersAttempt, LedgerTypes
<1>3. ASSUME NEW h \in Handlers, Receive(h) \/ Step(h), h # g
      PROVE  pc[g] = "reply" /\ attempt'[g] = attempt[g] /\ outcome'[g] = outcome[g]
  BY <1>3, OthersSame DEF Same
<1>4. ASSUME Receive(g) \/ Step(g)
      PROVE  RecordAcknowledged(g) \/ ResumeTransaction(g) \/ RecordOther(g)
  BY <1>4, CameFrom
<1>5. ASSUME UNCHANGED handlerVars
      PROVE  pc[g] = "reply" /\ attempt'[g] = attempt[g] /\ outcome'[g] = outcome[g]
  BY <1>5 DEF handlerVars
<1>6. ASSUME NEW p \in Processes, Crash(p)
      PROVE  pc[g] = "reply" /\ attempt'[g] = attempt[g] /\ outcome'[g] = outcome[g]
  BY <1>6 DEF Crash, End
<1> QED
  BY <1>1, <1>2, <1>3, <1>4, <1>5, <1>6
  DEF Next, FindEvidence, Reconcile, ReconcileFails, OperatesGate, OperatesIntent, TimePasses,
      dispatchVars, handlerVars, vars

\* A request keeps its attempt, gives it up, or makes a new one.
LEMMA AttemptMoves ==
  ASSUME DispatchInv, [Next]_vars, NEW g \in Handlers
  PROVE  attempt'[g] \in {0, attempt[g], made + 1}
<1>1. ASSUME NEW h \in Handlers, Prepare(h) PROVE attempt' = [attempt EXCEPT ![h] = made + 1]
  BY <1>1 DEF Prepare
<1>2. ASSUME NEW h \in Handlers, Step(h), ~Prepare(h) PROVE attempt'[g] \in {0, attempt[g]}
  BY <1>2, MoverClaims, OthersSame DEF Claims, Same
<1>3. ASSUME NEW p \in Processes, Crash(p) PROVE attempt'[g] \in {0, attempt[g]}
  BY <1>3 DEF Crash, End
<1> QED
  BY <1>1, <1>2, <1>3, LedgerTypes
  DEF Next, Receive, FindEvidence, Reconcile, ReconcileFails, OperatesGate, OperatesIntent,
      TimePasses, dispatchVars, handlerVars, vars, HandlersTypeOK

\* What SaveReply does.
LEMMA SaveReplyWrites ==
  ASSUME DispatchInv, NEW h \in Handlers, SaveReply(h)
  PROVE  /\ pc[h] = "reply" /\ key[h] \in Keys /\ attempt[h] \in 1 .. made
         /\ attempt'[h] = 0 /\ UNCHANGED <<attemptState, made>>
         /\ \A g \in Handlers \ {h} : attempt'[g] = attempt[g]
         /\ reply'[key[h]].attempt = attempt[h] /\ reply'[key[h]].outcome = outcome[h]
         /\ \A k \in Keys \ {key[h]} : reply'[k] = reply[k]
<1>1. pc[h] = "reply" /\ key[h] \in Keys
  BY DEF SaveReply, DispatchInv, HandlersInv, HandlerFits
<1>2. reply' = [reply EXCEPT ![key[h]] =
                  [attempt |-> attempt[h], outcome |-> outcome[h], expired |-> FALSE]]
  BY DEF SaveReply
<1>3. DOMAIN reply = Keys
  BY DEF DispatchInv, TypeOK, StoresTypeOK
<1>4. /\ reply'[key[h]].attempt = attempt[h] /\ reply'[key[h]].outcome = outcome[h]
      /\ \A k \in Keys \ {key[h]} : reply'[k] = reply[k]
  BY <1>1, <1>2, <1>3
<1> QED BY <1>1, <1>4, OwnersAttempt DEF SaveReply, End, attemptVars

LEMMA StoredUnownedStep ==
  ASSUME DispatchInv, ResponsesInv, [Next]_vars
  PROVE  StoredUnowned'
<1> SUFFICES ASSUME NEW k \in Keys, NEW g \in Handlers, reply'[k].attempt # 0
             PROVE  attempt'[g] # reply'[k].attempt
  BY DEF StoredUnowned
<1>1. CASE reply'[k].attempt = reply[k].attempt
  <2>1. attempt[g] # reply[k].attempt /\ reply[k].attempt # made + 1
    BY <1>1, ReplyType, LedgerTypes DEF ResponsesInv, StoredUnowned
  <2> QED BY <1>1, <2>1, AttemptMoves
<1>2. ASSUME NEW h \in Handlers, SaveReply(h), k = key[h] PROVE attempt'[g] # reply'[k].attempt
  BY <1>2, SaveReplyWrites, LedgerTypes DEF AttemptsOwned
<1> QED BY <1>1, <1>2, SaveReplyWrites, StoreStep

LEMMA StoredResponsesStep ==
  ASSUME DispatchInv, ResponsesInv, [Next]_vars
  PROVE  StoredResponsesAreTrue'
<1> SUFFICES ASSUME NEW k \in Keys, reply'[k].attempt # 0
             PROVE  attemptState'[reply'[k].attempt] \in {reply'[k].outcome, "RECONCILED"}
  BY DEF StoredResponsesAreTrue
<1>1. CASE reply'[k].attempt = reply[k].attempt /\ reply'[k].outcome = reply[k].outcome
  <2>1. reply[k].attempt \in 1 .. made
    BY <1>1, ReplyType, LedgerTypes
  <2>2. attemptState'[reply[k].attempt] \in {attemptState[reply[k].attempt], "RECONCILED"}
    BY <1>1, <2>1, UnownedState DEF ResponsesInv, StoredUnowned
  <2> QED BY <1>1, <2>2 DEF ResponsesInv, StoredResponsesAreTrue
<1>2. ASSUME NEW h \in Handlers, SaveReply(h), k = key[h]
      PROVE  attemptState'[reply'[k].attempt] \in {reply'[k].outcome, "RECONCILED"}
  BY <1>2, SaveReplyWrites DEF ResponsesInv, RecordedKnown
<1> QED BY <1>1, <1>2, SaveReplyWrites, StoreStep

\* A response that is returned again for its key says what became of the attempt
\* it speaks of, unless evidence settled that attempt since: for any number of
\* processes, requests that share a key, and reconcilers.
THEOREM StoredResponsesHold == Spec => []StoredResponsesAreTrue
<1>1. Init => ResponsesInv
  BY DEF Init, DispatchInit, NoReply, ResponsesInv, RecordedKnown, StoredUnowned,
     StoredResponsesAreTrue
<1>2. DispatchInv /\ ResponsesInv /\ [Next]_vars => ResponsesInv'
  BY RecordedKnownStep, StoredUnownedStep, StoredResponsesStep DEF ResponsesInv
<1>3. ResponsesInv => StoredResponsesAreTrue
  BY DEF ResponsesInv
<1> QED BY <1>1, <1>2, <1>3, DispatchInvariance, PTL DEF Spec

-----------------------------------------------------------------------------
\* The concurrency limit.

\* The verdict of the limits check is still true when the attempt is inserted.
RoomForOne ==
  \A h \in Handlers :
    pc[h] = "prepare" /\ writer = None => Cardinality(InFlight) < MaxConcurrency

CapInv == ConcurrencyCapHolds /\ RoomForOne

LEMMA InFlightFinite ==
  ASSUME NEW S, S \subseteq Attempts
  PROVE  IsFiniteSet(S) /\ Cardinality(S) \in Nat
<1>1. IsFiniteSet(Attempts)
  BY FS_Interval, DispatchAssumption DEF Attempts
<1> QED BY <1>1, FS_Subset, FS_CardinalityType

LEMMA AgedGrows ==
  ASSUME [Next]_vars
  PROVE  aged \subseteq aged'
<1>1. ASSUME NEW h \in Handlers, Receive(h) \/ Step(h) PROVE UNCHANGED aged
  BY <1>1, HandlerSteps, QuietSteps
  DEF attemptVars, LoadIntent, CheckGate, Prepare, Spawn, RecordAcknowledged, ResumeTransaction,
      CommitAcknowledged, SuspendInTransaction, RecordOther, SaveReply
<1>2. CASE TimePasses
  BY <1>2 DEF TimePasses, dispatchVars, attemptVars
<1> QED
  BY <1>1, <1>2 DEF Next, FindEvidence, Reconcile, ReconcileFails, OperatesGate, OperatesIntent,
     Crash, dispatchVars, attemptVars, vars

\* Only Prepare adds an attempt to those in flight, and one only.
LEMMA InFlightSteps ==
  ASSUME DispatchInv, [Next]_vars
  PROVE  \/ InFlight' \subseteq InFlight
         \/ \E h \in Handlers : Prepare(h) /\ InFlight' \subseteq InFlight \cup {made + 1}
<1>1. ASSUME NEW a \in InFlight', attemptState[a] = "SUBMITTING" PROVE a \in InFlight
  BY <1>1, AgedGrows DEF InFlight
<1>2. CASE UNCHANGED attemptState
  BY <1>1, <1>2 DEF InFlight
<1>3. ASSUME NEW h \in Handlers, Prepare(h),
             attemptState' = [attemptState EXCEPT ![made + 1] = "SUBMITTING"]
      PROVE  InFlight' \subseteq InFlight \cup {made + 1}
  BY <1>1, <1>3, LedgerTypes DEF InFlight
<1>4. ASSUME NEW b, NEW s, s # "SUBMITTING", attemptState' = [attemptState EXCEPT ![b] = s]
      PROVE  InFlight' \subseteq InFlight
  BY <1>1, <1>4, LedgerTypes DEF InFlight
<1>5. ASSUME NEW h \in Handlers, pc[h] \in Unrecorded,
             RecordAcknowledged(h) \/ ResumeTransaction(h) \/ RecordOther(h)
      PROVE  outcome[h] # "SUBMITTING"
  BY <1>5 DEF RecordAcknowledged, ResumeTransaction, RecordOther, DispatchInv, HandlersInv,
     HandlerFits, HermesOutcomes
<1> QED BY <1>2, <1>3, <1>4, <1>5, StateWrites

\* A request that goes on either takes a step of its own or stays where it is.
LEMMA StaysPut ==
  ASSUME DispatchInv, [Next]_vars, NEW g \in Handlers, pc'[g] # "idle"
  PROVE  Receive(g) \/ Step(g) \/ Same(g)
<1>1. ASSUME NEW h \in Handlers, Receive(h) \/ Step(h), h # g PROVE Same(g)
  BY <1>1, OthersSame
<1>2. ASSUME UNCHANGED <<handlerVars, writer>> PROVE Same(g)
  BY <1>2 DEF handlerVars, Same
<1>3. CASE OperatesGate \/ (\E i \in Intents : OperatesIntent(i)) \/ TimePasses \/ UNCHANGED vars
  BY <1>2, <1>3 DEF OperatesGate, OperatesIntent, TimePasses, dispatchVars, txnVars, vars
<1>4. ASSUME NEW r \in Reconcilers, FindEvidence(r) \/ Reconcile(r) \/ ReconcileFails(r)
      PROVE  Same(g)
  BY <1>2, <1>4 DEF FindEvidence, Reconcile, ReconcileFails, txnVars
<1>5. ASSUME NEW p \in Processes, Crash(p) PROVE Same(g)
  <2>1. ProcessOf[g] # p /\ writer \in Handlers \cup {None}
    BY <1>5 DEF Crash, End, DispatchInv, TypeOK, StoresTypeOK
  <2> QED BY <1>5, <2>1, DispatchAssumption DEF Crash, End, Same
<1> QED BY <1>1, <1>3, <1>4, <1>5 DEF Next

LEMMA RoomStep ==
  ASSUME OneProcess, DispatchInv, CapInv, [Next]_vars
  PROVE  RoomForOne'
<1> SUFFICES ASSUME NEW g \in Handlers, pc'[g] = "prepare", writer' = None
             PROVE  Cardinality(InFlight') < MaxConcurrency
  BY DEF RoomForOne
<1>1. ASSUME InFlight' \subseteq InFlight, Cardinality(InFlight) < MaxConcurrency
      PROVE  Cardinality(InFlight') < MaxConcurrency
  <2>1. InFlight \subseteq Attempts
    BY DEF InFlight
  <2>2. Cardinality(InFlight') <= Cardinality(InFlight)
    BY <1>1, <2>1, InFlightFinite, FS_Subset
  <2> QED BY <1>1, <2>1, <2>2, InFlightFinite, DispatchAssumption
<1>2. CASE CheckLimits(g)
  <2>1. writer = None /\ UNCHANGED attemptVars
    BY <1>2 DEF CheckLimits, txnVars
  <2>2. Uncommitted(ProcessOf[g]) = {}
    BY <2>1, DispatchAssumption DEF Uncommitted
  <2>3. ~End({g})
    BY DEF End
  <2>4. ~(Cardinality(InFlight) >= MaxConcurrency)
    <3>1. InFlight \ Uncommitted(ProcessOf[g]) = InFlight
      BY <2>2
    <3> QED BY <1>2, <2>3, <3>1 DEF CheckLimits
  <2>5. InFlight' = InFlight /\ Cardinality(InFlight) \in Nat
    BY <2>1, InFlightFinite DEF InFlight, attemptVars
  <2> QED BY <2>4, <2>5, DispatchAssumption
<1>3. CASE pc[g] = "prepare" /\ writer = None /\ InFlight' \subseteq InFlight
  BY <1>1, <1>3 DEF CapInv, RoomForOne
<1>4. CASE pc[g] # "prepare"
  BY <1>2, <1>4, CameFrom, StaysPut DEF Same
<1>5. CASE pc[g] = "prepare"
  <2>1. ~Step(g)
    BY <1>5, CameFrom DEF CheckLimits
  <2>2. TimePasses \/ UNCHANGED vars
    BY <1>5, <2>1, WhileBusy DEF Parked
  <2>3. UNCHANGED writer /\ \A h \in Handlers : ~Prepare(h)
    BY <2>2, LedgerTypes DEF TimePasses, dispatchVars, txnVars, attemptVars, vars, Prepare
  <2> QED BY <1>3, <1>5, <2>3, InFlightSteps
<1> QED BY <1>4, <1>5

LEMMA CapStep ==
  ASSUME DispatchInv, CapInv, [Next]_vars
  PROVE  ConcurrencyCapHolds'
<1>1. InFlight \subseteq Attempts /\ InFlight' \subseteq Attempts
  BY DEF InFlight
<1>2. IsFiniteSet(InFlight) /\ Cardinality(InFlight) \in Nat /\ Cardinality(InFlight') \in Nat
  BY <1>1, InFlightFinite
<1>3. CASE InFlight' \subseteq InFlight
  BY <1>2, <1>3, FS_Subset, DispatchAssumption DEF CapInv, ConcurrencyCapHolds
<1>4. ASSUME NEW h \in Handlers, Prepare(h), InFlight' \subseteq InFlight \cup {made + 1}
      PROVE  ConcurrencyCapHolds'
  <2>1. Cardinality(InFlight) < MaxConcurrency
    BY <1>4 DEF Prepare, CapInv, RoomForOne
  <2>2. /\ IsFiniteSet(InFlight \cup {made + 1})
        /\ Cardinality(InFlight \cup {made + 1}) \in {Cardinality(InFlight), Cardinality(InFlight) + 1}
    BY <1>2, FS_AddElement, Zenon
  <2>3. /\ Cardinality(InFlight') <= Cardinality(InFlight \cup {made + 1})
        /\ Cardinality(InFlight \cup {made + 1}) \in Nat
    BY <1>4, <2>2, FS_Subset, FS_CardinalityType
  <2> QED BY <1>2, <2>1, <2>2, <2>3, DispatchAssumption DEF ConcurrencyCapHolds
<1> QED BY <1>3, <1>4, InFlightSteps

\* max_global_concurrency is never exceeded in one process, with any number of
\* requests and reconcilers, suspended reads and crashes: between the check of the
\* limit and the insertion of the attempt the event loop goes to nobody else.
THEOREM ConcurrencyCap == ASSUME OneProcess PROVE Spec => []ConcurrencyCapHolds
<1>1. Init => CapInv
  <2> SUFFICES ASSUME Init PROVE CapInv
    OBVIOUS
  <2>1. InFlight = {}
    BY DEF Init, DispatchInit, InFlight
  <2>2. \A h \in Handlers : pc[h] = "idle"
    BY DEF Init, DispatchInit
  <2> QED BY <2>1, <2>2, FS_EmptySet, DispatchAssumption DEF CapInv, ConcurrencyCapHolds, RoomForOne
<1>2. DispatchInv /\ CapInv /\ [Next]_vars => CapInv'
  BY RoomStep, CapStep DEF CapInv
<1>3. CapInv => ConcurrencyCapHolds
  BY DEF CapInv
<1> QED BY <1>1, <1>2, <1>3, DispatchInvariance, PTL DEF Spec
-----------------------------------------------------------------------------
\* What the preflight read, up to the insertion of the attempt.

\* Without suspensions a request never leaves the loop between its first step
\* and its last, and no transaction stays open.
Calm == \A h \in Handlers : pc[h] \notin {"awaitTarget", "awaitUpdate"}

\* What each check found is still so, as long as no check gave a reason.
Fresh(h) ==
  /\ pc[h] = "prepare" => ~blocked[h]
  /\ ~blocked[h] =>
       /\ pc[h] \in {"approval", "gate", "receipt", "target", "limits", "prepare"}
            => status[intent[h]] = "READY_TO_EXECUTE"
       /\ pc[h] \in {"gate", "receipt", "target", "limits", "prepare"}
            => decision[intent[h]] = "APPROVE"
       /\ pc[h] \in {"receipt", "target", "limits", "prepare"} => ReachesExpiryCheck
       /\ pc[h] \in {"target", "limits", "prepare"}
            => \A a \in receipts : attemptOf[a] # intent[h]

FreshInv == Calm /\ \A h \in Handlers : Fresh(h)

Checking == {"approval", "gate", "receipt", "target", "limits", "prepare"}

LEMMA CalmWriter == ASSUME DispatchInv, Calm PROVE writer = None
BY DEF Calm, DispatchInv, TypeOK, StoresTypeOK, HandlersInv, HandlerFits

LEMMA CalmStep ==
  ASSUME ~Suspends, DispatchInv, Calm, [Next]_vars
  PROVE  Calm'
<1> SUFFICES ASSUME NEW g \in Handlers, pc'[g] \in {"awaitTarget", "awaitUpdate"}
             PROVE  FALSE
  BY DEF Calm
<1>1. ~Same(g)
  BY DEF Same, Calm
<1>2. Receive(g) \/ Step(g)
  BY <1>1, StaysPut
<1>3. CASE CheckReceipt(g)
  <2>1. Goto(g, "target")
    BY <1>3 DEF CheckReceipt, Check
  <2> QED BY <2>1, LedgerTypes DEF Goto, HandlersTypeOK
<1>4. CASE SuspendInTransaction(g)
  BY <1>4 DEF SuspendInTransaction
<1> QED BY <1>2, <1>3, <1>4, CameFrom

\* While a request has the loop, what it read only grows older.
LEMMA NothingMoves ==
  ASSUME OneProcess, DispatchInv, [Next]_vars, NEW g \in Handlers,
         pc[g] \notin Parked, pc'[g] # "idle", ~Step(g)
  PROVE  /\ UNCHANGED <<handlerVars, status, decision, receipts, attemptOf, made, slot, writer>>
         /\ UNCHANGED <<lock, latest, windowState, consumed, granted>>
<1>1. TimePasses \/ UNCHANGED vars
  BY WhileBusy
<1>2. CASE UNCHANGED vars
  BY <1>2 DEF vars, gateVars, intentVars, dispatchVars, handlerVars, attemptVars, txnVars
<1>3. CASE TimePasses
  BY <1>3 DEF TimePasses, WindowTimesOut, IntentTimesOut, gateVars, intentVars, dispatchVars,
     handlerVars, attemptVars, txnVars
<1> QED BY <1>1, <1>2, <1>3

\* A check that gives no reason leaves its request unblocked only if it was.
LEMMA CheckMoves ==
  ASSUME DispatchInv, NEW h \in Handlers, NEW reason, NEW step, Check(h, reason, step)
  PROVE  /\ pc'[h] = step /\ intent'[h] = intent[h]
         /\ ~blocked'[h] => ~blocked[h] /\ ~reason
BY LedgerTypes, Zenon DEF Check, Goto, HandlersTypeOK

LEMMA OpenReaches == ASSUME GateInv, ~GateLocked PROVE ReachesExpiryCheck /\ latest \notin timedOut
BY DEF GateInv, UnlockedHasWindow, GateLocked

\* What a check of its own makes of a request's findings.
LEMMA FreshMover ==
  ASSUME OneProcess, ~Suspends, DispatchInv, FreshInv, [Next]_vars, NEW g \in Handlers,
         Receive(g) \/ Step(g), pc'[g] \in Checking
  PROVE  Fresh(g)'
<1> USE DEF Checking, Fresh
<1>1. Fresh(g) /\ Calm /\ writer = None /\ HandlersTypeOK
  BY CalmWriter, LedgerTypes DEF FreshInv
<1>2. CASE LoadIntent(g)
  <2>1. Check(g, Seen(intent[g]) # "READY_TO_EXECUTE", "approval")
    BY <1>2 DEF LoadIntent
  <2>2. pc'[g] = "approval" /\ intent'[g] = intent[g]
    BY <2>1, CheckMoves
  <2>3. ~blocked'[g] => Seen(intent[g]) = "READY_TO_EXECUTE"
    BY <2>1, CheckMoves
  <2>4. Seen(intent[g]) = "READY_TO_EXECUTE" => ~Expires(intent[g]) /\ status[intent[g]] = "READY_TO_EXECUTE"
    BY DEF Seen
  <2>5. ~Expires(intent[g]) => UNCHANGED intentVars
    BY <1>2 DEF LoadIntent
  <2> QED BY <2>2, <2>3, <2>4, <2>5 DEF intentVars
<1>3. CASE CheckApproval(g)
  <2>1. /\ Check(g, intent[g] \in late \/ decision[intent[g]] # "APPROVE", "gate")
        /\ UNCHANGED <<gateVars, intentVars, attemptVars>> /\ pc[g] = "approval"
    BY <1>3 DEF CheckApproval
  <2>2. /\ pc'[g] = "gate" /\ intent'[g] = intent[g]
        /\ ~blocked'[g] => ~blocked[g] /\ decision[intent[g]] = "APPROVE"
    BY <2>1, CheckMoves
  <2> QED BY <1>1, <2>1, <2>2 DEF intentVars
<1>4. CASE CheckGate(g)
  <2>1. Check(g, GateLocked, "receipt") /\ UNCHANGED <<intentVars, attemptVars>> /\ pc[g] = "gate"
    BY <1>4 DEF CheckGate
  <2>2. /\ pc'[g] = "receipt" /\ intent'[g] = intent[g]
        /\ ~blocked'[g] => ~blocked[g] /\ ~GateLocked
    BY <2>1, CheckMoves
  <2>3. ASSUME ~GateLocked PROVE ReachesExpiryCheck'
    <3>1. ReachesExpiryCheck /\ latest \notin timedOut
      BY <2>3, OpenReaches DEF DispatchInv
    <3>2. UNCHANGED gateVars
      BY <1>4, <3>1, Zenon DEF CheckGate
    <3> QED BY <3>1, <3>2 DEF ReachesExpiryCheck, gateVars
  <2> QED BY <1>1, <2>1, <2>2, <2>3 DEF intentVars
<1>5. CASE CheckReceipt(g)
  <2>1. /\ Check(g, \E a \in receipts \cup Uncommitted(ProcessOf[g]) : attemptOf[a] = intent[g],
                 "target")
        /\ UNCHANGED <<gateVars, intentVars, attemptVars>> /\ pc[g] = "receipt"
    BY <1>5 DEF CheckReceipt
  <2>2. /\ pc'[g] = "target" /\ intent'[g] = intent[g]
        /\ ~blocked'[g] => ~blocked[g] /\ \A a \in receipts : attemptOf[a] # intent[g]
    BY <2>1, CheckMoves
  <2> QED BY <1>1, <2>1, <2>2 DEF intentVars, gateVars, attemptVars, ReachesExpiryCheck
<1>6. CASE CheckTarget(g)
  <2>1. PICK reason \in BOOLEAN : Check(g, reason, "limits")
    BY <1>6 DEF CheckTarget
  <2>2. UNCHANGED <<gateVars, intentVars, attemptVars>> /\ pc[g] = "target"
    BY <1>1, <1>6 DEF CheckTarget, Calm
  <2>3. pc'[g] = "limits" /\ intent'[g] = intent[g] /\ (~blocked'[g] => ~blocked[g])
    BY <2>1, CheckMoves
  <2> QED BY <1>1, <2>2, <2>3 DEF intentVars, gateVars, attemptVars, ReachesExpiryCheck
<1>7. CASE CheckLimits(g) /\ ~End({g})
  <2>1. pc[g] = "limits" /\ UNCHANGED <<gateVars, intentVars, attemptVars, intent, blocked>> /\ ~blocked[g]
    BY <1>7, Zenon DEF CheckLimits
  <2> QED BY <1>1, <2>1 DEF intentVars, gateVars, attemptVars, ReachesExpiryCheck
<1> QED BY <1>2, <1>3, <1>4, <1>5, <1>6, <1>7, CameFrom

LEMMA FreshStep ==
  ASSUME OneProcess, ~Suspends, DispatchInv, FreshInv, [Next]_vars
  PROVE  FreshInv'
<1> SUFFICES ASSUME NEW g \in Handlers PROVE Fresh(g)'
  BY CalmStep DEF FreshInv
<1>1. CASE pc'[g] \notin Checking
  BY <1>1 DEF Fresh, Checking
<1>2. CASE pc'[g] \in Checking /\ (Receive(g) \/ Step(g))
  BY <1>2, FreshMover
<1>3. CASE pc'[g] \in Checking /\ ~Receive(g) /\ ~Step(g)
  <2>1. pc'[g] # "idle" /\ pc'[g] \notin Parked
    BY <1>3 DEF Checking, Parked
  <2>2. pc[g] = pc'[g]
    BY <1>3, <2>1, StaysPut DEF Same
  <2>3. /\ UNCHANGED <<handlerVars, status, decision, receipts, attemptOf>>
        /\ UNCHANGED <<lock, latest, windowState, consumed, granted>>
    BY <1>3, <2>1, <2>2, NothingMoves
  <2> QED BY <2>3 DEF handlerVars, FreshInv, Fresh, ReachesExpiryCheck
<1> QED BY <1>1, <1>2, <1>3

LEMMA FreshInvariance == ASSUME OneProcess, ~Suspends PROVE Spec => []FreshInv
<1>1. Init => FreshInv
  BY DEF Init, DispatchInit, FreshInv, Calm, Fresh
<1>2. DispatchInv /\ FreshInv /\ [Next]_vars => FreshInv'
  BY FreshStep
<1> QED BY <1>1, <1>2, DispatchInvariance, PTL DEF Spec

\* The claim of a request that found the gate open succeeds on the window the
\* status named.
LEMMA PrepareClaims ==
  ASSUME DispatchInv, FreshInv, NEW h \in Handlers, Prepare(h)
  PROVE  /\ ReachesExpiryCheck /\ latest \notin timedOut
         /\ slot' = [slot EXCEPT ![made + 1] = latest] /\ latest # 0
<1>1. ReachesExpiryCheck
  BY DEF FreshInv, Fresh, Prepare
<1>2. latest \in ActiveWindows
  BY <1>1, GateAssumption DEF ReachesExpiryCheck, ActiveWindows, DispatchInv, GateInv, GateTypeOK, Windows
<1>3. PICK w \in ActiveWindows : ClaimSlot(w) /\ slot' = [slot EXCEPT ![made + 1] = w]
  BY <1>2 DEF Prepare
<1>4. w = latest
  BY <1>2 DEF DispatchInv, GateInv, OneOpenWindow
<1> QED BY <1>1, <1>3, <1>4 DEF ClaimSlot, Claimable, ReachesExpiryCheck

\* Of requests whose catalogue reads are answered from memory only: an attempt of
\* one process then rests on what its preflight read, and the gate is open, the
\* intent approved and without a receipt at the very step that inserts the attempt.
\* Tasks and profiles of the adapters are read in a thread (sagara_jobs.py:225), and
\* of requests that do so the property does not hold: this theorem, and the two
\* after it, say which hypothesis is missing there.
THEOREM FreshChecks == ASSUME OneProcess, ~Suspends PROVE Spec => AttemptsRestOnFreshChecks
<1>1. DispatchInv /\ FreshInv /\ [Next]_vars
        => [made' # made => LET i == attemptOf'[made'] IN
              /\ ~GateLocked
              /\ status[i] = "READY_TO_EXECUTE" /\ decision[i] = "APPROVE"
              /\ \A a \in receipts : attemptOf[a] # i]_vars
  <2> SUFFICES ASSUME DispatchInv, FreshInv, [Next]_vars, made' # made
               PROVE  /\ ~GateLocked
                      /\ status[attemptOf'[made']] = "READY_TO_EXECUTE"
                      /\ decision[attemptOf'[made']] = "APPROVE"
                      /\ \A a \in receipts : attemptOf[a] # attemptOf'[made']
    OBVIOUS
  <2>1. PICK h \in Handlers : Prepare(h)
    BY SlotWrites
  <2>2. ~blocked[h] /\ pc[h] = "prepare"
    BY <2>1 DEF FreshInv, Fresh, Prepare
  <2>3. made' = made + 1 /\ made + 1 \in Attempts
    BY <2>1, PreparePending DEF Prepare
  <2>4. attemptOf'[made'] = intent[h]
    BY <2>1, <2>3 DEF Prepare, DispatchInv, TypeOK, AttemptsTypeOK
  <2>5. ~GateLocked
    BY <2>1, PrepareClaims DEF GateLocked, ReachesExpiryCheck
  <2> QED BY <2>2, <2>4, <2>5 DEF FreshInv, Fresh
<1> QED BY <1>1, DispatchInvariance, FreshInvariance, PTL DEF Spec, AttemptsRestOnFreshChecks

-----------------------------------------------------------------------------
\* How much is ever executed.

LEMMA HasSlotStep ==
  ASSUME DispatchInv, FreshInv, EveryAttemptHasSlot, [Next]_vars
  PROVE  EveryAttemptHasSlot'
<1>1. ASSUME NEW h \in Handlers, Prepare(h) PROVE EveryAttemptHasSlot'
  <2>1. slot' = [slot EXCEPT ![made + 1] = latest] /\ latest # 0
    BY <1>1, PrepareClaims
  <2>2. made' = made + 1 /\ made + 1 \in Attempts
    BY <1>1, PreparePending DEF Prepare
  <2>3. \A a \in 1 .. made' : a = made + 1 \/ a \in 1 .. made
    BY <2>2, LedgerTypes
  <2> QED BY <2>1, <2>2, <2>3, LedgerTypes, SlotTypes DEF EveryAttemptHasSlot
<1> QED BY <1>1, SlotWrites DEF EveryAttemptHasSlot

\* Under the same hypothesis nothing is dispatched outside a window's budget.
THEOREM SlotForEveryAttempt == ASSUME OneProcess, ~Suspends PROVE Spec => []EveryAttemptHasSlot
<1>1. Init => EveryAttemptHasSlot
  BY DEF Init, DispatchInit, EveryAttemptHasSlot
<1>2. DispatchInv /\ FreshInv /\ EveryAttemptHasSlot /\ [Next]_vars => EveryAttemptHasSlot'
  BY HasSlotStep
<1> QED BY <1>1, <1>2, DispatchInvariance, FreshInvariance, PTL DEF Spec

\* The intent of an attempt not yet recorded has no receipt.
Unreceipted ==
  \A h \in Handlers : pc[h] \in {"submit", "hermes", "record"} =>
    attemptOf[attempt[h]] = intent[h] /\ \A a \in receipts : attemptOf[a] # intent[h]

OnceInv == Unreceipted /\ OneReceiptPerIntent

LEMMA ReceiptWrites ==
  ASSUME Reconcilers = {}, [Next]_vars
  PROVE  \/ UNCHANGED <<receipts, attemptOf>>
         \/ \E h \in Handlers : Prepare(h)
         \/ \E h \in Handlers : /\ RecordAcknowledged(h) \/ ResumeTransaction(h)
                                /\ CommitAcknowledged(h)
<1>1. ASSUME NEW h \in Handlers, Receive(h) \/ Step(h)
      PROVE  \/ UNCHANGED <<receipts, attemptOf>> \/ Prepare(h)
             \/ (RecordAcknowledged(h) \/ ResumeTransaction(h)) /\ CommitAcknowledged(h)
  BY <1>1, HandlerSteps, QuietSteps
  DEF LoadIntent, CheckGate, Spawn, SuspendInTransaction, SaveReply, RecordOther, attemptVars,
      RecordAcknowledged, ResumeTransaction
<1>2. CASE TimePasses
  BY <1>2 DEF TimePasses, dispatchVars, attemptVars
<1> QED
  BY <1>1, <1>2 DEF Next, OperatesGate, OperatesIntent, Crash, dispatchVars, attemptVars, vars

LEMMA OnceStep ==
  ASSUME OneProcess, ~Suspends, Reconcilers = {}, DispatchInv, FreshInv, OnceInv, [Next]_vars
  PROVE  OnceInv'
<1>1. ASSUME NEW h \in Handlers, Prepare(h) PROVE OnceInv'
  <2>1. made' = made + 1 /\ made + 1 \in Attempts /\ \A a \in receipts : a # made + 1
    <3>1. made' = made + 1 /\ made + 1 \in Attempts
      BY <1>1, PreparePending DEF Prepare
    <3> QED BY <3>1, LedgerTypes
  <2>2. /\ attemptOf' = [attemptOf EXCEPT ![made + 1] = intent[h]] /\ UNCHANGED <<receipts, intent>>
        /\ attempt' = [attempt EXCEPT ![h] = made + 1] /\ pc[h] = "prepare" /\ Runs(h)
    BY <1>1 DEF Prepare
  <2>3. DOMAIN attemptOf = Attempts /\ DOMAIN attempt = Handlers
    BY DEF DispatchInv, TypeOK, AttemptsTypeOK, HandlersTypeOK
  <2>4. \A a \in receipts : attemptOf'[a] = attemptOf[a]
    BY <2>1, <2>2
  <2>5. \A a \in receipts : attemptOf[a] # intent[h]
    BY <2>2 DEF FreshInv, Fresh
  <2>6. attemptOf'[attempt'[h]] = intent[h]
    BY <2>1, <2>2, <2>3
  <2>7. ASSUME NEW g \in Handlers \ {h} PROVE pc'[g] \in Parked
    BY <1>1, <2>2, <2>7, Alone, OthersSame DEF Same, Step
  <2>8. Unreceipted'
    BY <2>2, <2>4, <2>5, <2>6, <2>7 DEF Unreceipted, Parked
  <2>9. OneReceiptPerIntent'
    BY <2>2, <2>4 DEF OnceInv, OneReceiptPerIntent
  <2> QED BY <2>8, <2>9 DEF OnceInv
<1>2. ASSUME NEW h \in Handlers, RecordAcknowledged(h) \/ ResumeTransaction(h), CommitAcknowledged(h)
      PROVE  OnceInv'
  <2>1. pc[h] = "record" /\ Runs(h)
    BY <1>2 DEF RecordAcknowledged, ResumeTransaction, FreshInv, Calm
  <2>2. receipts' = receipts \cup {attempt[h]} /\ UNCHANGED <<attemptOf, intent, attempt>> /\ pc'[h] = "reply"
    BY <1>2, LedgerTypes DEF CommitAcknowledged, Goto, HandlersTypeOK
  <2>3. attemptOf[attempt[h]] = intent[h] /\ \A a \in receipts : attemptOf[a] # intent[h]
    BY <2>1 DEF OnceInv, Unreceipted
  <2>4. ASSUME NEW g \in Handlers \ {h} PROVE pc'[g] \in Parked
    BY <1>2, <2>1, <2>4, Alone, OthersSame DEF Same, Step
  <2>5. Unreceipted'
    BY <2>2, <2>4 DEF Unreceipted, Parked
  <2>6. OneReceiptPerIntent'
    BY <2>2, <2>3 DEF OnceInv, OneReceiptPerIntent
  <2> QED BY <2>5, <2>6 DEF OnceInv
<1>3. ASSUME UNCHANGED <<receipts, attemptOf>>,
             \A h \in Handlers : ~Prepare(h)
      PROVE  OnceInv'
  <2> SUFFICES ASSUME NEW g \in Handlers, pc'[g] \in {"submit", "hermes", "record"}
               PROVE  /\ attemptOf[attempt'[g]] = intent'[g]
                      /\ \A a \in receipts : attemptOf[a] # intent'[g]
    BY <1>3 DEF OnceInv, OneReceiptPerIntent, Unreceipted
  <2>1. CASE Spawn(g) \/ NotSpawned(g) \/ Return(g)
    BY <2>1 DEF Spawn, NotSpawned, Return, OnceInv, Unreceipted
  <2>2. CASE Same(g)
    BY <2>2 DEF Same, OnceInv, Unreceipted
  <2> QED BY <1>3, <2>1, <2>2, CameFrom, StaysPut
<1> QED BY <1>1, <1>2, <1>3, ReceiptWrites

\* And what one process then executes is bounded twice: every attempt takes a slot
\* of a window's budget, and an intent is executed to a receipt at most once, as
\* long as no reconciler adds the receipt of an earlier attempt of unknown outcome.
THEOREM ExecutionsBounded ==
  ASSUME OneProcess, ~Suspends, Reconcilers = {}
  PROVE  Spec => []ExecutionsAreBounded
<1>1. Init => OnceInv
  BY DEF Init, DispatchInit, OnceInv, Unreceipted, OneReceiptPerIntent
<1>2. DispatchInv /\ FreshInv /\ OnceInv /\ [Next]_vars => OnceInv'
  BY OnceStep
<1>3. OnceInv /\ EveryAttemptHasSlot => ExecutionsAreBounded
  BY DEF OnceInv, ExecutionsAreBounded
<1> QED
  BY <1>1, <1>2, <1>3, DispatchInvariance, FreshInvariance, SlotForEveryAttempt, PTL DEF Spec
=============================================================================
