--------------------------- MODULE ExecutionGate ---------------------------
(***************************************************************************)
(* The persistent execution lock and its bounded windows: the tables       *)
(* execution_locks and execution_windows of the control database, the      *)
(* statements of ExecutionSqliteRepository that write them, and the        *)
(* operations of ExecutionLockService built from those statements.         *)
(*                                                                         *)
(* Every operation is one database transaction (or one guarded UPDATE), so *)
(* every operation is one action.  Who calls them, and between which other *)
(* reads, is the business of module Dispatch, which extends this one.      *)
(*                                                                         *)
(* The environment flag MISSION_CONTROL_EXECUTION_ENABLED is on: with it   *)
(* off the gate is locked whatever the tables say.                         *)
(***************************************************************************)
EXTENDS Naturals, FiniteSets

CONSTANTS
  MaxWindows,     \* bound: how many windows are ever opened
  Budgets,        \* the values of max_executions operators ask for
  RacingUnlocks   \* may two processes unlock at once?  opened_at is read
                  \* before the write transaction is granted, so the window
                  \* committed last need not carry the latest timestamp

ASSUME GateAssumption ==
  /\ MaxWindows \in Nat
  /\ Budgets \subseteq 1 .. 10        \* unlock clamps the request to 1 .. 10
  /\ RacingUnlocks \in BOOLEAN

VARIABLES
  lock,       \* execution_locks.status of "global_dispatch"
  opened,     \* number of rows in execution_windows; row w is the w-th one
              \* inserted, and the next three are its columns
  windowState, \* state of each row, "NONE" where there is no row yet
  consumed,   \* executions_consumed of each row
  granted,    \* max_executions of each row
  latest,     \* the row with the greatest opened_at, 0 if there is none
  timedOut    \* the rows whose expires_at has passed

gateVars == <<lock, opened, windowState, consumed, granted, latest, timedOut>>

Windows == 1 .. MaxWindows

GateInit ==
  /\ lock = "LOCKED"
  /\ opened = 0
  /\ windowState = [w \in Windows |-> "NONE"]
  /\ consumed = [w \in Windows |-> 0]
  /\ granted = [w \in Windows |-> 0]
  /\ latest = 0
  /\ timedOut = {}

-----------------------------------------------------------------------------
\* The statements of the repository, as functions of the state column.

\* close_active_windows: every OPEN row becomes CLOSED.
CloseActiveWindows ==
  [w \in Windows |-> IF windowState[w] = "OPEN" THEN "CLOSED" ELSE windowState[w]]

\* expire_stale_windows: every OPEN row past its expires_at becomes EXPIRED.
ExpireStaleWindows ==
  [w \in Windows |-> IF windowState[w] = "OPEN" /\ w \in timedOut THEN "EXPIRED" ELSE windowState[w]]

\* get_active_execution_window reads the OPEN row; OneOpenWindow says there
\* is at most one to choose from.
ActiveWindows == {w \in Windows : windowState[w] = "OPEN"}

\* The WHERE clause of claim_execution_slot.
Claimable(w) ==
  /\ windowState[w] = "OPEN"
  /\ consumed[w] < granted[w]
  /\ w \notin timedOut

\* get_effective_status reaches the expiry check of the latest window.
ReachesExpiryCheck ==
  /\ lock = "UNLOCKED"
  /\ latest # 0
  /\ windowState[latest] = "OPEN"
  /\ consumed[latest] < granted[latest]

\* Mutant: the verdict reads the lock and forgets its window.
GateLockedByFlag == lock # "UNLOCKED"

\* The verdict of get_effective_status.
GateLocked ==
  \/ lock # "UNLOCKED"
  \/ latest # 0 /\ (~ReachesExpiryCheck \/ latest \in timedOut)

-----------------------------------------------------------------------------
\* Mutant: unlock leaves the window of an earlier unlock open.
UnlockBesideOpen(max) ==
  /\ opened < MaxWindows
  /\ lock' = "UNLOCKED"
  /\ opened' = opened + 1
  /\ windowState' = [windowState EXCEPT ![opened + 1] = "OPEN"]
  /\ granted' = [granted EXCEPT ![opened + 1] = max]
  /\ latest' = opened + 1
  /\ UNCHANGED <<consumed, timedOut>>

\* Mutant: a new unlock carries over what the last window had left.
UnlockCarriesOver(max) ==
  /\ opened < MaxWindows
  /\ lock' = "UNLOCKED"
  /\ opened' = opened + 1
  /\ windowState' = [CloseActiveWindows EXCEPT ![opened + 1] = "OPEN"]
  /\ granted' = [granted EXCEPT ![opened + 1] =
                   max + (IF latest = 0 THEN 0 ELSE granted[latest] - consumed[latest])]
  /\ latest' = opened + 1
  /\ UNCHANGED <<consumed, timedOut>>

\* ExecutionLockService.unlock: close what is open, unlock, open a window.
Unlock(max) ==
  /\ opened < MaxWindows
  /\ lock' = "UNLOCKED"
  /\ opened' = opened + 1
  /\ windowState' = [CloseActiveWindows EXCEPT ![opened + 1] = "OPEN"]
  /\ consumed' = [consumed EXCEPT ![opened + 1] = 0]
  /\ granted' = [granted EXCEPT ![opened + 1] = max]
  /\ \/ latest' = opened + 1
     \/ RacingUnlocks /\ latest # 0 /\ latest' = latest
  /\ UNCHANGED timedOut

\* ExecutionLockService.lock: the emergency lock.
Lock ==
  /\ lock' = "LOCKED"
  /\ windowState' = CloseActiveWindows
  /\ UNCHANGED <<opened, consumed, granted, latest, timedOut>>

\* The side effect of asking for the gate's status (get_effective_status).
StatusExpiresWindows ==
  /\ ReachesExpiryCheck
  /\ latest \in timedOut
  /\ windowState' = ExpireStaleWindows
  /\ UNCHANGED <<lock, opened, consumed, granted, latest, timedOut>>

\* ExecutionSqliteRepository.claim_execution_slot on the row w.
ClaimSlot(w) ==
  /\ Claimable(w)
  /\ consumed' = [consumed EXCEPT ![w] = consumed[w] + 1]
  /\ windowState' = [windowState EXCEPT ![w] = IF consumed[w] + 1 >= granted[w] THEN "EXHAUSTED" ELSE "OPEN"]
  /\ UNCHANGED <<lock, opened, granted, latest, timedOut>>

\* ExecutionLockService.claim_execution_slot: the same claim on the latest
\* window, after an expiry check of its own.  It refuses CLOSED and spent
\* windows by themselves, and EXPIRED ones through the time limit.
ClaimLatestSlot ==
  /\ latest # 0
  /\ windowState[latest] \notin {"CLOSED", "EXHAUSTED"}
  /\ consumed[latest] < granted[latest]
  /\ \/ latest \in timedOut
        /\ windowState' = ExpireStaleWindows
        /\ UNCHANGED <<lock, opened, consumed, granted, latest, timedOut>>
     \/ latest \notin timedOut
        /\ ClaimSlot(latest)

\* Time passes: the row w is now past its expires_at.
WindowTimesOut(w) ==
  /\ w \in (1 .. opened) \ timedOut
  /\ timedOut' = timedOut \cup {w}
  /\ UNCHANGED <<lock, opened, windowState, consumed, granted, latest>>

GateNext ==
  \/ \E max \in Budgets : Unlock(max)
  \/ Lock
  \/ StatusExpiresWindows
  \/ \E w \in ActiveWindows : ClaimSlot(w)
  \/ ClaimLatestSlot
  \/ \E w \in Windows : WindowTimesOut(w)

GateSpec == GateInit /\ [][GateNext]_gateVars

-----------------------------------------------------------------------------
WindowStates == {"NONE", "OPEN", "EXHAUSTED", "CLOSED", "EXPIRED"}

\* Type invariant of the two tables.
GateTypeOK ==
  /\ lock \in {"LOCKED", "UNLOCKED"}
  /\ opened \in 0 .. MaxWindows
  /\ windowState \in [Windows -> WindowStates]
  /\ consumed \in [Windows -> 0 .. 10]
  /\ granted \in [Windows -> 0 .. 10]
  /\ latest \in 0 .. opened
  /\ timedOut \subseteq 1 .. opened

\* A window never grants more executions than it was opened for, and its
\* state tells the truth about its counter: EXHAUSTED exactly when the last
\* slot is gone, OPEN only while one is left (claim_execution_slot).
BudgetRespected ==
  \A w \in 1 .. opened :
    /\ consumed[w] <= granted[w]
    /\ windowState[w] = "OPEN" => consumed[w] < granted[w]
    /\ windowState[w] = "EXHAUSTED" <=> consumed[w] = granted[w]

\* Two unlocks never leave two windows open, so budgets never add up (unlock
\* closes the open windows inside its own transaction).
OneOpenWindow == \A v, w \in ActiveWindows : v = w

\* Under the emergency lock there is no slot left to claim: the lock and the
\* windows, two tables, never disagree (lock, unlock).
LockedMeansNoOpenWindow == lock = "LOCKED" => ActiveWindows = {}

\* Whenever the status says unlocked, a claim by the coordinator at that
\* instant would succeed on the window the status named: the status reads the
\* latest window, the claim the open one, and the gate is never unlocked
\* without a window to bound it.
OpenGateIsBounded ==
  ~GateLocked => latest \in ActiveWindows /\ Claimable(latest)

\* The open window is the one the status looks at, so a successful unlock
\* really opens the gate.  Needs unlocks that do not race.
OpenWindowIsLatest == ActiveWindows \subseteq {latest}

\* A window that was spent, closed or expired keeps its state and its counter
\* for ever: no operation reopens a budget.
SpentWindowsStaySpent ==
  [][\A w \in Windows :
       windowState[w] \in {"EXHAUSTED", "CLOSED", "EXPIRED"}
         => windowState'[w] = windowState[w] /\ consumed'[w] = consumed[w]]_gateVars

\* The executions the unlock in force still allows.
SlotsLeft ==
  IF ActiveWindows = {} THEN 0
  ELSE LET w == CHOOSE v \in ActiveWindows : TRUE
       IN  granted[w] - consumed[w]

\* The tables implement the promise made to the operators.
Budget == INSTANCE ExecutionBudget WITH Grants <- Budgets, left <- SlotsLeft
ImplementsBudget == Budget!Spec
=============================================================================
