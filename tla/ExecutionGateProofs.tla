------------------------ MODULE ExecutionGateProofs ------------------------
(***************************************************************************)
(* Theorems about the execution lock, for every number of windows, every   *)
(* set of budgets, and unlocks that race or not.                           *)
(*                                                                         *)
(* The inductive invariant GateInv is the type invariant, the properties   *)
(* the runs check, and what those properties do not say: exactly the rows  *)
(* inserted have a state and a budget, and the lock is open only once a    *)
(* window exists.                                                          *)
(***************************************************************************)
EXTENDS ExecutionGate, TLAPS

RowsInserted ==
  \A w \in Windows : IF w <= opened
                     THEN windowState[w] # "NONE" /\ granted[w] >= 1
                     ELSE windowState[w] = "NONE"

UnlockedHasWindow == lock = "UNLOCKED" => latest # 0

GateInv ==
  /\ GateTypeOK
  /\ RowsInserted
  /\ UnlockedHasWindow
  /\ BudgetRespected
  /\ OneOpenWindow
  /\ LockedMeansNoOpenWindow

LEMMA GateInitInv == ASSUME GateInit PROVE GateInv
BY GateAssumption DEF GateInit, GateInv, GateTypeOK, RowsInserted, UnlockedHasWindow,
   BudgetRespected, OneOpenWindow, LockedMeansNoOpenWindow, ActiveWindows,
   Windows, WindowStates

-----------------------------------------------------------------------------
\* What closing or expiring does to each row: only OPEN rows change.
LEMMA ClosedRows ==
  ASSUME NEW w \in Windows
  PROVE  /\ CloseActiveWindows[w] = IF windowState[w] = "OPEN" THEN "CLOSED" ELSE windowState[w]
         /\ ExpireStaleWindows[w] = IF windowState[w] = "OPEN" /\ w \in timedOut
                                    THEN "EXPIRED" ELSE windowState[w]
BY DEF CloseActiveWindows, ExpireStaleWindows

LEMMA ClosedType ==
  ASSUME GateTypeOK
  PROVE  /\ CloseActiveWindows \in [Windows -> WindowStates]
         /\ ExpireStaleWindows \in [Windows -> WindowStates]
BY DEF CloseActiveWindows, ExpireStaleWindows, WindowStates, GateTypeOK

\* Each operation preserves the invariant.

LEMMA UnlockInv ==
  ASSUME GateInv, NEW max \in Budgets, Unlock(max)
  PROVE  GateInv'
<1> USE DEF GateInv, GateTypeOK, Windows
<1>1. opened + 1 \in Windows /\ max \in 1 .. 10
  BY GateAssumption DEF Unlock
<1>2. \A w \in Windows :
        windowState'[w] = IF w = opened + 1 THEN "OPEN"
                          ELSE IF windowState[w] = "OPEN" THEN "CLOSED" ELSE windowState[w]
  BY ClosedRows, ClosedType DEF Unlock
<1>3. GateTypeOK'
  BY <1>1, ClosedType, GateAssumption DEF Unlock, WindowStates
<1>4. RowsInserted'
  BY <1>1, <1>2 DEF Unlock, RowsInserted
<1>5. UnlockedHasWindow'
  BY DEF Unlock, UnlockedHasWindow
<1>6. BudgetRespected'
  BY <1>1, <1>2, GateAssumption DEF Unlock, BudgetRespected
<1>7. \A w \in ActiveWindows' : w = opened + 1
  BY <1>2 DEF ActiveWindows
<1> QED
  BY <1>3, <1>4, <1>5, <1>6, <1>7 DEF OneOpenWindow, LockedMeansNoOpenWindow, Unlock

LEMMA LockInv == ASSUME GateInv, Lock PROVE GateInv'
<1> USE DEF GateInv, GateTypeOK, Windows, Lock
<1>1. GateTypeOK'
  BY ClosedType
<1>2. RowsInserted' /\ UnlockedHasWindow' /\ BudgetRespected'
  BY ClosedRows, GateAssumption DEF RowsInserted, UnlockedHasWindow, BudgetRespected
<1>3. ActiveWindows' = {}
  BY ClosedRows DEF ActiveWindows
<1> QED BY <1>1, <1>2, <1>3 DEF OneOpenWindow, LockedMeansNoOpenWindow

\* Expiring preserves it whoever triggers it.
LEMMA ExpireInv ==
  ASSUME GateInv, windowState' = ExpireStaleWindows,
         UNCHANGED <<lock, opened, consumed, granted, latest, timedOut>>
  PROVE  GateInv'
<1> USE DEF GateInv, GateTypeOK, Windows
<1>1. GateTypeOK'
  BY ClosedType
<1>2. RowsInserted' /\ UnlockedHasWindow' /\ BudgetRespected'
  BY ClosedRows, GateAssumption DEF RowsInserted, UnlockedHasWindow, BudgetRespected
<1>3. ActiveWindows' \subseteq ActiveWindows
  BY ClosedRows DEF ActiveWindows
<1> QED BY <1>1, <1>2, <1>3 DEF OneOpenWindow, LockedMeansNoOpenWindow

LEMMA ClaimInv == ASSUME GateInv, NEW w \in Windows, ClaimSlot(w) PROVE GateInv'
<1> USE DEF GateInv, GateTypeOK, Windows, ClaimSlot, Claimable
<1>1. GateTypeOK'
  BY DEF WindowStates
<1>2. RowsInserted'
  BY DEF RowsInserted
<1>3. BudgetRespected'
  BY DEF BudgetRespected
<1>4. ActiveWindows' \subseteq ActiveWindows
  BY DEF ActiveWindows
<1> QED
  BY <1>1, <1>2, <1>3, <1>4 DEF UnlockedHasWindow, OneOpenWindow, LockedMeansNoOpenWindow

LEMMA TimeOutInv == ASSUME GateInv, NEW w \in Windows, WindowTimesOut(w) PROVE GateInv'
BY DEF GateInv, WindowTimesOut, GateTypeOK, RowsInserted, UnlockedHasWindow,
   BudgetRespected, OneOpenWindow, LockedMeansNoOpenWindow, ActiveWindows

LEMMA LatestIsRow == ASSUME GateInv, latest # 0 PROVE latest \in Windows
BY GateAssumption DEF GateInv, GateTypeOK, Windows

LEMMA GateNextInv == ASSUME GateInv, [GateNext]_gateVars PROVE GateInv'
<1>1. ASSUME NEW max \in Budgets, Unlock(max) PROVE GateInv'
  BY <1>1, UnlockInv
<1>2. CASE Lock
  BY <1>2, LockInv
<1>3. CASE StatusExpiresWindows
  BY <1>3, ExpireInv DEF StatusExpiresWindows
<1>4. ASSUME NEW w \in ActiveWindows, ClaimSlot(w) PROVE GateInv'
  BY <1>4, ClaimInv DEF ActiveWindows
<1>5. CASE ClaimLatestSlot
  BY <1>5, LatestIsRow, ClaimInv, ExpireInv DEF ClaimLatestSlot
<1>6. ASSUME NEW w \in Windows, WindowTimesOut(w) PROVE GateInv'
  BY <1>6, TimeOutInv
<1>7. CASE UNCHANGED gateVars
  BY <1>7 DEF gateVars, GateInv, GateTypeOK, RowsInserted, UnlockedHasWindow,
     BudgetRespected, OneOpenWindow, LockedMeansNoOpenWindow, ActiveWindows
<1> QED BY <1>1, <1>2, <1>3, <1>4, <1>5, <1>6, <1>7 DEF GateNext

\* The strengthened invariant holds in every behaviour.
THEOREM GateInvariance == GateSpec => []GateInv
<1>1. GateInit => GateInv
  BY GateInitInv
<1>2. GateInv /\ [GateNext]_gateVars => GateInv'
  BY GateNextInv
<1> QED BY <1>1, <1>2, PTL DEF GateSpec

-----------------------------------------------------------------------------
\* Type correctness of the lock and window tables.
THEOREM GateTypeCorrect == GateSpec => []GateTypeOK
BY GateInvariance, PTL DEF GateInv

\* No window grants more executions than it was opened for.
THEOREM BudgetsHold == GateSpec => []BudgetRespected
BY GateInvariance, PTL DEF GateInv

\* There is never more than one open window.
THEOREM OneWindow == GateSpec => []OneOpenWindow
BY GateInvariance, PTL DEF GateInv

\* The emergency lock leaves no slot to claim.
THEOREM LockClosesAll == GateSpec => []LockedMeansNoOpenWindow
BY GateInvariance, PTL DEF GateInv

\* The status says unlocked only when the window it names can be claimed.
THEOREM OpenGateBounded == GateSpec => []OpenGateIsBounded
<1>1. GateInv => OpenGateIsBounded
  BY LatestIsRow DEF OpenGateIsBounded, GateInv, UnlockedHasWindow, GateLocked,
     ReachesExpiryCheck, ActiveWindows, Claimable
<1> QED BY <1>1, GateInvariance, PTL

\* No operation reopens a spent, closed or expired window.
THEOREM SpentStaysSpent == GateSpec => SpentWindowsStaySpent
<1> DEFINE Kept == \A w \in Windows :
                     windowState[w] \in {"EXHAUSTED", "CLOSED", "EXPIRED"}
                       => windowState'[w] = windowState[w] /\ consumed'[w] = consumed[w]
<1>1. ASSUME GateInv, [GateNext]_gateVars PROVE [Kept]_gateVars
  <2> USE DEF GateInv, GateTypeOK, Windows
  <2>1. ASSUME NEW max \in Budgets, Unlock(max) PROVE Kept
    BY <1>1, <2>1, ClosedRows, ClosedType, GateAssumption DEF Unlock, RowsInserted
  <2>2. CASE Lock
    BY <2>2, ClosedRows DEF Lock
  <2>3. CASE windowState' = ExpireStaleWindows /\ UNCHANGED consumed
    BY <2>3, ClosedRows
  <2>4. ASSUME NEW w \in Windows, ClaimSlot(w) PROVE Kept
    BY <2>4 DEF ClaimSlot, Claimable
  <2>5. ASSUME NEW w \in Windows, WindowTimesOut(w) PROVE Kept
    BY <2>5 DEF WindowTimesOut
  <2> QED
    BY <1>1, <2>1, <2>2, <2>3, <2>4, <2>5, LatestIsRow
    DEF GateNext, StatusExpiresWindows, ClaimLatestSlot, ActiveWindows
<1> QED BY <1>1, GateInvariance, PTL DEF GateSpec, SpentWindowsStaySpent

\* Where unlocks do not race, the open window is the one the status reads.
THEOREM OpenIsLatest ==
  ASSUME RacingUnlocks = FALSE
  PROVE  GateSpec => []OpenWindowIsLatest
<1> USE DEF OpenWindowIsLatest, ActiveWindows
<1>1. GateInit => OpenWindowIsLatest
  BY DEF GateInit
<1>2. ASSUME GateInv, OpenWindowIsLatest, [GateNext]_gateVars PROVE OpenWindowIsLatest'
  <2>1. ASSUME NEW max \in Budgets, Unlock(max) PROVE OpenWindowIsLatest'
    BY <1>2, <2>1, ClosedRows, ClosedType, RacingUnlocks = FALSE DEF Unlock, GateInv
  <2>2. CASE Lock
    BY <1>2, <2>2, ClosedRows DEF Lock
  <2>3. CASE windowState' = ExpireStaleWindows /\ UNCHANGED latest
    BY <1>2, <2>3, ClosedRows
  <2>4. ASSUME NEW w \in Windows, ClaimSlot(w) PROVE OpenWindowIsLatest'
    BY <1>2, <2>4 DEF ClaimSlot, Claimable, GateInv, GateTypeOK
  <2>5. ASSUME NEW w \in Windows, WindowTimesOut(w) PROVE OpenWindowIsLatest'
    BY <1>2, <2>5 DEF WindowTimesOut
  <2>6. CASE UNCHANGED gateVars
    BY <1>2, <2>6 DEF gateVars
  <2> QED
    BY <1>2, <2>1, <2>2, <2>3, <2>4, <2>5, <2>6, LatestIsRow
    DEF GateNext, StatusExpiresWindows, ClaimLatestSlot
<1> QED BY <1>1, <1>2, GateInvariance, PTL DEF GateSpec

-----------------------------------------------------------------------------
\* The refinement: SlotsLeft plays the budget the operators were promised.

LEMMA SlotsOfOpenWindow ==
  ASSUME GateInv, NEW w \in ActiveWindows
  PROVE  SlotsLeft = granted[w] - consumed[w]
BY DEF SlotsLeft, GateInv, OneOpenWindow

LEMMA NoSlotsWithoutWindow == ASSUME ActiveWindows = {} PROVE SlotsLeft = 0
BY DEF SlotsLeft

\* A step that leaves the open windows and their counters alone is a stutter
\* of the promise; one that closes them all withdraws it.
LEMMA SameWindowsStutter ==
  ASSUME GateInv, ActiveWindows' = ActiveWindows, UNCHANGED <<consumed, granted>>
  PROVE  SlotsLeft' = SlotsLeft
BY DEF SlotsLeft

LEMMA GateStepRefines ==
  ASSUME GateInv, GateInv', [GateNext]_gateVars
  PROVE  [Budget!Next]_SlotsLeft
<1> USE DEF GateInv, GateTypeOK, Windows
<1>1. ASSUME NEW max \in Budgets, Unlock(max) PROVE Budget!Grant(max)
  <2>1. opened + 1 \in Windows /\ max \in 1 .. 10
    BY <1>1, GateAssumption DEF Unlock
  <2>2. /\ windowState'[opened + 1] = "OPEN"
        /\ granted'[opened + 1] = max /\ consumed'[opened + 1] = 0
    BY <1>1, <2>1, ClosedType DEF Unlock
  <2>3. SlotsLeft' = granted'[opened + 1] - consumed'[opened + 1]
    BY <2>1, <2>2 DEF SlotsLeft, ActiveWindows, OneOpenWindow
  <2> QED BY <2>1, <2>2, <2>3 DEF Budget!Grant
<1>2. CASE Lock
  BY <1>2, ClosedRows DEF Lock, SlotsLeft, ActiveWindows, Budget!Withdraw, Budget!Next
<1>3. ASSUME windowState' = ExpireStaleWindows, UNCHANGED <<consumed, granted>>
      PROVE  Budget!Withdraw \/ UNCHANGED SlotsLeft
  <2>1. ActiveWindows' = ActiveWindows \/ ActiveWindows' = {}
    BY <1>3, ClosedRows DEF ActiveWindows, OneOpenWindow
  <2> QED BY <1>3, <2>1, SameWindowsStutter DEF SlotsLeft, Budget!Withdraw
<1>4. ASSUME NEW w \in Windows, ClaimSlot(w) PROVE Budget!Spend \/ Budget!Withdraw
  <2>1. /\ w \in ActiveWindows
        /\ consumed'[w] = consumed[w] + 1 /\ granted'[w] = granted[w]
        /\ consumed[w] \in 0 .. 10 /\ granted[w] \in 0 .. 10
        /\ consumed[w] < granted[w]
    BY <1>4 DEF ClaimSlot, Claimable, ActiveWindows
  <2>2. SlotsLeft = granted[w] - consumed[w]
    BY <2>1, SlotsOfOpenWindow
  <2>3. CASE consumed[w] + 1 >= granted[w]
    <3>1. ActiveWindows' = {}
      BY <1>4, <2>1, <2>3 DEF ClaimSlot, ActiveWindows, OneOpenWindow
    <3> QED BY <3>1 DEF SlotsLeft, Budget!Withdraw
  <2>4. CASE ~(consumed[w] + 1 >= granted[w])
    <3>1. w \in ActiveWindows'
      BY <1>4, <2>1, <2>4 DEF ClaimSlot, ActiveWindows
    <3>2. SlotsLeft' = granted'[w] - consumed'[w]
      BY <3>1 DEF SlotsLeft, OneOpenWindow
    <3>3. granted[w] - consumed[w] > 0
          /\ granted[w] - (consumed[w] + 1) = (granted[w] - consumed[w]) - 1
      <4>1. \A g, u \in Nat : u < g => g - u > 0 /\ g - (u + 1) = (g - u) - 1
        OBVIOUS
      <4>2. granted[w] \in Nat /\ consumed[w] \in Nat
        BY <2>1
      <4> QED BY <2>1, <4>1, <4>2
    <3>4. granted'[w] - consumed'[w] = (granted[w] - consumed[w]) - 1
      BY <2>1, <3>3
    <3> QED BY <2>2, <3>2, <3>3, <3>4 DEF Budget!Spend
  <2> QED BY <2>3, <2>4
<1>5. ASSUME NEW w \in Windows, WindowTimesOut(w) PROVE UNCHANGED SlotsLeft
  BY <1>5 DEF WindowTimesOut, SlotsLeft, ActiveWindows
<1>6. CASE UNCHANGED gateVars
  BY <1>6 DEF gateVars, SlotsLeft, ActiveWindows
<1> QED
  BY <1>1, <1>2, <1>3, <1>4, <1>5, <1>6, LatestIsRow
  DEF GateNext, StatusExpiresWindows, ClaimLatestSlot, ActiveWindows, Budget!Next

\* The lock and window tables implement the budget promised to the operators:
\* every execution slot claimed was granted by the unlock in force.
THEOREM GateImplementsBudget == GateSpec => ImplementsBudget
<1>1. GateInit => Budget!Init
  BY DEF GateInit, Budget!Init, SlotsLeft, ActiveWindows
<1>2. GateInv /\ GateInv' /\ [GateNext]_gateVars => [Budget!Next]_SlotsLeft
  BY GateStepRefines
<1> QED BY <1>1, <1>2, GateInvariance, PTL DEF GateSpec, ImplementsBudget, Budget!Spec
=============================================================================
