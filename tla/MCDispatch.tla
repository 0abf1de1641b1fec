----------------------------- MODULE MCDispatch -----------------------------
(* Small instances of controlled execution for TLC: one process or two.  *)
EXTENDS Dispatch, TLC

CONSTANTS p1, p2, h1, h2, r1, i1, i2, k1, k2, none

MCBudgets == {1}
MCBothBudgets == {1, 2}

OneProcess == {p1}
AllInOne == [x \in Handlers \cup Reconcilers |-> p1]

TwoProcesses == {p1, p2}
OneEach == [x \in Handlers \cup Reconcilers |-> IF x = h1 THEN p1 ELSE p2]

MCApproveOnly == {"approve"}
MCAllEvents == {"expire", "request", "approve", "reject", "cancel", "preflight"}
(* In one process handlers differ in nothing but their names, nor do intents.  *)
MCSymmetry == Permutations(Handlers) \cup Permutations(Intents)
=============================================================================
