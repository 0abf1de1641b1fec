-------------------------- MODULE ExecutionBudget --------------------------
(***************************************************************************)
(* What the execution lock promises its operators, without windows, rows   *)
(* or timestamps: an unlock grants a number of executions, every execution *)
(* spends one of them, and a lock, a new unlock or the passing of the time *)
(* limit withdraws whatever is left.  No execution is ever spent that was  *)
(* not granted by the unlock in force.                                     *)
(***************************************************************************)
EXTENDS Naturals

CONSTANT Grants      \* the budgets an unlock may grant

VARIABLE left        \* executions the unlock in force still allows

Init == left = 0

\* A new unlock replaces the one in force; nothing is carried over.
Grant(n) == left' = n

\* One execution.
Spend == left > 0 /\ left' = left - 1

\* A lock or an expiry.
Withdraw == left' = 0

Next == (\E n \in Grants : Grant(n)) \/ Spend \/ Withdraw

Spec == Init /\ [][Next]_left
=============================================================================
