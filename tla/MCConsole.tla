----------------------------- MODULE MCConsole -----------------------------
(* A small instance of the execution console for TLC.  *)
EXTENDS Console
CONSTANT none
MCBudgets == {1}
=============================================================================
