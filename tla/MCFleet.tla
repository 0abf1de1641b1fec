------------------------------ MODULE MCFleet ------------------------------
(* A small instance of the fleet's pages for TLC.                              *)
EXTENDS Fleet
CONSTANTS none, a1, i1, d1
MCSeverity == [i \in {i1} |-> "CRITICAL"]
=============================================================================
