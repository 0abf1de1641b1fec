------------------------------ MODULE MCDrafts ------------------------------
(* A small instance of the agent configuration page for TLC: two profiles, one *)
(* of them without a recommendation, one skill, two tabs.                      *)
EXTENDS Drafts, TLC
CONSTANTS a, b, p1, p2, s1
MCBlueprint == p1 :> {s1}
MCStart == p1 :> {} @@ p2 :> {s1}
=============================================================================
