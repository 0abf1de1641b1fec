----------------------------- MODULE MCIntents -----------------------------
(* Two handlers of the server and one of an operator script. *)
EXTENDS IntentLifecycle, TLC
CONSTANTS a1, a2, b1, i1
MCProcessOf == [h \in Handlers |-> IF h = b1 THEN "script" ELSE "server"]
MCSymmetry == Permutations({a1, a2})
=============================================================================
