----------------------------- MODULE MCRealtime -----------------------------
(* A small instance of the realtime layer for TLC.  *)
EXTENDS Realtime
CONSTANTS c1, a, b, unread
MCValues == {0, 1}
AllZero == [i \in Items |-> 0]
=============================================================================
