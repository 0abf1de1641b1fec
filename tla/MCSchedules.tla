----------------------------- MODULE MCSchedules -----------------------------
(* A small instance of the schedule page for TLC: half-hour slots, a browser   *)
(* seven hours east of UTC, one item to start with and one to fill in, without *)
(* an end, that begins when the first ends.                                    *)
EXTENDS Schedules, TLC
CONSTANTS g1, a, b
MCDefaults == <<[agent |-> g1, start |-> 34, end |-> 36]>>
MCEntries == {[agent |-> g1, date |-> 0, time |-> 36, until |-> NoEnd]}
MCSymmetry == Permutations(Windows)   \* the two tabs start alike
=============================================================================
