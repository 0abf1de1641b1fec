----------------------------- MODULE QueryCache -----------------------------
(* The query cache the pages read from (TanStack Query, a library: what it     *)
(* does is modelled from how api/hooks.ts and query-client.ts use it).  One    *)
(* entry per query key; an answer is a snapshot taken when the server read its *)
(* store, delivered later.  Operators only: the pages own the entries.         *)
EXTENDS Naturals

CONSTANTS
    Absent,       \* no data yet
    Retries       \* how often a failed query is asked again

ASSUME RetriesAssumption == Retries \in Nat

(* An entry: its data, whether it was invalidated since, whether the last      *)
(* fetch failed for good, and the fetch under way.  late records that an       *)
(* invalidation found a fetch already answered and did not repeat it.          *)
Entries(Answers) ==
    [data: Answers \cup {Absent}, invalid: BOOLEAN, error: BOOLEAN,
     flight: {"idle", "asked", "answered"}, answer: Answers \cup {Absent},
     tries: 0..Retries, late: BOOLEAN]

EmptyEntry ==
    [data |-> Absent, invalid |-> FALSE, error |-> FALSE, flight |-> "idle",
     answer |-> Absent, tries |-> 0, late |-> FALSE]

(* query.fetch(): an error over absent data is cleared, one over data stays    *)
(* until an answer arrives.                                                    *)
Asked(e) ==
    [e EXCEPT !.flight = "asked", !.answer = Absent, !.tries = 0, !.late = FALSE,
              !.error = @ /\ e.data # Absent]

(* An observer mounts; aged says that staleTime has passed since the answer.   *)
Mounted(e, aged) ==
    IF e.flight = "idle" /\ (e.data = Absent \/ e.invalid \/ e.error \/ aged)
    THEN Asked(e) ELSE e

(* The refetch function of the Refresh and Retry buttons, which joins a first  *)
(* fetch under way and replaces a later one (cancelRefetch).                   *)
Refetched(e) == IF e.flight = "idle" \/ e.data # Absent THEN Asked(e) ELSE e

(* invalidateQueries: mark, and refetch what is on screen; a fetch under way   *)
(* is cancelled only if the entry already holds data.                          *)
Invalidated(e, onScreen) ==
    LET marked == [e EXCEPT !.invalid = TRUE,
                            !.late = @ \/ e.flight = "answered"]
    IN  IF onScreen THEN [Refetched(marked) EXCEPT !.invalid = TRUE] ELSE marked

(* setQueryData: another writer than the query itself.  A fetch under way goes *)
(* on and its answer replaces what was written.                                *)
SetData(e, value) == [e EXCEPT !.data = value, !.invalid = FALSE, !.error = FALSE]

(* The server reads its store, the answer arrives, or the request fails: asked *)
(* again while retries are left and the query is on screen, an error after it. *)
Served(e, value) == [e EXCEPT !.flight = "answered", !.answer = value]
Landed(e) ==
    [e EXCEPT !.data = e.answer, !.answer = Absent, !.flight = "idle",
              !.invalid = FALSE, !.error = FALSE]
Failed(e, onScreen) ==
    IF e.tries < Retries /\ onScreen
    THEN [e EXCEPT !.flight = "asked", !.answer = Absent, !.tries = @ + 1,
                   !.late = FALSE]
    ELSE [e EXCEPT !.flight = "idle", !.answer = Absent, !.error = TRUE,
                   !.invalid = TRUE, !.late = FALSE]
=============================================================================
