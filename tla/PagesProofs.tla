---------------------------- MODULE PagesProofs ----------------------------
(***************************************************************************)
(* Theorems about the pages that read the backend through the query cache: *)
(* the execution lock, for every set of pages, every number of calls and   *)
(* windows, unlocks that race or not; and the figures of the fleet, for    *)
(* every set of agents, alarms and delegations, whatever mix of answers,   *)
(* snapshots and deltas wrote them.                                        *)
(*                                                                         *)
(* The lock's inductive invariant: an answer under way, or landed, is the  *)
(* gate's unless something says that it is out of date (a later fetch, a   *)
(* call carried out and not yet answered, a change by somebody else); and  *)
(* an answer that says unlocked names a window that had slots left, which  *)
(* no later unlock changes.                                                *)
(*                                                                         *)
(* The fleet's: what a page shows of an agent, an alarm or the active      *)
(* delegations is what the sampler published last, or an answer that said  *)
(* otherwise is on record, or a message that is not applied yet says it.   *)
(***************************************************************************)
EXTENDS Console, Fleet, ExecutionGateProofs, FiniteSetTheorems, SequenceTheorems

-----------------------------------------------------------------------------
\* Entries of the query cache, whoever owns them.

LEMMA EntryFields ==
  ASSUME NEW S, NEW e \in Entries(S)
  PROVE  /\ e.data \in S \cup {Absent} /\ e.answer \in S \cup {Absent}
         /\ e.flight \in {"idle", "asked", "answered"} /\ e.tries \in 0..Retries
         /\ e.invalid \in BOOLEAN /\ e.error \in BOOLEAN /\ e.late \in BOOLEAN
BY DEF Entries

LEMMA AskedEntry ==
  ASSUME NEW S, NEW e \in Entries(S)
  PROVE  /\ Asked(e) \in Entries(S)
         /\ Asked(e).flight = "asked" /\ Asked(e).data = e.data /\ Asked(e).answer = Absent
<1>1. ASSUME NEW x \in BOOLEAN, NEW z \in 0..Retries
      PROVE  [e EXCEPT !.flight = "asked", !.answer = Absent, !.tries = z, !.late = FALSE,
                       !.error = @ /\ x] \in Entries(S)
  BY DEF Entries
<1>2. 0 \in 0..Retries /\ (e.data # Absent) \in BOOLEAN
  BY RetriesAssumption
<1>3. Asked(e) \in Entries(S)
  BY <1>1, <1>2, Zenon DEF Asked
<1> QED BY <1>3 DEF Asked, Entries

LEMMA ServedEntry ==
  ASSUME NEW S, NEW e \in Entries(S), NEW v \in S
  PROVE  /\ Served(e, v) \in Entries(S)
         /\ Served(e, v).flight = "answered" /\ Served(e, v).data = e.data
         /\ Served(e, v).answer = v /\ Served(e, v).late = e.late
BY DEF Served, Entries

LEMMA LandedEntry ==
  ASSUME NEW S, NEW e \in Entries(S)
  PROVE  /\ Landed(e) \in Entries(S)
         /\ Landed(e).flight = "idle" /\ Landed(e).data = e.answer /\ Landed(e).answer = Absent
         /\ Landed(e).late = e.late
BY DEF Landed, Entries

LEMMA FailedEntry ==
  ASSUME NEW S, NEW e \in Entries(S), NEW shown \in BOOLEAN
  PROVE  /\ Failed(e, shown) \in Entries(S)
         /\ \/ Failed(e, shown).flight = "asked"
            \/ Failed(e, shown).flight = "idle" /\ Failed(e, shown).error
         /\ Failed(e, shown).data = e.data /\ Failed(e, shown).answer = Absent
<1>1. CASE e.tries < Retries /\ shown
  <2>1. ASSUME NEW z \in 0..Retries
        PROVE  [e EXCEPT !.flight = "asked", !.answer = Absent, !.tries = z, !.late = FALSE]
                 \in Entries(S)
    BY DEF Entries
  <2>2. e.tries + 1 \in 0..Retries
    BY <1>1, RetriesAssumption, EntryFields
  <2>3. Failed(e, shown) = [e EXCEPT !.flight = "asked", !.answer = Absent, !.tries = e.tries + 1,
                                     !.late = FALSE]
    BY <1>1 DEF Failed
  <2> HIDE DEF Entries
  <2>4. Failed(e, shown) \in Entries(S)
    BY <2>1, <2>2, <2>3
  <2> QED BY <1>1, <2>3, <2>4 DEF Entries
<1>2. CASE ~(e.tries < Retries /\ shown)
  BY <1>2 DEF Failed, Entries
<1> QED BY <1>1, <1>2

LEMMA MountedEntry ==
  ASSUME NEW S, NEW e \in Entries(S), NEW aged \in BOOLEAN
  PROVE  /\ Mounted(e, aged) \in Entries(S) /\ Mounted(e, aged).data = e.data
         /\ \/ Mounted(e, aged).flight = "asked"
            \/ Mounted(e, aged) = e /\ (e.flight = "idle" => ~e.invalid)
BY AskedEntry DEF Mounted

LEMMA RefetchedEntry ==
  ASSUME NEW S, NEW e \in Entries(S)
  PROVE  /\ Refetched(e) \in Entries(S) /\ Refetched(e).data = e.data
         /\ Refetched(e).flight = "asked" \/ (Refetched(e) = e /\ e.flight # "idle")
BY AskedEntry DEF Refetched

LEMMA SetEntry ==
  ASSUME NEW S, NEW e \in Entries(S), NEW v \in S
  PROVE  /\ SetData(e, v) \in Entries(S) /\ SetData(e, v).data = v
         /\ SetData(e, v).flight = e.flight /\ SetData(e, v).answer = e.answer
         /\ ~SetData(e, v).invalid /\ ~SetData(e, v).error
BY DEF SetData, Entries

LEMMA InvalidatedEntry ==
  ASSUME NEW S, NEW e \in Entries(S), NEW shown \in BOOLEAN
  PROVE  /\ Invalidated(e, shown) \in Entries(S) /\ Invalidated(e, shown).data = e.data
         /\ Invalidated(e, shown).invalid
         /\ shown => Invalidated(e, shown).flight # "idle"
         /\ \/ Invalidated(e, shown).flight = "asked"
            \/ /\ Invalidated(e, shown).flight = e.flight
               /\ Invalidated(e, shown).answer = e.answer
<1> DEFINE m == [e EXCEPT !.invalid = TRUE, !.late = @ \/ e.flight = "answered"]
<1>1. /\ m \in Entries(S) /\ m.data = e.data /\ m.answer = e.answer /\ m.flight = e.flight
      /\ m.invalid
  BY DEF Entries
<1> DEFINE n == [Refetched(m) EXCEPT !.invalid = TRUE]
<1>2. /\ Refetched(m) \in Entries(S) /\ Refetched(m).data = e.data
      /\ Refetched(m).flight = "asked" \/ (Refetched(m) = m /\ m.flight # "idle")
  <2> HIDE DEF m
  <2> QED BY <1>1, RefetchedEntry
<1>3. /\ n \in Entries(S) /\ n.data = e.data /\ n.invalid
      /\ n.flight = "asked" \/ (n.flight = m.flight /\ n.answer = m.answer /\ m.flight # "idle")
  <2> HIDE DEF m
  <2> QED BY <1>1, <1>2 DEF Entries
<1>4. Invalidated(e, shown) = IF shown THEN n ELSE m
  BY DEF Invalidated
<1> HIDE DEF m, n
<1> QED BY <1>1, <1>3, <1>4

\* A mutation that succeeds asks again, or finds a first fetch under way, which
\* is late if it was already answered.
LEMMA InvalidatedThenRefetched ==
  ASSUME NEW S, NEW e \in Entries(S), NEW shown \in BOOLEAN
  PROVE  LET r == Refetched(Invalidated(e, shown))
         IN  /\ r \in Entries(S) /\ r.data = e.data /\ r.answer \in {e.answer, Absent}
             /\ r.flight = "asked" \/ (r.flight = "answered" /\ r.late)
<1> DEFINE m == [e EXCEPT !.invalid = TRUE, !.late = @ \/ e.flight = "answered"]
<1>1. /\ m \in Entries(S) /\ m.data = e.data /\ m.answer = e.answer /\ m.flight = e.flight
      /\ e.flight = "answered" => m.late
  BY DEF Entries
<1> DEFINE n == [Refetched(m) EXCEPT !.invalid = TRUE]
<1>2. /\ Refetched(m) \in Entries(S) /\ Refetched(m).data = e.data
      /\ Refetched(m).answer \in {e.answer, Absent}
      /\ Refetched(m).flight = "asked" \/ Refetched(m) = m
  BY <1>1, AskedEntry DEF Refetched
<1>3. /\ n \in Entries(S) /\ n.data = e.data /\ n.answer \in {e.answer, Absent}
      /\ n.flight = "asked" \/ (n.flight = m.flight /\ n.late = m.late)
  BY <1>1, <1>2 DEF Entries
<1>4. Invalidated(e, shown) = IF shown THEN n ELSE m
  BY DEF Invalidated
<1> HIDE DEF m, n
<1>5. ASSUME NEW i \in Entries(S), i.data = e.data, i.answer \in {e.answer, Absent},
             i.flight = "asked" \/ (i.flight = m.flight /\ i.late = m.late)
      PROVE  /\ Refetched(i) \in Entries(S) /\ Refetched(i).data = e.data
             /\ Refetched(i).answer \in {e.answer, Absent}
             /\ \/ Refetched(i).flight = "asked"
                \/ Refetched(i).flight = "answered" /\ Refetched(i).late
  <2>1. CASE i.flight = "idle" \/ i.data # Absent
    BY <1>5, <2>1, AskedEntry DEF Refetched
  <2>2. CASE i.flight # "idle" /\ i.data = Absent
    <3>1. Refetched(i) = i
      BY <2>2 DEF Refetched
    <3>2. i.flight \in {"asked", "answered"}
      BY <2>2, EntryFields
    <3> QED BY <1>1, <1>5, <3>1, <3>2
  <2> QED BY <2>1, <2>2
<1> QED BY <1>1, <1>3, <1>4, <1>5

-----------------------------------------------------------------------------
\* The execution lock on the pages.

\* Nobody knows of a reason to ask again.
NothingPending == ~foreign /\ ~entry.late /\ \A c \in calls : c.st # "done"

AnswersFit ==
  /\ entry.flight = "answered" /\ NothingPending => entry.answer = Inspect
  /\ entry.flight = "idle" /\ ~entry.error /\ NothingPending => entry.data = Inspect

\* An answer that says unlocked is about a window with slots left.
Sound(v) ==
  ~v.is_locked => /\ v.status = "UNLOCKED" /\ v.window \in 1..opened
                  /\ v.used < granted[v.window]
AnswersSound ==
  /\ entry.data # Absent => Sound(entry.data)
  /\ entry.answer # Absent => Sound(entry.answer)

ConsoleInv ==
  /\ GateInv
  /\ ConsoleTypeOK
  /\ AnswersFit
  /\ AnswersSound

-----------------------------------------------------------------------------
\* The gate behind the pages.

LEMMA InspectType ==
  ASSUME GateInv
  PROVE  Inspect \in LockStatuses /\ Sound(Inspect)
<1>1. lock = "UNLOCKED" => latest \in 1..opened /\ latest \in Windows
  BY LatestIsRow DEF GateInv, GateTypeOK, UnlockedHasWindow
<1>2. GateLocked \in BOOLEAN
  BY DEF GateLocked
<1>3. ~GateLocked => lock = "UNLOCKED" /\ consumed[latest] < granted[latest]
  BY <1>1 DEF GateLocked, ReachesExpiryCheck, GateInv, GateTypeOK
<1>4. \A w \in Windows : consumed[w] \in 0..10
  BY DEF GateInv, GateTypeOK
<1>5. opened \in 0..MaxWindows /\ lock \in {"LOCKED", "UNLOCKED"}
  BY DEF GateInv, GateTypeOK
<1>6. CASE lock = "UNLOCKED"
  <2>1. Inspect = [is_locked |-> GateLocked, status |-> lock, window |-> latest,
                   used |-> consumed[latest]]
    BY <1>1, <1>6, GateAssumption DEF Inspect
  <2>2. latest \in 0..MaxWindows /\ consumed[latest] \in 0..10
    BY <1>1, <1>4, <1>5, <1>6, GateAssumption
  <2> QED BY <1>1, <1>2, <1>3, <1>5, <1>6, <2>1, <2>2 DEF LockStatuses, Sound
<1>7. CASE lock # "UNLOCKED"
  <2>1. Inspect = [is_locked |-> GateLocked, status |-> lock, window |-> 0, used |-> 0]
    BY <1>7 DEF Inspect
  <2> QED BY <1>2, <1>3, <1>5, <1>7, <2>1, GateAssumption DEF LockStatuses, Sound
<1> QED BY <1>6, <1>7

\* Reading the status does not change what it answers, also when it writes the
\* expiry it found.
LEMMA ReadingKeepsStatus ==
  ASSUME GateInv, StatusExpiresWindows
  PROVE  Inspect' = Inspect
<1>1. latest \in Windows /\ windowState[latest] = "OPEN" /\ latest \in timedOut
  BY LatestIsRow DEF StatusExpiresWindows, ReachesExpiryCheck
<1>2. GateLocked
  BY <1>1 DEF GateLocked, StatusExpiresWindows, ReachesExpiryCheck
<1>3. windowState'[latest] = "EXPIRED"
  BY <1>1, ClosedRows DEF StatusExpiresWindows
<1>4. GateLocked'
  BY <1>3 DEF GateLocked, ReachesExpiryCheck, StatusExpiresWindows
<1> QED BY <1>2, <1>4 DEF Inspect, StatusExpiresWindows

\* Windows that exist keep their budgets.
LEMMA SoundStays ==
  ASSUME GateInv, [GateNext]_gateVars, NEW v, Sound(v)
  PROVE  v.is_locked \/ (v.status = "UNLOCKED" /\ v.window \in 1..opened' /\ v.used < granted'[v.window])
<1>1. /\ opened' \in {opened, opened + 1} /\ opened \in Nat
      /\ \A w \in 1..opened : granted'[w] = granted[w]
  <2>1. opened \in Nat
    BY DEF GateInv, GateTypeOK
  <2>2. UNCHANGED <<opened, granted>> \/ \E max \in Budgets : Unlock(max)
    BY DEF GateNext, gateVars, Lock, StatusExpiresWindows, ClaimSlot, ClaimLatestSlot,
       WindowTimesOut
  <2>3. CASE \E max \in Budgets : Unlock(max)
    BY <2>3, GateAssumption DEF Unlock, GateInv, GateTypeOK, Windows
  <2> QED BY <2>1, <2>2, <2>3
<1> QED BY <1>1 DEF Sound

\* What the pages do to the gate is one of its operations.
LEMMA GateStep == ASSUME [ConsoleNext]_allVars PROVE [GateNext]_gateVars
<1>1. ASSUME NEW c \in calls, ServeCall(c) PROVE [GateNext]_gateVars
  BY <1>1, ConsoleAssumption DEF ServeCall, GateNext, Still
<1>2. CASE ServeStatus
  BY <1>2 DEF ServeStatus, GateNext, Still
<1>3. CASE Elsewhere
  BY <1>3 DEF Elsewhere
<1>4. CASE UNCHANGED gateVars
  BY <1>4
<1> QED
  BY <1>1, <1>2, <1>3, <1>4
  DEF ConsoleNext, Operator, Answers, Faults, Navigate, OpenDialog, CloseDialog, ConfirmUnlock, EmergencyLock,
      LandCall, LoseCall, LandStatus, FailStatus, Still, allVars, gateVars

-----------------------------------------------------------------------------
\* How a step leaves the cached status.
LEMMA StatusSteps ==
  ASSUME ConsoleInv, [ConsoleNext]_allVars
  PROVE  \/ UNCHANGED entry /\ ~ServeStatus
         \/ entry' = Asked(entry)
         \/ entry' = Refetched(Invalidated(entry, StatusOnScreen))
         \/ ServeStatus /\ entry' = Served(entry, Inspect)
         \/ LandStatus /\ entry' = Landed(entry)
         \/ entry' = Failed(entry, StatusOnScreen)
<1>1. ASSUME NEW p \in CardPages \cup BadgePages \cup OtherPages, Navigate(p)
      PROVE  entry' \in {entry, Asked(entry)}
  <2>1. \A aged \in BOOLEAN : Mounted(entry, aged) \in {entry, Asked(entry)}
    BY DEF Mounted
  <2> QED BY <1>1, <2>1 DEF Navigate
<1>2. ASSUME NEW c \in calls, LandCall(c)
      PROVE  entry' \in {entry, Refetched(Invalidated(entry, StatusOnScreen))}
  BY <1>2, Zenon DEF LandCall, StatusAfter
<1>3. CASE ServeStatus
  BY <1>3 DEF ServeStatus
<1>4. CASE LandStatus
  BY <1>4 DEF LandStatus
<1>5. CASE FailStatus
  BY <1>5 DEF FailStatus
<1> QED
  BY <1>1, <1>2, <1>3, <1>4, <1>5
  DEF ConsoleNext, Operator, Answers, Faults, OpenDialog, CloseDialog, ConfirmUnlock, EmergencyLock,
      ServeCall, LoseCall, Elsewhere, Still, allVars, consoleVars

\* What a reader may rely on stays so, unless the reason not to is on record.
LEMMA PendingStays ==
  ASSUME ConsoleInv, [ConsoleNext]_allVars, UNCHANGED entry, ~ServeStatus, entry.flight # "asked",
         NothingPending'
  PROVE  NothingPending /\ Inspect' = Inspect
<1>0. entry \in Entries(LockStatuses) /\ \A c \in calls :
        c = [n |-> c.n, kind |-> c.kind, st |-> c.st, mounted |-> c.mounted]
  BY DEF ConsoleInv, ConsoleTypeOK
<1>1. ASSUME UNCHANGED gateVars PROVE Inspect' = Inspect
  BY <1>1 DEF gateVars, Inspect, GateLocked, ReachesExpiryCheck
<1>2. ASSUME NEW p \in CardPages \cup BadgePages \cup OtherPages, Navigate(p)
      PROVE  NothingPending /\ Inspect' = Inspect
  <2>1. ASSUME NEW c \in calls PROVE c.st # "done"
    <3>1. [c EXCEPT !.mounted = FALSE] \in calls'
      BY <1>2 DEF Navigate
    <3>2. [c EXCEPT !.mounted = FALSE].st = c.st
      BY <1>0
    <3> QED BY <3>1, <3>2 DEF NothingPending
  <2> QED BY <1>1, <1>2, <2>1 DEF Navigate, Still, NothingPending
<1>3. ASSUME NEW c \in calls, ServeCall(c) PROVE NothingPending /\ Inspect' = Inspect
  <2>1. ASSUME NEW st, Reaches(c, st), st # "refused", st = "done" PROVE FALSE
    <3>1. [c EXCEPT !.st = st] \in calls' /\ [c EXCEPT !.st = st].st = st
      BY <1>0, <2>1 DEF Reaches
    <3> QED BY <2>1, <3>1 DEF NothingPending
  <2>2. Reaches(c, "refused") /\ UNCHANGED <<gateVars, foreign>> /\ c.st = "sent"
    BY <1>3, <2>1 DEF ServeCall, Still
  <2>3. \A d \in calls : d.st # "done"
    BY <2>2 DEF Reaches, NothingPending
  <2> QED BY <1>1, <2>2, <2>3 DEF NothingPending
<1>4. ASSUME NEW c \in calls, LandCall(c) PROVE NothingPending /\ Inspect' = Inspect
  <2>1. c.st # "done"
    <3>1. ASSUME c.st = "done" PROVE FALSE
      <4>1. entry' = Refetched(Invalidated(entry, StatusOnScreen))
        BY <1>4, <3>1 DEF LandCall, StatusAfter
      <4>2. StatusOnScreen \in BOOLEAN
        BY DEF StatusOnScreen
      <4>3. PICK r : r = Refetched(Invalidated(entry, StatusOnScreen))
        OBVIOUS
      <4>4. r.flight = "asked" \/ (r.flight = "answered" /\ r.late)
        BY <1>0, <4>2, <4>3, InvalidatedThenRefetched
      <4> QED BY <4>1, <4>3, <4>4 DEF NothingPending
    <3> QED BY <3>1
  <2> QED BY <1>1, <1>4, <2>1 DEF LandCall, Still, NothingPending
<1>5. ASSUME NEW c \in calls, LoseCall(c) PROVE FALSE
  BY <1>5 DEF LoseCall, NothingPending
<1>6. ASSUME NEW kind, Send(kind), UNCHANGED <<gateVars, foreign>>
      PROVE  NothingPending /\ Inspect' = Inspect
  BY <1>1, <1>6 DEF Send, NothingPending
<1>7. ASSUME UNCHANGED <<gateVars, calls, foreign>> PROVE NothingPending /\ Inspect' = Inspect
  BY <1>1, <1>7 DEF NothingPending
<1>8. CASE Elsewhere
  BY <1>8 DEF Elsewhere, Still, NothingPending
<1> QED
  BY <1>2, <1>3, <1>4, <1>5, <1>6, <1>7, <1>8
  DEF ConsoleNext, Operator, Answers, Faults, OpenDialog, CloseDialog, ConfirmUnlock, EmergencyLock,
      LandStatus, FailStatus, Still, allVars, consoleVars, gateVars

-----------------------------------------------------------------------------
\* The steps keep the invariant.

LEMMA EntryTypeStep ==
  ASSUME ConsoleInv, [ConsoleNext]_allVars
  PROVE  /\ entry' \in Entries(LockStatuses)
         /\ entry'.data \in {entry.data, entry.answer}
         /\ entry'.answer \in {entry.answer, Absent, Inspect}
<1>1. entry \in Entries(LockStatuses) /\ Inspect \in LockStatuses /\ StatusOnScreen \in BOOLEAN
  BY InspectType DEF ConsoleInv, ConsoleTypeOK, StatusOnScreen
<1> DEFINE Goal(e) == /\ e \in Entries(LockStatuses)
                      /\ e.data \in {entry.data, entry.answer}
                      /\ e.answer \in {entry.answer, Absent, Inspect}
<1>2. Goal(entry) /\ Goal(Asked(entry)) /\ Goal(Served(entry, Inspect)) /\ Goal(Landed(entry))
  BY <1>1, AskedEntry, ServedEntry, LandedEntry
<1>3. Goal(Refetched(Invalidated(entry, StatusOnScreen)))
  BY <1>1, InvalidatedThenRefetched
<1>4. Goal(Failed(entry, StatusOnScreen))
  BY <1>1, FailedEntry
<1>5. Goal(entry')
  <2> HIDE DEF Goal
  <2> QED BY <1>2, <1>3, <1>4, StatusSteps
<1> QED BY <1>5

LEMMA CallsTypeStep ==
  ASSUME ConsoleInv, [ConsoleNext]_allVars
  PROVE  /\ page' \in CardPages \cup BadgePages \cup OtherPages
         /\ dialog' \in {"closed", "open", "error"}
         /\ calls' \subseteq [n: 1..MaxCalls, kind: {"unlock", "lock"},
                              st: {"sent", "done", "refused"}, mounted: BOOLEAN]
         /\ sent' \in 0..MaxCalls /\ foreign' \in BOOLEAN
<1> USE DEF ConsoleInv, ConsoleTypeOK, Still
<1> DEFINE Calls == [n: 1..MaxCalls, kind: {"unlock", "lock"},
                     st: {"sent", "done", "refused"}, mounted: BOOLEAN]
<1>1. ASSUME NEW kind \in {"unlock", "lock"}, Send(kind)
      PROVE  calls' \subseteq Calls /\ sent' \in 0..MaxCalls
  <2>1. sent' \in 0..MaxCalls /\ sent' \in 1..MaxCalls
    BY <1>1, ConsoleAssumption DEF Send
  <2>2. [n |-> sent', kind |-> kind, st |-> "sent", mounted |-> TRUE] \in Calls
    BY <2>1
  <2> QED BY <1>1, <2>1, <2>2 DEF Send
<1>2. ASSUME NEW c \in calls, NEW st \in {"done", "refused"}, Reaches(c, st)
      PROVE  calls' \subseteq Calls
  <2>1. [c EXCEPT !.st = st] \in Calls
    OBVIOUS
  <2> QED BY <1>2, <2>1 DEF Reaches
<1>3. ASSUME NEW p \in CardPages \cup BadgePages \cup OtherPages, Navigate(p)
      PROVE  calls' \subseteq Calls
  <2>1. ASSUME NEW c \in calls PROVE [c EXCEPT !.mounted = FALSE] \in Calls
    OBVIOUS
  <2> QED BY <1>3, <2>1 DEF Navigate
<1>4. ASSUME NEW c \in calls, LandCall(c) PROVE dialog' \in {"closed", "open", "error"}
  BY <1>4, Zenon DEF LandCall
<1> HIDE DEF Calls
<1>5. CASE UNCHANGED allVars
  BY <1>5 DEF allVars, consoleVars, Calls
<1>6. CASE Operator
  BY <1>1, <1>3, <1>6
  DEF Operator, Navigate, OpenDialog, CloseDialog, ConfirmUnlock, EmergencyLock, Calls
<1>7. CASE Answers
  <2>1. ASSUME NEW c \in calls, ServeCall(c) PROVE calls' \subseteq Calls
    BY <1>2, <2>1 DEF ServeCall
  <2>2. ASSUME NEW c \in calls, LandCall(c) PROVE calls' \subseteq Calls
    BY <2>2 DEF LandCall, Calls
  <2> QED
    BY <1>4, <1>7, <2>1, <2>2 DEF Answers, LandStatus, ServeStatus, ServeCall, LandCall, Calls
<1>8. CASE Faults
  BY <1>2, <1>8 DEF Faults, FailStatus, LoseCall, Calls
<1>9. CASE Elsewhere
  BY <1>9 DEF Elsewhere, Calls
<1> QED BY <1>5, <1>6, <1>7, <1>8, <1>9 DEF ConsoleNext, Calls

LEMMA FitStep == ASSUME ConsoleInv, [ConsoleNext]_allVars PROVE AnswersFit'
<1>1. entry \in Entries(LockStatuses) /\ Inspect \in LockStatuses /\ StatusOnScreen \in BOOLEAN /\ GateInv
  BY InspectType DEF ConsoleInv, ConsoleTypeOK, StatusOnScreen
<1>2. CASE UNCHANGED entry /\ ~ServeStatus
  BY <1>2, PendingStays DEF AnswersFit, ConsoleInv
<1>3. CASE entry' = Asked(entry) \/ entry' = Failed(entry, StatusOnScreen)
  <2>1. entry'.flight = "asked" \/ (entry'.flight = "idle" /\ entry'.error)
    BY <1>1, <1>3, AskedEntry, FailedEntry
  <2> QED BY <2>1 DEF AnswersFit
<1>4. CASE entry' = Refetched(Invalidated(entry, StatusOnScreen))
  <2>1. entry'.flight = "asked" \/ (entry'.flight = "answered" /\ entry'.late)
    BY <1>1, <1>4, InvalidatedThenRefetched
  <2> QED BY <2>1 DEF AnswersFit, NothingPending
<1>5. CASE ServeStatus /\ entry' = Served(entry, Inspect)
  <2>1. entry'.flight = "answered" /\ entry'.answer = Inspect
    BY <1>1, <1>5, ServedEntry
  <2>2. UNCHANGED gateVars => Inspect' = Inspect
    BY DEF gateVars, Inspect, GateLocked, ReachesExpiryCheck
  <2>3. Inspect' = Inspect
    BY <1>1, <1>5, <2>2, ReadingKeepsStatus DEF ServeStatus, Still
  <2> QED BY <2>1, <2>3 DEF AnswersFit
<1>6. CASE LandStatus /\ entry' = Landed(entry)
  <2>1. entry'.flight = "idle" /\ entry'.data = entry.answer /\ entry'.late = entry.late
    BY <1>1, <1>6, LandedEntry
  <2>2. entry.flight = "answered" /\ UNCHANGED <<calls, foreign>> /\ UNCHANGED gateVars
    BY <1>6 DEF LandStatus, Still
  <2>3. Inspect' = Inspect
    BY <2>2 DEF gateVars, Inspect, GateLocked, ReachesExpiryCheck
  <2> QED BY <2>1, <2>2, <2>3 DEF AnswersFit, NothingPending, ConsoleInv
<1> QED BY <1>2, <1>3, <1>4, <1>5, <1>6, StatusSteps

LEMMA SoundStep == ASSUME ConsoleInv, [ConsoleNext]_allVars PROVE AnswersSound'
<1>1. GateInv /\ [GateNext]_gateVars
  BY GateStep DEF ConsoleInv
<1>2. ASSUME NEW v \in {entry.data, entry.answer, Inspect}, v # Absent PROVE Sound(v)
  BY <1>1, <1>2, InspectType DEF ConsoleInv, AnswersSound
<1>3. ASSUME NEW v \in {entry.data, entry.answer, Inspect}, v # Absent
      PROVE  v.is_locked \/ (/\ v.status = "UNLOCKED" /\ v.window \in 1..opened'
                             /\ v.used < granted'[v.window])
  BY <1>1, <1>2, <1>3, SoundStays
<1>4. ASSUME entry'.data # Absent PROVE Sound(entry.data)'
  BY <1>3, <1>4, EntryTypeStep DEF Sound
<1>5. ASSUME entry'.answer # Absent PROVE Sound(entry.answer)'
  BY <1>3, <1>5, EntryTypeStep DEF Sound
<1> QED BY <1>4, <1>5 DEF AnswersSound

-----------------------------------------------------------------------------
LEMMA ConsoleStart == ASSUME ConsoleInit PROVE ConsoleInv
<1>1. EmptyEntry \in Entries(LockStatuses)
  BY RetriesAssumption DEF EmptyEntry, Entries
<1>2. entry = Asked(EmptyEntry) /\ EmptyEntry.data = Absent
  BY DEF ConsoleInit, EmptyEntry
<1>3. /\ entry \in Entries(LockStatuses) /\ entry.flight = "asked"
      /\ entry.data = Absent /\ entry.answer = Absent
  BY <1>1, <1>2, AskedEntry
<1>4. AnswersFit /\ AnswersSound
  BY <1>3 DEF AnswersFit, AnswersSound
<1>5. ConsoleTypeOK
  <2>1. /\ page \in CardPages \cup BadgePages \cup OtherPages /\ dialog \in {"closed", "open", "error"}
        /\ calls = {} /\ foreign \in BOOLEAN
    BY DEF ConsoleInit
  <2>2. sent \in 0..MaxCalls
    BY ConsoleAssumption DEF ConsoleInit
  <2> QED BY <1>3, <2>1, <2>2 DEF ConsoleTypeOK
<1> QED BY <1>4, <1>5, GateInitInv DEF ConsoleInit, ConsoleInv

LEMMA ConsoleStep == ASSUME ConsoleInv, [ConsoleNext]_allVars PROVE ConsoleInv'
<1>1. GateInv'
  BY GateStep, GateNextInv DEF ConsoleInv
<1>2. ConsoleTypeOK'
  BY EntryTypeStep, CallsTypeStep DEF ConsoleTypeOK
<1> QED BY <1>1, <1>2, FitStep, SoundStep DEF ConsoleInv

\* The inductive invariant holds, whoever works the gate beside the pages.
THEOREM ConsoleInvariance == ConsoleSpec => []ConsoleInv
BY ConsoleStart, ConsoleStep, PTL DEF ConsoleSpec

\* Every variable of the pages keeps its type.
THEOREM ConsoleTypeCorrect == ConsoleSpec => []ConsoleTypeOK
<1>1. ConsoleInv => ConsoleTypeOK
  BY DEF ConsoleInv
<1> QED BY <1>1, ConsoleInvariance, PTL

\* What the pages show of the gate is current once the page's mutations are
\* answered and nobody else changed it; the card and the badges agree; and a gate
\* shown unlocked is shown with a window that had slots left.
THEOREM StatusShown == ConsoleSpec => []StatusIsShownRight
<1>1. ConsoleInv => SettledStatusIsCurrent
  BY DEF ConsoleInv, AnswersFit, NothingPending, SettledStatusIsCurrent
<1>2. ASSUME ConsoleInv, StatusLoaded PROVE PagesAgree
  <2>1. entry.data \in LockStatuses /\ Sound(entry.data)
    BY <1>2, EntryFields DEF StatusLoaded, ConsoleInv, ConsoleTypeOK, AnswersSound
  <2>2. CardSaysLocked <=> entry.data.is_locked
    BY <1>2 DEF CardSaysLocked
  <2>3. Badge = IF CardSaysLocked THEN "LOCKED" ELSE "UNLOCKED"
    <3>1. CASE entry.data.is_locked
      BY <1>2, <2>2, <3>1, Zenon DEF Badge
    <3>2. CASE ~entry.data.is_locked
      <4>1. entry.data.status = "UNLOCKED" /\ entry.data.status # "LOCKED"
        BY <2>1, <3>2 DEF Sound
      <4> QED BY <1>2, <2>2, <3>2, <4>1, Zenon DEF Badge
    <3> QED BY <3>1, <3>2
  <2>4. ASSUME ~CardSaysLocked PROVE WindowsCounted = 1 /\ BudgetShown[1] < BudgetShown[2]
    BY <1>2, <2>1, <2>2, <2>4 DEF Sound, WindowsCounted, BudgetShown
  <2> QED BY <2>3, <2>4 DEF PagesAgree
<1>3. ConsoleInv => StatusIsShownRight
  BY <1>1, <1>2 DEF PagesAgree, StatusIsShownRight
<1> QED BY <1>3, ConsoleInvariance, PTL

-----------------------------------------------------------------------------
\* The figures of the fleet: what its variables and entries hold.

Fleets ==
  [agents: [Agents -> RawStates \cup {"ACTIVE", Gone}], gateway: Statuses \cup {"HEALTHY"},
   attention: SUBSET Items, delegations: [Delegations -> DelegationStates]]
Messages == [type: {"snapshot", "delta"}, previous: Fleets, current: Fleets]
Pulses ==
  [gateway: GatewayStates, active: Nat, total: Nat, count: Nat, critical: Nat, queue: SUBSET Items]

\* What an entry may hold, by key.
Lists == [Agents -> AgentStates \cup {Gone}]
Contents(k) ==
  CASE k = "agents"      -> Lists
    [] k = "pulse"       -> Pulses
    [] k = "gateway"     -> GatewayStates
    [] k = "delegations" -> [Delegations -> DelegationStates \cup {Gone}]
    [] OTHER             -> AgentStates

EntryTypeOK(e, S) ==
  /\ e \in Entries(S)
  /\ e.flight = "answered" => e.answer \in S

TypeOK ==
  /\ world \in Fleets /\ published \in Fleets
  /\ wire \in Seq(Messages) /\ up \in BOOLEAN
  /\ DOMAIN cache = Keys /\ \A k \in Keys : EntryTypeOK(cache[k], Contents(k))
  /\ route \in {"command", "agents", "runtime"} /\ open \in Agents \cup {Gone}
  /\ drift \subseteq {"agents", "attention", "gateway"}
  /\ unheard \subseteq Keys \X (Agents \cup Items \cup Delegations)
  /\ changes \in Nat /\ asks \in Nat /\ losses \in Nat

-----------------------------------------------------------------------------
\* What two states can differ in: an agent, an alarm, the delegations that are
\* active.
Topics == ({"agent"} \X Agents) \cup ({"alarm"} \X Items) \cup {<<"work", "work">>}
Differ(p, s, t) ==
  \/ t[1] = "agent" /\ p.agents[t[2]] # s.agents[t[2]]
  \/ t[1] = "alarm" /\ t[2] \in AttentionChanged(p, s)
  \/ t[1] = "work" /\ ActiveChanged(p, s)

\* A message behind the first n says something of it.
Tells(m, t) == m.type = "snapshot" \/ Differ(m.previous, m.current, t)
Told(t, n) == \E j \in DOMAIN wire : j > n /\ Tells(wire[j], t)

WireFits ==
  \A n \in DOMAIN wire : \A t \in Topics :
    ~Differ(wire[n].current, published, t) \/ Told(t, n)

ListFits ==
  /\ ~Loaded("agents") => wire # <<>> /\ wire[1].type = "snapshot"
  /\ \A a \in Agents :
       Loaded("agents") =>
         \/ Shown("agents")[a] = MapAgents(published.agents)[a]
         \/ <<"agents", a>> \in unheard
         \/ Told(<<"agent", a>>, 0)

DetailsFit ==
  \A a \in Agents :
    Loaded(a) => \/ Shown(a) = MapAgents(published.agents)[a]
                 \/ <<a, a>> \in unheard
                 \/ Told(<<"agent", a>>, 0)

AlarmsFit ==
  \A i \in Items :
    Loaded("pulse") => \/ i \in Shown("pulse").queue <=> i \in published.attention
                       \/ <<"pulse", i>> \in unheard
                       \/ Told(<<"alarm", i>>, 0)

WorkFits ==
  LET e == cache["delegations"] IN
  /\ OnScreen("delegations") /\ e.flight = "idle" /\ ~e.error => ~e.invalid
  /\ (e.data # Absent /\ e.flight = "idle" /\ ~e.error /\ ~e.invalid) =>
       \/ ~ActiveChanged([delegations |-> e.data], published)
       \/ \E d \in Delegations : <<"delegations", d>> \in unheard
       \/ Told(<<"work", "work">>, 0)

FiguresFit ==
  Loaded("pulse") =>
    /\ Loaded("agents") /\ "agents" \notin drift =>
         /\ Shown("pulse").active = SummaryBar.active
         /\ Shown("pulse").total = SummaryBar.registered
    /\ "attention" \notin drift => Shown("pulse").count = Cardinality(Shown("pulse").queue)
    /\ Loaded("gateway") /\ "gateway" \notin drift =>
         (Shown("pulse").gateway = "HEALTHY") <=> (Shown("gateway") \in {"HEALTHY", "DEGRADED"})

FleetInv ==
  TypeOK /\ WireFits /\ ListFits /\ DetailsFit /\ AlarmsFit /\ WorkFits /\ FiguresFit

-----------------------------------------------------------------------------
\* Messages.

LEMMA Appended ==
  ASSUME NEW S, NEW w \in Seq(S), NEW m \in S
  PROVE  /\ Append(w, m) \in Seq(S) /\ DOMAIN Append(w, m) = 1 .. (Len(w) + 1)
         /\ DOMAIN w = 1 .. Len(w) /\ Len(w) \in Nat
         /\ \A j \in 1 .. Len(w) : Append(w, m)[j] = w[j]
         /\ Append(w, m)[Len(w) + 1] = m
OBVIOUS

LEMMA Handled ==
  ASSUME NEW S, NEW w \in Seq(S), w # <<>>
  PROVE  /\ Tail(w) \in Seq(S) /\ Head(w) = w[1] /\ w[1] \in S
         /\ Len(w) \in Nat \ {0} /\ DOMAIN w = 1 .. Len(w)
         /\ DOMAIN Tail(w) = 1 .. (Len(w) - 1)
         /\ \A j \in 1 .. (Len(w) - 1) : Tail(w)[j] = w[j + 1]
OBVIOUS

LEMMA One ==
  ASSUME NEW S, NEW m \in S
  PROVE  <<m>> \in Seq(S) /\ DOMAIN <<m>> = {1} /\ <<m>>[1] = m
OBVIOUS

LEMMA DifferTransitive ==
  ASSUME NEW p, NEW q, NEW s, NEW t, ~Differ(p, q, t), ~Differ(q, s, t)
  PROVE  ~Differ(p, s, t)
BY DEF Differ, AttentionChanged, ActiveChanged, Active

LEMMA DifferNot ==
  ASSUME NEW p, NEW t
  PROVE  ~Differ(p, p, t)
BY DEF Differ, AttentionChanged, ActiveChanged

\* What is told stays told, and what is published is told.
LEMMA PublishTells ==
  ASSUME TypeOK, Publish, NEW t
  PROVE  \A n \in 0 .. Len(wire) : Differ(published, published', t) \/ Told(t, n) => Told(t, n)'
<1> DEFINE m == [type |-> "delta", previous |-> published, current |-> world]
<1>1. m \in Messages /\ wire \in Seq(Messages) /\ wire' = Append(wire, m) /\ published' = world
  BY DEF TypeOK, Messages, Publish
<1>2. /\ DOMAIN wire' = 1 .. (Len(wire) + 1) /\ DOMAIN wire = 1 .. Len(wire) /\ Len(wire) \in Nat
      /\ \A j \in 1 .. Len(wire) : wire'[j] = wire[j]
      /\ wire'[Len(wire) + 1] = m
  BY <1>1, Appended
<1>3. Differ(published, published', t) => Tells(m, t)
  BY <1>1 DEF Tells
<1> HIDE DEF m
<1> QED BY <1>2, <1>3 DEF Told

\* A message that is handled leaves what the ones behind it tell, and says of the
\* published state what they do not.
LEMMA HandledTells ==
  ASSUME TypeOK, Deliver, NEW t
  PROVE  /\ wire \in Seq(Messages) /\ wire # <<>> /\ wire[1] \in Messages /\ Head(wire) = wire[1]
         /\ \A n \in Nat : Told(t, n + 1) => Told(t, n)'
         /\ Told(t, 0) => Tells(wire[1], t) \/ Told(t, 0)'
         /\ WireFits /\ t \in Topics /\ Differ(wire[1].current, published, t) => Told(t, 0)'
<1>1. /\ wire \in Seq(Messages) /\ wire # <<>> /\ wire' = Tail(wire)
  BY DEF TypeOK, Deliver
<1>2. /\ Head(wire) = wire[1] /\ wire[1] \in Messages
      /\ Len(wire) \in Nat \ {0} /\ DOMAIN wire = 1 .. Len(wire)
      /\ DOMAIN wire' = 1 .. (Len(wire) - 1)
      /\ \A j \in 1 .. (Len(wire) - 1) : wire'[j] = wire[j + 1]
  BY <1>1, Handled
<1>3. \A n \in Nat : Told(t, n + 1) => Told(t, n)'
  <2> SUFFICES ASSUME NEW n \in Nat, NEW j \in DOMAIN wire, j > n + 1, Tells(wire[j], t)
               PROVE  Told(t, n)'
    BY DEF Told
  <2>1. j - 1 \in DOMAIN wire' /\ j - 1 > n /\ wire'[j - 1] = wire[j]
    BY <1>2
  <2> QED BY <2>1 DEF Told
<1>4. Told(t, 0) => Tells(wire[1], t) \/ Told(t, 1)
  BY <1>2 DEF Told
<1>5. WireFits /\ t \in Topics /\ Differ(wire[1].current, published, t) => Told(t, 1)
  BY <1>2 DEF WireFits
<1> QED BY <1>1, <1>2, <1>3, <1>4, <1>5

LEMMA WireStep ==
  ASSUME TypeOK, WireFits, [Next]_vars
  PROVE  WireFits'
<1>1. CASE UNCHANGED <<wire, published>>
  BY <1>1 DEF WireFits, Told
<1>2. CASE Publish
  <2> SUFFICES ASSUME NEW n \in DOMAIN wire', NEW t \in Topics, Differ(wire'[n].current, published', t)
               PROVE  Told(t, n)'
    BY DEF WireFits
  <2> DEFINE m == [type |-> "delta", previous |-> published, current |-> world]
  <2>1. /\ DOMAIN wire' = 1 .. (Len(wire) + 1) /\ DOMAIN wire = 1 .. Len(wire) /\ Len(wire) \in Nat
        /\ \A j \in 1 .. Len(wire) : wire'[j] = wire[j]
        /\ wire'[Len(wire) + 1] = m
    <3>1. m \in Messages /\ wire \in Seq(Messages) /\ wire' = Append(wire, m)
      BY <1>2 DEF TypeOK, Messages, Publish
    <3> QED BY <3>1, Appended
  <2>2. m.current = published'
    BY <1>2 DEF Publish
  <2> HIDE DEF m
  <2>3. n \in 1 .. Len(wire) /\ wire'[n] = wire[n]
    BY <2>1, <2>2, DifferNot
  <2>4. Differ(wire[n].current, published, t) \/ Differ(published, published', t)
    BY <2>3, DifferTransitive
  <2>5. Told(t, n) \/ Differ(published, published', t)
    BY <2>1, <2>3, <2>4 DEF WireFits
  <2>6. n \in 0 .. Len(wire)
    BY <2>1, <2>3
  <2> QED BY <1>2, <2>5, <2>6, PublishTells
<1>3. CASE Deliver
  <2> SUFFICES ASSUME NEW n \in DOMAIN wire', NEW t \in Topics, Differ(wire'[n].current, published', t)
               PROVE  Told(t, n)'
    BY DEF WireFits
  <2>1. wire \in Seq(Messages) /\ wire # <<>> /\ wire' = Tail(wire) /\ published' = published
    BY <1>3 DEF TypeOK, Deliver
  <2>2. n \in Nat /\ n + 1 \in DOMAIN wire /\ wire'[n] = wire[n + 1]
    BY <2>1, Handled
  <2>3. Told(t, n + 1)
    BY <2>1, <2>2 DEF WireFits
  <2> QED BY <1>3, <2>2, <2>3, HandledTells
<1>4. CASE Reconnect
  <2>1. CASE wire' = wire
    BY <1>1, <1>4, <2>1 DEF Reconnect
  <2>2. CASE wire' = <<SnapshotOf(published)>>
    <3>1. DOMAIN wire' = {1} /\ wire'[1].current = published /\ published' = published
      BY <1>4, <2>2 DEF Reconnect, SnapshotOf
    <3> QED BY <3>1, DifferNot DEF WireFits
  <2> QED BY <1>4, <2>1, <2>2 DEF Reconnect
<1> QED BY <1>1, <1>2, <1>3, <1>4
    DEF Next, vars, Change, Lose, Refresh, CloseAgent, Visit, OpenAgent, Turn, Ask, Serve, Fail, Land

-----------------------------------------------------------------------------
\* What the entries hold.

LEMMA Names ==
  /\ {"agents", "pulse", "gateway", "delegations"} \subseteq Keys
  /\ \A a \in Agents : a \in Keys /\ a \notin {"agents", "pulse", "gateway", "delegations"}
  /\ \A k \in Keys : k \in {"agents", "pulse", "gateway", "delegations"} \/ k \in Agents
BY NamesAssumption DEF Keys

LEMMA ContentsByKey ==
  /\ Contents("agents") = Lists /\ Contents("pulse") = Pulses
  /\ Contents("gateway") = GatewayStates
  /\ Contents("delegations") = [Delegations -> DelegationStates \cup {Gone}]
  /\ \A a \in Agents : Contents(a) = AgentStates
BY Names DEF Contents

LEMMA Mapped ==
  ASSUME NEW w \in Fleets
  PROVE  /\ MapAgents(w.agents) \in Lists
         /\ \A a \in Agents : w.agents[a] # Gone =>
              MapAgents(w.agents)[a] \in AgentStates /\ MapAgents(w.agents)[a] # Gone
         /\ \A a \in Agents : w.agents[a] = Gone => MapAgents(w.agents)[a] = Gone
<1>1. \A x : MapAgent(x) \in AgentStates /\ MapAgent(x) # Gone
  BY NamesAssumption DEF MapAgent, MapUnknownEnum, AgentStates
<1> QED BY <1>1 DEF MapAgents, Lists

LEMMA MappedGateway ==
  ASSUME NEW x
  PROVE  /\ MapGateway(x) \in GatewayStates /\ MapRealtimeGateway(x) \in GatewayStates
         /\ GatewayOfPulse(x) \in GatewayStates
         /\ (GatewayOfPulse(x) = "HEALTHY") <=> (MapRealtimeGateway(x) \in {"HEALTHY", "DEGRADED"})
BY DEF MapGateway, MapRealtimeGateway, GatewayOfPulse, MapUnknownEnum, GatewayStates, Connected

LEMMA Counts ==
  /\ \A list : Cardinality(Listed(list)) \in Nat /\ \A x : Cardinality(InState(list, x)) \in Nat
  /\ \A q \in SUBSET Items : Cardinality(q) \in Nat /\ Cardinality(Critical(q)) \in Nat
<1>1. ASSUME NEW list PROVE IsFiniteSet(Listed(list)) /\ \A x : IsFiniteSet(InState(list, x))
  BY FS_Subset, FleetAssumption DEF Listed, InState
<1>2. ASSUME NEW q \in SUBSET Items PROVE IsFiniteSet(q) /\ IsFiniteSet(Critical(q))
  BY FS_Subset, FleetAssumption DEF Critical
<1> QED BY <1>1, <1>2, FS_CardinalityType

LEMMA AnswerType ==
  ASSUME TypeOK, NEW k \in Keys, k \in Agents => world.agents[k] # Gone
  PROVE  Answer(k) \in Contents(k)
<1>1. world \in Fleets
  BY DEF TypeOK
<1>2. CASE k = "agents"
  BY <1>1, <1>2, Mapped, ContentsByKey DEF Answer
<1>3. CASE k = "pulse"
  <2>1. world.attention \in SUBSET Items
    BY <1>1 DEF Fleets
  <2>2. \A x : MapSystemPulse(x, world.attention) \in Pulses
    BY <2>1 DEF MapSystemPulse, Pulses, MapUnknownEnum, GatewayStates
  <2>3. Answer(k) = MapSystemPulse(world.gateway, world.attention)
    BY <1>3 DEF Answer
  <2> QED BY <1>3, <2>2, <2>3, ContentsByKey
<1>4. CASE k = "gateway"
  BY <1>4, MappedGateway, ContentsByKey DEF Answer
<1>5. CASE k = "delegations"
  <2>1. \A x : MapDelegation(x) \in DelegationStates
    BY DEF MapDelegation, MapUnknownEnum, DelegationStates
  <2>2. Answer(k) = [d \in Delegations |-> MapDelegation(world.delegations[d])]
    BY <1>5 DEF Answer
  <2> QED BY <1>5, <2>1, <2>2, ContentsByKey
<1>6. CASE k \in Agents
  <2>1. Answer(k) = MapAgents(world.agents)[k]
    BY <1>6, Names DEF Answer
  <2> QED BY <1>1, <1>6, <2>1, Mapped, ContentsByKey
<1> QED BY <1>2, <1>3, <1>4, <1>5, <1>6, Names

-----------------------------------------------------------------------------
\* What the requests of the pages leave of an entry: its data, and its flaws.

KeepsEntry(e, f, S) ==
  /\ EntryTypeOK(f, S) /\ f.data = e.data
  /\ f = e \/ f.flight # "idle" \/ f.error

LEMMA EntrySteps ==
  ASSUME NEW S, NEW e, EntryTypeOK(e, S), NEW b \in BOOLEAN
  PROVE  /\ KeepsEntry(e, e, S) /\ KeepsEntry(e, Mounted(e, b), S)
         /\ KeepsEntry(e, Refetched(e), S) /\ KeepsEntry(e, Failed(e, b), S)
         /\ \A v \in S : KeepsEntry(e, Served(e, v), S)
         /\ Mounted(e, b).flight = "idle" => ~Mounted(e, b).invalid
<1>1. KeepsEntry(e, e, S)
  BY DEF KeepsEntry
<1>2. KeepsEntry(e, Mounted(e, b), S) /\ (Mounted(e, b).flight = "idle" => ~Mounted(e, b).invalid)
  BY MountedEntry DEF KeepsEntry, EntryTypeOK
<1>3. KeepsEntry(e, Refetched(e), S)
  BY RefetchedEntry DEF KeepsEntry, EntryTypeOK
<1>4. KeepsEntry(e, Failed(e, b), S)
  BY FailedEntry DEF KeepsEntry, EntryTypeOK
<1>5. \A v \in S : KeepsEntry(e, Served(e, v), S)
  BY ServedEntry DEF KeepsEntry, EntryTypeOK
<1> QED BY <1>1, <1>2, <1>3, <1>4, <1>5

LEMMA AskStep ==
  ASSUME TypeOK, NEW r \in {"command", "agents", "runtime"}, NEW a \in Agents \cup {Gone}, Turn(r, a)
  PROVE  /\ DOMAIN cache' = Keys
         /\ \A k \in Keys : KeepsEntry(cache[k], cache'[k], Contents(k))
         /\ \A k \in Keys : OnScreen(k)' => OnScreen(k) \/ (cache'[k].flight = "idle" => ~cache'[k].invalid)
<1> DEFINE new == Observed(r, a) \ Observed(route, open)
<1>1. PICK aged \in BOOLEAN :
        cache' = [k \in Keys |-> IF k \in new THEN Mounted(cache[k], aged) ELSE cache[k]]
  BY DEF Turn, Ask
<1>2. \A k \in Keys : OnScreen(k)' => OnScreen(k) \/ k \in new
  BY DEF Turn, OnScreen
<1> HIDE DEF new
<1>3. \A k \in Keys : EntryTypeOK(cache[k], Contents(k))
  BY DEF TypeOK
<1>4. \A k \in Keys : KeepsEntry(cache[k], cache'[k], Contents(k))
  BY <1>1, <1>3, EntrySteps
<1>5. \A k \in Keys : k \in new => (cache'[k].flight = "idle" => ~cache'[k].invalid)
  BY <1>1, <1>3, EntrySteps
<1> QED BY <1>1, <1>2, <1>4, <1>5

LEMMA OtherSteps ==
  ASSUME TypeOK, [Next]_vars, ~Deliver, \A k \in Keys : ~Land(k)
  PROVE  /\ UNCHANGED <<drift, unheard>>
         /\ DOMAIN cache' = Keys
         /\ \A k \in Keys : KeepsEntry(cache[k], cache'[k], Contents(k))
         /\ \A k \in Keys : OnScreen(k)' => OnScreen(k) \/ (cache'[k].flight = "idle" => ~cache'[k].invalid)
<1>1. DOMAIN cache = Keys /\ (\A k \in Keys : EntryTypeOK(cache[k], Contents(k)))
  BY DEF TypeOK
<1>2. CASE UNCHANGED <<cache, drift, unheard, route>> /\ open' \in {open, Gone}
  BY <1>1, <1>2, EntrySteps, NamesAssumption DEF OnScreen, Observed, TypeOK
<1>3. CASE Refresh
  <2>1. PICK keys : /\ cache' = [k \in Keys |-> IF k \in keys THEN Refetched(cache[k]) ELSE cache[k]]
                    /\ UNCHANGED <<drift, unheard, route, open>>
    BY <1>3 DEF Refresh, Ask
  <2> QED BY <1>1, <2>1, EntrySteps DEF OnScreen
<1>4. ASSUME NEW r \in {"command", "agents", "runtime"}, NEW a \in Agents \cup {Gone}, Turn(r, a)
      PROVE  UNCHANGED <<drift, unheard>>
  BY <1>4 DEF Turn, Ask
<1>5. ASSUME NEW r \in {"command", "agents", "runtime"}, Visit(r)
      PROVE  Turn(r, Gone)
  BY <1>5 DEF Visit
<1>6. ASSUME NEW a \in Agents, OpenAgent(a)
      PROVE  Turn(route, a) /\ route \in {"command", "agents", "runtime"}
  BY <1>6 DEF OpenAgent, TypeOK
<1>7. ASSUME NEW k \in Keys, Serve(k)
      PROVE  /\ UNCHANGED <<drift, unheard, route, open>> /\ DOMAIN cache' = Keys
             /\ \A j \in Keys : KeepsEntry(cache[j], cache'[j], Contents(j))
  <2>1. /\ cache' = [cache EXCEPT ![k] = Served(@, Answer(k))]
        /\ UNCHANGED <<drift, unheard, route, open>> /\ (k \in Agents => world.agents[k] # Gone)
    BY <1>7 DEF Serve
  <2>2. Answer(k) \in Contents(k)
    BY <2>1, AnswerType
  <2> QED BY <1>1, <2>1, <2>2, EntrySteps
<1>8. ASSUME NEW k \in Keys, Fail(k)
      PROVE  /\ UNCHANGED <<drift, unheard, route, open>> /\ DOMAIN cache' = Keys
             /\ \A j \in Keys : KeepsEntry(cache[j], cache'[j], Contents(j))
  <2>1. /\ cache' = [cache EXCEPT ![k] = Failed(@, OnScreen(k))] /\ OnScreen(k) \in BOOLEAN
        /\ UNCHANGED <<drift, unheard, route, open>>
    BY <1>8 DEF Fail, OnScreen
  <2> QED BY <1>1, <2>1, EntrySteps
<1>9. ASSUME NEW k \in Keys, UNCHANGED <<route, open>>
      PROVE  OnScreen(k)' = OnScreen(k)
  BY <1>9 DEF OnScreen
<1>10. \/ UNCHANGED <<cache, drift, unheard, route>> /\ open' \in {open, Gone}
       \/ Refresh
       \/ \E r \in {"command", "agents", "runtime"} : Visit(r)
       \/ \E a \in Agents : OpenAgent(a)
       \/ \E k \in Keys : Serve(k) \/ Fail(k)
  BY DEF Next, vars, Change, Publish, Lose, Reconnect, CloseAgent
<1> QED BY <1>2, <1>3, <1>4, <1>5, <1>6, <1>7, <1>8, <1>9, <1>10, AskStep

\* An answer that lands.
LEMMA Landing ==
  ASSUME TypeOK, NEW k \in Keys, Land(k)
  PROVE  /\ DOMAIN cache' = Keys /\ \A j \in Keys : EntryTypeOK(cache'[j], Contents(j))
         /\ cache[k].answer \in Contents(k) /\ cache'[k].data = cache[k].answer
         /\ cache'[k].flight = "idle" /\ ~cache'[k].invalid /\ ~cache'[k].error
         /\ \A j \in Keys \ {k} : cache'[j] = cache[j]
         /\ \A j \in Keys : \A x : <<j, x>> \in unheard' <=>
              IF j = k THEN x \in Unpublished(k, cache[k].answer) ELSE <<j, x>> \in unheard
         /\ UNCHANGED <<published, wire, route, open>>
<1>1. DOMAIN cache = Keys /\ \A j \in Keys : EntryTypeOK(cache[j], Contents(j))
  BY DEF TypeOK
<1>2. /\ cache[k].flight = "answered" /\ cache' = [cache EXCEPT ![k] = Landed(@)]
      /\ unheard' = {u \in unheard : u[1] # k} \cup {<<k, x>> : x \in Unpublished(k, cache[k].answer)}
      /\ UNCHANGED <<published, wire, route, open>>
  BY DEF Land
<1>3. /\ Landed(cache[k]) \in Entries(Contents(k)) /\ Landed(cache[k]).data = cache[k].answer
      /\ Landed(cache[k]).flight = "idle" /\ cache[k].answer \in Contents(k)
      /\ ~Landed(cache[k]).invalid /\ ~Landed(cache[k]).error
  <2>1. EntryTypeOK(cache[k], Contents(k))
    BY <1>1
  <2>2. ~Landed(cache[k]).invalid /\ ~Landed(cache[k]).error
    BY <2>1 DEF Landed, EntryTypeOK, Entries
  <2> QED BY <1>2, <2>1, <2>2, LandedEntry DEF EntryTypeOK
<1>4. \A j \in Keys : \A x : <<j, x>> \in unheard' <=>
        IF j = k THEN x \in Unpublished(k, cache[k].answer) ELSE <<j, x>> \in unheard
  BY <1>2
<1>5. cache'[k] = Landed(cache[k]) /\ (\A j \in Keys \ {k} : cache'[j] = cache[j]) /\ DOMAIN cache' = Keys
  BY <1>1, <1>2
<1>6. \A j \in Keys : EntryTypeOK(cache'[j], Contents(j))
  BY <1>1, <1>3, <1>5 DEF EntryTypeOK
<1> QED BY <1>2, <1>3, <1>4, <1>5, <1>6

-----------------------------------------------------------------------------
\* What a message makes of the entries.

LEMMA EntryData ==
  ASSUME NEW S, NEW e, EntryTypeOK(e, S), NEW v \in S
  PROVE  /\ EntryTypeOK(SetData(e, v), S) /\ SetData(e, v).data = v
         /\ ~SetData(e, v).invalid /\ ~SetData(e, v).error
BY SetEntry DEF EntryTypeOK

LEMMA SnapshotEntry ==
  ASSUME TypeOK, NEW s \in Fleets, NEW k \in Keys
  PROVE  /\ k \in Agents /\ s.agents[k] = Gone => Hydrated(k, s) = cache[k]
         /\ k \notin Agents \/ s.agents[k] # Gone =>
              \E v \in Contents(k) :
                 /\ Hydrated(k, s) = SetData(cache[k], v)
                 /\ k = "agents" \/ k \in Agents => v = IF k = "agents" THEN MapAgents(s.agents)
                                                       ELSE MapAgents(s.agents)[k]
                 /\ k = "pulse" => v = SnapshotPulse(s)
                 /\ k = "gateway" => v = MapRealtimeGateway(s.gateway)
                 /\ k = "delegations" =>
                      v = [d \in Delegations |->
                             IF d \in Active(s.delegations) THEN s.delegations[d] ELSE Gone]
<1>1. \A a \in Agents : a \in Listed(MapAgents(s.agents)) <=> s.agents[a] # Gone
  BY Mapped DEF Listed
<1>2. Listed(MapAgents(s.agents)) \subseteq Agents
  BY DEF Listed
<1>3. CASE k = "agents"
  BY <1>2, <1>3, Names, Mapped, ContentsByKey DEF Hydrated
<1>4. CASE k = "pulse"
  <2>1. SnapshotPulse(s) \in Pulses
    BY MappedGateway, Counts DEF SnapshotPulse, Pulses, Fleets
  <2> QED BY <1>2, <1>4, <2>1, Names, ContentsByKey DEF Hydrated
<1>5. CASE k = "gateway"
  BY <1>2, <1>5, Names, MappedGateway, ContentsByKey DEF Hydrated
<1>6. CASE k = "delegations"
  <2>1. [d \in Delegations |-> IF d \in Active(s.delegations) THEN s.delegations[d] ELSE Gone]
          \in [Delegations -> DelegationStates \cup {Gone}]
    BY DEF Fleets
  <2> QED BY <1>2, <1>6, <2>1, Names, ContentsByKey DEF Hydrated
<1>7. CASE k \in Agents
  BY <1>1, <1>2, <1>7, Names, Mapped, ContentsByKey DEF Hydrated
<1> QED BY <1>3, <1>4, <1>5, <1>6, <1>7, Names

LEMMA PatchedPulseFields ==
  ASSUME NEW pulse \in Pulses, NEW p, NEW s \in Fleets
  PROVE  /\ PatchedPulse(pulse, p, s) \in Pulses
         /\ IF Changed(p, s) = {}
            THEN /\ PatchedPulse(pulse, p, s).active = pulse.active
                 /\ PatchedPulse(pulse, p, s).total = pulse.total
            ELSE /\ PatchedPulse(pulse, p, s).active
                      = Cardinality(InState(PatchedList(p, s), "ACTIVE"))
                 /\ PatchedPulse(pulse, p, s).total = Cardinality(Listed(PatchedList(p, s)))
         /\ IF AttentionChanged(p, s) = {}
            THEN /\ PatchedPulse(pulse, p, s).queue = pulse.queue
                 /\ PatchedPulse(pulse, p, s).count = pulse.count
            ELSE /\ PatchedPulse(pulse, p, s).queue = PatchedQueue(pulse.queue, p, s)
                 /\ PatchedPulse(pulse, p, s).count
                      = Cardinality(PatchedPulse(pulse, p, s).queue)
         /\ PatchedPulse(pulse, p, s).gateway
              = IF p.gateway = s.gateway THEN pulse.gateway ELSE GatewayOfPulse(s.gateway)
<1> DEFINE list == PatchedList(p, s)
           queue == PatchedQueue(pulse.queue, p, s)
           fleet == IF Changed(p, s) = {} THEN pulse
                    ELSE [pulse EXCEPT !.active = Cardinality(InState(list, "ACTIVE")),
                                       !.total = Cardinality(Listed(list))]
           alarms == IF AttentionChanged(p, s) = {} THEN fleet
                     ELSE [fleet EXCEPT !.queue = queue, !.count = Cardinality(queue),
                                        !.critical = Cardinality(Critical(queue))]
<1>1. /\ queue \in SUBSET Items
      /\ Cardinality(InState(list, "ACTIVE")) \in Nat /\ Cardinality(Listed(list)) \in Nat
  BY Counts DEF PatchedQueue, Pulses, Fleets
<1>2. Cardinality(queue) \in Nat /\ Cardinality(Critical(queue)) \in Nat
  BY <1>1, Counts
<1>3. PatchedPulse(pulse, p, s) = IF p.gateway = s.gateway THEN alarms
                                  ELSE [alarms EXCEPT !.gateway = GatewayOfPulse(s.gateway)]
  BY DEF PatchedPulse
<1>4. /\ fleet \in Pulses
      /\ fleet.active = IF Changed(p, s) = {} THEN pulse.active ELSE Cardinality(InState(list, "ACTIVE"))
      /\ fleet.total = IF Changed(p, s) = {} THEN pulse.total ELSE Cardinality(Listed(list))
      /\ fleet.queue = pulse.queue /\ fleet.count = pulse.count /\ fleet.gateway = pulse.gateway
  <2> HIDE DEF list
  <2> QED BY <1>1 DEF Pulses
<1>5. /\ alarms \in Pulses
      /\ alarms.active = fleet.active /\ alarms.total = fleet.total
      /\ alarms.queue = IF AttentionChanged(p, s) = {} THEN fleet.queue ELSE queue
      /\ alarms.count = IF AttentionChanged(p, s) = {} THEN fleet.count ELSE Cardinality(queue)
      /\ alarms.gateway = fleet.gateway
  <2> HIDE DEF queue, fleet
  <2> QED BY <1>1, <1>2, <1>4 DEF Pulses
<1>6. GatewayOfPulse(s.gateway) \in GatewayStates
  BY MappedGateway
<1> HIDE DEF fleet, alarms
<1>7. /\ PatchedPulse(pulse, p, s) \in Pulses
      /\ PatchedPulse(pulse, p, s).active = alarms.active
      /\ PatchedPulse(pulse, p, s).total = alarms.total
      /\ PatchedPulse(pulse, p, s).queue = alarms.queue
      /\ PatchedPulse(pulse, p, s).count = alarms.count
      /\ PatchedPulse(pulse, p, s).gateway
           = IF p.gateway = s.gateway THEN alarms.gateway ELSE GatewayOfPulse(s.gateway)
  BY <1>3, <1>5, <1>6 DEF Pulses
<1> QED BY <1>4, <1>5, <1>7

LEMMA PatchedListType ==
  ASSUME TypeOK, NEW p, NEW s \in Fleets
  PROVE  /\ PatchedList(p, s) \in Lists
         /\ \A a \in Agents :
              PatchedList(p, s)[a] = IF a \in Changed(p, s) THEN MapAgents(s.agents)[a]
                                     ELSE IF cache["agents"].data = Absent THEN Gone
                                     ELSE cache["agents"].data[a]
<1>1. cache["agents"].data \in Lists \cup {Absent}
  BY Names, ContentsByKey, EntryFields DEF TypeOK, EntryTypeOK
<1>2. MapAgents(s.agents) \in Lists
  BY Mapped
<1> QED BY <1>1, <1>2 DEF PatchedList, Lists

LEMMA RemovedEntry ==
  ASSUME NEW S, NEW k
  PROVE  EntryTypeOK(Removed(k), S) /\ Removed(k).data = Absent
<1>1. EmptyEntry \in Entries(S) /\ EmptyEntry.data = Absent /\ EmptyEntry.flight = "idle"
  BY RetriesAssumption DEF EmptyEntry, Entries
<1> QED BY <1>1, AskedEntry DEF Removed, EntryTypeOK

LEMMA PatchedPulseData ==
  ASSUME TypeOK, NEW p, NEW s \in Fleets
  PROVE  /\ EntryTypeOK(Patched("pulse", p, s), Contents("pulse"))
         /\ Patched("pulse", p, s).data = IF cache["pulse"].data = Absent THEN Absent
                                         ELSE PatchedPulse(cache["pulse"].data, p, s)
<1> DEFINE d == cache["pulse"].data
<1>1. EntryTypeOK(cache["pulse"], Contents("pulse"))
  BY Names DEF TypeOK
<1>2. Changed(p, s) \subseteq Agents
  BY DEF Changed
<1>3. Patched("pulse", p, s) = IF d # Absent /\ PatchedPulse(d, p, s) # d
                               THEN SetData(cache["pulse"], PatchedPulse(d, p, s)) ELSE cache["pulse"]
  BY <1>2, Names DEF Patched
<1>4. d # Absent => d \in Pulses
  BY <1>1, ContentsByKey, EntryFields DEF EntryTypeOK
<1>5. d # Absent => PatchedPulse(d, p, s) \in Contents("pulse")
  BY <1>4, PatchedPulseFields, ContentsByKey
<1> QED BY <1>1, <1>3, <1>5, EntryData

LEMMA PatchedEntry ==
  ASSUME TypeOK, NEW p, NEW s \in Fleets, NEW k \in Keys
  PROVE  /\ EntryTypeOK(Patched(k, p, s), Contents(k))
         /\ k = "agents" => Patched(k, p, s).data = IF Changed(p, s) = {} THEN cache[k].data
                                                   ELSE PatchedList(p, s)
         /\ k = "gateway" => Patched(k, p, s).data = IF p.gateway = s.gateway THEN cache[k].data
                                                    ELSE MapRealtimeGateway(s.gateway)
         /\ k = "pulse" => Patched(k, p, s).data = IF cache[k].data = Absent THEN Absent
                                                  ELSE PatchedPulse(cache[k].data, p, s)
         /\ k = "delegations" => Patched(k, p, s) = IF ActiveChanged(p, s)
                                                   THEN Invalidated(cache[k], OnScreen(k))
                                                   ELSE cache[k]
         /\ k \in Agents => Patched(k, p, s).data = IF k \notin Changed(p, s) THEN cache[k].data
                                                   ELSE IF s.agents[k] = Gone THEN Absent
                                                   ELSE MapAgents(s.agents)[k]
<1>1. EntryTypeOK(cache[k], Contents(k))
  BY DEF TypeOK
<1>2. Changed(p, s) \subseteq Agents
  BY DEF Changed
<1>3. CASE k = "agents"
  <2>1. Patched(k, p, s) = IF Changed(p, s) # {} THEN SetData(cache[k], PatchedList(p, s)) ELSE cache[k]
    BY <1>2, <1>3, Names DEF Patched
  <2>2. PatchedList(p, s) \in Contents(k)
    BY <1>3, PatchedListType, ContentsByKey
  <2> QED BY <1>1, <1>3, <2>1, <2>2, EntryData, Names
<1>4. CASE k = "gateway"
  <2>1. Patched(k, p, s) = IF p.gateway # s.gateway THEN SetData(cache[k], MapRealtimeGateway(s.gateway))
                           ELSE cache[k]
    BY <1>2, <1>4, Names DEF Patched
  <2>2. MapRealtimeGateway(s.gateway) \in Contents(k)
    BY <1>4, MappedGateway, ContentsByKey
  <2> QED BY <1>1, <1>4, <2>1, <2>2, EntryData, Names
<1>5. CASE k = "pulse"
  BY <1>5, PatchedPulseData, Names
<1>6. CASE k = "delegations"
  <2>1. Patched(k, p, s) = IF ActiveChanged(p, s) THEN Invalidated(cache[k], OnScreen(k)) ELSE cache[k]
    BY <1>2, <1>6, Names DEF Patched
  <2>2. OnScreen(k) \in BOOLEAN
    BY DEF OnScreen
  <2>3. EntryTypeOK(Invalidated(cache[k], OnScreen(k)), Contents(k))
    BY <1>1, <2>2, InvalidatedEntry DEF EntryTypeOK
  <2> QED BY <1>1, <1>6, <2>1, <2>3, Names
<1>7. CASE k \in Agents
  <2>1. Patched(k, p, s) = IF k \notin Changed(p, s) THEN cache[k]
                           ELSE IF s.agents[k] = Gone THEN Removed(k)
                           ELSE SetData(cache[k], MapAgents(s.agents)[k])
    BY <1>2, <1>7, Names DEF Patched
  <2>2. s.agents[k] # Gone => MapAgents(s.agents)[k] \in Contents(k)
    BY <1>7, Mapped, ContentsByKey
  <2> QED BY <1>1, <1>7, <2>1, <2>2, EntryData, RemovedEntry, Names
<1> QED BY <1>3, <1>4, <1>5, <1>6, <1>7, Names

LEMMA PatchedFigures ==
  ASSUME TypeOK, NEW p, NEW s \in Fleets
  PROVE  /\ Patched("agents", p, s).data = IF Changed(p, s) = {} THEN cache["agents"].data
                                          ELSE PatchedList(p, s)
         /\ Patched("gateway", p, s).data = IF p.gateway = s.gateway THEN cache["gateway"].data
                                           ELSE MapRealtimeGateway(s.gateway)
         /\ Patched("pulse", p, s).data = IF cache["pulse"].data = Absent THEN Absent
                                         ELSE PatchedPulse(cache["pulse"].data, p, s)
<1>1. "agents" \in Keys /\ "gateway" \in Keys /\ "pulse" \in Keys
  BY Names
<1>2. ASSUME NEW k \in Keys, k = "agents"
      PROVE  Patched(k, p, s).data = IF Changed(p, s) = {} THEN cache[k].data ELSE PatchedList(p, s)
  BY <1>2, PatchedEntry
<1>3. ASSUME NEW k \in Keys, k = "gateway"
      PROVE  Patched(k, p, s).data = IF p.gateway = s.gateway THEN cache[k].data
                                     ELSE MapRealtimeGateway(s.gateway)
  BY <1>3, PatchedEntry
<1>4. Patched("pulse", p, s).data = IF cache["pulse"].data = Absent THEN Absent
                                    ELSE PatchedPulse(cache["pulse"].data, p, s)
  BY PatchedPulseData
<1> QED BY <1>1, <1>2, <1>3, <1>4

\* A step of handleMessage.
LEMMA Message ==
  ASSUME TypeOK, Deliver
  PROVE  /\ wire[1] \in Messages /\ wire[1].current \in Fleets /\ DOMAIN cache' = Keys
         /\ wire' = Tail(wire) /\ wire' \in Seq(Messages) /\ UNCHANGED <<published, route, open>>
         /\ IF wire[1].type = "snapshot"
            THEN /\ \A k \in Keys : cache'[k] = Hydrated(k, wire[1].current)
                 /\ drift' = {} /\ unheard' = {<<a, a>> : a \in Orphans(wire[1].current)}
            ELSE LET p == wire[1].previous
                     s == wire[1].current
                 IN  /\ \A k \in Keys : cache'[k] = Patched(k, p, s)
                     /\ drift' = IF cache["pulse"].data = Absent THEN drift ELSE drift \ Settles(p, s)
                     /\ unheard' = {u \in unheard : u[2] \notin Changed(p, s) \cup AttentionChanged(p, s)}
<1>1. wire \in Seq(Messages) /\ wire # <<>>
  BY DEF TypeOK, Deliver
<1>2. Head(wire) = wire[1] /\ wire[1] \in Messages /\ Tail(wire) \in Seq(Messages)
  BY <1>1, Handled
<1> QED BY <1>2 DEF Deliver, Messages

-----------------------------------------------------------------------------
\* Types.

LEMMA WorldStep ==
  ASSUME TypeOK, [Next]_vars
  PROVE  world' \in Fleets /\ published' \in Fleets /\ wire' \in Seq(Messages) /\ up' \in BOOLEAN
<1>1. world \in Fleets /\ published \in Fleets /\ wire \in Seq(Messages) /\ up \in BOOLEAN
  BY DEF TypeOK
<1>2. CASE UNCHANGED <<world, published, wire, up>>
  BY <1>1, <1>2
<1>3. CASE Change
  <2>1. UNCHANGED <<published, wire, up>>
    BY <1>3 DEF Change
  <2>2. ASSUME NEW a \in Agents, NEW st \in RawStates \cup {Gone}, world' = [world EXCEPT !.agents[a] = st]
        PROVE  world' \in Fleets
    BY <1>1, <2>2 DEF Fleets
  <2>3. ASSUME NEW q \in SUBSET Items, world' = [world EXCEPT !.attention = q]
        PROVE  world' \in Fleets
    BY <1>1, <2>3 DEF Fleets
  <2>4. ASSUME NEW st \in Statuses, world' = [world EXCEPT !.gateway = st]
        PROVE  world' \in Fleets
    BY <1>1, <2>4 DEF Fleets
  <2>5. ASSUME NEW d \in Delegations, NEW st \in DelegationStates, world' = [world EXCEPT !.delegations[d] = st]
        PROVE  world' \in Fleets
    BY <1>1, <2>5 DEF Fleets
  <2>6. \/ \E a \in Agents : \E st \in RawStates \cup {Gone} : world' = [world EXCEPT !.agents[a] = st]
        \/ \E q \in SUBSET Items : world' = [world EXCEPT !.attention = q]
        \/ \E st \in Statuses : world' = [world EXCEPT !.gateway = st]
        \/ \E d \in Delegations, st \in DelegationStates : world' = [world EXCEPT !.delegations[d] = st]
    BY <1>3 DEF Change
  <2>7. world' \in Fleets
    BY <2>2, <2>3, <2>4, <2>5, <2>6
  <2> QED BY <1>1, <2>1, <2>7
<1>4. CASE Publish
  <2> DEFINE m == [type |-> "delta", previous |-> published, current |-> world]
  <2>1. m \in Messages /\ wire' = Append(wire, m) /\ published' = world /\ UNCHANGED <<world, up>>
    BY <1>1, <1>4 DEF Publish, Messages
  <2> HIDE DEF m
  <2> QED BY <1>1, <2>1, Appended
<1>5. CASE Lose
  BY <1>1, <1>5 DEF Lose
<1>6. CASE Reconnect
  <2>1. SnapshotOf(published) \in Messages
    BY <1>1 DEF SnapshotOf, Messages
  <2>2. <<SnapshotOf(published)>> \in Seq(Messages)
    BY <2>1, One
  <2> QED BY <1>1, <1>6, <2>2 DEF Reconnect
<1>7. CASE Deliver
  BY <1>1, <1>7, Message DEF Deliver
<1> QED BY <1>2, <1>3, <1>4, <1>5, <1>6, <1>7
    DEF Next, vars, Refresh, CloseAgent, Visit, OpenAgent, Turn, Ask, Serve, Fail, Land

LEMMA PageStep ==
  ASSUME TypeOK, [Next]_vars
  PROVE  /\ route' \in {"command", "agents", "runtime"} /\ open' \in Agents \cup {Gone}
         /\ changes' \in Nat /\ asks' \in Nat /\ losses' \in Nat
         /\ drift' \subseteq {"agents", "attention", "gateway"}
BY DEF TypeOK, Next, vars, Change, Publish, Lose, Reconnect, Deliver, Refresh, CloseAgent, Visit,
       OpenAgent, Turn, Ask, Serve, Fail, Land, Drifts

LEMMA UnpublishedIs ==
  ASSUME NEW v
  PROVE  /\ Unpublished("agents", v) = {a \in Agents : v[a] # MapAgents(published.agents)[a]}
         /\ Unpublished("pulse", v) = AttentionChanged([attention |-> v.queue], published)
         /\ Unpublished("delegations", v)
              = {d \in Delegations : ActiveChanged([delegations |-> v], published)}
         /\ \A k \in Agents : Unpublished(k, v) = {a \in {k} : v # MapAgents(published.agents)[a]}
<1>1. Unpublished("agents", v) = {a \in Agents : v[a] # MapAgents(published.agents)[a]}
  BY Names DEF Unpublished
<1>2. Unpublished("pulse", v) = AttentionChanged([attention |-> v.queue], published)
  BY Names DEF Unpublished
<1>3. Unpublished("delegations", v) = {d \in Delegations : ActiveChanged([delegations |-> v], published)}
  BY Names DEF Unpublished
<1>4. \A k \in Agents : Unpublished(k, v) = {a \in {k} : v # MapAgents(published.agents)[a]}
  BY Names DEF Unpublished
<1> QED BY <1>1, <1>2, <1>3, <1>4

\* What an answer can tell that is not published.
LEMMA UnpublishedType ==
  ASSUME TypeOK, NEW k \in Keys, Land(k)
  PROVE  Unpublished(k, cache[k].answer) \subseteq Agents \cup Items \cup Delegations
<1>1. cache[k].answer \in Contents(k) /\ published.attention \in SUBSET Items
  BY Landing DEF TypeOK, Fleets
<1>2. CASE k = "pulse"
  <2>0. cache[k].answer \in Pulses
    BY <1>1, <1>2, ContentsByKey
  <2>1. cache[k].answer.queue \in SUBSET Items
    BY <2>0 DEF Pulses
  <2>2. Unpublished(k, cache[k].answer)
          = AttentionChanged([attention |-> cache[k].answer.queue], published)
    BY <1>2, UnpublishedIs
  <2> QED BY <1>1, <2>1, <2>2 DEF AttentionChanged
<1>3. CASE k # "pulse"
  BY <1>3 DEF Unpublished
<1> QED BY <1>2, <1>3

LEMMA CacheStep ==
  ASSUME TypeOK, [Next]_vars
  PROVE  /\ DOMAIN cache' = Keys /\ \A k \in Keys : EntryTypeOK(cache'[k], Contents(k))
         /\ unheard' \subseteq Keys \X (Agents \cup Items \cup Delegations)
<1>1. unheard \subseteq Keys \X (Agents \cup Items \cup Delegations)
  BY DEF TypeOK
<1>2. CASE Deliver
  <2> DEFINE p == wire[1].previous
             s == wire[1].current
  <2>1. s \in Fleets /\ DOMAIN cache' = Keys
    BY <1>2, Message
  <2>2. CASE wire[1].type = "snapshot"
    <3>1. /\ \A k \in Keys : cache'[k] = Hydrated(k, s)
          /\ unheard' = {<<a, a>> : a \in Orphans(s)}
      BY <1>2, <2>2, Message
    <3>2. ASSUME NEW k \in Keys
          PROVE  EntryTypeOK(Hydrated(k, s), Contents(k))
      <4>1. EntryTypeOK(cache[k], Contents(k))
        BY DEF TypeOK
      <4> HIDE DEF s
      <4> QED BY <2>1, <4>1, SnapshotEntry, EntryData
    <3>3. unheard' \subseteq Keys \X (Agents \cup Items \cup Delegations)
      BY <3>1, Names DEF Orphans
    <3> QED BY <2>1, <3>1, <3>2, <3>3
  <2>3. CASE wire[1].type # "snapshot"
    <3>1. /\ \A k \in Keys : cache'[k] = Patched(k, p, s)
          /\ unheard' \subseteq unheard
      BY <1>2, <2>3, Message
    <3>2. ASSUME NEW k \in Keys
          PROVE  EntryTypeOK(Patched(k, p, s), Contents(k))
      <4> HIDE DEF p, s
      <4> QED BY <2>1, PatchedEntry
    <3> HIDE DEF p, s
    <3> QED BY <1>1, <2>1, <3>1, <3>2
  <2> QED BY <2>2, <2>3
<1>3. ASSUME NEW k \in Keys, Land(k)
      PROVE  /\ DOMAIN cache' = Keys /\ \A j \in Keys : EntryTypeOK(cache'[j], Contents(j))
             /\ unheard' \subseteq Keys \X (Agents \cup Items \cup Delegations)
  <2>1. Unpublished(k, cache[k].answer) \subseteq Agents \cup Items \cup Delegations
    BY <1>3, UnpublishedType
  <2>2. unheard' = {u \in unheard : u[1] # k} \cup {<<k, x>> : x \in Unpublished(k, cache[k].answer)}
    BY <1>3 DEF Land
  <2>3. unheard' \subseteq Keys \X (Agents \cup Items \cup Delegations)
    BY <1>1, <2>1, <2>2
  <2> QED BY <1>3, <2>3, Landing
<1>4. CASE ~Deliver /\ \A k \in Keys : ~Land(k)
  BY <1>1, <1>4, OtherSteps DEF KeepsEntry
<1> QED BY <1>2, <1>3, <1>4

LEMMA TypeStep ==
  ASSUME TypeOK, [Next]_vars
  PROVE  TypeOK'
BY WorldStep, PageStep, CacheStep DEF TypeOK

-----------------------------------------------------------------------------
\* What the wire says of a topic.

LEMMA TopicsDiffer ==
  ASSUME NEW p, NEW s
  PROVE  /\ \A a \in Agents : Differ(p, s, <<"agent", a>>) <=> p.agents[a] # s.agents[a]
         /\ \A i \in Items : Differ(p, s, <<"alarm", i>>) <=> ~(i \in p.attention <=> i \in s.attention)
         /\ Differ(p, s, <<"work", "work">>) <=> ActiveChanged(p, s)
BY DEF Differ, AttentionChanged

LEMMA TopicsAre ==
  /\ \A a \in Agents : <<"agent", a>> \in Topics
  /\ \A i \in Items : <<"alarm", i>> \in Topics
  /\ <<"work", "work">> \in Topics
BY DEF Topics

LEMMA SameAgent ==
  ASSUME NEW p, NEW s, NEW a \in Agents, ~Differ(p, s, <<"agent", a>>)
  PROVE  MapAgents(p.agents)[a] = MapAgents(s.agents)[a]
BY TopicsDiffer DEF MapAgents

\* Whatever is told stays told until it is handled.
LEMMA ToldStays ==
  ASSUME TypeOK, [Next]_vars, ~Deliver, NEW t
  PROVE  /\ Differ(published, published', t) \/ Told(t, 0) => Told(t, 0)'
         /\ wire # <<>> /\ wire[1].type = "snapshot" => wire' # <<>> /\ wire'[1].type = "snapshot"
<1>1. CASE UNCHANGED <<wire, published>>
  BY <1>1, DifferNot DEF Told
<1>2. CASE Publish
  <2>1. 0 \in 0 .. Len(wire) /\ wire \in Seq(Messages)
    BY DEF TypeOK
  <2>2. Differ(published, published', t) \/ Told(t, 0) => Told(t, 0)'
    BY <1>2, <2>1, PublishTells
  <2>3. wire # <<>> => wire' # <<>> /\ wire'[1] = wire[1]
    BY <1>2, <2>1 DEF Publish
  <2> QED BY <2>2, <2>3
<1>3. CASE Reconnect
  <2>1. CASE wire' = wire
    BY <1>1, <1>3, <2>1 DEF Reconnect
  <2>2. CASE wire' = <<SnapshotOf(published)>>
    <3>1. DOMAIN wire' = {1} /\ wire' # <<>> /\ wire'[1].type = "snapshot"
      BY <2>2 DEF SnapshotOf
    <3>2. Told(t, 0)'
      BY <3>1 DEF Told, Tells
    <3> QED BY <3>1, <3>2
  <2> QED BY <1>3, <2>1, <2>2 DEF Reconnect
<1> QED BY <1>1, <1>2, <1>3
    DEF Next, vars, Change, Lose, Refresh, CloseAgent, Visit, OpenAgent, Turn, Ask, Serve, Fail, Land

\* A message that is handled, by what it says of a topic.
LEMMA HandledTopic ==
  ASSUME TypeOK, WireFits, Deliver, NEW t \in Topics
  PROVE  /\ Differ(wire[1].current, published, t) => Told(t, 0)'
         /\ wire[1].type # "snapshot" /\ ~Differ(wire[1].previous, wire[1].current, t) =>
              (Told(t, 0) => Told(t, 0)')
BY HandledTells DEF Tells

-----------------------------------------------------------------------------
\* The list.

LEMMA ListLoads ==
  ASSUME NEW v \in Lists
  PROVE  v # Absent
BY NamesAssumption DEF Lists

LEMMA ListStep ==
  ASSUME TypeOK, WireFits, ListFits, [Next]_vars
  PROVE  ListFits'
<1> DEFINE list == cache["agents"].data
<1>1. CASE ~Deliver /\ \A k \in Keys : ~Land(k)
  <2>1. list' = list /\ unheard' = unheard
    BY <1>1, OtherSteps, Names DEF KeepsEntry
  <2>2. list = Absent => wire' # <<>> /\ wire'[1].type = "snapshot"
    BY <1>1, ToldStays DEF ListFits, Loaded, Shown
  <2>3. ASSUME NEW a \in Agents, list # Absent
        PROVE  \/ list[a] = MapAgents(published'.agents)[a]
               \/ <<"agents", a>> \in unheard
               \/ Told(<<"agent", a>>, 0)'
    <3>1. Differ(published, published', <<"agent", a>>) \/ Told(<<"agent", a>>, 0) => Told(<<"agent", a>>, 0)'
      BY <1>1, ToldStays
    <3>2. \/ list[a] = MapAgents(published.agents)[a]
          \/ <<"agents", a>> \in unheard
          \/ Told(<<"agent", a>>, 0)
      BY <2>3 DEF ListFits, Loaded, Shown
    <3> QED BY <3>1, <3>2, SameAgent
  <2> HIDE DEF list
  <2>4. list' = cache'["agents"].data
    BY DEF list
  <2> QED BY <2>1, <2>2, <2>3, <2>4 DEF ListFits, Loaded, Shown
<1>2. CASE Deliver
  <2> DEFINE p == wire[1].previous
             s == wire[1].current
  <2>1. /\ s \in Fleets /\ published' = published
        /\ cache'["agents"].data = IF wire[1].type = "snapshot" THEN MapAgents(s.agents)
                                   ELSE IF Changed(p, s) = {} THEN list ELSE PatchedList(p, s)
    <3>1. EntryTypeOK(cache["agents"], Contents("agents"))
      BY Names DEF TypeOK
    <3>2. s \in Fleets /\ published' = published
      BY <1>2, Message
    <3>3. CASE wire[1].type = "snapshot"
      <4>1. cache'["agents"] = Hydrated("agents", s)
        BY <1>2, <3>3, Message, Names
      <4> HIDE DEF s
      <4> QED BY <3>1, <3>2, <3>3, <4>1, SnapshotEntry, EntryData, Names
    <3>4. CASE wire[1].type # "snapshot"
      <4>1. cache'["agents"] = Patched("agents", p, s)
        BY <1>2, <3>4, Message, Names
      <4> HIDE DEF p, s
      <4> QED BY <3>2, <3>4, <4>1, PatchedEntry, Names
    <3> QED BY <3>2, <3>3, <3>4
  <2>2. wire[1].type # "snapshot" => list # Absent
    BY DEF ListFits, Loaded, Shown
  <2>3. list \in Lists \cup {Absent}
    BY Names, ContentsByKey, EntryFields DEF TypeOK, EntryTypeOK
  <2>4. cache'["agents"].data # Absent
    <3> HIDE DEF p, s, list
    <3> QED BY <2>1, <2>2, Mapped, PatchedListType, ListLoads
  <2>5. ASSUME NEW a \in Agents
        PROVE  \/ cache'["agents"].data[a] = MapAgents(published.agents)[a]
               \/ <<"agents", a>> \in unheard'
               \/ Told(<<"agent", a>>, 0)'
    <3>1. /\ Differ(s, published, <<"agent", a>>) => Told(<<"agent", a>>, 0)'
          /\ wire[1].type # "snapshot" /\ ~Differ(p, s, <<"agent", a>>) =>
               (Told(<<"agent", a>>, 0) => Told(<<"agent", a>>, 0)')
      BY <1>2, HandledTopic, TopicsAre
    <3>2. CASE cache'["agents"].data[a] = MapAgents(s.agents)[a]
      <4> HIDE DEF s
      <4> QED BY <3>1, <3>2, SameAgent
    <3>3. CASE wire[1].type # "snapshot" /\ a \notin Changed(p, s)
      <4>1. unheard' = {u \in unheard : u[2] \notin Changed(p, s) \cup AttentionChanged(p, s)}
        BY <1>2, <3>3, Message
      <4>2. a \notin AttentionChanged(p, s)
        BY <1>2, Message, NamesAssumption DEF AttentionChanged, Messages, Fleets
      <4>3. ~Differ(p, s, <<"agent", a>>)
        BY <3>3, TopicsDiffer DEF Changed
      <4>4. \/ list[a] = MapAgents(published.agents)[a]
            \/ <<"agents", a>> \in unheard
            \/ Told(<<"agent", a>>, 0)
        BY <2>2, <3>3 DEF ListFits, Loaded, Shown
      <4>5. cache'["agents"].data[a] = list[a]
        <5> HIDE DEF p, s, list
        <5>1. PatchedList(p, s)[a] = list[a]
          BY <2>1, <2>2, <3>3, PatchedListType DEF list
        <5> QED BY <2>1, <3>3, <5>1
      <4> HIDE DEF p, s, list
      <4> QED BY <3>1, <3>3, <4>1, <4>2, <4>3, <4>4, <4>5
    <3>4. cache'["agents"].data[a] = MapAgents(s.agents)[a]
            \/ (wire[1].type # "snapshot" /\ a \notin Changed(p, s))
      <4> HIDE DEF p, s, list
      <4> QED BY <2>1, PatchedListType
    <3> QED BY <3>2, <3>3, <3>4
  <2> QED BY <2>1, <2>4, <2>5 DEF ListFits, Loaded, Shown
<1>3. ASSUME NEW k \in Keys, Land(k)
      PROVE  ListFits'
  <2>1. CASE k = "agents"
    <3>1. /\ cache[k].answer \in Lists /\ cache'["agents"].data = cache[k].answer
          /\ UNCHANGED <<published, wire>>
          /\ \A a \in Agents : <<"agents", a>> \in unheard' <=> a \in Unpublished(k, cache[k].answer)
      BY <1>3, <2>1, Landing, ContentsByKey
    <3>2. \A a \in Agents : a \in Unpublished(k, cache[k].answer) <=>
            cache[k].answer[a] # MapAgents(published.agents)[a]
      BY <2>1, UnpublishedIs
    <3> QED BY <3>1, <3>2, ListLoads DEF ListFits, Loaded, Shown
  <2>2. CASE k # "agents"
    <3>1. /\ cache'["agents"] = cache["agents"] /\ UNCHANGED <<published, wire>>
          /\ \A a \in Agents : <<"agents", a>> \in unheard' <=> <<"agents", a>> \in unheard
      BY <1>3, <2>2, Landing, Names
    <3> QED BY <3>1 DEF ListFits, Loaded, Shown, Told
  <2> QED BY <2>1, <2>2
<1> QED BY <1>1, <1>2, <1>3

-----------------------------------------------------------------------------
\* The details.

LEMMA DetailsStep ==
  ASSUME TypeOK, WireFits, DetailsFit, [Next]_vars
  PROVE  DetailsFit'
<1> SUFFICES ASSUME NEW a \in Agents, cache'[a].data # Absent
             PROVE  \/ cache'[a].data = MapAgents(published'.agents)[a]
                    \/ <<a, a>> \in unheard'
                    \/ Told(<<"agent", a>>, 0)'
  BY DEF DetailsFit, Loaded, Shown
<1> DEFINE shown == cache[a].data
<1>0. /\ a \in Keys
      /\ shown # Absent => \/ shown = MapAgents(published.agents)[a]
                           \/ <<a, a>> \in unheard
                           \/ Told(<<"agent", a>>, 0)
  BY Names DEF DetailsFit, Loaded, Shown
<1>1. CASE ~Deliver /\ \A k \in Keys : ~Land(k)
  <2>1. cache'[a].data = shown /\ unheard' = unheard
    BY <1>0, <1>1, OtherSteps DEF KeepsEntry
  <2>2. Differ(published, published', <<"agent", a>>) \/ Told(<<"agent", a>>, 0) => Told(<<"agent", a>>, 0)'
    BY <1>1, ToldStays
  <2> HIDE DEF shown
  <2> QED BY <1>0, <2>1, <2>2, SameAgent
<1>2. CASE Deliver
  <2> DEFINE p == wire[1].previous
             s == wire[1].current
  <2>1. s \in Fleets /\ published' = published
    BY <1>2, Message
  <2>2. /\ Differ(s, published, <<"agent", a>>) => Told(<<"agent", a>>, 0)'
        /\ wire[1].type # "snapshot" /\ ~Differ(p, s, <<"agent", a>>) =>
             (Told(<<"agent", a>>, 0) => Told(<<"agent", a>>, 0)')
    BY <1>2, HandledTopic, TopicsAre
  <2>3. CASE cache'[a].data = MapAgents(s.agents)[a]
    <3> HIDE DEF s
    <3> QED BY <2>1, <2>2, <2>3, SameAgent
  <2>4. CASE wire[1].type = "snapshot"
    <3>1. cache'[a] = Hydrated(a, s) /\ unheard' = {<<x, x>> : x \in Orphans(s)}
      BY <1>0, <1>2, <2>4, Message
    <3>2. CASE s.agents[a] = Gone
      <4>1. cache'[a].data = shown
        BY <1>0, <2>1, <3>1, <3>2, SnapshotEntry
      <4> QED BY <3>1, <3>2, <4>1 DEF Orphans
    <3>3. CASE s.agents[a] # Gone
      <4>1. EntryTypeOK(cache[a], Contents(a))
        BY <1>0 DEF TypeOK
      <4> HIDE DEF s
      <4>2. cache'[a].data = MapAgents(s.agents)[a]
        BY <1>0, <2>1, <3>1, <3>3, <4>1, SnapshotEntry, EntryData, Names
      <4> QED BY <2>3, <4>2
    <3> QED BY <3>2, <3>3
  <2>5. CASE wire[1].type # "snapshot"
    <3>1. /\ cache'[a] = Patched(a, p, s)
          /\ unheard' = {u \in unheard : u[2] \notin Changed(p, s) \cup AttentionChanged(p, s)}
      BY <1>0, <1>2, <2>5, Message
    <3>2. cache'[a].data = IF a \notin Changed(p, s) THEN shown
                           ELSE IF s.agents[a] = Gone THEN Absent ELSE MapAgents(s.agents)[a]
      <4> HIDE DEF p, s
      <4> QED BY <1>0, <2>1, <3>1, PatchedEntry
    <3>3. CASE a \notin Changed(p, s)
      <4>1. a \notin AttentionChanged(p, s)
        BY <1>2, Message, NamesAssumption DEF AttentionChanged, Messages, Fleets
      <4>2. ~Differ(p, s, <<"agent", a>>)
        BY <3>3, TopicsDiffer DEF Changed
      <4> HIDE DEF p, s, shown
      <4> QED BY <1>0, <2>1, <2>2, <2>5, <3>1, <3>2, <3>3, <4>1, <4>2
    <3> QED BY <2>3, <3>2, <3>3
  <2> QED BY <2>4, <2>5
<1>3. ASSUME NEW k \in Keys, Land(k)
      PROVE  \/ cache'[a].data = MapAgents(published'.agents)[a]
             \/ <<a, a>> \in unheard'
             \/ Told(<<"agent", a>>, 0)'
  <2>1. CASE k = a
    <3>1. /\ cache'[a].data = cache[a].answer /\ published' = published
          /\ <<a, a>> \in unheard' <=> a \in Unpublished(a, cache[a].answer)
      BY <1>3, <2>1, Landing
    <3>2. a \in Unpublished(a, cache[a].answer) <=> cache[a].answer # MapAgents(published.agents)[a]
      <4>1. ASSUME NEW v
            PROVE  a \in Unpublished(a, v) <=> v # MapAgents(published.agents)[a]
        <5>1. Unpublished(a, v) = {x \in {a} : v # MapAgents(published.agents)[x]}
          BY UnpublishedIs
        <5> QED BY <5>1
      <4> QED BY <4>1
    <3> QED BY <3>1, <3>2
  <2>2. CASE k # a
    <3>1. /\ cache'[a] = cache[a] /\ UNCHANGED <<published, wire>>
          /\ <<a, a>> \in unheard' <=> <<a, a>> \in unheard
      BY <1>0, <1>3, <2>2, Landing
    <3> QED BY <1>0, <3>1 DEF Told
  <2> QED BY <2>1, <2>2
<1> QED BY <1>1, <1>2, <1>3

-----------------------------------------------------------------------------
\* The alarms.

LEMMA PulseData ==
  ASSUME TypeOK, cache["pulse"].data # Absent
  PROVE  cache["pulse"].data \in Pulses
BY Names, ContentsByKey, EntryFields DEF TypeOK, EntryTypeOK

LEMMA AlarmsStep ==
  ASSUME TypeOK, WireFits, AlarmsFit, [Next]_vars
  PROVE  AlarmsFit'
<1> SUFFICES ASSUME NEW i \in Items, cache'["pulse"].data # Absent
             PROVE  \/ i \in cache'["pulse"].data.queue <=> i \in published'.attention
                    \/ <<"pulse", i>> \in unheard'
                    \/ Told(<<"alarm", i>>, 0)'
  BY DEF AlarmsFit, Loaded, Shown
<1> DEFINE shown == cache["pulse"].data
<1>0. /\ "pulse" \in Keys
      /\ shown # Absent => \/ i \in shown.queue <=> i \in published.attention
                           \/ <<"pulse", i>> \in unheard
                           \/ Told(<<"alarm", i>>, 0)
  BY Names DEF AlarmsFit, Loaded, Shown
<1>1. CASE ~Deliver /\ \A k \in Keys : ~Land(k)
  <2>1. cache'["pulse"].data = shown /\ unheard' = unheard
    BY <1>0, <1>1, OtherSteps DEF KeepsEntry
  <2>2. Differ(published, published', <<"alarm", i>>) \/ Told(<<"alarm", i>>, 0) => Told(<<"alarm", i>>, 0)'
    BY <1>1, ToldStays
  <2> HIDE DEF shown
  <2> QED BY <1>0, <2>1, <2>2, TopicsDiffer
<1>2. CASE Deliver
  <2> DEFINE p == wire[1].previous
             s == wire[1].current
             queue == cache'["pulse"].data.queue
  <2>1. s \in Fleets /\ published' = published
    BY <1>2, Message
  <2>2. /\ Differ(s, published, <<"alarm", i>>) => Told(<<"alarm", i>>, 0)'
        /\ wire[1].type # "snapshot" /\ ~Differ(p, s, <<"alarm", i>>) =>
             (Told(<<"alarm", i>>, 0) => Told(<<"alarm", i>>, 0)')
    BY <1>2, HandledTopic, TopicsAre
  <2>3. CASE i \in queue <=> i \in s.attention
    <3> HIDE DEF s, queue
    <3>1. Differ(s, published, <<"alarm", i>>) \/ (i \in queue <=> i \in published.attention)
      BY <2>3, TopicsDiffer
    <3> QED BY <2>1, <2>2, <3>1 DEF queue
  <2>4. CASE wire[1].type = "snapshot"
    <3>1. cache'["pulse"] = Hydrated("pulse", s) /\ EntryTypeOK(cache["pulse"], Contents("pulse"))
      BY <1>0, <1>2, <2>4, Message DEF TypeOK
    <3>2. cache'["pulse"].data = SnapshotPulse(s)
      <4> HIDE DEF s
      <4> QED BY <1>0, <2>1, <3>1, SnapshotEntry, EntryData, Names
    <3> QED BY <2>3, <3>2 DEF SnapshotPulse
  <2>5. CASE wire[1].type # "snapshot"
    <3>1. /\ cache'["pulse"] = Patched("pulse", p, s)
          /\ unheard' = {u \in unheard : u[2] \notin Changed(p, s) \cup AttentionChanged(p, s)}
      BY <1>0, <1>2, <2>5, Message
    <3>2. shown # Absent /\ cache'["pulse"].data = PatchedPulse(shown, p, s)
      <4> HIDE DEF p, s
      <4> QED BY <1>0, <2>1, <3>1, PatchedEntry
    <3>3. queue = IF AttentionChanged(p, s) = {} THEN shown.queue ELSE PatchedQueue(shown.queue, p, s)
      <4>1. shown \in Pulses
        BY <3>2, PulseData
      <4> HIDE DEF p, s, shown
      <4> QED BY <2>1, <3>2, <4>1, PatchedPulseFields
    <3>4. CASE i \in AttentionChanged(p, s)
      <4>1. i \in queue <=> i \in s.attention
        <5> HIDE DEF p, s, shown, queue
        <5> QED BY <3>3, <3>4 DEF PatchedQueue, AttentionChanged
      <4> QED BY <2>3, <4>1
    <3>5. CASE i \notin AttentionChanged(p, s)
      <4>1. i \in queue <=> i \in shown.queue
        <5> HIDE DEF p, s, shown, queue
        <5> QED BY <3>3, <3>5 DEF PatchedQueue, AttentionChanged
      <4>2. i \notin Changed(p, s)
        BY NamesAssumption DEF Changed
      <4>3. ~Differ(p, s, <<"alarm", i>>)
        <5> HIDE DEF p, s
        <5>1. i \in p.attention <=> i \in s.attention
          BY <3>5 DEF AttentionChanged
        <5> QED BY <5>1, TopicsDiffer
      <4>5. <<"pulse", i>> \in unheard => <<"pulse", i>> \in unheard'
        BY <3>1, <3>5, <4>2
      <4> HIDE DEF p, s, shown
      <4> QED BY <1>0, <2>1, <2>2, <2>5, <3>2, <4>1, <4>3, <4>5
    <3> QED BY <3>4, <3>5
  <2> QED BY <2>4, <2>5
<1>3. ASSUME NEW k \in Keys, Land(k)
      PROVE  \/ i \in cache'["pulse"].data.queue <=> i \in published'.attention
             \/ <<"pulse", i>> \in unheard'
             \/ Told(<<"alarm", i>>, 0)'
  <2>1. CASE k = "pulse"
    <3>1. /\ cache'["pulse"].data = cache["pulse"].answer /\ published' = published
          /\ <<"pulse", i>> \in unheard' <=> i \in Unpublished("pulse", cache["pulse"].answer)
      BY <1>3, <2>1, Landing
    <3>2. i \in Unpublished("pulse", cache["pulse"].answer) <=>
            ~(i \in cache["pulse"].answer.queue <=> i \in published.attention)
      BY UnpublishedIs DEF AttentionChanged
    <3> QED BY <3>1, <3>2
  <2>2. CASE k # "pulse"
    <3>1. /\ cache'["pulse"] = cache["pulse"] /\ UNCHANGED <<published, wire>>
          /\ <<"pulse", i>> \in unheard' <=> <<"pulse", i>> \in unheard
      BY <1>0, <1>3, <2>2, Landing
    <3> QED BY <1>0, <3>1 DEF Told
  <2> QED BY <2>1, <2>2
<1> QED BY <1>1, <1>2, <1>3

-----------------------------------------------------------------------------
\* The list of delegations.

LEMMA WorkStep ==
  ASSUME TypeOK, WireFits, WorkFits, [Next]_vars
  PROVE  WorkFits'
<1> DEFINE work == <<"work", "work">>
           k == "delegations"
           e == cache[k]
           Idle(f) == f.flight = "idle" /\ ~f.error
           Fits(f) == \/ ~ActiveChanged([delegations |-> f.data], published)
                      \/ \E d \in Delegations : <<k, d>> \in unheard
                      \/ Told(work, 0)
           FitsNext(f) == \/ ~ActiveChanged([delegations |-> f.data], published')
                          \/ \E d \in Delegations : <<k, d>> \in unheard'
                          \/ Told(work, 0)'
<1>0. /\ k \in Keys /\ EntryTypeOK(e, Contents(k))
      /\ OnScreen(k) /\ Idle(e) => ~e.invalid
      /\ e.data # Absent /\ Idle(e) /\ ~e.invalid => Fits(e)
  BY Names DEF WorkFits, TypeOK
<1> SUFFICES /\ OnScreen(k)' /\ Idle(cache'[k]) => ~cache'[k].invalid
             /\ cache'[k].data # Absent /\ Idle(cache'[k]) /\ ~cache'[k].invalid => FitsNext(cache'[k])
  BY DEF WorkFits
<1>1. CASE ~Deliver /\ \A j \in Keys : ~Land(j)
  <2>1. /\ KeepsEntry(e, cache'[k], Contents(k)) /\ unheard' = unheard
        /\ OnScreen(k)' => OnScreen(k) \/ (cache'[k].flight = "idle" => ~cache'[k].invalid)
    BY <1>0, <1>1, OtherSteps
  <2>2. Differ(published, published', work) \/ Told(work, 0) => Told(work, 0)'
    BY <1>1, ToldStays
  <2>3. Idle(cache'[k]) => cache'[k] = e
    BY <2>1 DEF KeepsEntry
  <2>4. Fits(e) => FitsNext(e)
    <3> DEFINE v == [delegations |-> e.data]
    <3>1. ~Differ(v, published, work) /\ ~Differ(published, published', work) => ~Differ(v, published', work)
      BY DifferTransitive
    <3> QED BY <2>1, <2>2, <3>1, TopicsDiffer
  <2> HIDE DEF Fits, FitsNext, e
  <2>5. e = cache[k]
    BY DEF e
  <2> QED BY <1>0, <2>1, <2>3, <2>4, <2>5
<1>2. CASE Deliver
  <2> DEFINE p == wire[1].previous
             s == wire[1].current
  <2>1. s \in Fleets /\ published' = published /\ OnScreen(k)' = OnScreen(k)
    BY <1>2, Message DEF OnScreen
  <2>2. /\ Differ(s, published, work) => Told(work, 0)'
        /\ wire[1].type # "snapshot" /\ ~Differ(p, s, work) => (Told(work, 0) => Told(work, 0)')
    BY <1>2, HandledTopic, TopicsAre
  <2>3. CASE wire[1].type = "snapshot"
    <3> DEFINE v == [d \in Delegations |-> IF d \in Active(s.delegations) THEN s.delegations[d] ELSE Gone]
               w == [delegations |-> v]
    <3>1. cache'[k] = Hydrated(k, s)
      BY <1>0, <1>2, <2>3, Message
    <3>2. cache'[k] = SetData(e, v) /\ v \in Contents(k)
      <4> HIDE DEF s
      <4> QED BY <1>0, <2>1, <3>1, SnapshotEntry, Names
    <3>3. cache'[k].data = v /\ ~cache'[k].invalid
      <4> HIDE DEF v
      <4> QED BY <1>0, <3>2, EntryData
    <3>4. ~ActiveChanged(w, s)
      <4>1. Active(v) = Active(s.delegations)
        BY NamesAssumption DEF Active, DelegationStates
      <4> QED BY <4>1 DEF ActiveChanged, Active
    <3>5. ~Differ(s, published, work) => ~ActiveChanged(w, published)
      <4> HIDE DEF w, s
      <4>1. ~Differ(w, s, work) /\ ~Differ(s, published, work) => ~Differ(w, published, work)
        BY DifferTransitive
      <4> QED BY <3>4, <4>1, TopicsDiffer
    <3> QED BY <2>1, <2>2, <3>3, <3>5
  <2>4. CASE wire[1].type # "snapshot"
    <3>1. /\ cache'[k] = Patched(k, p, s)
          /\ unheard' = {u \in unheard : u[2] \notin Changed(p, s) \cup AttentionChanged(p, s)}
      BY <1>0, <1>2, <2>4, Message
    <3>2. cache'[k] = IF ActiveChanged(p, s) THEN Invalidated(e, OnScreen(k)) ELSE e
      <4> HIDE DEF p, s
      <4> QED BY <1>0, <2>1, <3>1, PatchedEntry
    <3>3. CASE ActiveChanged(p, s)
      <4>1. OnScreen(k) \in BOOLEAN
        BY DEF OnScreen
      <4>2. cache'[k].invalid /\ (OnScreen(k) => cache'[k].flight # "idle")
        BY <1>0, <3>2, <3>3, <4>1, InvalidatedEntry DEF EntryTypeOK
      <4> QED BY <2>1, <4>2
    <3>4. CASE ~ActiveChanged(p, s)
      <4>1. ASSUME NEW d \in Delegations, <<k, d>> \in unheard
            PROVE  <<k, d>> \in unheard'
        <5>1. d \notin Changed(p, s) /\ d \notin AttentionChanged(p, s)
          BY <1>2, Message, NamesAssumption DEF Changed, AttentionChanged, Messages, Fleets
        <5> HIDE DEF p, s
        <5> QED BY <3>1, <4>1, <5>1
      <4>2. Told(work, 0) => Told(work, 0)'
        BY <2>2, <2>4, <3>4, TopicsDiffer
      <4>3. Fits(e) => FitsNext(e)
        BY <2>1, <4>1, <4>2
      <4>4. cache'[k] = e
        BY <3>2, <3>4
      <4> HIDE DEF Fits, FitsNext
      <4> QED BY <1>0, <2>1, <4>3, <4>4
    <3> QED BY <3>3, <3>4
  <2> QED BY <2>3, <2>4
<1>3. ASSUME NEW j \in Keys, Land(j)
      PROVE  /\ OnScreen(k)' /\ Idle(cache'[k]) => ~cache'[k].invalid
             /\ cache'[k].data # Absent /\ Idle(cache'[k]) /\ ~cache'[k].invalid => FitsNext(cache'[k])
  <2>1. CASE j = k
    <3> DEFINE v == cache[k].answer
    <3>1. /\ ~cache'[k].invalid /\ cache'[k].data = v /\ published' = published
          /\ \A d : <<k, d>> \in unheard' <=> d \in Unpublished(k, v)
      BY <1>0, <1>3, <2>1, Landing
    <3>2. Unpublished(k, v) = {d \in Delegations : ActiveChanged([delegations |-> v], published)}
      BY UnpublishedIs
    <3>3. ActiveChanged([delegations |-> v], published) => \E d \in Delegations : TRUE
      BY DEF ActiveChanged, Active
    <3> HIDE DEF v
    <3> QED BY <3>1, <3>2, <3>3
  <2>2. CASE j # k
    <3>1. /\ cache'[k] = cache[k] /\ UNCHANGED <<published, wire>> /\ OnScreen(k)' = OnScreen(k)
          /\ \A d : <<k, d>> \in unheard' <=> <<k, d>> \in unheard
      BY <1>0, <1>3, <2>2, Landing DEF OnScreen
    <3>2. Fits(e) => FitsNext(e)
      BY <3>1 DEF Told
    <3> HIDE DEF Fits, FitsNext
    <3> QED BY <1>0, <3>1, <3>2
  <2> QED BY <2>1, <2>2
<1> QED BY <1>1, <1>2, <1>3

-----------------------------------------------------------------------------
\* The figures.

LEMMA FiguresStep ==
  ASSUME TypeOK, WireFits, FiguresFit, [Next]_vars
  PROVE  FiguresFit'
<1> DEFINE Fits(pulse, list, gateway, drifts) ==
      pulse # Absent =>
        /\ list # Absent /\ "agents" \notin drifts =>
             /\ pulse.active = Cardinality(InState(list, "ACTIVE"))
             /\ pulse.total = Cardinality(Listed(list))
        /\ "attention" \notin drifts => pulse.count = Cardinality(pulse.queue)
        /\ gateway # Absent /\ "gateway" \notin drifts =>
             (pulse.gateway = "HEALTHY") <=> (gateway \in {"HEALTHY", "DEGRADED"})
<1> DEFINE pulse == cache["pulse"].data
           list == cache["agents"].data
           gateway == cache["gateway"].data
<1>0. Fits(pulse, list, gateway, drift)
  BY DEF FiguresFit, Loaded, Shown, SummaryBar
<1> SUFFICES Fits(cache'["pulse"].data, cache'["agents"].data, cache'["gateway"].data, drift')
  BY DEF FiguresFit, Loaded, Shown, SummaryBar, InState, Listed
<1>1. CASE ~Deliver /\ \A k \in Keys : ~Land(k)
  <2>1. /\ cache'["pulse"].data = pulse /\ cache'["agents"].data = list
        /\ cache'["gateway"].data = gateway /\ drift' = drift
    BY <1>1, OtherSteps, Names DEF KeepsEntry
  <2> HIDE DEF Fits
  <2> QED BY <1>0, <2>1
<1>2. CASE Deliver
  <2> DEFINE p == wire[1].previous
             s == wire[1].current
  <2>1. s \in Fleets
    BY <1>2, Message
  <2>2. /\ EntryTypeOK(cache["pulse"], Contents("pulse"))
        /\ EntryTypeOK(cache["agents"], Contents("agents"))
        /\ EntryTypeOK(cache["gateway"], Contents("gateway"))
    BY Names DEF TypeOK
  <2>3. CASE wire[1].type = "snapshot"
    <3>1. /\ cache'["pulse"] = Hydrated("pulse", s) /\ cache'["agents"] = Hydrated("agents", s)
          /\ cache'["gateway"] = Hydrated("gateway", s)
      BY <1>2, <2>3, Message, Names
    <3> HIDE DEF s
    <3>2. cache'["pulse"].data = SnapshotPulse(s)
      BY <2>1, <2>2, <3>1, SnapshotEntry, EntryData, Names
    <3>3. cache'["agents"].data = MapAgents(s.agents)
      BY <2>1, <2>2, <3>1, SnapshotEntry, EntryData, Names
    <3>4. cache'["gateway"].data = MapRealtimeGateway(s.gateway)
      BY <2>1, <2>2, <3>1, SnapshotEntry, EntryData, Names
    <3> QED BY <3>2, <3>3, <3>4, MappedGateway DEF SnapshotPulse
  <2>4. CASE wire[1].type # "snapshot"
    <3>1. /\ cache'["pulse"] = Patched("pulse", p, s) /\ cache'["agents"] = Patched("agents", p, s)
          /\ cache'["gateway"] = Patched("gateway", p, s)
          /\ drift' = IF pulse = Absent THEN drift ELSE drift \ Settles(p, s)
      BY <1>2, <2>4, Message, Names
    <3> SUFFICES ASSUME cache'["pulse"].data # Absent
                 PROVE  Fits(cache'["pulse"].data, cache'["agents"].data, cache'["gateway"].data, drift')
      OBVIOUS
    <3> HIDE DEF p, s
    <3>2. pulse # Absent /\ cache'["pulse"].data = PatchedPulse(pulse, p, s)
      BY <2>1, <3>1, PatchedFigures
    <3>3. cache'["agents"].data = IF Changed(p, s) = {} THEN list ELSE PatchedList(p, s)
      BY <2>1, <3>1, PatchedFigures
    <3>4. cache'["gateway"].data = IF p.gateway = s.gateway THEN gateway ELSE MapRealtimeGateway(s.gateway)
      BY <2>1, <3>1, PatchedFigures
    <3>5. pulse \in Pulses
      BY <3>2, PulseData
    <3> DEFINE new == PatchedPulse(pulse, p, s)
    <3>6. /\ "agents" \notin drift' => Changed(p, s) # {} \/ "agents" \notin drift
          /\ "attention" \notin drift' => AttentionChanged(p, s) # {} \/ "attention" \notin drift
          /\ "gateway" \notin drift' => p.gateway # s.gateway \/ "gateway" \notin drift
      BY <3>1, <3>2 DEF Settles
    <3> HIDE DEF pulse, list, gateway
    <3>7. ASSUME cache'["agents"].data # Absent, "agents" \notin drift'
          PROVE  /\ new.active = Cardinality(InState(cache'["agents"].data, "ACTIVE"))
                 /\ new.total = Cardinality(Listed(cache'["agents"].data))
      <4>1. CASE Changed(p, s) = {}
        BY <1>0, <2>1, <3>2, <3>3, <3>5, <3>6, <3>7, <4>1, PatchedPulseFields
      <4>2. CASE Changed(p, s) # {}
        BY <2>1, <3>3, <3>5, <4>2, PatchedPulseFields
      <4> QED BY <4>1, <4>2
    <3>8. ASSUME "attention" \notin drift'
          PROVE  new.count = Cardinality(new.queue)
      <4>1. CASE AttentionChanged(p, s) = {}
        BY <1>0, <2>1, <3>2, <3>5, <3>6, <3>8, <4>1, PatchedPulseFields
      <4>2. CASE AttentionChanged(p, s) # {}
        BY <2>1, <3>5, <4>2, PatchedPulseFields
      <4> QED BY <4>1, <4>2
    <3>9. ASSUME cache'["gateway"].data # Absent, "gateway" \notin drift'
          PROVE  (new.gateway = "HEALTHY") <=> (cache'["gateway"].data \in {"HEALTHY", "DEGRADED"})
      <4>1. new.gateway = IF p.gateway = s.gateway THEN pulse.gateway ELSE GatewayOfPulse(s.gateway)
        BY <2>1, <3>5, PatchedPulseFields
      <4> HIDE DEF new
      <4> QED BY <1>0, <3>2, <3>4, <3>6, <3>9, <4>1, MappedGateway
    <3> HIDE DEF new
    <3>10. cache'["pulse"].data = new
      BY <3>2 DEF new
    <3> QED BY <3>7, <3>8, <3>9, <3>10
  <2> QED BY <2>3, <2>4
<1>3. ASSUME NEW k \in Keys, Land(k)
      PROVE  Fits(cache'["pulse"].data, cache'["agents"].data, cache'["gateway"].data, drift')
  <2>1. drift' = drift \cup Drifts(k) /\ \A j \in Keys \ {k} : cache'[j] = cache[j]
    BY <1>3, Landing DEF Land
  <2>2. /\ k = "pulse" => Drifts(k) = {"agents", "attention", "gateway"}
        /\ k = "agents" => Drifts(k) = {"agents"}
        /\ k = "gateway" => Drifts(k) = {"gateway"}
    BY DEF Drifts
  <2>3. /\ k # "pulse" => cache'["pulse"].data = pulse
        /\ k # "agents" => cache'["agents"].data = list
        /\ k # "gateway" => cache'["gateway"].data = gateway
    BY <2>1, Names
  <2> HIDE DEF pulse, list, gateway
  <2> QED BY <1>0, <2>1, <2>2, <2>3
<1> QED BY <1>1, <1>2, <1>3

-----------------------------------------------------------------------------
\* The initial states: the pages ask, and a snapshot is on its way.

LEMMA FleetInit ==
  ASSUME Init
  PROVE  FleetInv
<1>1. world \in Fleets /\ published = world /\ wire = <<SnapshotOf(world)>>
  <2>1. world.agents \in [Agents -> {"ACTIVE"}] /\ world.gateway = "HEALTHY" /\ world.attention = {}
    BY DEF Init
  <2>2. world \in Fleets
    BY DEF Init, Fleets, DelegationStates
  <2> QED BY <2>2 DEF Init
<1>2. wire \in Seq(Messages) /\ DOMAIN wire = {1} /\ wire # <<>> /\ wire[1] = SnapshotOf(world)
  <2>1. SnapshotOf(world) \in Messages
    BY <1>1 DEF SnapshotOf, Messages
  <2> QED BY <1>1, <2>1, One
<1>3. ASSUME NEW k \in Keys
      PROVE  /\ EntryTypeOK(cache[k], Contents(k)) /\ cache[k].data = Absent
             /\ ~cache[k].invalid
  <2>1. /\ EntryTypeOK(EmptyEntry, Contents(k)) /\ EmptyEntry.data = Absent
        /\ EntryTypeOK(Asked(EmptyEntry), Contents(k)) /\ Asked(EmptyEntry).data = Absent
        /\ ~EmptyEntry.invalid /\ ~Asked(EmptyEntry).invalid
    <3>1. /\ EmptyEntry \in Entries(Contents(k)) /\ EmptyEntry.data = Absent
          /\ EmptyEntry.flight = "idle" /\ ~EmptyEntry.invalid
      BY RetriesAssumption DEF EmptyEntry, Entries
    <3>2. ~Asked(EmptyEntry).invalid
      BY DEF Asked, EmptyEntry
    <3> QED BY <3>1, <3>2, AskedEntry DEF EntryTypeOK
  <2>2. cache[k] = EmptyEntry \/ cache[k] = Asked(EmptyEntry)
    BY DEF Init
  <2> QED BY <2>1, <2>2
<1>4. TypeOK
  BY <1>1, <1>2, <1>3 DEF TypeOK, Init
<1>5. WireFits
  BY <1>1, <1>2, DifferNot DEF WireFits, SnapshotOf
<1>6. ListFits /\ DetailsFit /\ AlarmsFit /\ WorkFits /\ FiguresFit
  BY <1>2, <1>3, Names DEF ListFits, DetailsFit, AlarmsFit, WorkFits, FiguresFit, Loaded, Shown, SnapshotOf
<1> QED BY <1>4, <1>5, <1>6 DEF FleetInv

-----------------------------------------------------------------------------
\* The inductive invariant of the fleet's pages.
THEOREM FleetInvariance == Spec => []FleetInv
<1>1. Init => FleetInv
  BY FleetInit
<1>2. FleetInv /\ [Next]_vars => FleetInv'
  BY TypeStep, WireStep, ListStep, DetailsStep, AlarmsStep, WorkStep, FiguresStep DEF FleetInv
<1> QED BY <1>1, <1>2, PTL DEF Spec

\* FiguresAgree: the figures that no answer wrote since the channel last did add
\* up across the pages.
THEOREM FiguresHold == Spec => []FiguresAgree
<1>1. FleetInv => FiguresAgree
  BY DEF FleetInv, FiguresFit, FiguresAgree, GatewayBadge, Loaded
<1> QED BY <1>1, FleetInvariance, PTL

\* QuietPagesAreCurrent: at rest the pages show the backend's fleet, except where
\* an answer told what was not published.
THEOREM QuietPagesHold == Spec => []QuietPagesAreCurrent
<1>1. FleetInv => QuietPagesAreCurrent
  <2> SUFFICES ASSUME FleetInv, Quiet PROVE QuietPagesAreCurrent
    BY DEF QuietPagesAreCurrent
  <2>1. world = published /\ \A t : ~Told(t, 0)
    BY DEF Quiet, Told
  <2>2. ASSUME NEW a \in Agents
        PROVE  /\ Loaded("agents") /\ <<"agents", a>> \notin unheard
                    => Shown("agents")[a] = MapAgents(world.agents)[a]
               /\ Loaded(a) /\ <<a, a>> \notin unheard => AgentInModal(a) = MapAgents(world.agents)[a]
    BY <2>1 DEF FleetInv, ListFits, DetailsFit, AgentInModal
  <2>3. ASSUME NEW i \in Items, Loaded("pulse"), <<"pulse", i>> \notin unheard
        PROVE  i \in Shown("pulse").queue <=> i \in world.attention
    BY <2>1, <2>3 DEF FleetInv, AlarmsFit
  <2> QED BY <2>2, <2>3 DEF QuietPagesAreCurrent
<1> QED BY <1>1, FleetInvariance, PTL

\* DelegationsAreCurrent: a list of delegations on the screen, at rest, shows the
\* active ones in their state and no other as active.
THEOREM DelegationsHold == Spec => []DelegationsAreCurrent
<1>1. FleetInv => DelegationsAreCurrent
  <2> DEFINE e == cache["delegations"]
  <2> SUFFICES ASSUME FleetInv, Quiet, OnScreen("delegations"), e.data # Absent,
                      e.flight = "idle", ~e.error, \A u \in unheard : u[1] # "delegations"
               PROVE  \A d \in Delegations :
                        d \in Active(world.delegations) \cup Active(e.data)
                        => e.data[d] = world.delegations[d]
    BY DEF DelegationsAreCurrent, Loaded, Shown
  <2>1. world = published /\ \A t : ~Told(t, 0)
    BY DEF Quiet, Told
  <2>2. ~ActiveChanged([delegations |-> e.data], published)
    <3>1. \A d \in Delegations : <<"delegations", d>> \notin unheard
      OBVIOUS
    <3> QED BY <2>1, <3>1 DEF FleetInv, WorkFits
  <2> QED BY <2>1, <2>2 DEF ActiveChanged
<1> QED BY <1>1, FleetInvariance, PTL

\* Every variable of the fleet's pages keeps its type: what an entry holds is of
\* the kind its key says, whoever wrote it.
THEOREM FleetTypeCorrect == Spec => []TypeOK
<1>1. FleetInv => TypeOK
  BY DEF FleetInv
<1> QED BY <1>1, FleetInvariance, PTL
=============================================================================
