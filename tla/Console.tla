------------------------------ MODULE Console ------------------------------
(* The execution lock as the operator's pages show and work it: the safety     *)
(* card with its unlock dialog and its Emergency Lock, the badges of the other *)
(* pages, the cached status they all read, and the gate behind it, which other *)
(* operators, executions and time change meanwhile.  No page is told of such a *)
(* change: the lock has no realtime event and no polling.                      *)
EXTENDS ExecutionGate, QueryCache

CONSTANTS CardPages, BadgePages, OtherPages, MaxCalls

\* The dialog asks for one execution.
ASSUME ConsoleAssumption == MaxCalls \in Nat /\ CardPages # {} /\ 1 \in Budgets

VARIABLES
    page,      \* the route on the screen
    entry,     \* the query ['execution', 'lock']
    dialog,    \* the unlock dialog: "closed", "open" or "error"
    calls,     \* mutations under way
    sent,      \* how many were sent; bounded by MaxCalls
    foreign    \* the gate changed since its last answer, and no call of this
               \* page will be answered for it

consoleVars == <<page, entry, dialog, calls, sent, foreign>>
allVars == <<gateVars, consoleVars>>

StatusOnScreen == page \in CardPages \cup BadgePages

-----------------------------------------------------------------------------
(* ExecutionLockService.inspect: the verdict, the row of the lock and, when    *)
(* that is UNLOCKED, the latest window, spent or not.                          *)
Inspect ==
    LET w == IF lock = "UNLOCKED" THEN latest ELSE 0
    IN  [is_locked |-> GateLocked, status |-> lock, window |-> w,
         used |-> IF w = 0 THEN 0 ELSE consumed[w]]

(* What the pages make of it.  Without an answer the card says LOCKED and      *)
(* offers to unlock; the badges say that they do not know.                     *)
StatusLoaded == entry.data # Absent
CardSaysLocked == StatusLoaded => entry.data.is_locked
Badge ==
    CASE ~StatusLoaded -> "unavailable"
      [] StatusLoaded /\ (entry.data.is_locked \/ entry.data.status = "LOCKED") -> "LOCKED"
      [] OTHER -> entry.data.status
WindowsCounted == IF StatusLoaded /\ entry.data.window # 0 THEN 1 ELSE 0
BudgetShown == <<entry.data.used, granted[entry.data.window]>>

-----------------------------------------------------------------------------
Still(vs) == UNCHANGED vs

(* Another route: the card and its dialog unmount, the calls go on without     *)
(* them, and the query mounts anew, asked again if it is out of date.          *)
Navigate(p) ==
    /\ p # page
    /\ page' = p
    /\ dialog' = "closed"
    /\ calls' = {[c EXCEPT !.mounted = FALSE] : c \in calls}
    /\ \E aged \in BOOLEAN :
          entry' = IF p \in OtherPages THEN entry ELSE Mounted(entry, aged)
    /\ Still(<<gateVars, sent, foreign>>)

Pending(kind) == \E c \in calls : c.kind = kind /\ c.mounted
Send(kind) ==
    /\ sent < MaxCalls /\ sent' = sent + 1
    /\ calls' = calls \cup {[n |-> sent', kind |-> kind, st |-> "sent", mounted |-> TRUE]}

OpenDialog ==
    /\ page \in CardPages /\ dialog = "closed" /\ CardSaysLocked
    /\ dialog' = "open"
    /\ Still(<<gateVars, page, entry, calls, sent, foreign>>)
(* Cancel, or a click outside: a call under way goes on.                       *)
CloseDialog ==
    /\ dialog # "closed"
    /\ dialog' = "closed"
    /\ Still(<<gateVars, page, entry, calls, sent, foreign>>)
(* With the reason and the phrase 'UNLOCK TASK EXECUTION', or not quite.       *)
ConfirmUnlock ==
    /\ dialog # "closed" /\ ~Pending("unlock")
    /\ \/ Send("unlock") /\ Still(dialog)
       \/ dialog' = "error" /\ Still(<<calls, sent>>)
    /\ Still(<<gateVars, page, entry, foreign>>)

EmergencyLock ==
    /\ page \in CardPages /\ dialog = "closed" /\ ~CardSaysLocked /\ ~Pending("lock")
    /\ Send("lock")
    /\ Still(<<gateVars, page, entry, dialog, foreign>>)

-----------------------------------------------------------------------------
(* The server carries a call out or refuses it (permission, audit chain, a     *)
(* transaction in the way, the request lost before it).                        *)
Reaches(c, st) == calls' = (calls \ {c}) \cup {[c EXCEPT !.st = st]}
ServeCall(c) ==
    /\ c.st = "sent"
    /\ \/ c.kind = "unlock" /\ Unlock(1) /\ Reaches(c, "done")
       \/ c.kind = "lock" /\ Lock /\ Reaches(c, "done")
       \/ Reaches(c, "refused") /\ Still(gateVars)
    /\ Still(<<page, entry, dialog, sent, foreign>>)

(* The answer arrives: success invalidates the status, closes the dialog that  *)
(* is open now, whichever that is, and refetches; failure is an error in that  *)
(* dialog, and for a lock a line in the browser's console.                     *)
(* Mutant: the answer of a mutation leaves the cached status alone.            *)
MutantStatusAfter(c) == entry
StatusAfter(c) ==
    IF c.st = "done" THEN Refetched(Invalidated(entry, StatusOnScreen)) ELSE entry
LandCall(c) ==
    /\ c.st # "sent"
    /\ calls' = calls \ {c}
    /\ entry' = StatusAfter(c)
    /\ dialog' = IF c.kind # "unlock" \/ ~c.mounted \/ dialog = "closed" THEN dialog
                 ELSE IF c.st = "done" THEN "closed" ELSE "error"
    /\ Still(<<gateVars, page, sent, foreign>>)

(* The answer is lost: the page takes what was carried out for a failure, and  *)
(* does not try again.                                                         *)
LoseCall(c) ==
    /\ c.st = "done"
    /\ Reaches(c, "refused")
    /\ foreign' = TRUE
    /\ Still(<<gateVars, page, entry, dialog, sent>>)

(* The status query.  Its answer is read with the expiry it may write.         *)
ServeStatus ==
    /\ entry.flight = "asked"
    /\ entry' = Served(entry, Inspect)
    /\ \/ StatusExpiresWindows
       \/ ~(ReachesExpiryCheck /\ latest \in timedOut) /\ Still(gateVars)
    /\ foreign' = FALSE
    /\ Still(<<page, dialog, calls, sent>>)
LandStatus ==
    /\ entry.flight = "answered"
    /\ entry' = Landed(entry)
    /\ Still(<<gateVars, page, dialog, calls, sent, foreign>>)
FailStatus ==
    /\ entry.flight # "idle"
    /\ entry' = Failed(entry, StatusOnScreen)
    /\ Still(<<gateVars, page, dialog, calls, sent, foreign>>)

(* Other operators, executions, other readers of the status, time.             *)
Elsewhere ==
    /\ GateNext
    /\ foreign' = (foreign \/ Inspect' # Inspect)
    /\ Still(<<page, entry, dialog, calls, sent>>)

ConsoleInit ==
    /\ GateInit
    /\ page \in CardPages \cup BadgePages
    /\ entry = Asked(EmptyEntry)
    /\ dialog = "closed" /\ calls = {} /\ sent = 0 /\ foreign = FALSE

Operator ==
    \/ \E p \in CardPages \cup BadgePages \cup OtherPages : Navigate(p)
    \/ OpenDialog \/ CloseDialog \/ ConfirmUnlock \/ EmergencyLock
Answers == LandStatus \/ ServeStatus \/ \E c \in calls : ServeCall(c) \/ LandCall(c)
Faults == FailStatus \/ \E c \in calls : LoseCall(c)

ConsoleNext == Operator \/ Answers \/ Faults \/ Elsewhere

(* Requests that are not lost are answered, and answers arrive.                *)
ConsoleSpec == ConsoleInit /\ [][ConsoleNext]_allVars
          /\ WF_allVars(ServeStatus) /\ WF_allVars(LandStatus)
          /\ WF_allVars(\E c \in calls : LandCall(c))
-----------------------------------------------------------------------------
(* What the status query answers, and what every variable of the pages holds.  *)
LockStatuses ==
    [is_locked: BOOLEAN, status: {"LOCKED", "UNLOCKED"}, window: 0..MaxWindows, used: 0..10]
ConsoleTypeOK ==
    /\ page \in CardPages \cup BadgePages \cup OtherPages
    /\ entry \in Entries(LockStatuses)
    /\ dialog \in {"closed", "open", "error"}
    /\ calls \subseteq [n: 1..MaxCalls, kind: {"unlock", "lock"},
                        st: {"sent", "done", "refused"}, mounted: BOOLEAN]
    /\ sent \in 0..MaxCalls /\ foreign \in BOOLEAN

(* A settled status is the gate's: after a mutation of this page was answered, *)
(* a page whose query is at rest shows what the server would answer now,       *)
(* unless somebody else changed the gate since.  About the invalidations of    *)
(* useUnlockExecution and useLockExecution racing fetches already answered.    *)
SettledStatusIsCurrent ==
    (/\ StatusOnScreen /\ entry.flight = "idle" /\ ~entry.error /\ ~entry.late
     /\ ~foreign /\ \A c \in calls : c.st # "done")
    => entry.data = Inspect

(* The pages agree about an answer although each reads other fields of it, and *)
(* a gate shown unlocked is shown with a window that had slots left: the card  *)
(* never says UNLOCKED beside a spent budget.                                  *)
PagesAgree ==
    StatusLoaded =>
        /\ Badge = IF CardSaysLocked THEN "LOCKED" ELSE "UNLOCKED"
        /\ ~CardSaysLocked => WindowsCounted = 1 /\ BudgetShown[1] < BudgetShown[2]

(* What the pages show of the gate is current and means the same everywhere.   *)
StatusIsShownRight == SettledStatusIsCurrent /\ PagesAgree

(* An Emergency Lock that was carried out is shown, on whatever page the       *)
(* operator went to, unless the gate was opened again, somebody else           *)
(* changed it, or the query failed for good.                                   *)
EmergencyLockIsShown ==
    (\E c \in calls : c.kind = "lock" /\ c.st = "done")
      ~> (CardSaysLocked \/ lock = "UNLOCKED" \/ foreign \/ entry.error \/ entry.late)
=============================================================================
