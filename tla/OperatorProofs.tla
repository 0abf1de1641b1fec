--------------------------- MODULE OperatorProofs ---------------------------
(***************************************************************************)
(* Theorems about what operators change by reading first and writing       *)
(* later, in as many tabs and processes as there are.                      *)
(*                                                                         *)
(* The intents, their approvals and the audit ledger, however the          *)
(* operators of any number of processes interleave: the types, the audit   *)
(* chain, the agreement of the ledger with the approvals row, and that     *)
(* only approved intents are executable.                                   *)
(*                                                                         *)
(* The agent configuration page, for every number of profiles, skills and  *)
(* tabs of one browser, every blueprint, every agent list that arrives     *)
(* meanwhile, and every loop of Apply that is lost.  Its inductive         *)
(* invariant: no changeset, staged, stored or being applied, holds two     *)
(* changes of one skill of one profile; and of a loop that no other ran    *)
(* beside, the changes of the profiles it has left behind hold on the      *)
(* server.                                                                 *)
(*                                                                         *)
(* The schedule page, for every number of tabs, every list of items, every *)
(* time zone and every day length.  Its inductive invariant: every list,   *)
(* in a tab or in localStorage, holds items and no fewer than the          *)
(* defaults; every open form has been filled from an item or typed; and a  *)
(* tab that is not adrift shows the list that is stored.                   *)
(***************************************************************************)
EXTENDS IntentLifecycle, Drafts, Schedules, WellFoundedInduction, FiniteSetTheorems, TLAPS

-----------------------------------------------------------------------------
\* The intents, their approvals and the audit ledger.

Statuses == {"READY_FOR_APPROVAL", "PREFLIGHT_FAILED", "PENDING_APPROVAL",
             "READY_TO_EXECUTE", "REJECTED", "CANCELLED", "EXPIRED"}
Actions == {"GENESIS", "APPROVAL_REQUESTED", "APPROVAL_APPROVED", "ACTION_READY_TO_EXECUTE",
            "APPROVAL_REJECTED", "ACTION_INTENT_CANCELLED", "ACTION_INTENT_PREFLIGHTED",
            "execution.unlock.requested"}
Rows == [sequence : Nat, prev : Nat, action : Actions, intent : Intents \cup {"system"}]
Held == {Idle} \cup [op : Operations, intent : Intents, seen : Statuses]
               \cup [op : {"unlock"}, last : Nat]

LifecycleTypeOK ==
  /\ IntentTypeOK
  /\ approval \in [Intents -> [state : {"PENDING", "APPROVED", "REJECTED", "CANCELLED"},
                               revision : Nat]]
  /\ ledger \in Seq(Rows)
  /\ hand \in [Handlers -> Held]

\* The chain as it is: each record has the number of its place and holds the
\* hash of the record before it.
Chained(l) == \A k \in DOMAIN l : l[k].sequence = k - 1 /\ l[k].prev = k - 1

\* What an unlock request read as the end of the chain is a record of it.
UnlocksReadTheChain ==
  \A h \in Handlers : hand[h].op = "unlock" => hand[h].last \in DOMAIN ledger

LifecycleInv ==
  LifecycleTypeOK /\ Chained(ledger) /\ Len(ledger) > 0 /\ UnlocksReadTheChain

-----------------------------------------------------------------------------
\* The status a preflight writes and the one a reader sees are statuses.
LEMMA StatusTypes ==
  ASSUME IntentTypeOK, NEW i \in Intents
  PROVE  /\ Seen(i) \in Statuses
         /\ \A s \in Statuses, result \in {"BLOCKED", "REQUIRES_APPROVAL"} :
               PreflightStatus(s, result) \in Statuses
BY DEF IntentTypeOK, Seen, Expires, PreflightStatus, Statuses

\* What may be appended: the record after the last one keeps type and chain,
\* and what the ledger had stays in its place.
LEMMA RecordedKeeps ==
  ASSUME NEW l \in Seq(Rows), Chained(l), NEW action \in Actions,
         NEW i \in Intents \cup {"system"}, Len(l) > 0
  PROVE  /\ Recorded(l, action, i) \in Seq(Rows)
         /\ Chained(Recorded(l, action, i))
         /\ Len(Recorded(l, action, i)) = Len(l) + 1
         /\ \A k \in DOMAIN l : k \in DOMAIN Recorded(l, action, i)
                                 /\ Recorded(l, action, i)[k] = l[k]
         /\ \E r \in Rows : /\ Recorded(l, action, i) = Append(l, r)
                            /\ r.action = action /\ r.intent = i
<1> DEFINE r == Following(l, Len(l), action, i)
<1>1. r \in Rows /\ r.sequence = Len(l) /\ r.prev = Len(l) /\ r.action = action /\ r.intent = i
  BY DEF Following, Chained, Rows
<1>2. Recorded(l, action, i) = Append(l, r)
  BY DEF Recorded
<1> HIDE DEF r
<1> QED BY <1>1, <1>2 DEF Chained

\* A chain in this order is one the verifier accepts.
LEMMA ChainedVerifies ==
  ASSUME NEW l \in Seq(Rows), Chained(l)
  PROVE  Verifies(l)
<1>1. ASSUME NEW k \in DOMAIN l
      PROVE  Cardinality({j \in DOMAIN l : l[j].sequence = k - 1}) = 1
  <2>1. {j \in DOMAIN l : l[j].sequence = k - 1} = {k}
    BY <1>1 DEF Chained
  <2> QED BY <2>1, FS_Singleton
<1>2. ASSUME NEW k \in DOMAIN l, NEW j \in DOMAIN l, l[j].sequence = k - 1
      PROVE  IF k = 1 THEN l[j].prev = 0 ELSE l[l[j].prev].sequence = k - 2
  BY <1>2 DEF Chained
<1> QED BY <1>1, <1>2 DEF Verifies

-----------------------------------------------------------------------------
\* The rows of one intent.

\* A set of places of a finite sequence has a last one, and Max is it.
LEMMA LastPlace ==
  ASSUME NEW n \in Nat, NEW rows, rows \subseteq 1 .. n, rows # {}
  PROVE  Max(rows) \in rows /\ \A k \in rows : k <= Max(rows)
<1> DEFINE tails == {k .. n : k \in rows}
<1>1. tails # {} /\ tails \subseteq FiniteSubsetsOf(1 .. n)
  <2>1. ASSUME NEW k \in rows PROVE k .. n \in SUBSET (1 .. n) /\ IsFiniteSet(k .. n)
    BY FS_Interval
  <2> QED BY <2>1 DEF FiniteSubsetsOf
<1>2. \E t \in tails : \A u \in tails : ~ (<<u, t>> \in StrictSubsetOrdering(1 .. n))
  <2> HIDE DEF tails
  <2> QED BY <1>1, FS_StrictSubsetOrderingWellFounded, WFMin
<1>3. PICK last \in rows :
        \A k \in rows : ~ (<<k .. n, last .. n>> \in StrictSubsetOrdering(1 .. n))
  BY <1>2
<1>4. ASSUME NEW k \in rows PROVE k <= last
  <2>1. SUFFICES ASSUME k > last PROVE FALSE
    BY <1>4
  <2>2. k .. n \in SUBSET (1 .. n) /\ last .. n \in SUBSET (1 .. n)
    OBVIOUS
  <2>3. k .. n \subseteq last .. n /\ last \in last .. n /\ last \notin k .. n
    BY <2>1
  <2> QED BY <1>3, <2>2, <2>3 DEF StrictSubsetOrdering
<1> QED BY <1>4 DEF Max

\* The columns of the verdicts.
LEMMA VerdictTable ==
  /\ DOMAIN Verdict = {"APPROVAL_APPROVED", "APPROVAL_REJECTED", "ACTION_INTENT_CANCELLED",
                       "APPROVAL_REQUESTED"}
  /\ DOMAIN Decision = {"APPROVED", "REJECTED", "CANCELLED"}
  /\ Verdict["APPROVAL_APPROVED"] = "APPROVED" /\ Verdict["APPROVAL_REJECTED"] = "REJECTED"
  /\ Verdict["ACTION_INTENT_CANCELLED"] = "CANCELLED"
  /\ Verdict["APPROVAL_REQUESTED"] = "PENDING"
  /\ Decision["APPROVED"] = "APPROVE" /\ Decision["REJECTED"] = "REJECT"
  /\ Decision["CANCELLED"] = "CANCEL"
BY DEF Verdict, Decision

\* What one more record does to the rows of intent j, and to what their last says.
LEMMA RowsAfter ==
  ASSUME NEW l \in Seq(Rows), NEW r \in Rows, NEW j \in Intents
  PROVE  /\ VerdictRows(Append(l, r), j) = VerdictRows(l, j) \cup
              (IF r.intent = j /\ r.action \in DOMAIN Verdict THEN {Len(l) + 1} ELSE {})
         /\ DecisionRows(Append(l, r), j) = DecisionRows(l, j) \cup
              (IF r.intent = j /\ r.action \in DOMAIN Verdict
                    /\ Verdict[r.action] \in DOMAIN Decision THEN {Len(l) + 1} ELSE {})
<1>1. DOMAIN Append(l, r) = DOMAIN l \cup {Len(l) + 1}
  OBVIOUS
<1>2. /\ \A k \in DOMAIN l : Append(l, r)[k] = l[k] /\ k # Len(l) + 1
      /\ Append(l, r)[Len(l) + 1] = r
  OBVIOUS
<1>3. VerdictRows(Append(l, r), j) = VerdictRows(l, j) \cup
         (IF r.intent = j /\ r.action \in DOMAIN Verdict THEN {Len(l) + 1} ELSE {})
  BY <1>1, <1>2 DEF VerdictRows
<1>4. VerdictRows(l, j) \subseteq DOMAIN l
  BY DEF VerdictRows
<1> QED BY <1>2, <1>3, <1>4 DEF DecisionRows

LEMMA LastAfter ==
  ASSUME NEW l \in Seq(Rows), NEW r \in Rows, NEW rows, rows \subseteq DOMAIN l
  PROVE  /\ LastVerdict(Append(l, r), rows \cup {Len(l) + 1}) = Verdict[r.action]
         /\ rows # {} => LastVerdict(Append(l, r), rows) = LastVerdict(l, rows)
<1>1. rows \subseteq 1 .. Len(l)
  OBVIOUS
<1>2. Max(rows \cup {Len(l) + 1}) = Len(l) + 1
  <2>1. rows \cup {Len(l) + 1} \subseteq 1 .. Len(l) + 1
    BY <1>1
  <2> QED BY <1>1, <2>1, LastPlace, Len(l) + 1 \in Nat
<1>3. rows # {} => Max(rows) \in DOMAIN l
  BY <1>1, LastPlace
<1> QED BY <1>2, <1>3 DEF LastVerdict

-----------------------------------------------------------------------------
\* The inductive invariant.

LEMMA HeldTypes ==
  ASSUME NEW x \in Held
  PROVE  /\ x.op \in Operations => x.intent \in Intents /\ x.seen \in Statuses
         /\ x.op = "unlock" => x.last \in Nat
         /\ x.op = "idle" => x = Idle
BY DEF Held, Operations, Idle

\* A handler's hand after it began, or finished, an operation.
LEMMA HandAfter ==
  ASSUME hand \in [Handlers -> Held], UnlocksReadTheChain, NEW h \in Handlers, NEW x \in Held,
         x.op # "unlock", hand' = [hand EXCEPT ![h] = x],
         \A k \in DOMAIN ledger : k \in DOMAIN ledger'
  PROVE  hand' \in [Handlers -> Held] /\ UnlocksReadTheChain'
BY DEF UnlocksReadTheChain

\* The four operations that decide or ask for a decision, and what each writes.
Writes(h) == Request(h) \/ Approve(h) \/ Reject(h) \/ Cancel(h) \/ Preflight(h)

LEMMA WritesTypes ==
  ASSUME LifecycleTypeOK, NEW h \in Handlers, Writes(h)
  PROVE  /\ hand[h].intent \in Intents
         /\ hand' = [hand EXCEPT ![h] = Idle]
         /\ IntentTypeOK'
         /\ approval' \in [Intents -> [state : {"PENDING", "APPROVED", "REJECTED", "CANCELLED"},
                                       revision : Nat]]
<1>1. hand[h].op \in Operations
  BY DEF Writes, Request, Approve, Reject, Cancel, Preflight, Operations
<1>2. hand[h].intent \in Intents /\ hand[h].seen \in Statuses
  BY <1>1, HeldTypes DEF LifecycleTypeOK
<1>3. hand' = [hand EXCEPT ![h] = Idle]
  BY DEF Writes, Request, Approve, Reject, Cancel, Preflight, Done
<1>4. CASE Request(h)
  BY <1>2, <1>3, <1>4 DEF LifecycleTypeOK, IntentTypeOK, Request, WriteApprovalRequest, SetStatus
<1>5. CASE Approve(h)
  BY <1>2, <1>3, <1>5 DEF LifecycleTypeOK, IntentTypeOK, Approve, WriteApproval, SetStatus, Decided
<1>6. CASE Reject(h)
  BY <1>2, <1>3, <1>6 DEF LifecycleTypeOK, IntentTypeOK, Reject, WriteRejection, SetStatus, Decided
<1>7. CASE Cancel(h)
  BY <1>2, <1>3, <1>7
  DEF LifecycleTypeOK, IntentTypeOK, Cancel, WriteCancellation, SetStatus, Decided
<1>8. CASE Preflight(h)
  <2>1. PICK s \in Statuses : WritePreflight(hand[h].intent, s)
    BY <1>2, <1>8, StatusTypes DEF Preflight, LifecycleTypeOK
  <2> QED
    BY <1>2, <1>3, <1>8, <2>1
    DEF LifecycleTypeOK, IntentTypeOK, Preflight, WritePreflight, SetStatus, Statuses
<1> QED BY <1>2, <1>3, <1>4, <1>5, <1>6, <1>7, <1>8 DEF Writes

\* The records of a writing operation follow the last one.
LEMMA WritesLedger ==
  ASSUME LifecycleTypeOK, Chained(ledger), Len(ledger) > 0, NEW h \in Handlers, Writes(h)
  PROVE  /\ ledger' \in Seq(Rows) /\ Chained(ledger') /\ Len(ledger') > 0
         /\ \A k \in DOMAIN ledger : k \in DOMAIN ledger' /\ ledger'[k] = ledger[k]
<1> DEFINE i == hand[h].intent
<1>1. i \in Intents /\ ledger \in Seq(Rows)
  BY WritesTypes DEF LifecycleTypeOK
<1> HIDE DEF i
<1>2. ASSUME NEW action \in Actions, ledger' = Recorded(ledger, action, i)
      PROVE  /\ ledger' \in Seq(Rows) /\ Chained(ledger') /\ Len(ledger') > 0
             /\ \A k \in DOMAIN ledger : k \in DOMAIN ledger' /\ ledger'[k] = ledger[k]
  BY <1>1, <1>2, RecordedKeeps
<1>3. CASE Approve(h)
  <2> DEFINE first == Recorded(ledger, "APPROVAL_APPROVED", i)
  <2>1. /\ first \in Seq(Rows) /\ Chained(first) /\ Len(first) > 0
        /\ \A k \in DOMAIN ledger : k \in DOMAIN first /\ first[k] = ledger[k]
    BY <1>1, RecordedKeeps DEF Actions
  <2>2. ledger' = Recorded(first, "ACTION_READY_TO_EXECUTE", i)
    BY <1>3 DEF Approve, i
  <2> HIDE DEF first
  <2> QED BY <1>1, <2>1, <2>2, RecordedKeeps DEF Actions
<1>4. CASE ~Approve(h)
  <2>1. \/ ledger' = Recorded(ledger, "APPROVAL_REQUESTED", i)
        \/ ledger' = Recorded(ledger, "APPROVAL_REJECTED", i)
        \/ ledger' = Recorded(ledger, "ACTION_INTENT_CANCELLED", i)
        \/ ledger' = Recorded(ledger, "ACTION_INTENT_PREFLIGHTED", i)
    BY <1>4 DEF Writes, Request, Reject, Cancel, Preflight, Records, i
  <2> QED BY <1>2, <2>1 DEF Actions
<1> QED BY <1>3, <1>4

\* What an operation reads of an intent, with the expiry it writes.
LEMMA ReadStep ==
  ASSUME LifecycleInv, NEW h \in Handlers, NEW op \in Operations, NEW i \in Intents,
         Read(h, op, i)
  PROVE  LifecycleInv'
<1>1. Seen(i) \in Statuses
  BY StatusTypes DEF LifecycleInv, LifecycleTypeOK
<1>2. UNCHANGED <<decision, late, approval, ledger>> /\ IntentTypeOK'
  BY <1>1 DEF Read, LifecycleInv, LifecycleTypeOK, IntentTypeOK, Statuses
<1>3. [op |-> op, intent |-> i, seen |-> Seen(i)] \in Held /\ op # "unlock"
  BY <1>1 DEF Held, Operations
<1>4. hand' \in [Handlers -> Held] /\ UnlocksReadTheChain'
  <2>1. CASE UNCHANGED hand
    BY <1>2, <2>1 DEF LifecycleInv, LifecycleTypeOK, UnlocksReadTheChain
  <2>2. CASE hand' = [hand EXCEPT ![h] = [op |-> op, intent |-> i, seen |-> Seen(i)]]
    BY <1>2, <1>3, <2>2, HandAfter DEF LifecycleInv, LifecycleTypeOK
  <2> QED BY <2>1, <2>2 DEF Read
<1> QED BY <1>2, <1>4 DEF LifecycleInv, LifecycleTypeOK, Chained

\* The two halves of an unlock request.
LEMMA UnlockStep ==
  ASSUME LifecycleInv, NEW h \in Handlers, UnlockReads(h) \/ UnlockRecords(h)
  PROVE  LifecycleInv'
<1>1. IntentTypeOK' /\ UNCHANGED approval
  BY DEF LifecycleInv, LifecycleTypeOK, IntentTypeOK, UnlockReads, UnlockRecords
<1>2. ledger \in Seq(Rows) /\ hand \in [Handlers -> Held] /\ Len(ledger) > 0
  BY DEF LifecycleInv, LifecycleTypeOK
<1>3. CASE UnlockReads(h)
  <2>1. [op |-> "unlock", last |-> Len(ledger)] \in Held /\ Len(ledger) \in DOMAIN ledger
    BY <1>2 DEF Held
  <2>2. UNCHANGED ledger /\ hand' = [hand EXCEPT ![h] = [op |-> "unlock", last |-> Len(ledger)]]
    BY <1>3 DEF UnlockReads
  <2>3. hand' \in [Handlers -> Held] /\ UnlocksReadTheChain'
    BY <1>2, <2>1, <2>2 DEF LifecycleInv, UnlocksReadTheChain
  <2> QED BY <1>1, <1>2, <2>2, <2>3 DEF LifecycleInv, LifecycleTypeOK, Chained
<1>4. CASE UnlockRecords(h)
  <2> DEFINE last == hand[h].last
             r == Following(ledger, last, "execution.unlock.requested", "system")
  <2>1. last \in DOMAIN ledger
    BY <1>4 DEF UnlockRecords, LifecycleInv, UnlocksReadTheChain
  <2>2. ledger[last].sequence = last - 1
    BY <2>1 DEF LifecycleInv, Chained
  <2>3. r.sequence = last
    BY <1>2, <2>1, <2>2 DEF Following
  <2>4. /\ ledger' \in Seq(Rows) /\ Chained(ledger') /\ Len(ledger') > 0
        /\ \A k \in DOMAIN ledger : k \in DOMAIN ledger'
    <3>1. CASE last # Len(ledger)
      <4>1. last + 1 \in DOMAIN ledger /\ ledger[last + 1].sequence = last
        BY <1>2, <2>1, <3>1 DEF LifecycleInv, Chained
      <4>2. ledger' = ledger
        BY <1>4, <2>3, <4>1 DEF UnlockRecords, Taken
      <4> QED BY <1>2, <4>2 DEF LifecycleInv
    <3>2. CASE last = Len(ledger)
      <4>1. ledger' = ledger \/ ledger' = Recorded(ledger, "execution.unlock.requested", "system")
        BY <1>4, <3>2 DEF UnlockRecords, Recorded
      <4>2. "execution.unlock.requested" \in Actions /\ Chained(ledger)
        BY DEF LifecycleInv, Actions
      <4> QED BY <1>2, <4>1, <4>2, RecordedKeeps
    <3> QED BY <3>1, <3>2
  <2>5. hand' = [hand EXCEPT ![h] = Idle] /\ Idle \in Held /\ Idle.op # "unlock"
    BY <1>4 DEF UnlockRecords, Done, Held, Idle
  <2>6. hand' \in [Handlers -> Held] /\ UnlocksReadTheChain'
    BY <1>2, <2>4, <2>5, HandAfter DEF LifecycleInv
  <2> QED BY <1>1, <1>2, <2>4, <2>6 DEF LifecycleInv, LifecycleTypeOK
<1> QED BY <1>3, <1>4

LEMMA LifecycleStep ==
  ASSUME LifecycleInv, [LifecycleNext]_lifecycleVars
  PROVE  LifecycleInv'
<1>1. ASSUME NEW h \in Handlers, Writes(h) PROVE LifecycleInv'
  <2>1. /\ ledger' \in Seq(Rows) /\ Chained(ledger') /\ Len(ledger') > 0
        /\ \A k \in DOMAIN ledger : k \in DOMAIN ledger'
    BY <1>1, WritesLedger DEF LifecycleInv
  <2>2. Idle \in Held /\ Idle.op # "unlock"
    BY DEF Held, Idle
  <2>3. hand' \in [Handlers -> Held] /\ UnlocksReadTheChain'
    BY <1>1, <2>1, <2>2, HandAfter, WritesTypes DEF LifecycleInv, LifecycleTypeOK
  <2> QED BY <1>1, <2>1, <2>3, WritesTypes DEF LifecycleInv, LifecycleTypeOK
<1>2. ASSUME NEW h \in Handlers, GiveUp(h) PROVE LifecycleInv'
  <2>1. Idle \in Held /\ Idle.op # "unlock"
    BY DEF Held, Idle
  <2>2. hand' = [hand EXCEPT ![h] = Idle] /\ UNCHANGED <<status, decision, late, approval, ledger>>
    BY <1>2 DEF GiveUp, Done
  <2>3. hand' \in [Handlers -> Held] /\ UnlocksReadTheChain'
    BY <2>1, <2>2, HandAfter DEF LifecycleInv, LifecycleTypeOK
  <2> QED BY <2>2, <2>3 DEF LifecycleInv, LifecycleTypeOK, IntentTypeOK, Chained
<1>3. ASSUME NEW i \in Intents, TimesOut(i) PROVE LifecycleInv'
  BY <1>3 DEF TimesOut, IntentTimesOut, LifecycleInv, LifecycleTypeOK, IntentTypeOK, Chained,
     UnlocksReadTheChain
<1>4. CASE UNCHANGED lifecycleVars
  BY <1>4 DEF lifecycleVars, LifecycleInv, LifecycleTypeOK, IntentTypeOK, Chained,
     UnlocksReadTheChain
<1> QED BY <1>1, <1>2, <1>3, <1>4, ReadStep, UnlockStep DEF LifecycleNext, Writes

LEMMA LifecycleStart == LifecycleInit => LifecycleInv
<1> SUFFICES ASSUME LifecycleInit PROVE LifecycleInv
  OBVIOUS
<1>1. Genesis \in Rows /\ Genesis.sequence = 0 /\ Genesis.prev = 0
  BY DEF Genesis, Rows, Actions
<1>2. ledger \in Seq(Rows) /\ Len(ledger) > 0 /\ Chained(ledger)
  BY <1>1 DEF LifecycleInit, Chained
<1>3. hand \in [Handlers -> Held] /\ UnlocksReadTheChain
  BY DEF LifecycleInit, Held, Idle, UnlocksReadTheChain
<1> QED
  BY <1>2, <1>3 DEF LifecycleInit, IntentInit, LifecycleInv, LifecycleTypeOK, IntentTypeOK

\* The inductive invariant holds, for any number of handlers, processes and
\* intents and however long the ledger grows.
THEOREM LifecycleInvariance == LifecycleSpec => []LifecycleInv
BY LifecycleStart, LifecycleStep, PTL DEF LifecycleSpec

\* Type correctness of the intents, their approvals, the ledger and the handlers.
THEOREM LifecycleTypeCorrect == LifecycleSpec => []LifecycleTypeOK
<1>1. LifecycleInv => LifecycleTypeOK
  BY DEF LifecycleInv
<1> QED BY <1>1, LifecycleInvariance, PTL

\* The audit chain verifies at every moment: request_unlock reads the end of the
\* chain and inserts in two statements outside a transaction, and whatever is
\* appended in between takes the number it would use.
THEOREM ChainAlwaysVerifies == LifecycleSpec => []ChainVerifies
<1>1. LifecycleInv => ChainVerifies
  BY ChainedVerifies DEF LifecycleInv, LifecycleTypeOK, ChainVerifies
<1> QED BY <1>1, LifecycleInvariance, PTL

-----------------------------------------------------------------------------
\* What the ledger tells of one intent, given its approvals row.
Told(l, j, a, d) ==
  /\ a.state = IF VerdictRows(l, j) = {} THEN "PENDING" ELSE LastVerdict(l, VerdictRows(l, j))
  /\ d = IF DecisionRows(l, j) = {} THEN "NONE"
         ELSE Decision[LastVerdict(l, DecisionRows(l, j))]
  /\ a.revision = 1 + Cardinality(DecisionRows(l, j))

LEMMA TellsIsTold ==
  LedgerTellsDecisions <=> \A j \in Intents : Told(ledger, j, approval[j], decision[j])
BY DEF LedgerTellsDecisions, Told

\* The rows are finitely many places of the ledger.
LEMMA RowsFinite ==
  ASSUME NEW l \in Seq(Rows), NEW j \in Intents
  PROVE  /\ VerdictRows(l, j) \subseteq DOMAIN l /\ DecisionRows(l, j) \subseteq DOMAIN l
         /\ IsFiniteSet(DecisionRows(l, j)) /\ Cardinality(DecisionRows(l, j)) \in Nat
         /\ Len(l) + 1 \notin DecisionRows(l, j)
<1>1. VerdictRows(l, j) \subseteq DOMAIN l /\ DecisionRows(l, j) \subseteq DOMAIN l
  BY DEF VerdictRows, DecisionRows
<1>2. DecisionRows(l, j) \in SUBSET (1 .. Len(l)) /\ IsFiniteSet(1 .. Len(l))
  BY <1>1, FS_Interval
<1> QED BY <1>1, <1>2, FS_Subset, FS_CardinalityType

\* A record that is no verdict on j leaves what the ledger tells of j.
LEMMA ToldKept ==
  ASSUME NEW l \in Seq(Rows), NEW r \in Rows, NEW j \in Intents, NEW a, NEW d,
         Told(l, j, a, d), r.intent # j \/ r.action \notin DOMAIN Verdict
  PROVE  Told(Append(l, r), j, a, d)
<1> DEFINE verdict == r.intent = j /\ r.action \in DOMAIN Verdict
           judged == Verdict[r.action] \in DOMAIN Decision
<1>0. /\ VerdictRows(Append(l, r), j)
           = VerdictRows(l, j) \cup (IF verdict THEN {Len(l) + 1} ELSE {})
      /\ DecisionRows(Append(l, r), j)
           = DecisionRows(l, j) \cup (IF verdict /\ judged THEN {Len(l) + 1} ELSE {})
  BY RowsAfter, Zenon
<1>1. /\ VerdictRows(Append(l, r), j) = VerdictRows(l, j)
      /\ DecisionRows(Append(l, r), j) = DecisionRows(l, j)
  <2>1. ~verdict
    OBVIOUS
  <2> HIDE DEF verdict, judged
  <2> QED BY <1>0, <2>1
<1>2. /\ VerdictRows(l, j) # {} => LastVerdict(Append(l, r), VerdictRows(l, j))
                                     = LastVerdict(l, VerdictRows(l, j))
      /\ DecisionRows(l, j) # {} => LastVerdict(Append(l, r), DecisionRows(l, j))
                                      = LastVerdict(l, DecisionRows(l, j))
  BY RowsFinite, LastAfter
<1> QED BY <1>1, <1>2 DEF Told

\* A decision on j is the last verdict and the last decision, and counts one more.
LEMMA ToldDecision ==
  ASSUME NEW l \in Seq(Rows), NEW r \in Rows, NEW j \in Intents, NEW a, NEW d, NEW b,
         Told(l, j, a, d), r.intent = j,
         r.action \in DOMAIN Verdict, Verdict[r.action] \in DOMAIN Decision,
         b.state = Verdict[r.action], b.revision = a.revision + 1
  PROVE  Told(Append(l, r), j, b, Decision[Verdict[r.action]])
<1>1. /\ VerdictRows(Append(l, r), j) = VerdictRows(l, j) \cup {Len(l) + 1}
      /\ DecisionRows(Append(l, r), j) = DecisionRows(l, j) \cup {Len(l) + 1}
  BY RowsAfter
<1>2. /\ LastVerdict(Append(l, r), VerdictRows(l, j) \cup {Len(l) + 1}) = Verdict[r.action]
      /\ LastVerdict(Append(l, r), DecisionRows(l, j) \cup {Len(l) + 1}) = Verdict[r.action]
  BY RowsFinite, LastAfter
<1>3. Cardinality(DecisionRows(l, j) \cup {Len(l) + 1}) = Cardinality(DecisionRows(l, j)) + 1
  BY RowsFinite, FS_AddElement
<1>4. b.revision = 1 + (Cardinality(DecisionRows(l, j)) + 1)
  BY RowsFinite DEF Told
<1> QED BY <1>1, <1>2, <1>3, <1>4 DEF Told

\* A request for approval is the last verdict, and no decision.
LEMMA ToldRequest ==
  ASSUME NEW l \in Seq(Rows), NEW r \in Rows, NEW j \in Intents, NEW a, NEW d, NEW b,
         Told(l, j, a, d), r.intent = j, r.action = "APPROVAL_REQUESTED",
         b.state = "PENDING", b.revision = a.revision
  PROVE  Told(Append(l, r), j, b, d)
<1>1. /\ VerdictRows(Append(l, r), j) = VerdictRows(l, j) \cup {Len(l) + 1}
      /\ DecisionRows(Append(l, r), j) = DecisionRows(l, j)
  <2>1. Verdict[r.action] \notin DOMAIN Decision /\ r.action \in DOMAIN Verdict
    BY VerdictTable
  <2> QED BY <2>1, RowsAfter
<1>2. LastVerdict(Append(l, r), VerdictRows(l, j) \cup {Len(l) + 1}) = "PENDING"
  <2>1. Verdict[r.action] = "PENDING"
    BY VerdictTable
  <2> QED BY <2>1, RowsFinite, LastAfter
<1>3. DecisionRows(l, j) # {} => LastVerdict(Append(l, r), DecisionRows(l, j))
                                   = LastVerdict(l, DecisionRows(l, j))
  BY RowsFinite, LastAfter
<1> QED BY <1>1, <1>2, <1>3 DEF Told

\* A decision of any kind on intent i: the record it appends, the row it writes.
LEMMA DecisionTells ==
  ASSUME LifecycleInv, LedgerTellsDecisions, NEW i \in Intents,
         NEW action \in Actions, action \in DOMAIN Verdict, Verdict[action] \in DOMAIN Decision,
         Decided(i, Verdict[action]),
         decision' = [decision EXCEPT ![i] = Decision[Verdict[action]]]
  PROVE  \A j \in Intents : Told(Recorded(ledger, action, i), j, approval'[j], decision'[j])
<1>1. ledger \in Seq(Rows) /\ Chained(ledger) /\ Len(ledger) > 0
  BY DEF LifecycleInv, LifecycleTypeOK
<1>2. PICK r \in Rows : /\ Recorded(ledger, action, i) = Append(ledger, r)
                        /\ r.action = action /\ r.intent = i
  BY <1>1, RecordedKeeps
<1>3. ASSUME NEW j \in Intents
      PROVE  Told(Append(ledger, r), j, approval'[j], decision'[j])
  <2>1. Told(ledger, j, approval[j], decision[j])
    BY TellsIsTold
  <2>2. CASE j = i
    <3>1. /\ approval'[j].state = Verdict[r.action]
          /\ approval'[j].revision = approval[j].revision + 1
          /\ decision'[j] = Decision[Verdict[r.action]]
      BY <1>2, <2>2 DEF Decided, LifecycleInv, LifecycleTypeOK, IntentTypeOK
    <3> QED BY <1>1, <1>2, <2>1, <2>2, <3>1, ToldDecision
  <2>3. CASE j # i
    <3>1. approval'[j] = approval[j] /\ decision'[j] = decision[j]
      BY <2>3 DEF Decided, LifecycleInv, LifecycleTypeOK, IntentTypeOK
    <3> QED BY <1>1, <1>2, <2>1, <2>3, <3>1, ToldKept
  <2> QED BY <2>2, <2>3
<1> QED BY <1>2, <1>3

LEMMA TellsStep ==
  ASSUME LifecycleInv, LedgerTellsDecisions, [LifecycleNext]_lifecycleVars
  PROVE  LedgerTellsDecisions'
<1>1. ledger \in Seq(Rows) /\ Chained(ledger) /\ Len(ledger) > 0
  BY DEF LifecycleInv, LifecycleTypeOK
<1>2. (\A j \in Intents : Told(ledger', j, approval'[j], decision'[j])) => LedgerTellsDecisions'
  BY TellsIsTold DEF LedgerTellsDecisions, Told
<1>3. ASSUME UNCHANGED <<decision, approval>>,
             NEW r \in Rows, r.action \notin DOMAIN Verdict, ledger' = Append(ledger, r)
      PROVE  LedgerTellsDecisions'
  BY <1>1, <1>2, <1>3, TellsIsTold, ToldKept
<1>4. ASSUME UNCHANGED <<decision, approval, ledger>> PROVE LedgerTellsDecisions'
  BY <1>4 DEF LedgerTellsDecisions
<1>5. ASSUME NEW h \in Handlers, Writes(h) PROVE hand[h].intent \in Intents
  BY <1>5, WritesTypes DEF LifecycleInv
<1>6. ASSUME NEW h \in Handlers, Request(h) PROVE LedgerTellsDecisions'
  <2> DEFINE i == hand[h].intent
  <2>1. i \in Intents
    BY <1>5, <1>6 DEF Writes
  <2> HIDE DEF i
  <2>2. PICK r \in Rows : /\ ledger' = Append(ledger, r)
                          /\ r.action = "APPROVAL_REQUESTED" /\ r.intent = i
    <3>1. ledger' = Recorded(ledger, "APPROVAL_REQUESTED", i)
      BY <1>6 DEF Request, Records, i
    <3> QED BY <1>1, <2>1, <3>1, RecordedKeeps DEF Actions
  <2>3. approval' = [approval EXCEPT ![i].state = "PENDING"] /\ UNCHANGED decision
    BY <1>6 DEF Request, WriteApprovalRequest, i
  <2>4. ASSUME NEW j \in Intents PROVE Told(ledger', j, approval'[j], decision'[j])
    <3>1. Told(ledger, j, approval[j], decision[j])
      BY TellsIsTold
    <3>2. CASE j = i
      <4>1. approval'[j].state = "PENDING" /\ approval'[j].revision = approval[j].revision
        BY <2>3, <3>2 DEF LifecycleInv, LifecycleTypeOK
      <4> QED BY <1>1, <2>2, <2>3, <3>1, <3>2, <4>1, ToldRequest
    <3>3. CASE j # i
      <4>1. approval'[j] = approval[j]
        BY <2>3, <3>3 DEF LifecycleInv, LifecycleTypeOK
      <4> QED BY <1>1, <2>2, <2>3, <3>1, <3>3, <4>1, ToldKept
    <3> QED BY <3>2, <3>3
  <2> QED BY <1>2, <2>4
<1>7. ASSUME NEW h \in Handlers, Reject(h) \/ Cancel(h) PROVE LedgerTellsDecisions'
  <2> DEFINE i == hand[h].intent
  <2>1. i \in Intents
    BY <1>5, <1>7 DEF Writes
  <2>2. CASE Reject(h)
    <3>1. /\ Decided(i, "REJECTED") /\ decision' = [decision EXCEPT ![i] = "REJECT"]
          /\ ledger' = Recorded(ledger, "APPROVAL_REJECTED", i)
      BY <2>2 DEF Reject, WriteRejection, Records
    <3> HIDE DEF i
    <3> QED BY <1>2, <2>1, <3>1, DecisionTells, VerdictTable DEF Actions
  <2>3. CASE Cancel(h)
    <3>1. /\ Decided(i, "CANCELLED") /\ decision' = [decision EXCEPT ![i] = "CANCEL"]
          /\ ledger' = Recorded(ledger, "ACTION_INTENT_CANCELLED", i)
      BY <2>3 DEF Cancel, WriteCancellation, Records
    <3> HIDE DEF i
    <3> QED BY <1>2, <2>1, <3>1, DecisionTells, VerdictTable DEF Actions
  <2> QED BY <1>7, <2>2, <2>3
<1>8. ASSUME NEW h \in Handlers, Approve(h) PROVE LedgerTellsDecisions'
  <2> DEFINE i == hand[h].intent
             first == Recorded(ledger, "APPROVAL_APPROVED", i)
  <2>1. i \in Intents
    BY <1>5, <1>8 DEF Writes
  <2>2. /\ Decided(i, "APPROVED") /\ decision' = [decision EXCEPT ![i] = "APPROVE"]
        /\ ledger' = Recorded(first, "ACTION_READY_TO_EXECUTE", i)
    BY <1>8 DEF Approve, WriteApproval
  <2> HIDE DEF i
  <2>3. \A j \in Intents : Told(first, j, approval'[j], decision'[j])
    BY <2>1, <2>2, DecisionTells, VerdictTable DEF Actions
  <2>4. first \in Seq(Rows) /\ Chained(first) /\ Len(first) > 0
    BY <1>1, <2>1, RecordedKeeps DEF Actions
  <2> HIDE DEF first
  <2>5. PICK r \in Rows : ledger' = Append(first, r) /\ r.action = "ACTION_READY_TO_EXECUTE"
    BY <2>1, <2>2, <2>4, RecordedKeeps DEF Actions
  <2> QED BY <1>2, <2>3, <2>4, <2>5, ToldKept, VerdictTable
<1>9. ASSUME NEW h \in Handlers, Preflight(h) PROVE LedgerTellsDecisions'
  <2> DEFINE i == hand[h].intent
  <2>1. i \in Intents
    BY <1>5, <1>9 DEF Writes
  <2>2. /\ UNCHANGED <<decision, approval>>
        /\ ledger' = Recorded(ledger, "ACTION_INTENT_PREFLIGHTED", i)
    BY <1>9 DEF Preflight, WritePreflight, Records
  <2> HIDE DEF i
  <2>3. PICK r \in Rows : ledger' = Append(ledger, r) /\ r.action = "ACTION_INTENT_PREFLIGHTED"
    BY <1>1, <2>1, <2>2, RecordedKeeps DEF Actions
  <2> QED BY <1>3, <2>2, <2>3, VerdictTable
<1>10. ASSUME NEW h \in Handlers, UnlockRecords(h) PROVE LedgerTellsDecisions'
  <2> DEFINE r == Following(ledger, hand[h].last, "execution.unlock.requested", "system")
  <2>1. hand[h].last \in DOMAIN ledger
    BY <1>10 DEF UnlockRecords, LifecycleInv, UnlocksReadTheChain
  <2>2. r \in Rows /\ r.action = "execution.unlock.requested"
    <3>1. ledger[hand[h].last] \in Rows /\ hand[h].last \in Nat
      BY <1>1, <2>1
    <3>2. ledger[hand[h].last].sequence \in Nat
      BY <3>1 DEF Rows
    <3>3. r = [sequence |-> ledger[hand[h].last].sequence + 1, prev |-> hand[h].last,
               action |-> "execution.unlock.requested", intent |-> "system"]
      BY DEF Following
    <3> HIDE DEF r
    <3> QED BY <3>1, <3>2, <3>3 DEF Rows, Actions
  <2>3. /\ UNCHANGED <<decision, approval>>
        /\ ledger' = ledger \/ ledger' = Append(ledger, r)
    BY <1>10 DEF UnlockRecords
  <2> HIDE DEF r
  <2> QED BY <1>3, <1>4, <2>2, <2>3, VerdictTable
<1> QED
  BY <1>4, <1>6, <1>7, <1>8, <1>9, <1>10
  DEF LifecycleNext, Read, GiveUp, UnlockReads, TimesOut, IntentTimesOut, lifecycleVars

\* The ledger tells who decided what: the approvals row is the last verdict on
\* record, its decision the last decision, and its revision counts the
\* decisions, for any number of processes that decide on the same intents.
THEOREM LedgerAlwaysTells == LifecycleSpec => []LedgerTellsDecisions
<1>1. LifecycleInit => LedgerTellsDecisions
  <2> SUFFICES ASSUME LifecycleInit PROVE LedgerTellsDecisions
    OBVIOUS
  <2>1. ASSUME NEW i \in Intents PROVE VerdictRows(ledger, i) = {} /\ DecisionRows(ledger, i) = {}
    BY VerdictTable DEF LifecycleInit, Genesis, VerdictRows, DecisionRows
  <2>2. Cardinality({}) = 0
    BY FS_EmptySet
  <2>3. ASSUME NEW i \in Intents
        PROVE  approval[i].state = "PENDING" /\ approval[i].revision = 1 /\ decision[i] = "NONE"
    BY DEF LifecycleInit, IntentInit
  <2>4. ASSUME NEW i \in Intents PROVE Told(ledger, i, approval[i], decision[i])
    BY <2>1, <2>2, <2>3 DEF Told
  <2> QED BY <2>4, TellsIsTold
<1> QED BY <1>1, TellsStep, LifecycleInvariance, PTL DEF LifecycleSpec

-----------------------------------------------------------------------------
\* Only approved intents are executable.

\* An approval of j is on record in l.
OnRecord(l, j) == \E k \in DecisionRows(l, j) : Verdict[l[k].action] = "APPROVED"

\* The ledger only grows, so an approval stays on record.
LEMMA LedgerGrows ==
  ASSUME LifecycleInv, [LifecycleNext]_lifecycleVars
  PROVE  \A k \in DOMAIN ledger : k \in DOMAIN ledger' /\ ledger'[k] = ledger[k]
<1>1. ASSUME NEW h \in Handlers, Writes(h)
      PROVE  \A k \in DOMAIN ledger : k \in DOMAIN ledger' /\ ledger'[k] = ledger[k]
  BY <1>1, WritesLedger DEF LifecycleInv
<1>2. ASSUME NEW h \in Handlers, UnlockRecords(h)
      PROVE  \A k \in DOMAIN ledger : k \in DOMAIN ledger' /\ ledger'[k] = ledger[k]
  <2>1. \/ ledger' = ledger
        \/ ledger' = Append(ledger, Following(ledger, hand[h].last,
                                             "execution.unlock.requested", "system"))
    BY <1>2 DEF UnlockRecords
  <2>2. ledger \in Seq(Rows)
    BY DEF LifecycleInv, LifecycleTypeOK
  <2> QED BY <2>1, <2>2
<1> QED
  BY <1>1, <1>2
  DEF LifecycleNext, Writes, Read, GiveUp, UnlockReads, TimesOut, lifecycleVars

LEMMA OnRecordStays ==
  ASSUME LifecycleInv, [LifecycleNext]_lifecycleVars, NEW j \in Intents, OnRecord(ledger, j)
  PROVE  OnRecord(ledger', j)
BY LedgerGrows DEF OnRecord, DecisionRows, VerdictRows

\* An approval is on record once it is given.
LEMMA ApproveRecords ==
  ASSUME LifecycleInv, NEW h \in Handlers, Approve(h)
  PROVE  OnRecord(ledger', hand[h].intent)
<1> DEFINE i == hand[h].intent
           first == Recorded(ledger, "APPROVAL_APPROVED", i)
<1>1. i \in Intents /\ ledger \in Seq(Rows) /\ Chained(ledger) /\ Len(ledger) > 0
  BY WritesTypes DEF Writes, LifecycleInv, LifecycleTypeOK
<1>2. ledger' = Recorded(first, "ACTION_READY_TO_EXECUTE", i)
  BY DEF Approve
<1> HIDE DEF i
<1>3. PICK r \in Rows : first = Append(ledger, r) /\ r.action = "APPROVAL_APPROVED" /\ r.intent = i
  BY <1>1, RecordedKeeps DEF Actions
<1>4. /\ first \in Seq(Rows) /\ Chained(first) /\ Len(first) > 0
      /\ Len(ledger) + 1 \in DOMAIN first /\ first[Len(ledger) + 1] = r
  BY <1>1, <1>3, RecordedKeeps DEF Actions
<1> HIDE DEF first
<1>5. Len(ledger) + 1 \in DOMAIN ledger' /\ ledger'[Len(ledger) + 1] = r
  BY <1>1, <1>2, <1>4, RecordedKeeps DEF Actions
<1> QED BY <1>3, <1>5, VerdictTable DEF OnRecord, DecisionRows, VerdictRows, i

\* A preflight never makes an intent executable that its reader did not see so.
LEMMA ReadyPreflight ==
  ASSUME NEW s \in Statuses, NEW result \in {"BLOCKED", "REQUIRES_APPROVAL"},
         PreflightStatus(s, result) = "READY_TO_EXECUTE"
  PROVE  s = "READY_TO_EXECUTE"
BY DEF PreflightStatus

LEMMA ReadyStep ==
  ASSUME LifecycleInv, ReadyMeansApproved, [LifecycleNext]_lifecycleVars
  PROVE  ReadyMeansApproved'
<1> DEFINE Ready(j) == \/ status[j] = "READY_TO_EXECUTE"
                       \/ \E h \in Handlers : hand[h].op = "preflight" /\ hand[h].intent = j
                                               /\ hand[h].seen = "READY_TO_EXECUTE"
<1>1. \A j \in Intents : Ready(j) => OnRecord(ledger, j)
  BY DEF ReadyMeansApproved, OnRecord
<1>2. (\A j \in Intents : Ready(j)' => OnRecord(ledger, j)') => ReadyMeansApproved'
  BY DEF ReadyMeansApproved, OnRecord
<1>3. SUFFICES ASSUME NEW j \in Intents, Ready(j)', ~Ready(j) PROVE OnRecord(ledger', j)
  BY <1>1, <1>2, OnRecordStays DEF OnRecord, DecisionRows, VerdictRows
<1>4. /\ status \in [Intents -> Statuses] /\ hand \in [Handlers -> Held]
  BY DEF LifecycleInv, LifecycleTypeOK, IntentTypeOK, Statuses
\* A handler that finishes, or begins anything but a preflight, holds nothing new.
<1>5. ASSUME NEW h \in Handlers, NEW x, x.op # "preflight", hand' = [hand EXCEPT ![h] = x]
      PROVE  status'[j] = "READY_TO_EXECUTE"
  BY <1>3, <1>4, <1>5
<1>6. Idle.op # "preflight"
  BY DEF Idle
<1>7. ASSUME NEW h \in Handlers, NEW op \in Operations, NEW i \in Intents, Read(h, op, i)
      PROVE  FALSE
  <2>1. Seen(i) = "READY_TO_EXECUTE" => status[i] = "READY_TO_EXECUTE"
    BY DEF Seen
  <2>2. status'[j] # "READY_TO_EXECUTE"
    BY <1>3, <1>4, <1>7, <2>1 DEF Read
  <2>3. \/ UNCHANGED hand
        \/ hand' = [hand EXCEPT ![h] = [op |-> op, intent |-> i, seen |-> Seen(i)]]
    BY <1>7 DEF Read
  <2> QED BY <1>3, <1>4, <2>1, <2>2, <2>3
<1>8. ASSUME NEW h \in Handlers, Writes(h) PROVE OnRecord(ledger', j)
  <2> DEFINE i == hand[h].intent
  <2>1. i \in Intents /\ hand' = [hand EXCEPT ![h] = Idle] /\ hand[h].seen \in Statuses
    <3>1. hand[h].op \in Operations
      BY <1>8 DEF Writes, Request, Approve, Reject, Cancel, Preflight, Operations
    <3> QED BY <1>4, <1>8, <3>1, WritesTypes, HeldTypes DEF LifecycleInv
  <2>2. status'[j] = "READY_TO_EXECUTE" /\ status[j] # "READY_TO_EXECUTE"
    BY <1>3, <1>5, <1>6, <2>1
  <2>3. ASSUME NEW s, SetStatus(i, s) PROVE i = j /\ s = "READY_TO_EXECUTE"
    BY <1>4, <2>1, <2>2, <2>3 DEF SetStatus
  <2>4. CASE Request(h) \/ Reject(h) \/ Cancel(h)
    BY <2>3, <2>4 DEF Request, Reject, Cancel, WriteApprovalRequest, WriteRejection,
       WriteCancellation
  <2>5. CASE Approve(h)
    BY <2>3, <2>5, ApproveRecords DEF Approve, WriteApproval
  <2>6. CASE Preflight(h)
    <3>1. PICK result \in {"BLOCKED", "REQUIRES_APPROVAL"} :
            SetStatus(i, PreflightStatus(hand[h].seen, result))
      BY <2>6 DEF Preflight, WritePreflight
    <3>2. i = j /\ PreflightStatus(hand[h].seen, result) = "READY_TO_EXECUTE"
      BY <2>3, <3>1
    <3>3. hand[h].seen = "READY_TO_EXECUTE"
      BY <3>2, ReadyPreflight, <2>1
    <3> QED BY <1>3, <2>6, <3>2, <3>3 DEF Preflight
  <2> QED BY <1>8, <2>4, <2>5, <2>6 DEF Writes
<1>9. ASSUME NEW h \in Handlers, GiveUp(h) \/ UnlockReads(h) \/ UnlockRecords(h) PROVE FALSE
  <2>1. UNCHANGED status
    BY <1>9 DEF GiveUp, UnlockReads, UnlockRecords
  <2>2. \E x : x.op # "preflight" /\ hand' = [hand EXCEPT ![h] = x]
    BY <1>6, <1>9 DEF GiveUp, UnlockReads, UnlockRecords, Done
  <2> QED BY <1>3, <1>5, <2>1, <2>2
<1> QED
  BY <1>3, <1>7, <1>8, <1>9
  DEF LifecycleNext, Writes, TimesOut, IntentTimesOut, lifecycleVars

\* An intent is executable, or held as executable by a preflight that will write
\* it back, only after an approval of it was recorded, however preflights,
\* requests and decisions race.
THEOREM ReadyIsApproved == LifecycleSpec => []ReadyMeansApproved
<1>1. LifecycleInit => ReadyMeansApproved
  BY DEF LifecycleInit, IntentInit, ReadyMeansApproved, Idle
<1> QED BY <1>1, ReadyStep, LifecycleInvariance, PTL DEF LifecycleSpec

-----------------------------------------------------------------------------
\* The agent configuration page.

SkillSets == [Profiles -> SUBSET Skills]

Singles(ds) ==
  \A c, d \in ds : (c.profile = d.profile /\ c.skill = d.skill) => c = d

\* The changesets of the tabs and of the browser.
ChangesetsInv ==
  /\ stored \subseteq AllChanges /\ Singles(stored)
  /\ drafts \in [Tabs -> SUBSET AllChanges]
  /\ \A t \in Tabs : Singles(drafts[t])
  /\ refused \in Nat

\* What the tabs show, and the server.
PagesInv ==
  /\ server \in SkillSets
  /\ agents \in [Tabs -> AgentLists]
  /\ view \in [Tabs -> {"profile", "matrix", "away", "closed"}]
  /\ matrix \in [Tabs -> AgentLists]
  /\ applying \in [Tabs -> BOOLEAN]
  /\ begun \in Nat

\* The loops of Apply.
Loops ==
  [n : Nat, tab : Tabs, batch : SUBSET AllChanges, base : AgentLists, at : Profiles,
   left : SUBSET Profiles, st : {"sent", "answered"}, alone : BOOLEAN]

LoopsInv == \A a \in applies : a \in Loops /\ Singles(a.batch)

AloneInv == \A a, b \in applies : a.alone => b = a

Holds(c) == (c.skill \in server[c.profile]) = (c.action = "ADD_SKILL")

Passed(a, p) == p \notin a.left /\ (p = a.at => a.st = "answered")

WrittenInv ==
  \A a \in applies : a.alone => \A c \in a.batch : Passed(a, c.profile) => Holds(c)

DraftsInv == ChangesetsInv /\ PagesInv /\ LoopsInv

-----------------------------------------------------------------------------
\* What is replayed and what is staged.

\* A changeset without two changes of one skill replays as one would expect.
LEMMA EffectiveSingles ==
  ASSUME NEW ds \in SUBSET AllChanges, Singles(ds), NEW own, NEW p, NEW s \in Skills
  PROVE  /\ \A c \in ds : (c.profile = p /\ c.skill = s)
                => (s \in Effective(ds, p, own) <=> c.action = "ADD_SKILL")
         /\ Changes(ds, p, s) = {} => (s \in Effective(ds, p, own) <=> s \in own)
<1>1. s \in Effective(ds, p, own) <=>
        LET cs == Changes(ds, p, s)
        IN  IF cs = {} THEN s \in own
            ELSE \E c \in cs : c.action = "ADD_SKILL" /\ \A d \in cs : d.n <= c.n
  BY DEF Effective
<1>2. ASSUME NEW c \in ds, c.profile = p, c.skill = s
      PROVE  s \in Effective(ds, p, own) <=> c.action = "ADD_SKILL"
  <2>1. Changes(ds, p, s) = {c}
    BY <1>2 DEF Changes, Singles
  <2>2. c.n <= c.n
    BY DEF AllChanges
  <2> QED BY <1>1, <2>1, <2>2
<1> QED BY <1>1, <1>2

LEMMA EffectiveType ==
  ASSUME NEW ds, NEW own, NEW p
  PROVE  Effective(ds, p, own) \subseteq Skills
BY DEF Effective

\* The two buttons of the skills tab leave one change of each skill.
LEMMA StagedSingles ==
  ASSUME NEW ds \in SUBSET AllChanges, Singles(ds), NEW p \in Profiles, NEW s \in Skills,
         NEW a \in {"ADD_SKILL", "REMOVE_SKILL"},
         \A c \in ds : (c.profile = p /\ c.skill = s) => c.action = Opposite(a)
  PROVE  Staged(ds, p, s, a) \subseteq AllChanges /\ Singles(Staged(ds, p, s, a))
<1> DEFINE against == {c \in Changes(ds, p, s) : c.action = Opposite(a)}
           new == Change(p, s, a, 1 + Cardinality(Changes(ds, p, s)))
<1>1. CASE against # {}
  <2>1. Staged(ds, p, s, a) \subseteq ds
    BY <1>1 DEF Staged
  <2> QED BY <2>1 DEF Singles
<1>2. CASE against = {}
  <2>1. Changes(ds, p, s) = {}
    BY <1>2 DEF Changes
  <2>2. Staged(ds, p, s, a) = ds \cup {new}
    BY <1>2, Zenon DEF Staged
  <2>3. new = Change(p, s, a, 1)
    BY <2>1, FS_EmptySet
  <2>4. new \in AllChanges /\ new.profile = p /\ new.skill = s
    BY <2>3 DEF Change, AllChanges
  <2>5. ASSUME NEW c \in ds PROVE ~(c.profile = p /\ c.skill = s)
    BY <2>1 DEF Changes
  <2> HIDE DEF new
  <2> QED BY <2>2, <2>4, <2>5 DEF Singles
<1> QED BY <1>1, <1>2

LEMMA AddStages ==
  ASSUME DraftsInv, NEW t \in Tabs, NEW p \in Profiles, NEW s \in Skills, AddSkill(t, p, s)
  PROVE  LET ds == Staged(drafts[t], p, s, "ADD_SKILL")
         IN  ds \subseteq AllChanges /\ Singles(ds) /\ Save(t, ds)
<1>1. drafts[t] \in SUBSET AllChanges /\ Singles(drafts[t])
  BY DEF DraftsInv, ChangesetsInv
<1>2. ASSUME NEW c \in drafts[t], c.profile = p, c.skill = s PROVE c.action = Opposite("ADD_SKILL")
  <2>1. c.action # "ADD_SKILL"
    BY <1>1, <1>2, EffectiveSingles DEF AddSkill
  <2> QED BY <1>1, <2>1 DEF AllChanges, Opposite
<1> QED BY <1>1, <1>2, StagedSingles DEF AddSkill

LEMMA RemoveStages ==
  ASSUME DraftsInv, NEW t \in Tabs, NEW p \in Profiles, NEW s \in Skills, RemoveSkill(t, p, s)
  PROVE  LET ds == Staged(drafts[t], p, s, "REMOVE_SKILL")
         IN  ds \subseteq AllChanges /\ Singles(ds) /\ Save(t, ds)
<1>1. drafts[t] \in SUBSET AllChanges /\ Singles(drafts[t])
  BY DEF DraftsInv, ChangesetsInv
<1>2. ASSUME NEW c \in drafts[t], c.profile = p, c.skill = s PROVE c.action = Opposite("REMOVE_SKILL")
  <2>1. c.action = "ADD_SKILL"
    BY <1>1, <1>2, EffectiveSingles DEF RemoveSkill
  <2> QED BY <2>1 DEF Opposite
<1> QED BY <1>1, <1>2, StagedSingles DEF RemoveSkill

\* Staging the blueprint: a change for each difference, and no other.
LEMMA BlueprintChanges ==
  ASSUME NEW as \in AgentLists
  PROVE  /\ as = NotLoaded => FromBlueprint(as) = {}
         /\ \A c \in FromBlueprint(as) :
              /\ as # NotLoaded /\ c.profile \in DOMAIN Blueprint
              /\ \/ /\ c.skill \in Blueprint[c.profile] \ as[c.profile]
                    /\ c = Change(c.profile, c.skill, "ADD_SKILL", 1)
                 \/ /\ c.skill \in as[c.profile] \ Blueprint[c.profile]
                    /\ c = Change(c.profile, c.skill, "REMOVE_SKILL", 1)
         /\ \A p \in DOMAIN Blueprint : \A s :
              as # NotLoaded =>
                /\ s \in Blueprint[p] \ as[p] => Change(p, s, "ADD_SKILL", 1) \in FromBlueprint(as)
                /\ s \in as[p] \ Blueprint[p] => Change(p, s, "REMOVE_SKILL", 1) \in FromBlueprint(as)
<1> DEFINE Of(p) == {Change(p, s, "ADD_SKILL", 1) : s \in Blueprint[p] \ as[p]}
                      \cup {Change(p, s, "REMOVE_SKILL", 1) : s \in as[p] \ Blueprint[p]}
<1>1. as = NotLoaded => FromBlueprint(as) = {}
  BY DEF FromBlueprint
<1>2. as # NotLoaded => FromBlueprint(as) = UNION {Of(p) : p \in DOMAIN Blueprint}
  BY Zenon DEF FromBlueprint
<1>3. \A p, s, a : Change(p, s, a, 1).profile = p /\ Change(p, s, a, 1).skill = s
  BY DEF Change
<1>4. ASSUME as # NotLoaded, NEW c \in FromBlueprint(as)
      PROVE  /\ c.profile \in DOMAIN Blueprint
             /\ \/ /\ c.skill \in Blueprint[c.profile] \ as[c.profile]
                   /\ c = Change(c.profile, c.skill, "ADD_SKILL", 1)
                \/ /\ c.skill \in as[c.profile] \ Blueprint[c.profile]
                   /\ c = Change(c.profile, c.skill, "REMOVE_SKILL", 1)
  <2>1. PICK p \in DOMAIN Blueprint : c \in Of(p)
    <3> HIDE DEF Of
    <3> QED BY <1>2, <1>4
  <2>2. \/ \E s \in Blueprint[p] \ as[p] : c = Change(p, s, "ADD_SKILL", 1)
        \/ \E s \in as[p] \ Blueprint[p] : c = Change(p, s, "REMOVE_SKILL", 1)
    BY <2>1
  <2>3. ASSUME NEW s \in Blueprint[p] \ as[p], c = Change(p, s, "ADD_SKILL", 1)
        PROVE  /\ c.profile = p /\ c.skill \in Blueprint[p] \ as[p]
               /\ c = Change(c.profile, c.skill, "ADD_SKILL", 1)
    <3>1. c.profile = p /\ c.skill = s
      BY <1>3, <2>3
    <3> QED BY <2>3, <3>1
  <2>4. ASSUME NEW s \in as[p] \ Blueprint[p], c = Change(p, s, "REMOVE_SKILL", 1)
        PROVE  /\ c.profile = p /\ c.skill \in as[p] \ Blueprint[p]
               /\ c = Change(c.profile, c.skill, "REMOVE_SKILL", 1)
    <3>1. c.profile = p /\ c.skill = s
      BY <1>3, <2>4
    <3> QED BY <2>4, <3>1
  <2> QED BY <2>1, <2>2, <2>3, <2>4
<1>5. ASSUME as # NotLoaded, NEW p \in DOMAIN Blueprint, NEW s
      PROVE  /\ s \in Blueprint[p] \ as[p] => Change(p, s, "ADD_SKILL", 1) \in FromBlueprint(as)
             /\ s \in as[p] \ Blueprint[p] => Change(p, s, "REMOVE_SKILL", 1) \in FromBlueprint(as)
  <2>1. /\ s \in Blueprint[p] \ as[p] => Change(p, s, "ADD_SKILL", 1) \in Of(p)
        /\ s \in as[p] \ Blueprint[p] => Change(p, s, "REMOVE_SKILL", 1) \in Of(p)
    OBVIOUS
  <2> HIDE DEF Of
  <2>2. Of(p) \subseteq FromBlueprint(as)
    BY <1>2, <1>5
  <2> QED BY <2>1, <2>2
<1> QED BY <1>1, <1>4, <1>5

LEMMA BlueprintSingles ==
  ASSUME NEW as \in AgentLists
  PROVE  FromBlueprint(as) \subseteq AllChanges /\ Singles(FromBlueprint(as))
<1>1. ASSUME NEW c \in FromBlueprint(as) PROVE c \in AllChanges
  <2>1. c.profile \in DOMAIN Blueprint /\ as # NotLoaded
    BY <1>1, BlueprintChanges
  <2>2. c.profile \in Profiles /\ as[c.profile] \subseteq Skills /\ Blueprint[c.profile] \subseteq Skills
    BY <2>1, BlueprintAssumption DEF AgentLists
  <2>3. c.skill \in Skills /\ \E a \in {"ADD_SKILL", "REMOVE_SKILL"} : c = Change(c.profile, c.skill, a, 1)
    BY <1>1, <2>2, BlueprintChanges
  <2>4. \A p \in Profiles, s \in Skills, a \in {"ADD_SKILL", "REMOVE_SKILL"} :
          Change(p, s, a, 1) \in AllChanges
    BY DEF Change, AllChanges
  <2> QED BY <2>2, <2>3, <2>4, Zenon
<1>2. ASSUME NEW c \in FromBlueprint(as), NEW d \in FromBlueprint(as),
             c.profile = d.profile, c.skill = d.skill
      PROVE  c = d
  BY <1>2, BlueprintChanges
<1> QED BY <1>1, <1>2 DEF Singles

\* A profile the blueprint covers has, once it is staged, what it recommends.
LEMMA BlueprintPreviewed ==
  ASSUME NEW as \in SkillSets, NEW p \in DOMAIN Blueprint
  PROVE  Effective(FromBlueprint(as), p, as[p]) = Preview(p, as[p])
<1> DEFINE ds == FromBlueprint(as)
<1>1. as \in AgentLists /\ as # NotLoaded /\ Blueprint[p] \subseteq Skills /\ as[p] \subseteq Skills
  BY SkillsAssumption, BlueprintAssumption DEF AgentLists, SkillSets
<1>2. Preview(p, as[p]) = Blueprint[p]
  BY DEF Preview, Recommended
<1>3. ds \in SUBSET AllChanges /\ Singles(ds)
  BY <1>1, BlueprintSingles
<1>4. \A c \in ds : /\ c.profile \in DOMAIN Blueprint
                    /\ \/ /\ c.skill \in Blueprint[c.profile] \ as[c.profile]
                          /\ c = Change(c.profile, c.skill, "ADD_SKILL", 1)
                       \/ /\ c.skill \in as[c.profile] \ Blueprint[c.profile]
                          /\ c = Change(c.profile, c.skill, "REMOVE_SKILL", 1)
  BY <1>1, BlueprintChanges
<1>5. \A s : /\ s \in Blueprint[p] \ as[p] => Change(p, s, "ADD_SKILL", 1) \in ds
             /\ s \in as[p] \ Blueprint[p] => Change(p, s, "REMOVE_SKILL", 1) \in ds
  BY <1>1, BlueprintChanges
<1> HIDE DEF ds
<1>6. ASSUME NEW s \in Skills PROVE s \in Effective(ds, p, as[p]) <=> s \in Blueprint[p]
  <2> DEFINE own == as[p]
             eff == Effective(ds, p, own)
  <2>1. /\ \A c \in ds : (c.profile = p /\ c.skill = s) => (s \in eff <=> c.action = "ADD_SKILL")
        /\ Changes(ds, p, s) = {} => (s \in eff <=> s \in own)
    BY <1>3, EffectiveSingles
  <2> HIDE DEF eff
  <2>2. \A a : Change(p, s, a, 1).profile = p /\ Change(p, s, a, 1).skill = s /\ Change(p, s, a, 1).action = a
    BY DEF Change
  <2>3. CASE s \in Blueprint[p] \ own
    <3>1. Change(p, s, "ADD_SKILL", 1) \in ds
      BY <1>5, <2>3
    <3>2. s \in eff
      BY <2>1, <2>2, <3>1
    <3> QED BY <2>3, <3>2 DEF eff
  <2>4. CASE s \in own \ Blueprint[p]
    <3>1. Change(p, s, "REMOVE_SKILL", 1) \in ds
      BY <1>5, <2>4
    <3>2. s \in eff <=> "REMOVE_SKILL" = "ADD_SKILL"
      BY <2>1, <2>2, <3>1
    <3> QED BY <2>4, <3>2 DEF eff
  <2>5. CASE s \in Blueprint[p] <=> s \in own
    <3>1. ASSUME NEW c \in ds PROVE ~(c.profile = p /\ c.skill = s)
      BY <1>4, <2>5, <3>1
    <3>2. Changes(ds, p, s) = {}
      BY <3>1 DEF Changes
    <3> QED BY <2>1, <2>5, <3>2 DEF eff
  <2> QED BY <2>3, <2>4, <2>5 DEF eff
<1>7. Effective(ds, p, as[p]) = Blueprint[p]
  BY <1>1, <1>6, EffectiveType
<1> QED BY <1>2, <1>7 DEF ds

-----------------------------------------------------------------------------
\* The changesets.

LEMMA SavedSingles ==
  ASSUME ChangesetsInv, NEW t \in Tabs, NEW ds \in SUBSET AllChanges, Singles(ds), Save(t, ds)
  PROVE  ChangesetsInv'
BY DEF ChangesetsInv, Save

LEMMA ChangesetsStep ==
  ASSUME DraftsInv, [Next]_vars
  PROVE  ChangesetsInv'
<1>1. ChangesetsInv
  BY DEF DraftsInv
<1>2. ASSUME UNCHANGED <<stored, drafts, refused>> PROVE ChangesetsInv'
  BY <1>1, <1>2 DEF ChangesetsInv
<1>3. {} \in SUBSET AllChanges /\ Singles({})
  BY DEF Singles
<1>4. ASSUME NEW t \in Tabs, NEW p \in Profiles, NEW s \in Skills, AddSkill(t, p, s) \/ RemoveSkill(t, p, s)
      PROVE  ChangesetsInv'
  BY <1>1, <1>4, AddStages, RemoveStages, SavedSingles
<1>5. ASSUME NEW t \in Tabs, NEW p \in Profiles, DiscardProfile(t, p) PROVE ChangesetsInv'
  <2>1. drafts[t] \ OfProfile(drafts[t], p) \in SUBSET AllChanges
    BY <1>1 DEF ChangesetsInv
  <2>2. Singles(drafts[t] \ OfProfile(drafts[t], p))
    BY <1>1 DEF ChangesetsInv, Singles
  <2> QED BY <1>1, <1>5, <2>1, <2>2, SavedSingles DEF DiscardProfile
<1>6. ASSUME NEW t \in Tabs, DiscardAll(t) PROVE ChangesetsInv'
  BY <1>1, <1>3, <1>6, SavedSingles DEF DiscardAll
<1>7. ASSUME NEW t \in Tabs, StageBlueprint(t) PROVE ChangesetsInv'
  <2>1. agents[t] \in AgentLists
    BY DEF DraftsInv, PagesInv
  <2> QED BY <1>1, <1>7, <2>1, BlueprintSingles, SavedSingles DEF StageBlueprint
<1>8. ASSUME NEW a \in applies, Proceed(a) PROVE ChangesetsInv'
  <2>1. a.tab \in Tabs
    BY DEF DraftsInv, LoopsInv, Loops
  <2> QED BY <1>1, <1>2, <1>3, <1>8, <2>1, SavedSingles DEF Proceed
<1>9. ASSUME NEW t \in Tabs, Reload(t) PROVE ChangesetsInv'
  BY <1>1, <1>9 DEF Reload, ChangesetsInv
<1> QED
  BY <1>2, <1>4, <1>5, <1>6, <1>7, <1>8, <1>9
  DEF Next, Operator, Loop, Apply, Show, LoadAgents, Serve, Lose, Quiet, vars

-----------------------------------------------------------------------------
\* The pages.

LEMMA MatrixType ==
  ASSUME DraftsInv, NEW t \in Tabs, NEW as \in AgentLists
  PROVE  MatrixOf(t, as) \in AgentLists
BY EffectiveType DEF MatrixOf, AgentLists

LEMMA NotLoadedType == NotLoaded \in AgentLists /\ SkillSets \subseteq AgentLists
BY DEF AgentLists, SkillSets

LEMMA PagesStep ==
  ASSUME DraftsInv, [Next]_vars
  PROVE  PagesInv'
<1>1. PagesInv
  BY DEF DraftsInv
<1> USE DEF PagesInv
<1>2. ASSUME UNCHANGED <<server, agents, page, begun>> PROVE PagesInv'
  BY <1>1, <1>2 DEF page
<1>3. ASSUME NEW t \in Tabs, NEW v \in Views, Show(t, v) PROVE PagesInv'
  <2>1. v \in {"profile", "matrix", "away", "closed"}
    BY InstanceAssumption
  <2>2. MatrixOf(t, agents[t]) \in AgentLists
    BY <1>1, MatrixType
  <2>3. matrix' \in [Tabs -> AgentLists]
    BY <1>1, <1>3, <2>2, NotLoadedType DEF Show
  <2>4. view' \in [Tabs -> {"profile", "matrix", "away", "closed"}]
    BY <1>1, <1>3, <2>1 DEF Show
  <2>5. applying' \in [Tabs -> BOOLEAN]
    BY <1>1, <1>3 DEF Show
  <2> QED BY <1>1, <1>3, <2>3, <2>4, <2>5 DEF Show, Quiet
<1>4. ASSUME NEW t \in Tabs, LoadAgents(t) PROVE PagesInv'
  <2>1. server \in AgentLists /\ MatrixOf(t, server) \in AgentLists
    BY <1>1, MatrixType, NotLoadedType
  <2> QED BY <1>1, <1>4, <2>1, NotLoadedType DEF LoadAgents
<1>5. ASSUME NEW t \in Tabs, Apply(t) PROVE PagesInv'
  BY <1>1, <1>5 DEF Apply
<1>6. ASSUME NEW a \in applies, NEW x \in Answers, Serve(a, x) PROVE PagesInv'
  <2>1. Body(a) \in SUBSET Skills
    BY EffectiveType DEF Body
  <2>2. server' \in SkillSets
    BY <1>1, <1>6, <2>1 DEF Serve, SkillSets
  <2> QED BY <1>1, <1>6, <2>2 DEF Serve, page
<1>7. ASSUME NEW a \in applies, Proceed(a) \/ Lose(a) PROVE PagesInv'
  BY <1>1, <1>7 DEF Proceed, Lose
<1>8. ASSUME NEW t \in Tabs, Reload(t) PROVE PagesInv'
  BY <1>1, <1>8, NotLoadedType DEF Reload
<1> QED
  BY <1>2, <1>3, <1>4, <1>5, <1>6, <1>7, <1>8
  DEF Next, Operator, Loop, AddSkill, RemoveSkill, DiscardProfile, DiscardAll, StageBlueprint,
      Quiet, vars, page

-----------------------------------------------------------------------------
\* The loops of Apply.

\* What becomes of the loops in each step.
LEMMA LoopSteps ==
  ASSUME DraftsInv, [Next]_vars
  PROVE  \/ applies' \subseteq applies /\ UNCHANGED server
         \/ \E t \in Tabs : Apply(t)
         \/ \E a \in applies, x \in Answers : Serve(a, x)
         \/ \E a \in applies : Proceed(a) /\ a.left # {}
<1>1. ASSUME NEW a \in applies, Proceed(a), a.left = {} PROVE applies' \subseteq applies /\ UNCHANGED server
  BY <1>1 DEF Proceed, Others
<1>2. ASSUME NEW a \in applies, Lose(a) PROVE applies' \subseteq applies /\ UNCHANGED server
  BY <1>2 DEF Lose, Others
<1>3. ASSUME NEW t \in Tabs, Reload(t) PROVE applies' \subseteq applies /\ UNCHANGED server
  BY <1>3 DEF Reload
<1> QED
  BY <1>1, <1>2, <1>3 DEF Next, Operator, Loop, AddSkill, RemoveSkill, DiscardProfile, DiscardAll,
     StageBlueprint, Show, LoadAgents, Quiet, vars

LoopOK(a) == a \in Loops /\ Singles(a.batch)

\* The loop an Apply begins, and the one a step makes of a loop.
Begun(t, p) ==
  [n |-> begun + 1, tab |-> t, batch |-> drafts[t], base |-> agents[t], at |-> p,
   left |-> {c.profile : c \in drafts[t]} \ {p}, st |-> "sent", alone |-> applies = {}]
Answered(a) == [a EXCEPT !.st = "answered"]
Onward(a, p) == [a EXCEPT !.at = p, !.left = @ \ {p}, !.st = "sent"]
Company(a) == [a EXCEPT !.alone = FALSE]

LEMMA BegunLoop ==
  ASSUME DraftsInv, NEW t \in Tabs, Apply(t)
  PROVE  \E p \in Profiles : /\ LoopOK(Begun(t, p))
                             /\ applies' = {Company(a) : a \in applies} \cup {Begun(t, p)}
                             /\ UNCHANGED server
<1>1. PICK p \in {c.profile : c \in drafts[t]} :
        applies' = {Company(a) : a \in applies} \cup {Begun(t, p)}
  BY Zenon DEF Apply, Begun, Company
<1>2. drafts[t] \in SUBSET AllChanges /\ Singles(drafts[t]) /\ agents[t] \in AgentLists /\ begun \in Nat
  BY DEF DraftsInv, ChangesetsInv, PagesInv
<1>3. {c.profile : c \in drafts[t]} \subseteq Profiles
  BY <1>2 DEF AllChanges
<1>4. /\ begun + 1 \in Nat /\ p \in Profiles /\ {c.profile : c \in drafts[t]} \ {p} \in SUBSET Profiles
      /\ (applies = {}) \in BOOLEAN
  BY <1>1, <1>2, <1>3
<1>5. Begun(t, p) \in Loops /\ Begun(t, p).batch = drafts[t]
  BY <1>2, <1>4 DEF Begun, Loops
<1> QED BY <1>1, <1>2, <1>4, <1>5 DEF LoopOK, Apply

LEMMA LoopUpdates ==
  ASSUME NEW a, LoopOK(a)
  PROVE  /\ LoopOK(Answered(a)) /\ LoopOK(Company(a)) /\ \A p \in Profiles : LoopOK(Onward(a, p))
         /\ Answered(a).batch = a.batch /\ Answered(a).alone = a.alone
         /\ Answered(a).at = a.at /\ Answered(a).left = a.left /\ Answered(a).st = "answered"
         /\ ~Company(a).alone
         /\ \A p \in Profiles :
              /\ Onward(a, p).batch = a.batch /\ Onward(a, p).alone = a.alone
              /\ Onward(a, p).at = p /\ Onward(a, p).left = a.left \ {p} /\ Onward(a, p).st = "sent"
BY DEF LoopOK, Loops, Answered, Company, Onward

LEMMA LoopsStep ==
  ASSUME DraftsInv, [Next]_vars
  PROVE  LoopsInv'
<1>1. \A a \in applies : LoopOK(a)
  BY DEF DraftsInv, LoopsInv, LoopOK
<1> SUFFICES ASSUME NEW b \in applies' PROVE LoopOK(b)
  BY DEF LoopsInv, LoopOK
<1>2. ASSUME NEW t \in Tabs, Apply(t) PROVE LoopOK(b)
  BY <1>1, <1>2, BegunLoop, LoopUpdates
<1>3. ASSUME NEW a \in applies, NEW x \in Answers, Serve(a, x) PROVE LoopOK(b)
  BY <1>1, <1>3, LoopUpdates DEF Serve, Answered, Others
<1>4. ASSUME NEW a \in applies, Proceed(a), a.left # {} PROVE LoopOK(b)
  <2>1. PICK p \in a.left : applies' = Others(a) \cup {Onward(a, p)}
    BY <1>4 DEF Proceed, Onward
  <2>2. p \in Profiles
    BY <1>1, <2>1 DEF LoopOK, Loops
  <2> QED BY <1>1, <2>1, <2>2, LoopUpdates DEF Others
<1> QED BY <1>1, <1>2, <1>3, <1>4, LoopSteps

LEMMA DraftsInitInv == ASSUME Init PROVE DraftsInv /\ AloneInv /\ WrittenInv
BY SkillsAssumption, NotLoadedType
DEF Init, DraftsInv, ChangesetsInv, PagesInv, LoopsInv, AloneInv, WrittenInv, Singles, SkillSets

\* Changesets keep one change per skill and everything its type, whatever the
\* tabs, their loops of Apply and the agent lists that arrive do.
THEOREM DraftsInvariance == Spec => []DraftsInv
<1>1. Init => DraftsInv
  BY DraftsInitInv
<1>2. DraftsInv /\ [Next]_vars => DraftsInv'
  BY ChangesetsStep, PagesStep, LoopsStep DEF DraftsInv
<1> QED BY <1>1, <1>2, PTL DEF Spec

\* Every variable of the page, its store and the server keeps its type.
THEOREM DraftsTypeCorrect == Spec => []DraftsTypeOK
<1>1. DraftsInv => DraftsTypeOK
  BY DEF DraftsInv, ChangesetsInv, PagesInv, LoopsInv, Loops, SkillSets, DraftsTypeOK
<1> QED BY <1>1, DraftsInvariance, PTL

\* A skill of a profile is staged at most once, in every tab, also where tabs
\* overwrite each other's changes in localStorage, the agent list changes under
\* staged changes, and a blueprint replaces them.
THEOREM OneChangeHolds == Spec => []OneChangePerSkill
<1>1. DraftsInv => OneChangePerSkill
  BY DEF DraftsInv, ChangesetsInv, Singles, OneChangePerSkill
<1> QED BY <1>1, DraftsInvariance, PTL

\* What the preview of the blueprint announces is what staging it leaves, for
\* every blueprint and every agent list.
THEOREM PreviewHolds == Spec => PreviewIsStaged
<1>1. DraftsInv /\ [Next]_vars
        => [\A t \in Tabs : (StageBlueprint(t) /\ agents[t] # NotLoaded) =>
              \A p \in DOMAIN Blueprint :
                 Effective(drafts'[t], p, agents[t][p]) = Preview(p, agents[t][p])]_vars
  <2> SUFFICES ASSUME DraftsInv, NEW t \in Tabs, StageBlueprint(t), agents[t] # NotLoaded,
                      NEW p \in DOMAIN Blueprint
               PROVE  Effective(drafts'[t], p, agents[t][p]) = Preview(p, agents[t][p])
    OBVIOUS
  <2>1. agents[t] \in SkillSets /\ drafts \in [Tabs -> SUBSET AllChanges]
    BY DEF DraftsInv, PagesInv, ChangesetsInv, AgentLists, SkillSets
  <2>2. drafts'[t] = FromBlueprint(agents[t])
    BY <2>1 DEF StageBlueprint, Save
  <2> QED BY <2>1, <2>2, BlueprintPreviewed
<1> QED BY <1>1, DraftsInvariance, PTL DEF Spec, PreviewIsStaged

-----------------------------------------------------------------------------
\* What Apply has written.

LEMMA AloneStep ==
  ASSUME DraftsInv, AloneInv, [Next]_vars
  PROVE  AloneInv'
<1>1. \A a \in applies : LoopOK(a)
  BY DEF DraftsInv, LoopsInv, LoopOK
<1>2. CASE applies' \subseteq applies
  BY <1>2 DEF AloneInv
<1>3. ASSUME NEW t \in Tabs, Apply(t) PROVE AloneInv'
  <2>1. PICK p \in Profiles : applies' = {Company(a) : a \in applies} \cup {Begun(t, p)}
    BY <1>3, BegunLoop
  <2>2. \A a \in applies : ~Company(a).alone
    BY <1>1, LoopUpdates
  <2>3. Begun(t, p).alone => applies = {}
    BY DEF Begun
  <2> QED BY <2>1, <2>2, <2>3 DEF AloneInv
<1>4. ASSUME NEW a \in applies, NEW b, b.alone = a.alone, applies' = Others(a) \cup {b} PROVE AloneInv'
  BY <1>4 DEF AloneInv, Others
<1>5. ASSUME NEW a \in applies, NEW x \in Answers, Serve(a, x) PROVE AloneInv'
  <2>1. applies' = Others(a) \cup {Answered(a)} /\ Answered(a).alone = a.alone
    BY <1>1, <1>5, LoopUpdates DEF Serve, Answered
  <2> QED BY <1>4, <2>1
<1>6. ASSUME NEW a \in applies, Proceed(a), a.left # {} PROVE AloneInv'
  <2>1. PICK p \in a.left : applies' = Others(a) \cup {Onward(a, p)}
    BY <1>6 DEF Proceed, Onward
  <2>2. p \in Profiles
    BY <1>1, <2>1 DEF LoopOK, Loops
  <2>3. Onward(a, p).alone = a.alone
    BY <1>1, <2>2, LoopUpdates
  <2> QED BY <1>4, <2>1, <2>3
<1> QED BY <1>2, <1>3, <1>5, <1>6, LoopSteps

\* A write puts every change of its profile on the server.
LEMMA BodyHolds ==
  ASSUME NEW a, LoopOK(a), NEW c \in a.batch, c.profile = a.at
  PROVE  (c.skill \in Body(a)) = (c.action = "ADD_SKILL")
<1>1. a.batch \in SUBSET AllChanges /\ Singles(a.batch) /\ c.skill \in Skills
  BY DEF LoopOK, Loops, AllChanges
<1> QED BY <1>1, EffectiveSingles DEF Body

LEMMA WrittenStep ==
  ASSUME Answers \subseteq {"ok"}, DraftsInv, AloneInv, WrittenInv, [Next]_vars
  PROVE  WrittenInv'
<1>1. \A a \in applies : LoopOK(a)
  BY DEF DraftsInv, LoopsInv, LoopOK
<1>2. CASE applies' \subseteq applies /\ UNCHANGED server
  BY <1>2 DEF WrittenInv, Holds
<1>3. ASSUME NEW t \in Tabs, Apply(t) PROVE WrittenInv'
  <2>1. PICK p \in Profiles : applies' = {Company(a) : a \in applies} \cup {Begun(t, p)}
    BY <1>3, BegunLoop
  <2>2. \A a \in applies : ~Company(a).alone
    BY <1>1, LoopUpdates
  <2>3. ASSUME NEW c \in Begun(t, p).batch PROVE ~Passed(Begun(t, p), c.profile)
    BY DEF Begun, Passed
  <2> QED BY <2>1, <2>2, <2>3 DEF WrittenInv
<1>4. ASSUME NEW a \in applies, NEW x \in Answers, Serve(a, x) PROVE WrittenInv'
  <2>1. applies' = Others(a) \cup {Answered(a)} /\ server' = [server EXCEPT ![a.at] = Body(a)]
    BY <1>4 DEF Serve, Answered
  <2>2. server \in SkillSets /\ a.at \in Profiles /\ LoopOK(a)
    BY <1>1 DEF DraftsInv, PagesInv, LoopOK, Loops
  <2>3. ASSUME NEW b \in Others(a) PROVE ~b.alone
    BY <2>3 DEF AloneInv, Others
  <2>4. ASSUME a.alone, NEW c \in a.batch, Passed(Answered(a), c.profile) PROVE Holds(c)'
    <3>1. c.profile \in Profiles
      BY <2>2 DEF LoopOK, Loops, AllChanges
    <3>2. CASE c.profile = a.at
      BY <2>1, <2>2, <3>2, BodyHolds DEF Holds, SkillSets
    <3>3. CASE c.profile # a.at
      <4>1. Passed(a, c.profile)
        BY <2>2, <2>4, <3>3, LoopUpdates DEF Passed
      <4>2. Holds(c)
        BY <2>4, <4>1 DEF WrittenInv
      <4> QED BY <2>1, <2>2, <3>1, <3>3, <4>2 DEF Holds, SkillSets
    <3> QED BY <3>2, <3>3
  <2> QED BY <2>1, <2>2, <2>3, <2>4, LoopUpdates DEF WrittenInv
<1>5. ASSUME NEW a \in applies, Proceed(a), a.left # {} PROVE WrittenInv'
  <2>1. PICK p \in a.left : applies' = Others(a) \cup {Onward(a, p)}
    BY <1>5 DEF Proceed, Onward
  <2>2. p \in Profiles /\ LoopOK(a) /\ a.st = "answered" /\ UNCHANGED server
    BY <1>1, <1>5, <2>1 DEF LoopOK, Loops, Proceed
  <2>3. ASSUME NEW c \in a.batch, Passed(Onward(a, p), c.profile) PROVE Passed(a, c.profile)
    BY <2>2, <2>3, LoopUpdates DEF Passed
  <2> QED BY <2>1, <2>2, <2>3, LoopUpdates DEF WrittenInv, Others, Holds
<1> QED BY <1>2, <1>3, <1>4, <1>5, LoopSteps

\* Where no write is refused, a changeset announced as applied holds on the
\* server, change by change, unless another Apply ran beside it: whatever is
\* staged, discarded, reloaded or fetched while its loop runs, and however many
\* loops were lost half way before it.
THEOREM AppliedHolds == ASSUME Answers \subseteq {"ok"} PROVE Spec => AppliedMeansWritten
<1>1. Init => AloneInv /\ WrittenInv
  BY DraftsInitInv
<1>2. DraftsInv /\ AloneInv /\ WrittenInv /\ [Next]_vars => AloneInv' /\ WrittenInv'
  BY AloneStep, WrittenStep
<1>3. WrittenInv /\ [Next]_vars
        => [\A a \in applies : (Proceed(a) /\ a.left = {} /\ a.alone) =>
              \A c \in a.batch :
                 (c.skill \in server[c.profile]) = (c.action = "ADD_SKILL")]_vars
  BY DEF WrittenInv, Passed, Holds, Proceed
<1> QED BY <1>1, <1>2, <1>3, DraftsInvariance, PTL DEF Spec, AppliedMeansWritten

\* Staging does what the preview announced, and Apply what was staged.
THEOREM ChangesKept == ASSUME Answers \subseteq {"ok"} PROVE Spec => ChangesAreKept
BY PreviewHolds, AppliedHolds DEF ChangesAreKept

-----------------------------------------------------------------------------
\* The schedule page.

\* The ids of items are numbers; a list has the defaults and more.
Ids == 1..MaxWrites
Lists == {list \in UNION {[S -> Items] : S \in SUBSET Ids} : DOMAIN Defaults \subseteq DOMAIN list}

Forms ==
  [of : Ids \cup {Closed}, item : Items \cup {Closed}, titled : BOOLEAN,
   agent : Agents \cup {NoAgent}, date : Int, time : 0..SlotsPerDay - 1,
   until : 0..SlotsPerDay - 1 \cup {NoEnd}]

\* An item is remembered with its id by the form that was filled from it.
FormOK(f) == f \in Forms /\ (f.of # Closed => f.item \in Items)

\* A tab that is not adrift shows what a reload would load.
ShownInv ==
  /\ adrift \subseteq Windows
  /\ \A t \in Windows \ adrift : items[t] = Load(saved)

SchedulesInv ==
  /\ items \in [Windows -> Lists]
  /\ saved = Closed \/ saved \in Lists
  /\ \A t \in Windows : form[t] = Closed \/ FormOK(form[t])
  /\ DOMAIN form = Windows
  /\ clock \in 0..MaxWrites
  /\ ShownInv

-----------------------------------------------------------------------------
\* Lists.

LEMMA ListType ==
  ASSUME NEW list
  PROVE  list \in Lists <=> /\ list \in [DOMAIN list -> Items]
                            /\ DOMAIN list \subseteq Ids /\ DOMAIN Defaults \subseteq DOMAIN list
BY DEF Lists

LEMMA DefaultsList == Defaults \in Lists
<1>1. DOMAIN Defaults \subseteq Ids
  BY CalendarAssumption DEF Ids
<1> QED BY <1>1, ListType, ItemsAssumption

LEMMA WithList ==
  ASSUME NEW list \in Lists, NEW id \in Ids, NEW i \in Items
  PROVE  With(list, id, i) \in Lists
<1>1. DOMAIN With(list, id, i) = DOMAIN list \cup {id}
  BY DEF With
<1>2. \A j \in DOMAIN list \cup {id} : With(list, id, i)[j] \in Items
  BY ListType DEF With
<1>3. With(list, id, i) \in [DOMAIN list \cup {id} -> Items]
  BY <1>2 DEF With
<1> QED BY <1>1, <1>3, ListType

LEMMA ListNotClosed == ASSUME NEW list \in Lists PROVE list # Closed
BY ItemsAssumption DEF Lists, Ids

LEMMA LoadList ==
  ASSUME NEW list, list = Closed \/ list \in Lists
  PROVE  Load(list) \in Lists /\ (list # Closed => Load(list) = list)
<1>1. ASSUME list \in Lists, DOMAIN list = {} PROVE list = Defaults
  <2>1. DOMAIN Defaults = {} /\ list \in [{} -> Items] /\ Defaults \in [{} -> Items]
    BY <1>1, ListType, DefaultsList
  <2> QED BY <2>1
<1> QED BY <1>1, DefaultsList DEF Load

-----------------------------------------------------------------------------
\* Forms.

LEMMA SlotsOfDay ==
  /\ SlotsPerDay \in Nat \ {0}
  /\ \A x \in Int : x % SlotsPerDay \in 0..SlotsPerDay - 1 /\ x \div SlotsPerDay \in Int
BY CalendarAssumption

LEMMA FirstAgentType == FirstAgent \in Agents \cup {NoAgent}
BY DEF FirstAgent

LEMMA EmptyFormOK ==
  ASSUME NEW g \in Agents \cup {NoAgent}
  PROVE  FormOK(EmptyForm(g))
<1>1. Today \in Int
  BY CalendarAssumption
<1> QED BY <1>1, SlotsOfDay DEF EmptyForm, FormOK, Forms, TenOClock

LEMMA FormOfOK ==
  ASSUME NEW id \in Ids, NEW i \in Items, NEW until \in 0..SlotsPerDay - 1 \cup {NoEnd}
  PROVE  FormOK(FormOf(id, i, until))
<1>1. i.start \in Int /\ i.end \in Int \cup {NoEnd} /\ i.agent \in Agents \cup {NoAgent}
  BY DEF Items
<1>2. Offset \in Int
  BY CalendarAssumption
<1>3. \A x \in Int : Local(x) \in 0..SlotsPerDay - 1
  BY <1>2, SlotsOfDay DEF Local
<1>4. DateOf(i) \in Int
  BY <1>1, SlotsOfDay DEF DateOf
<1>5. (IF i.end = NoEnd THEN until ELSE Local(i.end)) \in 0..SlotsPerDay - 1 \cup {NoEnd}
  BY <1>1, <1>3
<1> QED BY <1>1, <1>3, <1>4, <1>5 DEF FormOf, FormOK, Forms

LEMMA FilledItem ==
  ASSUME NEW f \in Forms
  PROVE  Filled(f) \in Items
<1>1. f.date * SlotsPerDay + f.time \in Int
  BY SlotsOfDay DEF Forms
<1>2. f.until # NoEnd => f.date * SlotsPerDay + f.until \in Int
  BY SlotsOfDay DEF Forms
<1>3. f.agent \in Agents \cup {NoAgent}
  BY DEF Forms
<1> QED BY <1>1, <1>2, <1>3 DEF Filled, Items

LEMMA TypedForm ==
  ASSUME NEW f, FormOK(f), NEW e \in Entries
  PROVE  FormOK([of |-> f.of, item |-> f.item, titled |-> TRUE, agent |-> e.agent,
                 date |-> e.date, time |-> e.time, until |-> e.until])
<1>1. /\ f.of \in Ids \cup {Closed} /\ f.item \in Items \cup {Closed}
      /\ f.of # Closed => f.item \in Items
  BY DEF FormOK, Forms
<1>2. e.agent \in Agents \cup {NoAgent} /\ e.date \in Int /\ e.time \in 0..SlotsPerDay - 1
      /\ e.until \in 0..SlotsPerDay - 1 \cup {NoEnd}
  BY ItemsAssumption
<1> QED BY <1>1, <1>2 DEF FormOK, Forms

-----------------------------------------------------------------------------
\* The steps.

LEMMA KeepStep ==
  ASSUME SchedulesInv, NEW t \in Windows, NEW list \in Lists, Keep(t, list)
  PROVE  /\ items' \in [Windows -> Lists] /\ (saved' = Closed \/ saved' \in Lists)
         /\ ShownInv' /\ items'[t] = list
<1>1. items' = [items EXCEPT ![t] = list] /\ items' \in [Windows -> Lists]
  BY DEF SchedulesInv, Keep
<1>2. CASE saved' = list /\ adrift' = Windows \ {t}
  <2>1. Load(list) = list
    BY LoadList, ListNotClosed
  <2> QED BY <1>1, <1>2, <2>1 DEF SchedulesInv, ShownInv
<1>3. CASE UNCHANGED saved /\ adrift' = adrift \cup {t}
  BY <1>1, <1>3 DEF SchedulesInv, ShownInv
<1> QED BY <1>1, <1>2, <1>3 DEF Keep

LEMMA SchedulesStart == ASSUME SchedulesInit PROVE SchedulesInv
<1>1. IsFiniteSet(DOMAIN Defaults)
  <2>1. IsFiniteSet(1..MaxWrites)
    BY CalendarAssumption, FS_Interval
  <2> QED BY <2>1, CalendarAssumption, FS_Subset
<1>2. Cardinality(DOMAIN Defaults) \in 0..MaxWrites
  <2>1. IsFiniteSet(1..MaxWrites) /\ Cardinality(1..MaxWrites) = MaxWrites
    BY CalendarAssumption, FS_Interval
  <2>2. Cardinality(DOMAIN Defaults) <= Cardinality(1..MaxWrites)
    BY <2>1, CalendarAssumption, FS_Subset
  <2>3. Cardinality(DOMAIN Defaults) \in Nat
    BY <1>1, FS_CardinalityType
  <2> QED BY <2>1, <2>2, <2>3, CalendarAssumption
<1> QED
  BY <1>2, DefaultsList DEF SchedulesInit, SchedulesInv, ShownInv, Load

\* What SaveForm writes.
SavedList(t) ==
  CASE form[t].of = Closed -> With(items[t], clock', Filled(form[t]))
    [] form[t].of \in DOMAIN items[t] -> With(items[t], form[t].of, Filled(form[t]))
    [] OTHER -> items[t]

LEMMA SavedListType ==
  ASSUME SchedulesInv, NEW t \in Windows, SaveForm(t)
  PROVE  SavedList(t) \in Lists /\ Keep(t, SavedList(t)) /\ clock' \in Ids
<1>1. items[t] \in Lists /\ form[t] # Closed /\ FormOK(form[t]) /\ clock' \in Ids
  BY CalendarAssumption DEF SchedulesInv, SaveForm, Ids
<1>2. Filled(form[t]) \in Items /\ DOMAIN items[t] \subseteq Ids
  BY <1>1, FilledItem, ListType DEF FormOK
<1>3. CASE form[t].of = Closed
  <2>1. form[t].of \notin DOMAIN items[t]
    BY <1>2, <1>3, ItemsAssumption DEF Ids
  <2>2. SavedList(t) = With(items[t], clock', Filled(form[t]))
    BY <1>3, <2>1, Zenon DEF SavedList
  <2>3. With(items[t], clock', Filled(form[t])) \in Lists
    BY <1>1, <1>2, WithList
  <2> QED BY <1>1, <2>2, <2>3, Zenon DEF SaveForm, SavedList
<1>4. CASE form[t].of # Closed /\ form[t].of \in DOMAIN items[t]
  <2>1. SavedList(t) = With(items[t], form[t].of, Filled(form[t]))
    BY <1>4, Zenon DEF SavedList
  <2>2. With(items[t], form[t].of, Filled(form[t])) \in Lists
    BY <1>1, <1>2, <1>4, WithList
  <2> QED BY <1>1, <2>1, <2>2, Zenon DEF SaveForm, SavedList
<1>5. CASE form[t].of # Closed /\ form[t].of \notin DOMAIN items[t]
  <2>1. SavedList(t) = items[t]
    BY <1>5, Zenon DEF SavedList
  <2> QED BY <1>1, <2>1, Zenon DEF SaveForm, SavedList
<1> QED BY <1>3, <1>4, <1>5

LEMMA SchedulesStep ==
  ASSUME SchedulesInv, [SchedulesNext]_schedulesVars
  PROVE  SchedulesInv'
<1> USE DEF SchedulesInv
<1>1. ASSUME UNCHANGED <<saved, items, clock, adrift>>, DOMAIN form' = Windows,
             \A t \in Windows : form'[t] = Closed \/ form'[t] = form[t] \/ FormOK(form'[t])
      PROVE  SchedulesInv'
  <2>1. \A t \in Windows : form'[t] = Closed \/ FormOK(form'[t])
    BY <1>1
  <2>2. ShownInv'
    BY <1>1 DEF ShownInv, Load
  <2> QED BY <1>1, <2>1, <2>2
<1>2. ASSUME UNCHANGED <<saved, items, form, clock, adrift>> PROVE SchedulesInv'
  BY <1>1, <1>2
<1>3. ASSUME NEW t \in Windows, NEW f, f = Closed \/ FormOK(f), form' = [form EXCEPT ![t] = f],
             UNCHANGED <<saved, items, clock, adrift>>
      PROVE  SchedulesInv'
  BY <1>1, <1>3
<1>4. ASSUME NEW t \in Windows, Duplicate(t) PROVE SchedulesInv'
  <2>1. items[t] \in Lists /\ selected[t] \in DOMAIN items[t] /\ clock' \in Ids
    BY <1>4, CalendarAssumption DEF Duplicate, DetailOpen, Ids
  <2>2. items[t][selected[t]] \in Items
    BY <2>1, ListType
  <2>3. With(items[t], clock', items[t][selected[t]]) \in Lists
    BY <2>1, <2>2, WithList
  <2> QED BY <1>4, <2>1, <2>3, KeepStep DEF Duplicate, Ids
<1>5. ASSUME NEW t \in Windows, EditDraft(t) PROVE SchedulesInv'
  <2>1. items[t] \in Lists /\ selected[t] \in DOMAIN items[t]
    BY <1>5 DEF EditDraft, DetailOpen
  <2>2. selected[t] \in Ids /\ items[t][selected[t]] \in Items
    BY <2>1, ListType
  <2>3. TenOClock \in 0..SlotsPerDay - 1
    BY SlotsOfDay DEF TenOClock
  <2> QED BY <1>3, <1>5, <2>2, <2>3, FormOfOK DEF EditDraft
<1>6. ASSUME NEW t \in Windows, CreateNew(t) PROVE SchedulesInv'
  <2>1. PICK g \in {FirstAgent, NoAgent} : form' = [form EXCEPT ![t] = EmptyForm(g)]
    BY <1>6 DEF CreateNew
  <2>2. FormOK(EmptyForm(g))
    BY <2>1, FirstAgentType, EmptyFormOK
  <2> QED BY <1>3, <1>6, <2>1, <2>2 DEF CreateNew
<1>7. ASSUME NEW t \in Windows, NEW e \in Entries, Fill(t, e) PROVE SchedulesInv'
  <2>1. FormOK(form[t])
    BY <1>7 DEF Fill
  <2> QED BY <1>3, <1>7, <2>1, TypedForm DEF Fill
<1>8. ASSUME NEW t \in Windows, AgentsChange(t) PROVE SchedulesInv'
  <2>1. FormOK(form[t])
    BY <1>8 DEF AgentsChange
  <2>2. form[t].of # Closed => FormOK(FormOf(form[t].of, form[t].item, form[t].until))
    BY <2>1, FormOfOK DEF FormOK, Forms
  <2>3. FormOK(EmptyForm(FirstAgent))
    BY FirstAgentType, EmptyFormOK
  <2>4. form' = [form EXCEPT ![t] = IF form[t].of # Closed THEN FormOf(form[t].of, form[t].item, form[t].until)
                                    ELSE EmptyForm(FirstAgent)]
    BY <1>8 DEF AgentsChange
  <2> QED BY <1>3, <1>8, <2>2, <2>3, <2>4 DEF AgentsChange
<1>9. ASSUME NEW t \in Windows, CloseEditor(t) PROVE SchedulesInv'
  BY <1>3, <1>9 DEF CloseEditor
<1>10. ASSUME NEW t \in Windows, SaveForm(t) PROVE SchedulesInv'
  <2>1. /\ items' \in [Windows -> Lists] /\ (saved' = Closed \/ saved' \in Lists)
        /\ ShownInv' /\ clock' \in Ids
    BY <1>10, SavedListType, KeepStep DEF Ids
  <2>2. form' = [form EXCEPT ![t] = Closed]
    BY <1>10 DEF SaveForm
  <2> QED BY <2>1, <2>2 DEF Ids
<1>11. ASSUME NEW t \in Windows, ReloadPage(t) PROVE SchedulesInv'
  <2>1. Load(saved) \in Lists /\ (saved # Closed => Load(saved) = saved)
    BY LoadList
  <2>2. items' \in [Windows -> Lists] /\ items'[t] = Load(saved) /\ UNCHANGED <<saved, clock>>
    BY <1>11, <2>1 DEF ReloadPage
  <2>3. ShownInv'
    BY <1>11, <2>1, <2>2 DEF ShownInv, ReloadPage, Load
  <2>4. form' = [form EXCEPT ![t] = Closed]
    BY <1>11 DEF ReloadPage
  <2> QED BY <2>2, <2>3, <2>4
<1> QED
  BY <1>2, <1>4, <1>5, <1>6, <1>7, <1>8, <1>9, <1>10, <1>11
  DEF SchedulesNext, SetMode, SetDate, Select, CloseDetail, schedulesVars

\* Lists stay lists of items with the defaults in them, open forms stay filled, and a
\* tab shows what is stored unless its write failed or another tab wrote after it.
THEOREM SchedulesInvariance == SchedulesSpec => []SchedulesInv
<1>1. SchedulesInit => SchedulesInv
  BY SchedulesStart
<1>2. SchedulesInv /\ [SchedulesNext]_schedulesVars => SchedulesInv'
  BY SchedulesStep
<1> QED BY <1>1, <1>2, PTL DEF SchedulesSpec

\* What Duplicate and SaveForm write is the tab's list or more.
LEMMA KeptList ==
  ASSUME SchedulesInv, NEW t \in Windows, Duplicate(t) \/ SaveForm(t)
  PROVE  \E list \in Lists : Keep(t, list) /\ DOMAIN items[t] \subseteq DOMAIN list
<1>1. CASE Duplicate(t)
  <2>1. items[t] \in Lists /\ selected[t] \in DOMAIN items[t] /\ clock' \in Ids
    BY <1>1, CalendarAssumption DEF SchedulesInv, Duplicate, DetailOpen, Ids
  <2>2. With(items[t], clock', items[t][selected[t]]) \in Lists
    BY <2>1, ListType, WithList
  <2> QED BY <1>1, <2>2 DEF Duplicate, With
<1>2. CASE SaveForm(t)
  <2>1. SavedList(t) \in Lists /\ Keep(t, SavedList(t))
    BY <1>2, SavedListType
  <2>2. \/ SavedList(t) = With(items[t], clock', Filled(form[t]))
        \/ SavedList(t) = With(items[t], form[t].of, Filled(form[t]))
        \/ SavedList(t) = items[t]
    <3>1. CASE form[t].of = Closed
      <4>1. form[t].of \notin DOMAIN items[t]
        BY <3>1, ListType, ItemsAssumption DEF SchedulesInv, Ids
      <4> QED BY <3>1, <4>1, Zenon DEF SavedList
    <3>2. CASE form[t].of # Closed /\ form[t].of \in DOMAIN items[t]
      BY <3>2, Zenon DEF SavedList
    <3>3. CASE form[t].of # Closed /\ form[t].of \notin DOMAIN items[t]
      BY <3>3, Zenon DEF SavedList
    <3> QED BY <3>1, <3>2, <3>3
  <2>3. DOMAIN items[t] \subseteq DOMAIN SavedList(t)
    BY <2>2 DEF With
  <2> QED BY <2>1, <2>3
<1> QED BY <1>1, <1>2

\* A tab whose writes succeed, and after which no other tab wrote, shows the same items
\* after a reload and drops none that is stored, however many tabs there are, whatever
\* they do in whatever order, and whichever writes localStorage refuses.
THEOREM NothingLost == SchedulesSpec => NothingIsLostAlone
<1>1. SchedulesInv /\ [SchedulesNext]_schedulesVars
        => [\A t \in Windows \ adrift :
              /\ ReloadPage(t) => items'[t] = items[t]
              /\ (Duplicate(t) \/ SaveForm(t)) /\ saved # Closed =>
                    DOMAIN saved \subseteq DOMAIN saved']_schedulesVars
  <2> SUFFICES ASSUME SchedulesInv, NEW t \in Windows \ adrift
               PROVE  /\ ReloadPage(t) => items'[t] = items[t]
                      /\ (Duplicate(t) \/ SaveForm(t)) /\ saved # Closed =>
                            DOMAIN saved \subseteq DOMAIN saved'
    OBVIOUS
  <2>1. items[t] = Load(saved)
    BY DEF SchedulesInv, ShownInv
  <2>2. ReloadPage(t) => items'[t] = items[t]
    BY <2>1 DEF SchedulesInv, ReloadPage
  <2>3. ASSUME Duplicate(t) \/ SaveForm(t), saved # Closed
        PROVE  DOMAIN saved \subseteq DOMAIN saved'
    <3>1. items[t] = saved
      BY <2>1, <2>3, LoadList DEF SchedulesInv
    <3>2. PICK list \in Lists : Keep(t, list) /\ DOMAIN items[t] \subseteq DOMAIN list
      BY <2>3, KeptList
    <3> QED BY <3>1, <3>2 DEF Keep
  <2> QED BY <2>2, <2>3
<1> QED BY <1>1, SchedulesInvariance, PTL DEF SchedulesSpec, NothingIsLostAlone

-----------------------------------------------------------------------------
\* Conflicts.

LEMMA OverlapShares ==
  ASSUME NEW a \in Items, NEW b \in Items, Slots(a) # {}, Slots(b) # {}
  PROVE  Overlap(a, b) <=> Slots(a) \cap Slots(b) # {}
<1>1. a.start \in Int /\ b.start \in Int /\ Ends(a) \in Int /\ Ends(b) \in Int
  BY ItemsAssumption DEF Items, Ends
<1>2. a.start < Ends(a) /\ b.start < Ends(b)
  BY <1>1 DEF Slots
<1>3. ASSUME Overlap(a, b) PROVE Slots(a) \cap Slots(b) # {}
  <2>1. CASE a.start <= b.start
    <3>1. b.start \in Slots(a) \cap Slots(b)
      BY <1>1, <1>2, <1>3, <2>1 DEF Slots, Overlap
    <3> QED BY <3>1
  <2>2. CASE b.start < a.start
    <3>1. a.start \in Slots(a) \cap Slots(b)
      BY <1>1, <1>2, <1>3, <2>2 DEF Slots, Overlap
    <3> QED BY <3>1
  <2> QED BY <1>1, <2>1, <2>2
<1>4. ASSUME NEW x \in Slots(a) \cap Slots(b) PROVE Overlap(a, b)
  BY <1>1, <1>4 DEF Slots, Overlap
<1> QED BY <1>3, <1>4

LEMMA ConflictPairs ==
  ASSUME NEW list \in Lists, NEW i \in DOMAIN list, NEW j \in DOMAIN list, i # j
  PROVE  {i, j} \in Conflicts(list) <=>
           /\ list[i].agent = list[j].agent /\ list[i].agent # NoAgent
           /\ Overlap(list[i], list[j])
<1> DEFINE Clash(x, y) == /\ x # y /\ list[x].agent = list[y].agent /\ list[x].agent # NoAgent
                          /\ Overlap(list[x], list[y])
<1>1. \A p : p \in Conflicts(list) <=> \E x, y \in DOMAIN list : p = {x, y} /\ Clash(x, y)
  <2> DEFINE Pairs == {y \in (DOMAIN list) \X (DOMAIN list) :
                         /\ y[1] # y[2] /\ list[y[1]].agent = list[y[2]].agent
                         /\ list[y[1]].agent # NoAgent
                         /\ Overlap(list[y[1]], list[y[2]])}
  <2>1. \A z : z \in Pairs <=> \E x, y \in DOMAIN list : z = <<x, y>> /\ Clash(x, y)
    OBVIOUS
  <2>2. Conflicts(list) = {{z[1], z[2]} : z \in Pairs}
    BY DEF Conflicts
  <2>3. \A p : p \in Conflicts(list) <=> \E z \in Pairs : p = {z[1], z[2]}
    BY <2>2, Zenon
  <2> HIDE DEF Pairs, Clash
  <2>4. ASSUME NEW p, p \in Conflicts(list) PROVE \E x, y \in DOMAIN list : p = {x, y} /\ Clash(x, y)
    <3>1. PICK z \in Pairs : p = {z[1], z[2]}
      BY <2>3, <2>4
    <3>2. PICK x \in DOMAIN list, y \in DOMAIN list : z = <<x, y>> /\ Clash(x, y)
      BY <2>1, <3>1
    <3> QED BY <3>1, <3>2
  <2>5. ASSUME NEW x \in DOMAIN list, NEW y \in DOMAIN list, Clash(x, y) PROVE {x, y} \in Conflicts(list)
    <3>1. <<x, y>> \in Pairs
      BY <2>1, <2>5, Zenon
    <3>2. <<x, y>>[1] = x /\ <<x, y>>[2] = y
      OBVIOUS
    <3>3. \E z \in Pairs : {x, y} = {z[1], z[2]}
      BY <3>1, <3>2, Zenon
    <3> QED BY <2>3, <3>3, Zenon
  <2> QED BY <2>4, <2>5
<1>2. \A x, y \in DOMAIN list : Overlap(list[x], list[y]) <=> Overlap(list[y], list[x])
  <2>1. \A x \in DOMAIN list : list[x].start \in Int /\ Ends(list[x]) \in Int
    BY ListType, ItemsAssumption DEF Items, Ends
  <2> QED BY <2>1 DEF Overlap
<1>3. \A x, y : {i, j} = {x, y} => (x = i /\ y = j) \/ (x = j /\ y = i)
  OBVIOUS
<1> QED BY <1>1, <1>2, <1>3

\* The advisory conflicts are exactly the pairs of one agent's items that share a
\* slot, for every list of items the page may hold.
THEOREM ConflictsShareSlots == SchedulesSpec => []ConflictsAreSharedSlots
<1>1. SchedulesInv => ConflictsAreSharedSlots
  <2> SUFFICES ASSUME SchedulesInv, NEW t \in Windows,
                      NEW i \in DOMAIN items[t], NEW j \in DOMAIN items[t], i # j,
                      Slots(items[t][i]) # {}, Slots(items[t][j]) # {},
                      items[t][i].agent # NoAgent, items[t][j].agent # NoAgent
               PROVE  {i, j} \in Conflicts(items[t]) <=>
                        /\ items[t][i].agent = items[t][j].agent
                        /\ Slots(items[t][i]) \cap Slots(items[t][j]) # {}
    BY DEF ConflictsAreSharedSlots
  <2>1. items[t] \in Lists
    BY DEF SchedulesInv
  <2>2. items[t][i] \in Items /\ items[t][j] \in Items
    BY <2>1, ListType
  <2> QED BY <2>1, <2>2, ConflictPairs, OverlapShares
<1> QED BY <1>1, SchedulesInvariance, PTL

-----------------------------------------------------------------------------
\* The editor.

LEMMA DayOfSlot ==
  ASSUME NEW s \in Nat \ {0}, NEW d \in Int, NEW r \in 0 .. s - 1
  PROVE  (d * s + r) \div s = d
OBVIOUS

\* An item edited and saved unchanged stays on its day, in every time zone.
THEOREM EditKeepsDay == SchedulesSpec => EditKeepsTheDay
<1>1. SchedulesInv /\ [SchedulesNext]_schedulesVars
        => [\A t \in Windows :
              (/\ SaveForm(t) /\ form[t].of \in DOMAIN items[t]
               /\ form[t] = FormOf(form[t].of, form[t].item, form[t].until))
                 => DateOf(items'[t][form[t].of]) = DateOf(form[t].item)]_schedulesVars
  <2> SUFFICES ASSUME SchedulesInv, NEW t \in Windows, SaveForm(t), form[t].of \in DOMAIN items[t],
                      form[t] = FormOf(form[t].of, form[t].item, form[t].until)
               PROVE  DateOf(items'[t][form[t].of]) = DateOf(form[t].item)
    OBVIOUS
  <2>1. FormOK(form[t]) /\ items[t] \in Lists
    BY DEF SchedulesInv, SaveForm
  <2>2. form[t].of # Closed
    BY <2>1, ListType, ItemsAssumption DEF Ids
  <2>3. items'[t][form[t].of] = Filled(form[t])
    <3>1. SavedList(t) = With(items[t], form[t].of, Filled(form[t]))
      BY <2>2, Zenon DEF SavedList
    <3> QED BY <3>1, SavedListType, KeepStep DEF With
  <2>4. form[t].date = DateOf(form[t].item)
    BY DEF FormOf
  <2>5. form[t].date \in Int /\ form[t].time \in 0..SlotsPerDay - 1
    BY <2>1 DEF FormOK, Forms
  <2>6. (form[t].date * SlotsPerDay + form[t].time) \div SlotsPerDay = form[t].date
    BY <2>5, SlotsOfDay, DayOfSlot
  <2>7. DateOf(Filled(form[t])) = form[t].date
    BY <2>6 DEF DateOf, Filled
  <2> QED BY <2>3, <2>4, <2>7
<1> QED BY <1>1, SchedulesInvariance, PTL DEF SchedulesSpec, EditKeepsTheDay
=============================================================================
