-------------------------- MODULE IntentLifecycle --------------------------
(***************************************************************************)
(* Operators of several processes deciding on the same intents: the two    *)
(* halves of every operation of ActionIntentService (module ActionIntent)  *)
(* with what may happen between them, the approvals row, and the audit     *)
(* ledger each operation appends to.                                       *)
(*                                                                         *)
(* An operation reads on one connection and writes on another, in a        *)
(* transaction of its own.  Handlers of one process interleave only while  *)
(* run_preflight awaits the catalogues; handlers of different processes    *)
(* interleave anywhere.  request_unlock is the one appender outside a      *)
(* transaction: it reads the end of the chain in one statement and inserts *)
(* in the next.                                                            *)
(*                                                                         *)
(* A record's hash covers its random event id, so a record is identified   *)
(* by its place in the order of insertion and `prev` is the record whose   *)
(* hash it holds.  preflight_revision is left out: the request may name    *)
(* the revision it expects and is then refused more often, never           *)
(* otherwise.                                                              *)
(***************************************************************************)
EXTENDS ActionIntent, Sequences, FiniteSetsExt

CONSTANTS Handlers, ProcessOf, MaxRecords

ASSUME LifecycleAssumption ==
  /\ IsFiniteSet(Handlers)
  /\ DOMAIN ProcessOf = Handlers
  /\ MaxRecords \in Nat

VARIABLES
  approval,   \* approvals.state and approvals.revision
  ledger,     \* audit_ledger, in the order of insertion
  hand        \* what each handler holds between its read and its write

lifecycleVars == <<status, decision, late, approval, ledger, hand>>

Idle == [op |-> "idle"]
Operations == {"request", "approve", "reject", "cancel", "preflight"}
Genesis == [sequence |-> 0, prev |-> 0, action |-> "GENESIS", intent |-> "system"]

LifecycleInit ==
  /\ IntentInit
  /\ approval = [i \in Intents |-> [state |-> "PENDING", revision |-> 1]]
  /\ ledger = <<Genesis>>
  /\ hand = [h \in Handlers |-> Idle]

-----------------------------------------------------------------------------
\* The audit ledger.

\* Mutant: a column that is not UNIQUE.
TakenMutant(n) == FALSE

\* A record with this number is there already: UNIQUE of the column.
Taken(n) == \E k \in DOMAIN ledger : ledger[k].sequence = n

\* append_audit_entry_to_conn: the record that follows the k-th of l.
Following(l, k, action, i) ==
  [sequence |-> l[k].sequence + 1, prev |-> k, action |-> action, intent |-> i]

\* _append_audit_record, inside the caller's transaction: it sees the end of l.
Recorded(l, action, i) == Append(l, Following(l, Len(l), action, i))

\* verify_audit_chain: numbered without a gap from genesis, and each record
\* holds the hash of the one before it.
Verifies(l) ==
  \A k \in DOMAIN l :
     /\ Cardinality({j \in DOMAIN l : l[j].sequence = k - 1}) = 1
     /\ \A j \in DOMAIN l : l[j].sequence = k - 1 =>
           IF k = 1 THEN l[j].prev = 0 ELSE l[l[j].prev].sequence = k - 2

-----------------------------------------------------------------------------
\* The event loop: nobody of h's process is between its read and its write,
\* unless suspended in evaluate_preflight.
OthersParked(h) ==
  \A g \in Handlers \ {h} : ProcessOf[g] = ProcessOf[h] => hand[g].op \in {"idle", "preflight"}

Accepts(op, s) ==
  CASE op = "request" -> MayRequestApproval(s)
    [] op = "approve" -> MayApprove(s)
    [] op = "reject"  -> MayReject(s)
    [] op = "cancel"  -> MayCancel(s)
    [] OTHER          -> TRUE

\* get_intent, with the expiry it writes on its own, and the test of what it
\* returned.  A refused operation leaves nothing but that expiry.
Read(h, op, i) ==
  /\ hand[h] = Idle /\ OthersParked(h)
  /\ status' = [status EXCEPT ![i] = Seen(i)]
  /\ IF Accepts(op, Seen(i))
       THEN hand' = [hand EXCEPT ![h] = [op |-> op, intent |-> i, seen |-> Seen(i)]]
       ELSE UNCHANGED hand
  /\ UNCHANGED <<decision, late, approval, ledger>>

Records(action, i) ==
  /\ Len(ledger) < MaxRecords
  /\ ledger' = Recorded(ledger, action, i)

\* The approvals row of a decision.
Decided(i, s) == approval' = [approval EXCEPT ![i] = [state |-> s, revision |-> @.revision + 1]]

Done(h) == hand' = [hand EXCEPT ![h] = Idle]

Request(h) ==
  /\ hand[h].op = "request"
  /\ LET i == hand[h].intent IN
       /\ WriteApprovalRequest(i)
       /\ approval' = [approval EXCEPT ![i].state = "PENDING"]
       /\ Records("APPROVAL_REQUESTED", i)
  /\ Done(h)

\* approve_intent verifies the chain inside its transaction.
Approve(h) ==
  /\ hand[h].op = "approve" /\ Verifies(ledger)
  /\ LET i == hand[h].intent IN
       /\ WriteApproval(i)
       /\ Decided(i, "APPROVED")
       /\ Len(ledger) + 1 < MaxRecords
       /\ ledger' = Recorded(Recorded(ledger, "APPROVAL_APPROVED", i),
                             "ACTION_READY_TO_EXECUTE", i)
  /\ Done(h)

\* Mutant: the decision is counted as the caller read it, not as the row has it.
RejectMutant(h) ==
  /\ hand[h].op = "reject"
  /\ LET i == hand[h].intent IN
       /\ WriteRejection(i)
       /\ approval' = [approval EXCEPT ![i] = [state |-> "REJECTED", revision |-> 2]]
       /\ Records("APPROVAL_REJECTED", i)
  /\ Done(h)

Reject(h) ==
  /\ hand[h].op = "reject"
  /\ LET i == hand[h].intent IN
       /\ WriteRejection(i)
       /\ Decided(i, "REJECTED")
       /\ Records("APPROVAL_REJECTED", i)
  /\ Done(h)

Cancel(h) ==
  /\ hand[h].op = "cancel"
  /\ LET i == hand[h].intent IN
       /\ WriteCancellation(i)
       /\ Decided(i, "CANCELLED")
       /\ Records("ACTION_INTENT_CANCELLED", i)
  /\ Done(h)

\* run_preflight after its await: the status is computed from the one it read.
Preflight(h) ==
  /\ hand[h].op = "preflight" /\ OthersParked(h)
  /\ \E result \in {"BLOCKED", "REQUIRES_APPROVAL"} :
       WritePreflight(hand[h].intent, PreflightStatus(hand[h].seen, result))
  /\ Records("ACTION_INTENT_PREFLIGHTED", hand[h].intent)
  /\ UNCHANGED approval
  /\ Done(h)

\* A dry run, a busy database or the death of the process: nothing is written.
GiveUp(h) ==
  /\ hand[h] # Idle
  /\ hand[h].op = "preflight" => OthersParked(h)
  /\ Done(h)
  /\ UNCHANGED <<status, decision, late, approval, ledger>>

-----------------------------------------------------------------------------
\* request_unlock: verify, read the last record, ...
UnlockReads(h) ==
  /\ hand[h] = Idle /\ OthersParked(h) /\ Verifies(ledger)
  /\ hand' = [hand EXCEPT ![h] = [op |-> "unlock", last |-> Len(ledger)]]
  /\ UNCHANGED <<status, decision, late, approval, ledger>>

\* ... and insert the next; the constraint refuses a second one with its number.
UnlockRecords(h) ==
  /\ hand[h].op = "unlock"
  /\ Len(ledger) < MaxRecords
  /\ LET record == Following(ledger, hand[h].last, "execution.unlock.requested", "system")
     IN ledger' = IF Taken(record.sequence) THEN ledger ELSE Append(ledger, record)
  /\ Done(h)
  /\ UNCHANGED <<status, decision, late, approval>>

TimesOut(i) == IntentTimesOut(i) /\ UNCHANGED <<approval, ledger, hand>>

LifecycleNext ==
  \/ \E h \in Handlers :
       \/ \E op \in Operations, i \in Intents : Read(h, op, i)
       \/ Request(h) \/ Approve(h) \/ Reject(h) \/ Cancel(h) \/ Preflight(h)
       \/ GiveUp(h) \/ UnlockReads(h) \/ UnlockRecords(h)
  \/ \E i \in Intents : TimesOut(i)

LifecycleSpec == LifecycleInit /\ [][LifecycleNext]_lifecycleVars

-----------------------------------------------------------------------------
Verdict == [APPROVAL_APPROVED |-> "APPROVED", APPROVAL_REJECTED |-> "REJECTED",
            ACTION_INTENT_CANCELLED |-> "CANCELLED", APPROVAL_REQUESTED |-> "PENDING"]
Decision == [APPROVED |-> "APPROVE", REJECTED |-> "REJECT", CANCELLED |-> "CANCEL"]

\* What the ledger says of an intent: the places of its verdicts, and of those
\* that are decisions and not requests for one.
VerdictRows(l, i) == {k \in DOMAIN l : l[k].intent = i /\ l[k].action \in DOMAIN Verdict}
DecisionRows(l, i) == {k \in VerdictRows(l, i) : Verdict[l[k].action] \in DOMAIN Decision}
LastVerdict(l, rows) == Verdict[l[Max(rows)].action]

\* The audit chain verifies, whatever appends race (audit_verifier.py:6): a
\* transaction sees the end of the chain, and the one appender outside a
\* transaction is stopped by the UNIQUE column and not by luck.  A chain that
\* does not verify blocks every approval and every unlock for ever.
ChainVerifies == Verifies(ledger)

\* The ledger tells who decided what: however decisions on one intent race, the
\* approvals row is the last verdict on record, its decision the last decision,
\* and its revision counts the decisions.  A decision overwritten by another
\* (two processes may both decide) has left its record.
LedgerTellsDecisions ==
  \A i \in Intents :
     /\ approval[i].state = IF VerdictRows(ledger, i) = {} THEN "PENDING"
                            ELSE LastVerdict(ledger, VerdictRows(ledger, i))
     /\ decision[i] = IF DecisionRows(ledger, i) = {} THEN "NONE"
                      ELSE Decision[LastVerdict(ledger, DecisionRows(ledger, i))]
     /\ approval[i].revision = 1 + Cardinality(DecisionRows(ledger, i))

\* An intent is executable, or held as executable by a preflight that will write
\* it back, only after an approval of it was recorded: no race of preflights,
\* requests and decisions promotes an intent nobody approved.
ReadyMeansApproved ==
  \A i \in Intents :
     \/ status[i] = "READY_TO_EXECUTE"
     \/ \E h \in Handlers : hand[h].op = "preflight" /\ hand[h].intent = i
                              /\ hand[h].seen = "READY_TO_EXECUTE"
     => \E k \in DecisionRows(ledger, i) : Verdict[ledger[k].action] = "APPROVED"
=============================================================================
