---------------------------- MODULE ActionIntent ----------------------------
(***************************************************************************)
(* The rows of action_intents and of their approvals, and the rules by     *)
(* which ActionIntentService moves them: which states each operation       *)
(* accepts, and what it writes.                                            *)
(*                                                                         *)
(* Every operation begins with get_intent, which itself expires an intent  *)
(* past its time limit, and ends with one write transaction that tests     *)
(* nothing it read.  The operators below are those two halves; a module    *)
(* that extends this one says what may happen between them.                *)
(*                                                                         *)
(* The intents are TASK_DISPATCH intents: risk HIGH, so approval is always *)
(* required.  Payload hash and signature are not modelled (they have no    *)
(* writer), nor are authorisation and the confirmation phrase (they depend *)
(* on the caller alone).                                                   *)
(***************************************************************************)
EXTENDS Naturals

CONSTANT Intents

VARIABLES
  status,     \* action_intents.status
  decision,   \* approvals.decision, "NONE" while NULL
  late        \* the intents whose expires_at has passed

intentVars == <<status, decision, late>>

\* create_intent: the initial preflight decides between the first two states.
IntentInit ==
  /\ status \in [Intents -> {"READY_FOR_APPROVAL", "PREFLIGHT_FAILED"}]
  /\ decision = [i \in Intents |-> "NONE"]
  /\ late = {}

-----------------------------------------------------------------------------
\* get_intent: the status an operation works with.  An intent past its time
\* limit is expired on the way, unless it was refused or withdrawn before.
Expires(i) == i \in late /\ status[i] \notin {"EXPIRED", "REJECTED", "CANCELLED"}
Seen(i) == IF Expires(i) THEN "EXPIRED" ELSE status[i]

\* The states each operation accepts, as a function of the status it read.
MayRequestApproval(s) == s \notin {"APPROVED", "REJECTED", "CANCELLED", "EXPIRED"}
MayApprove(s)         == s \notin {"EXPIRED", "APPROVED", "REJECTED", "READY_TO_EXECUTE"}
MayReject(s)          == s \notin {"APPROVED", "REJECTED", "READY_TO_EXECUTE"}
MayCancel(s)          == s \notin {"APPROVED", "READY_TO_EXECUTE", "REJECTED", "EXPIRED"}

\* Mutant: what passes again counts as approved, as in create_intent for the
\* actions that need no approval.
PreflightStatusMutant(s, result) ==
  CASE result = "BLOCKED" -> "PREFLIGHT_FAILED"
    [] result = "REQUIRES_APPROVAL" /\ s = "PREFLIGHT_FAILED" -> "READY_TO_EXECUTE"
    [] OTHER -> s

\* run_preflight: the status it writes after reading s.
PreflightStatus(s, result) ==
  CASE result = "BLOCKED" -> "PREFLIGHT_FAILED"
    [] result = "REQUIRES_APPROVAL" /\ s = "PREFLIGHT_FAILED" -> "READY_FOR_APPROVAL"
    [] OTHER -> s

\* The write of each operation.
SetStatus(i, s) == status' = [status EXCEPT ![i] = s]

WriteExpired(i) ==
  /\ Expires(i)
  /\ SetStatus(i, "EXPIRED")
  /\ UNCHANGED <<decision, late>>

WriteApprovalRequest(i) ==
  /\ SetStatus(i, "PENDING_APPROVAL")
  /\ UNCHANGED <<decision, late>>

WriteApproval(i) ==
  /\ SetStatus(i, "READY_TO_EXECUTE")
  /\ decision' = [decision EXCEPT ![i] = "APPROVE"]
  /\ UNCHANGED late

WriteRejection(i) ==
  /\ SetStatus(i, "REJECTED")
  /\ decision' = [decision EXCEPT ![i] = "REJECT"]
  /\ UNCHANGED late

WriteCancellation(i) ==
  /\ SetStatus(i, "CANCELLED")
  /\ decision' = [decision EXCEPT ![i] = "CANCEL"]
  /\ UNCHANGED late

WritePreflight(i, s) ==
  /\ SetStatus(i, s)
  /\ UNCHANGED <<decision, late>>

\* Time passes: the intent is now past its expires_at.
IntentTimesOut(i) ==
  /\ i \notin late
  /\ late' = late \cup {i}
  /\ UNCHANGED <<status, decision>>

-----------------------------------------------------------------------------
IntentTypeOK ==
  /\ status \in [Intents -> {"READY_FOR_APPROVAL", "PREFLIGHT_FAILED", "PENDING_APPROVAL",
                             "READY_TO_EXECUTE", "REJECTED", "CANCELLED", "EXPIRED"}]
  /\ decision \in [Intents -> {"NONE", "APPROVE", "REJECT", "CANCEL"}]
  /\ late \subseteq Intents
=============================================================================
