---------------------------- MODULE Projections ----------------------------
(* What the pages make of a response of the API or of a message of the         *)
(* realtime channel: api/mappers and realtime-mappers.ts.  A field the backend *)
(* does not send is Missing, and a value it may send and the pages do not know *)
(* becomes the mapper's default.  Operators only.                              *)
EXTENDS Naturals, FiniteSets

CONSTANT Missing     \* undefined

(* mapUnknownEnum                                                              *)
MapUnknownEnum(v, allowed, default) == IF v \in allowed THEN v ELSE default

-----------------------------------------------------------------------------
AgentStates ==
    {"ACTIVE", "IDLE", "RECENTLY_ACTIVE", "AWAITING_APPROVAL", "DEGRADED", "ERROR",
     "OFFLINE", "UNKNOWN", "CONFIGURATION_INCOMPLETE"}
GatewayStates == {"HEALTHY", "STALE", "DEGRADED", "OFFLINE", "UNKNOWN"}
DelegationStates ==
    {"QUEUED", "CLAIMED", "RUNNING", "COMPLETED", "FAILED", "CANCELLED", "UNKNOWN"}
AttentionSeverities == {"critical", "high", "medium", "low"}

MapAgent(state) == MapUnknownEnum(state, AgentStates, "UNKNOWN")
MapDelegation(state) == MapUnknownEnum(state, DelegationStates, "UNKNOWN")
(* The backend writes the severity of an alarm in capitals: all are medium.    *)
MapAttention(severity) == MapUnknownEnum(severity, AttentionSeverities, "medium")

-----------------------------------------------------------------------------
(* The gateway.  The backend sends status and connected; the mapper of the     *)
(* HTTP response reads state, which is never there, the one of the realtime    *)
(* channel status.                                                             *)
Connected(status) == status \in {"HEALTHY", "DEGRADED"}
MapGateway(status) == MapUnknownEnum(Missing, GatewayStates, "UNKNOWN")
MapRealtimeGateway(status) == MapUnknownEnum(status, GatewayStates, "UNKNOWN")
GatewayOfPulse(status) ==
    IF status = "HEALTHY" \/ Connected(status) THEN "HEALTHY" ELSE "DEGRADED"

(* The pulse of the HTTP response: system_pulse has none of the counts, so the *)
(* defaults stand for them, though the queue is the backend's.                 *)
MapSystemPulse(status, attention) ==
    [gateway |-> IF Connected(status) THEN "HEALTHY" ELSE MapUnknownEnum(status, GatewayStates \ {"STALE"}, "UNKNOWN"),
     active |-> 0, total |-> 9, count |-> 0, critical |-> 0, queue |-> attention]
=============================================================================
