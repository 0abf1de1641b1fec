------------------------------ MODULE Realtime ------------------------------
(***************************************************************************)
(* Delivery of operational state to the browsers: the sampler and the      *)
(* connection manager of one server process, the bounded queue and the     *)
(* transport of each connection, and RealtimeClient with the cache it      *)
(* keeps.                                                                  *)
(*                                                                         *)
(* What is delivered is a state of the runtime, a value for each item (an  *)
(* agent, the gateway, an attention item).  A snapshot carries all of it, a*)
(* delta the items that changed since the message before; so a client that *)
(* misses a delta, or applies one to the wrong base, shows a state the     *)
(* runtime never had.                                                      *)
(*                                                                         *)
(* The server runs on one event loop.  Nothing suspends inside             *)
(* handle_new_snapshot, send_heartbeat or the initial synchronisation of a *)
(* connection, so each is one action; the reading of a snapshot suspends.  *)
(* The task that writes a connection runs as soon as it can: whatever fits *)
(* is moved from the queue to the transport at the end of each action.     *)
(***************************************************************************)
EXTENDS Naturals, Sequences

CONSTANTS
  Clients,
  Items, Values,   \* what is delivered: a value for each item
  FirstState,      \* the state of the runtime at the start
  Unread,          \* the value of an item before the first snapshot, and the
                   \* sample the sampler is not reading
  ReplaySize,      \* messages the replay buffer holds (256)
  QueueSize,       \* messages the queue of a connection holds (64)
  WireSize,        \* messages under way: with the writer and in the transport
  MaxChanges,      \* bound: changes of the runtime
  MaxInstances,    \* bound: starts of the server
  MaxHeartbeats,   \* bound: heartbeats
  MaxMishaps       \* bound: connections lost, failed or refused, and restarts

ASSUME RealtimeAssumption ==
  /\ FirstState \in [Items -> Values]
  /\ Unread \notin Values \cup [Items -> Values]
  /\ ReplaySize \in Nat \ {0} /\ QueueSize \in Nat \ {0} /\ WireSize \in Nat \ {0}
  /\ MaxChanges \in Nat /\ MaxInstances \in Nat \ {0} /\ MaxHeartbeats \in Nat
  /\ MaxMishaps \in Nat

VARIABLES
  world,      \* the state of the runtime
  changes,    \* how often it changed
  instance,   \* server_instance_id of the running server, counted
  history,    \* the states each instance published: its sequence is their
              \* number, _latest_snapshot the last of them, and the replay
              \* buffer the messages of the last ReplaySize
  heartbeats, \* how many were sent
  sampling,   \* what the sampler has read and not published, or Unread
  fetches,    \* what connections have read and not published
  conn,       \* the socket of each client, "down" while it has none
  server,     \* the instance at the other end of the socket
  queue,      \* the queue of the connection at the server
  wire,       \* the messages under way to the client
  clientInstance, \* RealtimeClient.serverInstanceId, 0 for null
  lastSequence,   \* RealtimeClient.lastSequence, 0 for null
  retrying,   \* reconnectAttempt > 0
  view,       \* the query cache
  status,     \* what the user is told of the connection
  mishaps     \* how many of those there were

worldVars  == <<world, changes>>
serverVars == <<instance, history, heartbeats, sampling, fetches>>
linkVars   == <<conn, server, queue, wire>>
clientVars == <<clientInstance, lastSequence, retrying, view, status>>
vars == <<worldVars, serverVars, linkVars, clientVars, mishaps>>

Instances == 1 .. MaxInstances
States == [Items -> Values]

Init ==
  /\ world = FirstState
  /\ changes = 0
  /\ instance = 1
  /\ history = [n \in Instances |-> <<>>]
  /\ heartbeats = 0
  /\ sampling = Unread
  /\ fetches = {}
  /\ conn = [c \in Clients |-> "down"]
  /\ server = [c \in Clients |-> 1]
  /\ queue = [c \in Clients |-> <<>>]
  /\ wire = [c \in Clients |-> <<>>]
  /\ clientInstance = [c \in Clients |-> 0]
  /\ lastSequence = [c \in Clients |-> 0]
  /\ retrying = [c \in Clients |-> FALSE]
  /\ view = [c \in Clients |-> [i \in Items |-> Unread]]
  /\ status = [c \in Clients |-> "DISCONNECTED"]
  /\ mishaps = 0

-----------------------------------------------------------------------------
\* Messages.  A snapshot or a delta is named by its sequence: what it carries
\* is in the history of the instance that sent it.
Sequence == Len(history[instance])

Snapshot(n) == [type |-> "snapshot", sequence |-> n]
Delta(n)    == [type |-> "delta", sequence |-> n]
Other(t)    == [type |-> t, sequence |-> 0]
Resync      == Other("resync_required")

\* compute_delta: the items that differ.
Changed(previous, current) == {i \in Items : previous[i] # current[i]}

\* applyRealtimeDelta: those are replaced, the others kept.
Patch(old, previous, current) ==
  [i \in Items |-> IF i \in Changed(previous, current) THEN current[i] ELSE old[i]]

Least(m, n) == IF m < n THEN m ELSE n

-----------------------------------------------------------------------------
\* A connection: the queue, and the writer task that empties it.

\* Mutant: what does not fit is dropped, and the client is not told.
PutOrDrop(q, m) == IF Len(q) < QueueSize THEN Append(q, m) ELSE q

\* send_to_client: a full queue gives up the message and its oldest one for a
\* demand to resynchronise.
Put(q, m) == IF Len(q) < QueueSize THEN Append(q, m) ELSE Append(Tail(q), Resync)

\* send_to_client for each message in turn, on an empty queue: every message
\* that does not fit costs the oldest one left.
PutAll(ms) ==
  IF Len(ms) <= QueueSize THEN ms
  ELSE LET lost == Len(ms) - QueueSize
       IN  [i \in 1 .. QueueSize |-> IF i + lost <= QueueSize THEN ms[i + lost] ELSE Resync]

\* _client_writer_loop: how many messages move from the queue to the transport.
Moved(w, q) == Least(WireSize - Len(w), Len(q))
Written(w, q) == w \o SubSeq(q, 1, Moved(w, q))
Waiting(w, q) == SubSeq(q, Moved(w, q) + 1, Len(q))

Registered == {c \in Clients : conn[c] = "open"}

\* broadcast.
Broadcast(m) ==
  /\ wire' = [c \in Clients |-> IF c \in Registered THEN Written(wire[c], Put(queue[c], m)) ELSE wire[c]]
  /\ queue' = [c \in Clients |-> IF c \in Registered THEN Waiting(wire[c], Put(queue[c], m)) ELSE queue[c]]

\* handle_new_snapshot.
Publish(s) ==
  IF Sequence > 0 /\ Changed(history[instance][Sequence], s) = {}
  THEN UNCHANGED <<history, wire, queue>>
  ELSE /\ history' = [history EXCEPT ![instance] = Append(@, s)]
       /\ Broadcast(IF Sequence = 0 THEN Snapshot(1) ELSE Delta(Sequence + 1))

-----------------------------------------------------------------------------
\* The server.

\* sample_once: one reading at a time, published when it is complete.
SampleStart ==
  /\ sampling = Unread
  /\ sampling' = world
  /\ UNCHANGED <<worldVars, instance, history, heartbeats, fetches, linkVars, clientVars, mishaps>>

SampleDone ==
  /\ sampling # Unread
  /\ Publish(sampling)
  /\ sampling' = Unread
  /\ UNCHANGED <<worldVars, instance, heartbeats, fetches, conn, server, clientVars, mishaps>>

\* send_heartbeat.  The sampler publishes before its first heartbeat.
Heartbeat ==
  /\ Sequence > 0 /\ Registered # {} /\ heartbeats < MaxHeartbeats
  /\ Broadcast(Other("heartbeat"))
  /\ heartbeats' = heartbeats + 1
  /\ UNCHANGED <<worldVars, instance, history, sampling, fetches, conn, server, clientVars, mishaps>>

\* The client asks for the messages since its last one, of this instance.
MayReplay(c) == clientInstance[c] = instance /\ lastSequence[c] # 0

\* get_messages_since: has the replay buffer all messages after sequence n?
Retained(n) == n + 1 >= Sequence - Least(ReplaySize, Sequence) + 1

\* The initial synchronisation of realtime_websocket_endpoint.
Welcome(c) ==
  CASE MayReplay(c) /\ Retained(lastSequence[c]) ->
         [k \in 1 .. Sequence - lastSequence[c] |-> Delta(lastSequence[c] + k)]
    [] MayReplay(c) /\ ~Retained(lastSequence[c]) -> <<Resync, Snapshot(Sequence)>>
    [] ~MayReplay(c) /\ Sequence > 0 -> <<Snapshot(Sequence)>>
    [] OTHER -> <<>>

\* A connection is registered and synchronised.  Before the first sample there
\* is nothing to send: the connection reads a snapshot itself.
Accept(c) ==
  /\ conn[c] = "connecting"
  /\ conn' = [conn EXCEPT ![c] = "open"]
  /\ server' = [server EXCEPT ![c] = instance]
  /\ wire' = [wire EXCEPT ![c] = Written(<<>>, PutAll(Welcome(c)))]
  /\ queue' = [queue EXCEPT ![c] = Waiting(<<>>, PutAll(Welcome(c)))]
  /\ fetches' = IF Sequence = 0 THEN fetches \cup {world} ELSE fetches
  /\ UNCHANGED <<worldVars, instance, history, heartbeats, sampling, clientVars, mishaps>>

\* Its reading is published like the sampler's, whatever was published since.
FetchDone ==
  /\ \E s \in fetches : Publish(s) /\ fetches' = fetches \ {s}
  /\ UNCHANGED <<worldVars, instance, heartbeats, sampling, conn, server, clientVars, mishaps>>

\* The connection limit is reached by others: an error, then the end.
Refuse(c) ==
  /\ conn[c] = "connecting" /\ mishaps < MaxMishaps
  /\ conn' = [conn EXCEPT ![c] = "lost"]
  /\ server' = [server EXCEPT ![c] = instance]
  /\ wire' = [wire EXCEPT ![c] = <<Other("error")>>]
  /\ mishaps' = mishaps + 1
  /\ UNCHANGED <<worldVars, serverVars, queue, clientVars>>

-----------------------------------------------------------------------------
\* The client.

\* connect, at once or when the reconnection timer fires.
Connect(c) ==
  /\ conn[c] = "down"
  /\ conn' = [conn EXCEPT ![c] = "connecting"]
  /\ status' = [status EXCEPT ![c] = IF retrying[c] THEN "RECONNECTING" ELSE "CONNECTING"]
  /\ UNCHANGED <<worldVars, serverVars, server, queue, wire, clientInstance, lastSequence, retrying,
                 view, mishaps>>

\* The sequence a message meets: none once the server is another instance.
Base(c) == IF clientInstance[c] \in {0, server[c]} THEN lastSequence[c] ELSE 0

\* What any message says about its sender; a snapshot says it too to a client
\* that knew no server.
NoteInstance(c, m) ==
  clientInstance' = [clientInstance EXCEPT ![c] =
                       IF @ # 0 \/ m.type = "snapshot" THEN server[c] ELSE @]

\* The head of the wire has been handled; the writer goes on.
Consume(c) ==
  /\ wire' = [wire EXCEPT ![c] = Written(Tail(wire[c]), queue[c])]
  /\ queue' = [queue EXCEPT ![c] = Waiting(Tail(wire[c]), queue[c])]

\* Mutant: the client closes the socket and forgets to forget.
CloseOnly(c) ==
  /\ lastSequence' = [lastSequence EXCEPT ![c] = Base(c)]
  /\ conn' = [conn EXCEPT ![c] = "closing"]
  /\ wire' = [wire EXCEPT ![c] = <<>>]
  /\ queue' = [queue EXCEPT ![c] = <<>>]
  /\ UNCHANGED <<retrying, view, status>>

\* resync: the client forgets its sequence and closes the socket; what is still
\* under way is not delivered.
CloseForResync(c) ==
  /\ lastSequence' = [lastSequence EXCEPT ![c] = 0]
  /\ conn' = [conn EXCEPT ![c] = "closing"]
  /\ wire' = [wire EXCEPT ![c] = <<>>]
  /\ queue' = [queue EXCEPT ![c] = <<>>]
  /\ UNCHANGED <<retrying, view, status>>

ReceiveSnapshot(c, m) ==
  /\ m.type = "snapshot"
  /\ lastSequence' = [lastSequence EXCEPT ![c] = m.sequence]
  /\ view' = [view EXCEPT ![c] = history[server[c]][m.sequence]]
  /\ retrying' = [retrying EXCEPT ![c] = FALSE]
  /\ status' = [status EXCEPT ![c] = "CONNECTED"]
  /\ Consume(c)
  /\ UNCHANGED conn

\* Mutant: the client takes any newer delta.
FitsNewer(c, m) == m.sequence > Base(c)

\* A delta is applied to the sequence before it, or to a base nobody knows.
Fits(c, m) == Base(c) = 0 \/ m.sequence = Base(c) + 1

ReceiveDelta(c, m) ==
  /\ m.type = "delta" /\ Fits(c, m)
  /\ lastSequence' = [lastSequence EXCEPT ![c] = m.sequence]
  /\ view' = [view EXCEPT ![c] =
                Patch(@, history[server[c]][m.sequence - 1], history[server[c]][m.sequence])]
  /\ Consume(c)
  /\ UNCHANGED <<conn, retrying, status>>

\* A gap, or the server's demand.
ReceiveResync(c, m) ==
  /\ \/ m.type = "delta" /\ Base(c) # 0 /\ m.sequence > Base(c) + 1
     \/ m.type = "resync_required"
  /\ CloseForResync(c)

\* Heartbeats, errors and deltas already applied change nothing but the base.
ReceiveOther(c, m) ==
  /\ \/ m.type \in {"heartbeat", "error"}
     \/ m.type = "delta" /\ Base(c) # 0 /\ m.sequence <= Base(c)
  /\ lastSequence' = [lastSequence EXCEPT ![c] = Base(c)]
  /\ Consume(c)
  /\ UNCHANGED <<conn, retrying, view, status>>

\* handleMessage.
Receive(c) ==
  /\ conn[c] \in {"open", "lost"} /\ wire[c] # <<>>
  /\ LET m == Head(wire[c])
     IN  /\ ReceiveSnapshot(c, m) \/ ReceiveDelta(c, m) \/ ReceiveResync(c, m) \/ ReceiveOther(c, m)
         /\ NoteInstance(c, m)
  /\ UNCHANGED <<worldVars, serverVars, server, mishaps>>

\* onclose, after everything that arrived: the next connection is scheduled.
OnClose(c) ==
  /\ conn[c] \in {"closing", "lost"} /\ wire[c] = <<>>
  /\ conn' = [conn EXCEPT ![c] = "down"]
  /\ retrying' = [retrying EXCEPT ![c] = TRUE]
  /\ status' = [status EXCEPT ![c] = "DISCONNECTED"]
  /\ UNCHANGED <<worldVars, serverVars, server, queue, wire, clientInstance, lastSequence, view, mishaps>>

-----------------------------------------------------------------------------
\* The world.

WorldChanges ==
  /\ changes < MaxChanges
  /\ \E i \in Items : \E v \in Values \ {world[i]} : world' = [world EXCEPT ![i] = v]
  /\ changes' = changes + 1
  /\ UNCHANGED <<serverVars, linkVars, clientVars, mishaps>>

\* A connection breaks, or is never made: what is under way arrives in part,
\* what is queued does not.
Lose(c) ==
  /\ conn[c] \in {"connecting", "open"} /\ mishaps < MaxMishaps
  /\ conn' = [conn EXCEPT ![c] = "lost"]
  /\ \E n \in 0 .. Len(wire[c]) : wire' = [wire EXCEPT ![c] = SubSeq(wire[c], 1, n)]
  /\ queue' = [queue EXCEPT ![c] = <<>>]
  /\ mishaps' = mishaps + 1
  /\ UNCHANGED <<worldVars, serverVars, server, clientVars>>

\* The server restarts: its sequence, buffer, queues and readings are gone.
Restart ==
  /\ instance < MaxInstances /\ mishaps < MaxMishaps
  /\ instance' = instance + 1
  /\ sampling' = Unread
  /\ fetches' = {}
  /\ conn' = [c \in Clients |-> IF conn[c] \in {"connecting", "open"} THEN "lost" ELSE conn[c]]
  /\ queue' = [c \in Clients |-> <<>>]
  /\ mishaps' = mishaps + 1
  /\ UNCHANGED <<worldVars, history, heartbeats, server, wire, clientVars>>

Next ==
  \/ SampleStart \/ SampleDone \/ FetchDone \/ Heartbeat
  \/ \E c \in Clients :
       Accept(c) \/ Refuse(c) \/ Connect(c) \/ Receive(c) \/ OnClose(c) \/ Lose(c)
  \/ WorldChanges \/ Restart

Spec == Init /\ [][Next]_vars

\* The sampler loops, a reading ends, what is under way arrives, and the
\* browser runs its timers and handlers.
Fairness ==
  /\ WF_vars(SampleStart) /\ WF_vars(SampleDone) /\ WF_vars(FetchDone)
  /\ \A c \in Clients :
       WF_vars(Accept(c)) /\ WF_vars(Connect(c)) /\ WF_vars(Receive(c)) /\ WF_vars(OnClose(c))

FairSpec == Spec /\ Fairness

-----------------------------------------------------------------------------
Messages ==
  [type : {"snapshot", "delta", "heartbeat", "resync_required", "error"}, sequence : Nat]

\* Type invariant.  The queue of a connection is bounded, and holds messages
\* only while the transport can take no more.
TypeOK ==
  /\ world \in States
  /\ changes \in 0 .. MaxChanges
  /\ instance \in Instances
  /\ history \in [Instances -> Seq(States)]
  /\ heartbeats \in 0 .. MaxHeartbeats
  /\ sampling \in States \cup {Unread}
  /\ fetches \subseteq States
  /\ conn \in [Clients -> {"down", "connecting", "open", "closing", "lost"}]
  /\ server \in [Clients -> Instances]
  /\ queue \in [Clients -> Seq(Messages)]
  /\ wire \in [Clients -> Seq(Messages)]
  /\ \A c \in Clients :
       /\ Len(wire[c]) <= WireSize /\ Len(queue[c]) <= QueueSize
       /\ queue[c] # <<>> => Len(wire[c]) = WireSize
  /\ clientInstance \in [Clients -> 0 .. MaxInstances]
  /\ lastSequence \in [Clients -> Nat]
  /\ retrying \in [Clients -> BOOLEAN]
  /\ view \in [Clients -> [Items -> Values \cup {Unread}]]
  /\ status \in [Clients -> {"CONNECTING", "CONNECTED", "RECONNECTING", "DISCONNECTED"}]
  /\ mishaps \in 0 .. MaxMishaps

\* What a client shows is a state the server published, the very one its
\* lastSequence names: through drops, replays, resynchronisations and restarts
\* no delta is skipped or applied to another base (handleMessage and
\* send_to_client).
ViewIsPublishedState ==
  \A c \in Clients : lastSequence[c] # 0 =>
    /\ clientInstance[c] # 0
    /\ lastSequence[c] <= Len(history[clientInstance[c]])
    /\ view[c] = history[clientInstance[c]][lastSequence[c]]

\* A client behind the server always has a message coming, so none waits for a
\* change to learn of one it missed: nothing under way on an open connection
\* means the client is up to date.
QuietMeansCurrent ==
  \A c \in Registered : wire[c] = <<>> /\ Sequence > 0 =>
    clientInstance[c] = instance /\ lastSequence[c] = Sequence

\* Once the runtime, the network and the server stop changing, every client
\* ends up showing the runtime as it is.
EventuallyCurrent == <>[](\A c \in Clients : view[c] = world)

-----------------------------------------------------------------------------
\* What a comment says and the code does not keep.

\* realtime-client.ts, onopen: the client "will confirm once snapshot/heartbeat
\* handshake completes".  Whoever has a heartbeat is told of a connection.
HeartbeatsConfirm ==
  [][\A c \in Clients :
       Receive(c) /\ Head(wire[c]).type = "heartbeat" => status'[c] = "CONNECTED"]_vars
=============================================================================
