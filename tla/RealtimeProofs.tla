--------------------------- MODULE RealtimeProofs ---------------------------
(***************************************************************************)
(* What clients show is always a state the server published, and a client  *)
(* that is behind always has a message coming: proofs for every number of  *)
(* clients and items and every size of buffer, queue and transport.        *)
(***************************************************************************)
EXTENDS Realtime, SequenceTheorems, TLAPS

\* The messages of a sequence, and those after its first; the messages on
\* their way to a client, and those after the next one it handles.
Of(s) == {s[k] : k \in 1 .. Len(s)}
Later(s) == {s[k] : k \in 2 .. Len(s)}
Under(c) == Of(wire[c]) \cup Of(queue[c])
Behind(c) == Later(wire[c]) \cup Of(queue[c])

\* What m says can be found in the history of instance n.
MessageFits(m, n) ==
  /\ m.type = "snapshot" => m.sequence \in 1 .. Len(history[n])
  /\ m.type = "delta" => m.sequence \in 2 .. Len(history[n])

\* The first message to meet a client without a base is none that needs one.
NeedsNoBase(m) == m.type \in {"snapshot", "resync_required", "error"}

\* Messages are only where a socket is, and are of the instance at its end.
LinkFits(c) ==
  /\ conn[c] \notin {"open", "lost"} => wire[c] = <<>>
  /\ conn[c] # "open" => queue[c] = <<>>
  /\ conn[c] = "open" => server[c] = instance
  /\ \A m \in Under(c) : MessageFits(m, server[c])
  /\ \A m \in Under(c) : m.type = "error" => conn[c] = "lost" /\ Len(wire[c]) = 1

\* A client without a base meets a snapshot first, or there is none yet.
BaseFits(c) ==
  /\ Base(c) = 0 /\ wire[c] # <<>> => NeedsNoBase(wire[c][1])
  /\ Base(c) = 0 /\ wire[c] = <<>> /\ conn[c] = "open" => Sequence = 0
  /\ conn[c] = "open" /\ Sequence = 0 => wire[c] = <<>>

\* A snapshot meets a client without a base, or is behind a demand to
\* resynchronise, which clears what follows it.
SnapshotFirst(c) ==
  conn[c] = "open" /\ wire[c] # <<>> =>
    /\ wire[c][1].type = "snapshot" => Base(c) = 0
    /\ wire[c][1].type # "resync_required" => \A m \in Behind(c) : m.type # "snapshot"

\* A message that says of the last sequence, or of a loss.
Telling(m) ==
  \/ m.type = "resync_required"
  \/ m.type \in {"snapshot", "delta"} /\ m.sequence = Sequence

\* A client that is behind has one coming.
Told(c) ==
  conn[c] = "open" /\ Sequence > 0 =>
    (\E m \in Under(c) : Telling(m)) \/ Base(c) = Sequence

Linked(c) == LinkFits(c) /\ BaseFits(c) /\ SnapshotFirst(c) /\ Told(c)

LinksInv == \A c \in Clients : Linked(c)

\* What TypeOK says of queues and transports.
LinkType ==
  /\ queue \in [Clients -> Seq(Messages)]
  /\ wire \in [Clients -> Seq(Messages)]
  /\ \A c \in Clients :
       /\ Len(wire[c]) <= WireSize /\ Len(queue[c]) <= QueueSize
       /\ queue[c] # <<>> => Len(wire[c]) = WireSize

RealtimeInv == TypeOK /\ LinksInv /\ ViewIsPublishedState

-----------------------------------------------------------------------------
\* Sequences of messages.

LEMMA MovedType ==
  ASSUME NEW w \in Seq(Messages), NEW q \in Seq(Messages), Len(w) <= WireSize
  PROVE  /\ Moved(w, q) \in 0 .. Len(q)
         /\ Len(w) + Moved(w, q) <= WireSize
         /\ Moved(w, q) < Len(q) => Len(w) + Moved(w, q) = WireSize
BY RealtimeAssumption DEF Moved, Least

LEMMA Moving ==
  ASSUME NEW w \in Seq(Messages), NEW q \in Seq(Messages), Len(w) <= WireSize
  PROVE  /\ Written(w, q) \in Seq(Messages)
         /\ Len(Written(w, q)) = Len(w) + Moved(w, q)
         /\ \A k \in 1 .. Len(w) + Moved(w, q) :
              Written(w, q)[k] = IF k <= Len(w) THEN w[k] ELSE q[k - Len(w)]
         /\ Waiting(w, q) \in Seq(Messages)
         /\ Len(Waiting(w, q)) = Len(q) - Moved(w, q)
         /\ \A k \in 1 .. Len(q) - Moved(w, q) : Waiting(w, q)[k] = q[Moved(w, q) + k]
<1> DEFINE n == Moved(w, q)
<1>1. n \in 0 .. Len(q) /\ n \in Int /\ Len(q) \in Nat /\ Len(w) \in Nat
  BY MovedType
<1> HIDE DEF n
<1>2. \A i \in 1 .. n : q[i] \in Messages
  BY <1>1
<1>3. /\ SubSeq(q, 1, n) \in Seq(Messages)
      /\ Len(SubSeq(q, 1, n)) = n
      /\ \A i \in 1 .. n : SubSeq(q, 1, n)[i] = q[i]
  BY <1>1, <1>2, SubSeqProperties
<1>4. \A i \in n + 1 .. Len(q) : q[i] \in Messages
  BY <1>1
<1>5. /\ SubSeq(q, n + 1, Len(q)) \in Seq(Messages)
      /\ Len(SubSeq(q, n + 1, Len(q))) = Len(q) - n
      /\ \A i \in 1 .. Len(q) - n : SubSeq(q, n + 1, Len(q))[i] = q[n + i]
  BY <1>1, <1>4, SubSeqProperties
<1>6. /\ w \o SubSeq(q, 1, n) \in Seq(Messages)
      /\ Len(w \o SubSeq(q, 1, n)) = Len(w) + n
      /\ \A k \in 1 .. Len(w) + n : (w \o SubSeq(q, 1, n))[k] =
           IF k <= Len(w) THEN w[k] ELSE SubSeq(q, 1, n)[k - Len(w)]
  BY <1>3, ConcatProperties
<1>7. ASSUME NEW k \in 1 .. Len(w) + n PROVE (w \o SubSeq(q, 1, n))[k] = IF k <= Len(w) THEN w[k] ELSE q[k - Len(w)]
  <2>1. CASE k <= Len(w)
    BY <1>6, <2>1
  <2>2. CASE ~(k <= Len(w))
    <3>1. k - Len(w) \in 1 .. n
      BY <1>1, <2>2
    <3> QED BY <1>3, <1>6, <2>2, <3>1
  <2> QED BY <2>1, <2>2
<1>8. Written(w, q) = w \o SubSeq(q, 1, n) /\ Waiting(w, q) = SubSeq(q, n + 1, Len(q))
  BY DEF Written, Waiting, n
<1> QED BY <1>5, <1>6, <1>7, <1>8 DEF n

\* The writer loses nothing and adds nothing, and stops when the transport is
\* full or the queue empty.
LEMMA MovingKeeps ==
  ASSUME NEW w \in Seq(Messages), NEW q \in Seq(Messages), Len(w) <= WireSize
  PROVE  /\ Of(Written(w, q)) \cup Of(Waiting(w, q)) = Of(w) \cup Of(q)
         /\ Len(Written(w, q)) <= WireSize
         /\ Len(Waiting(w, q)) <= Len(q)
         /\ Waiting(w, q) # <<>> => Len(Written(w, q)) = WireSize
         /\ w # <<>> => Written(w, q) # <<>> /\ Written(w, q)[1] = w[1]
         /\ w = <<>> /\ q # <<>> => Written(w, q) # <<>> /\ Written(w, q)[1] = q[1]
         /\ w = <<>> /\ q = <<>> => Written(w, q) = <<>>
         /\ q = <<>> => Waiting(w, q) = <<>>
         /\ w # <<>> => Later(Written(w, q)) \cup Of(Waiting(w, q)) \subseteq Later(w) \cup Of(q)
         /\ w = <<>> => Later(Written(w, q)) \cup Of(Waiting(w, q)) \subseteq Later(q)
<1> DEFINE n == Moved(w, q)
<1>1. n \in 0 .. Len(q) /\ Len(w) + n <= WireSize /\ (n < Len(q) => Len(w) + n = WireSize)
  BY MovedType
<1>2. Len(q) \in Nat /\ Len(w) \in Nat /\ WireSize \in Nat \ {0}
  BY RealtimeAssumption
<1>a. /\ Written(w, q) \in Seq(Messages) /\ Waiting(w, q) \in Seq(Messages)
      /\ Len(Written(w, q)) = Len(w) + n /\ Len(Waiting(w, q)) = Len(q) - n
      /\ \A k \in 1 .. Len(w) + n : Written(w, q)[k] = IF k <= Len(w) THEN w[k] ELSE q[k - Len(w)]
      /\ \A k \in 1 .. Len(q) - n : Waiting(w, q)[k] = q[n + k]
  BY Moving
<1> HIDE DEF n
<1> DEFINE W == Written(w, q)
           R == Waiting(w, q)
<1>b. W \in Seq(Messages) /\ R \in Seq(Messages) /\ Len(W) = Len(w) + n /\ Len(R) = Len(q) - n
  BY <1>a
<1>c. \A k \in 1 .. Len(w) + n : W[k] = IF k <= Len(w) THEN w[k] ELSE q[k - Len(w)]
  BY <1>a
<1>d. \A k \in 1 .. Len(q) - n : R[k] = q[n + k]
  BY <1>a
<1> HIDE DEF W, R
<1>n. n \in Int /\ 0 <= n /\ n <= Len(q) /\ Len(w) + n <= WireSize /\ (n < Len(q) => Len(w) + n = WireSize)
  BY <1>1, <1>2
<1>3. Of(W) \cup Of(R) \subseteq Of(w) \cup Of(q)
  <2>1. ASSUME NEW k \in 1 .. Len(W) PROVE W[k] \in Of(w) \cup Of(q)
    <3>1. CASE k <= Len(w)
      BY <1>1, <1>2, <1>b, <1>c, <3>1 DEF Of
    <3>2. CASE k > Len(w)
      <4>1. k - Len(w) \in 1 .. Len(q) /\ k \in 1 .. Len(w) + n /\ ~(k <= Len(w))
        BY <1>2, <1>b, <1>n, <3>2
      <4>2. W[k] = q[k - Len(w)]
        BY <4>1, <1>c
      <4> QED BY <4>1, <4>2 DEF Of
    <3> QED BY <1>2, <3>1, <3>2
  <2>2. ASSUME NEW k \in 1 .. Len(R) PROVE R[k] \in Of(q)
    <3>1. n + k \in 1 .. Len(q) /\ k \in 1 .. Len(q) - n
      BY <1>2, <1>b, <1>n
    <3>2. R[k] = q[n + k]
      BY <3>1, <1>d
    <3> QED BY <3>1, <3>2 DEF Of
  <2> QED BY <2>1, <2>2 DEF Of
<1>4. Of(w) \cup Of(q) \subseteq Of(W) \cup Of(R)
  <2>1. ASSUME NEW k \in 1 .. Len(w) PROVE w[k] \in Of(W)
    <3>1. k \in 1 .. Len(W) /\ W[k] = w[k]
      BY <1>1, <1>2, <1>b, <1>c
    <3> QED BY <3>1 DEF Of
  <2>2. ASSUME NEW k \in 1 .. Len(q) PROVE q[k] \in Of(W) \cup Of(R)
    <3>1. CASE k <= n
      <4>1. PICK j \in 1 .. Len(W) : j = Len(w) + k
        <5>1. Len(w) + k \in 1 .. Len(W)
          BY <1>2, <1>b, <1>n, <3>1
        <5> QED BY <5>1
      <4>2. j \in 1 .. Len(w) + n /\ ~(j <= Len(w)) /\ j - Len(w) = k
        BY <1>1, <1>2, <3>1, <4>1
      <4>3. W[j] = q[j - Len(w)]
        BY <1>c, <4>2
      <4>4. W[j] = q[k]
        BY <4>2, <4>3
      <4> QED BY <4>4 DEF Of
    <3>2. CASE k > n
      <4>1. PICK j \in 1 .. Len(R) : j \in 1 .. Len(q) - n /\ n + j = k
        <5>1. k - n \in 1 .. Len(R) /\ k - n \in 1 .. Len(q) - n /\ n + (k - n) = k
          BY <1>2, <1>b, <1>n, <3>2
        <5> QED BY <5>1
      <4>2. R[j] = q[k]
        BY <4>1, <1>d
      <4> QED BY <4>2 DEF Of
    <3> QED BY <1>1, <1>2, <3>1, <3>2
  <2> QED BY <2>1, <2>2 DEF Of
<1>5. w # <<>> => Len(w) > 0
  BY <1>2
<1>6. q # <<>> => Len(q) > 0
  BY <1>2
<1>7. W # <<>> <=> Len(W) > 0
  BY <1>b
<1>8. R # <<>> <=> Len(R) > 0
  BY <1>b
<1>9. ASSUME w # <<>> PROVE W # <<>> /\ W[1] = w[1]
  <2>1. 1 \in 1 .. Len(w) + n /\ 1 <= Len(w) /\ Len(W) > 0
    BY <1>2, <1>5, <1>9, <1>b, <1>n
  <2> QED BY <2>1, <1>7, <1>c
<1>10. ASSUME w = <<>>, q # <<>> PROVE W # <<>> /\ W[1] = q[1]
  <2>1. Len(w) = 0
    BY <1>10, EmptySeq
  <2>2. 1 \in 1 .. Len(w) + n /\ ~(1 <= Len(w)) /\ 1 - Len(w) = 1 /\ Len(W) > 0
    BY <2>1, <1>2, <1>6, <1>10, <1>b, <1>n
  <2>3. W[1] = q[1 - Len(w)]
    BY <2>2, <1>c
  <2> QED BY <2>2, <2>3, <1>7
<1>11. (w = <<>> /\ q = <<>> => W = <<>>) /\ (q = <<>> => R = <<>>)
  BY <1>1, <1>2, <1>7, <1>8, <1>b
<1>12. ASSUME w # <<>> PROVE Later(W) \cup Of(R) \subseteq Later(w) \cup Of(q)
  <2>1. ASSUME NEW k \in 2 .. Len(W) PROVE W[k] \in Later(w) \cup Of(q)
    <3>1. CASE k <= Len(w)
      BY <1>1, <1>2, <1>b, <1>c, <3>1 DEF Later
    <3>2. CASE k > Len(w)
      <4>1. k - Len(w) \in 1 .. Len(q) /\ k \in 1 .. Len(w) + n /\ ~(k <= Len(w))
        BY <1>2, <1>b, <1>n, <3>2
      <4>2. W[k] = q[k - Len(w)]
        BY <4>1, <1>c
      <4> QED BY <4>1, <4>2 DEF Of
    <3> QED BY <1>2, <3>1, <3>2
  <2>2. ASSUME NEW k \in 1 .. Len(R) PROVE R[k] \in Of(q)
    <3>1. n + k \in 1 .. Len(q) /\ k \in 1 .. Len(q) - n
      BY <1>2, <1>b, <1>n
    <3>2. R[k] = q[n + k]
      BY <3>1, <1>d
    <3> QED BY <3>1, <3>2 DEF Of
  <2> QED BY <2>1, <2>2 DEF Of, Later
<1>13. ASSUME w = <<>> PROVE Later(W) \cup Of(R) \subseteq Later(q)
  <2>0. Len(w) = 0
    BY <1>13, EmptySeq
  <2>1. ASSUME NEW k \in 2 .. Len(W) PROVE W[k] \in Later(q)
    <3>1. k \in 2 .. Len(q) /\ W[k] = q[k]
      BY <2>0, <1>1, <1>2, <1>b, <1>c
    <3> QED BY <3>1 DEF Later
  <2>2. ASSUME NEW k \in 1 .. Len(R) PROVE R[k] \in Later(q)
    <3>1. n >= 1
      BY <2>0, <1>1, <1>2, <1>b
    <3>2. n + k \in 2 .. Len(q) /\ k \in 1 .. Len(q) - n
      BY <1>2, <1>b, <1>n, <3>1
    <3>3. R[k] = q[n + k]
      BY <3>2, <1>d
    <3> QED BY <3>2, <3>3 DEF Later
  <2> QED BY <2>1, <2>2 DEF Of, Later
<1> QED BY <1>1, <1>2, <1>3, <1>4, <1>8, <1>9, <1>10, <1>11, <1>12, <1>13, <1>b DEF W, R

\* A message put in a queue is there, or a demand to resynchronise is.
LEMMA Putting ==
  ASSUME NEW q \in Seq(Messages), NEW m \in Messages, Len(q) <= QueueSize
  PROVE  /\ Put(q, m) \in Seq(Messages)
         /\ Len(Put(q, m)) <= QueueSize
         /\ Put(q, m) # <<>>
         /\ Of(Put(q, m)) \subseteq Of(q) \cup {m, Resync}
         /\ Of(q) \cup {m} \subseteq Of(Put(q, m)) \/ Resync \in Of(Put(q, m))
         /\ q = <<>> => Put(q, m)[1] = m /\ Later(Put(q, m)) = {}
<1>1. Len(q) \in Nat /\ QueueSize \in Nat \ {0} /\ Resync \in Messages
  BY RealtimeAssumption DEF Messages, Resync, Other
<1>2. CASE Len(q) < QueueSize
  <2> DEFINE p == Append(q, m)
  <2>1. Put(q, m) = p
    BY <1>2 DEF Put
  <2>2. p \in Seq(Messages) /\ Len(p) = Len(q) + 1 /\ p[Len(q) + 1] = m
    OBVIOUS
  <2>3. \A i \in 1 .. Len(q) : p[i] = q[i]
    OBVIOUS
  <2> HIDE DEF p
  <2>4. \A i \in 1 .. Len(p) : i \in 1 .. Len(q) \/ i = Len(q) + 1
    BY <1>1, <2>2
  <2>5. Of(p) \subseteq Of(q) \cup {m}
    BY <2>2, <2>3, <2>4 DEF Of
  <2>6. \A i \in 1 .. Len(q) : i \in 1 .. Len(p)
    BY <1>1, <2>2
  <2>7. Len(q) + 1 \in 1 .. Len(p)
    BY <1>1, <2>2
  <2>8. Of(q) \cup {m} \subseteq Of(p)
    BY <2>2, <2>3, <2>6, <2>7 DEF Of
  <2>9. p # <<>> /\ Len(p) <= QueueSize
    BY <1>1, <1>2, <2>2
  <2>10. ASSUME q = <<>> PROVE p[1] = m /\ Later(p) = {}
    <3>1. Len(q) = 0
      BY <2>10, EmptySeq
    <3>2. 2 .. Len(p) = {}
      BY <2>2, <3>1
    <3> QED BY <2>2, <3>1, <3>2 DEF Later
  <2> QED BY <2>1, <2>2, <2>5, <2>8, <2>9, <2>10
<1>3. CASE ~(Len(q) < QueueSize)
  <2>0. q # <<>>
    BY <1>1, <1>3
  <2> DEFINE t == Tail(q)
             p == Append(t, Resync)
  <2>1. Put(q, m) = p
    BY <1>3 DEF Put
  <2>2. /\ t \in Seq(Messages) /\ Len(t) = Len(q) - 1
        /\ \A i \in 1 .. Len(t) : t[i] = q[i + 1]
    BY <2>0, HeadTailProperties
  <2> HIDE DEF t
  <2>3. p \in Seq(Messages) /\ Len(p) = Len(t) + 1 /\ p[Len(t) + 1] = Resync
    BY <1>1, <2>2
  <2>4. \A i \in 1 .. Len(t) : p[i] = t[i]
    BY <2>2
  <2> HIDE DEF p
  <2>5. \A i \in 1 .. Len(p) : i \in 1 .. Len(t) \/ i = Len(t) + 1
    BY <1>1, <2>2, <2>3
  <2>6. \A i \in 1 .. Len(t) : i + 1 \in 1 .. Len(q)
    BY <1>1, <2>2
  <2>7. Of(t) \subseteq Of(q)
    BY <2>2, <2>6 DEF Of
  <2>8. Of(p) \subseteq Of(q) \cup {Resync}
    BY <2>3, <2>4, <2>5, <2>7 DEF Of
  <2>9. Len(t) + 1 \in 1 .. Len(p)
    BY <1>1, <2>0, <2>2, <2>3
  <2>10. Resync \in Of(p)
    BY <2>3, <2>9 DEF Of
  <2>11. p # <<>> /\ Len(p) <= QueueSize
    BY <1>1, <1>3, <2>0, <2>2, <2>3
  <2> QED BY <2>0, <2>1, <2>3, <2>8, <2>10, <2>11
<1> QED BY <1>2, <1>3

\* The messages put in an empty queue: what is lost makes way for demands to
\* resynchronise.
LEMMA PuttingAll ==
  ASSUME NEW ms \in Seq(Messages)
  PROVE  /\ PutAll(ms) \in Seq(Messages)
         /\ Len(PutAll(ms)) <= QueueSize
         /\ Of(PutAll(ms)) \subseteq Of(ms) \cup {Resync}
         /\ ms = <<>> => PutAll(ms) = <<>>
         /\ ms # <<>> => PutAll(ms) # <<>>
         /\ Len(ms) = 1 => PutAll(ms) = ms
         /\ ms # <<>> => ms[Len(ms)] \in Of(PutAll(ms)) \/ Resync \in Of(PutAll(ms))
         /\ Len(ms) = 2 => PutAll(ms)[1] \in {ms[1], Resync}
<1>1. Len(ms) \in Nat /\ QueueSize \in Nat \ {0} /\ Resync \in Messages
  BY RealtimeAssumption DEF Messages, Resync, Other
<1>2. CASE Len(ms) <= QueueSize
  <2>1. PutAll(ms) = ms
    BY <1>2 DEF PutAll
  <2>2. ms # <<>> => Len(ms) \in 1 .. Len(ms)
    BY <1>1
  <2> QED BY <1>2, <2>1, <2>2 DEF Of
<1>3. CASE ~(Len(ms) <= QueueSize)
  <2> DEFINE lost == Len(ms) - QueueSize
             p == [i \in 1 .. QueueSize |-> IF i + lost <= QueueSize THEN ms[i + lost] ELSE Resync]
  <2>1. PutAll(ms) = p
    BY <1>3 DEF PutAll
  <2>2. ASSUME NEW i \in 1 .. QueueSize PROVE p[i] \in Of(ms) \cup {Resync}
    <3>1. CASE i + lost <= QueueSize
      <4>1. i + lost \in 1 .. Len(ms) /\ p[i] = ms[i + lost]
        BY <1>1, <1>3, <3>1
      <4> QED BY <4>1 DEF Of
    <3>2. CASE ~(i + lost <= QueueSize)
      BY <3>2
    <3> QED BY <3>1, <3>2
  <2>3. Of(ms) \subseteq Messages
    BY DEF Of
  <2>4. p \in [1 .. QueueSize -> Messages]
    BY <1>1, <2>2, <2>3
  <2>5. QueueSize \in 1 .. QueueSize /\ p[QueueSize] = Resync
    BY <1>1, <1>3
  <2>12. Len(ms) = 2 => p[1] = Resync
    BY <1>1, <1>3
  <2> HIDE DEF p
  <2>6. p \in Seq(Messages)
    BY <1>1, <2>4, SeqDef
  <2>7. Len(p) = QueueSize
    BY <1>1, <2>4, <2>6, LenProperties
  <2>8. Of(p) \subseteq Of(ms) \cup {Resync}
    BY <2>2, <2>7 DEF Of
  <2>9. Resync \in Of(p)
    BY <2>5, <2>7 DEF Of
  <2>10. p # <<>>
    BY <1>1, <2>7
  <2>11. ms # <<>> /\ Len(ms) # 1
    <3>1. Len(ms) > 1
      BY <1>1, <1>3
    <3>2. ms = <<>> => ~(Len(ms) > 1)
      BY EmptySeq
    <3>3. ASSUME Len(ms) = 1 PROVE FALSE
      BY <3>1, <3>3
    <3> QED BY <3>1, <3>2, <3>3
  <2> QED BY <1>1, <2>1, <2>6, <2>7, <2>8, <2>9, <2>10, <2>11, <2>12
<1> QED BY <1>2, <1>3

-----------------------------------------------------------------------------
\* What a send, a consumption and a welcome do to a connection.

LEMMA Broadcasting ==
  ASSUME TypeOK, NEW m \in Messages, Broadcast(m)
  PROVE  /\ LinkType'
         /\ \A c \in Clients : conn[c] # "open" => wire'[c] = wire[c] /\ queue'[c] = queue[c]
         /\ \A c \in Clients : conn[c] = "open" =>
              /\ wire'[c] # <<>>
              /\ Under(c)' \subseteq Under(c) \cup {m, Resync}
              /\ Under(c) \cup {m} \subseteq Under(c)' \/ Resync \in Under(c)'
              /\ wire[c] # <<>> => /\ wire'[c][1] = wire[c][1]
                                  /\ Behind(c)' \subseteq Behind(c) \cup {m, Resync}
              /\ wire[c] = <<>> => wire'[c][1] = m /\ Behind(c)' = {}
<1>1. LinkType /\ WireSize \in Nat \ {0}
  BY RealtimeAssumption DEF TypeOK, LinkType
<1>2. ASSUME NEW c \in Clients, conn[c] # "open" PROVE wire'[c] = wire[c] /\ queue'[c] = queue[c]
  BY <1>2 DEF Broadcast, Registered
<1>3. ASSUME NEW c \in Clients, conn[c] = "open"
      PROVE  /\ wire'[c] \in Seq(Messages) /\ queue'[c] \in Seq(Messages)
             /\ Len(wire'[c]) <= WireSize /\ Len(queue'[c]) <= QueueSize
             /\ queue'[c] # <<>> => Len(wire'[c]) = WireSize
             /\ wire'[c] # <<>>
             /\ Under(c)' \subseteq Under(c) \cup {m, Resync}
             /\ Under(c) \cup {m} \subseteq Under(c)' \/ Resync \in Under(c)'
             /\ wire[c] # <<>> => /\ wire'[c][1] = wire[c][1]
                                 /\ Behind(c)' \subseteq Behind(c) \cup {m, Resync}
             /\ wire[c] = <<>> => wire'[c][1] = m /\ Behind(c)' = {}
  <2> DEFINE w == wire[c]
             q == queue[c]
             p == Put(q, m)
  <2>1. wire'[c] = Written(w, p) /\ queue'[c] = Waiting(w, p)
    BY <1>3 DEF Broadcast, Registered
  <2>2. /\ w \in Seq(Messages) /\ q \in Seq(Messages)
        /\ Len(w) <= WireSize /\ Len(q) <= QueueSize /\ (q # <<>> => Len(w) = WireSize)
    BY <1>1 DEF LinkType
  <2> HIDE DEF w, q
  <2>3. w = <<>> => q = <<>>
    BY <1>1, <2>2, EmptySeq
  <2>4. /\ p \in Seq(Messages) /\ Len(p) <= QueueSize /\ p # <<>>
        /\ Of(p) \subseteq Of(q) \cup {m, Resync}
        /\ Of(q) \cup {m} \subseteq Of(p) \/ Resync \in Of(p)
        /\ q = <<>> => p[1] = m /\ Later(p) = {}
    BY <2>2, Putting
  <2> HIDE DEF p
  <2>5. /\ Written(w, p) \in Seq(Messages) /\ Waiting(w, p) \in Seq(Messages)
        /\ Len(Waiting(w, p)) = Len(p) - Moved(w, p)
    BY <2>2, <2>4, Moving
  <2>6. /\ Of(Written(w, p)) \cup Of(Waiting(w, p)) = Of(w) \cup Of(p)
        /\ Len(Written(w, p)) <= WireSize /\ Len(Waiting(w, p)) <= Len(p)
        /\ Waiting(w, p) # <<>> => Len(Written(w, p)) = WireSize
        /\ w # <<>> => Written(w, p) # <<>> /\ Written(w, p)[1] = w[1]
        /\ w = <<>> /\ p # <<>> => Written(w, p) # <<>> /\ Written(w, p)[1] = p[1]
        /\ w # <<>> => Later(Written(w, p)) \cup Of(Waiting(w, p)) \subseteq Later(w) \cup Of(p)
        /\ w = <<>> => Later(Written(w, p)) \cup Of(Waiting(w, p)) \subseteq Later(p)
    BY <2>2, <2>4, MovingKeeps
  <2>7. /\ Under(c) = Of(w) \cup Of(q) /\ Behind(c) = Later(w) \cup Of(q)
        /\ Under(c)' = Of(Written(w, p)) \cup Of(Waiting(w, p))
        /\ Behind(c)' = Later(Written(w, p)) \cup Of(Waiting(w, p))
    BY <2>1 DEF Under, Behind, w, q
  <2>8. Len(Waiting(w, p)) <= QueueSize
    <3>1. Len(p) \in Nat /\ Len(Waiting(w, p)) \in Nat /\ QueueSize \in Nat
      BY <2>4, <2>5, RealtimeAssumption
    <3> QED BY <3>1, <2>4, <2>6
  <2>9. /\ Under(c)' \subseteq Under(c) \cup {m, Resync}
        /\ Under(c) \cup {m} \subseteq Under(c)' \/ Resync \in Under(c)'
    BY <2>4, <2>6, <2>7
  <2>10. wire[c] # <<>> => wire'[c][1] = wire[c][1] /\ Behind(c)' \subseteq Behind(c) \cup {m, Resync}
    BY <2>1, <2>4, <2>6, <2>7 DEF w
  <2>11. wire[c] = <<>> => wire'[c][1] = m /\ Behind(c)' = {}
    BY <2>1, <2>3, <2>4, <2>6, <2>7 DEF w
  <2>12. wire'[c] # <<>>
    BY <2>1, <2>4, <2>6
  <2> QED BY <2>1, <2>5, <2>6, <2>8, <2>9, <2>10, <2>11, <2>12
<1>4. queue' \in [Clients -> Seq(Messages)] /\ wire' \in [Clients -> Seq(Messages)]
  <2>1. \A c \in Clients : wire'[c] \in Seq(Messages) /\ queue'[c] \in Seq(Messages)
    BY <1>1, <1>2, <1>3 DEF LinkType
  <2>2. wire' = [c \in Clients |-> wire'[c]] /\ queue' = [c \in Clients |-> queue'[c]]
    BY DEF Broadcast
  <2> QED BY <2>1, <2>2
<1>5. LinkType'
  BY <1>1, <1>2, <1>3, <1>4 DEF LinkType
<1> QED BY <1>2, <1>3, <1>5

\* A client with a base knows the server at the other end, and shows the state
\* of that sequence.
LEMMA ViewBase ==
  ASSUME RealtimeInv, NEW c \in Clients, Base(c) # 0
  PROVE  /\ clientInstance[c] = server[c] /\ lastSequence[c] = Base(c)
         /\ Base(c) \in 1 .. Len(history[server[c]])
         /\ view[c] = history[server[c]][Base(c)]
<1>1. Base(c) = lastSequence[c] /\ clientInstance[c] \in {0, server[c]}
  BY DEF Base
<1>2. /\ clientInstance[c] # 0
      /\ lastSequence[c] <= Len(history[clientInstance[c]])
      /\ view[c] = history[clientInstance[c]][lastSequence[c]]
  BY <1>1 DEF RealtimeInv, ViewIsPublishedState
<1>3. lastSequence[c] \in Nat /\ server[c] \in Instances /\ Len(history[server[c]]) \in Nat
  BY DEF RealtimeInv, TypeOK
<1> QED BY <1>1, <1>2, <1>3

\* A message sent by the running server leaves every connection in order.
LEMMA SendingKeeps ==
  ASSUME RealtimeInv, NEW m \in Messages, Broadcast(m), m.type # "error",
         UNCHANGED <<instance, conn, server, clientInstance, lastSequence>>,
         history' \in [Instances -> Seq(States)],
         \A n \in Instances : Len(history[n]) <= Len(history'[n]),
         MessageFits(m, instance)',
         Sequence' > 0,
         m.type = "snapshot" <=> Sequence = 0,
         Sequence' # Sequence => m.type \in {"snapshot", "delta"} /\ m.sequence = Sequence'
  PROVE  LinksInv'
<1> SUFFICES ASSUME NEW c \in Clients PROVE Linked(c)'
  BY DEF LinksInv
<1>1. TypeOK /\ LinkFits(c) /\ BaseFits(c) /\ SnapshotFirst(c) /\ Told(c)
  BY DEF RealtimeInv, LinksInv, Linked
<1>2. /\ LinkType'
      /\ conn[c] # "open" => wire'[c] = wire[c] /\ queue'[c] = queue[c]
      /\ conn[c] = "open" =>
           /\ wire'[c] # <<>>
           /\ Under(c)' \subseteq Under(c) \cup {m, Resync}
           /\ Under(c) \cup {m} \subseteq Under(c)' \/ Resync \in Under(c)'
           /\ wire[c] # <<>> => /\ wire'[c][1] = wire[c][1]
                               /\ Behind(c)' \subseteq Behind(c) \cup {m, Resync}
           /\ wire[c] = <<>> => wire'[c][1] = m /\ Behind(c)' = {}
  BY <1>1, Broadcasting
<1>3. Base(c)' = Base(c)
  BY DEF Base
<1>4. \A n \in Instances : Len(history[n]) \in Nat /\ Len(history'[n]) \in Nat
  BY <1>1 DEF TypeOK
<1>5. instance \in Instances /\ server[c] \in Instances
  BY <1>1 DEF TypeOK
<1>6. Sequence = Len(history[instance]) /\ Sequence' = Len(history'[instance])
  BY DEF Sequence
<1>7. ASSUME NEW x \in Under(c) PROVE MessageFits(x, server[c])'
  <2>1. MessageFits(x, server[c])
    BY <1>1 DEF LinkFits
  <2>2. Len(history[server[c]]) <= Len(history'[server[c]])
    BY <1>5
  <2> QED BY <1>4, <1>5, <2>1, <2>2 DEF MessageFits
<1>8. Resync.type = "resync_required"
  BY DEF Resync, Other
<1>9. CASE conn[c] # "open"
  <2>1. Under(c)' = Under(c)
    BY <1>2, <1>9 DEF Under
  <2>2. LinkFits(c)'
    BY <1>1, <1>2, <1>7, <1>9, <2>1 DEF LinkFits
  <2>3. BaseFits(c)'
    BY <1>1, <1>2, <1>3, <1>9 DEF BaseFits
  <2> QED BY <1>9, <2>2, <2>3 DEF Linked, SnapshotFirst, Told
<1>10. CASE conn[c] = "open"
  <2>1. server[c] = instance
    BY <1>1, <1>10 DEF LinkFits
  <2>2. ASSUME Sequence = 0 PROVE Base(c) = 0 /\ wire[c] = <<>>
    <3>1. wire[c] = <<>>
      BY <1>1, <1>10, <2>2 DEF BaseFits
    <3>2. ASSUME Base(c) # 0 PROVE FALSE
      <4>1. Base(c) \in 1 .. Len(history[instance])
        BY <2>1, <3>2, ViewBase
      <4> QED BY <1>6, <2>2, <4>1
    <3> QED BY <3>1, <3>2
  <2>3. LinkFits(c)'
    <3>1. \A x \in Under(c)' : MessageFits(x, server[c])'
      BY <1>2, <1>7, <1>8, <1>10, <2>1 DEF MessageFits
    <3>2. \A x \in Under(c)' : x.type # "error"
      BY <1>1, <1>2, <1>8, <1>10 DEF LinkFits
    <3> QED BY <1>10, <2>1, <3>1, <3>2 DEF LinkFits
  <2>4. BaseFits(c)'
    <3>1. ASSUME Base(c) = 0 PROVE NeedsNoBase(wire'[c][1])
      <4>1. CASE wire[c] # <<>>
        BY <1>1, <1>2, <1>10, <3>1, <4>1 DEF BaseFits
      <4>2. CASE wire[c] = <<>>
        BY <1>1, <1>2, <1>10, <3>1, <4>2 DEF BaseFits, NeedsNoBase
      <4> QED BY <4>1, <4>2
    <3>2. Sequence' # 0
      BY <1>4, <1>5, <1>6
    <3> QED BY <1>2, <1>3, <1>10, <3>1, <3>2 DEF BaseFits
  <2>5. SnapshotFirst(c)'
    <3>1. CASE wire[c] # <<>>
      <4>1. m.type # "snapshot"
        BY <2>2, <3>1
      <4> QED BY <1>1, <1>2, <1>3, <1>8, <1>10, <3>1, <4>1 DEF SnapshotFirst
    <3>2. CASE wire[c] = <<>>
      BY <1>2, <1>3, <1>10, <2>2, <3>2 DEF SnapshotFirst
    <3> QED BY <3>1, <3>2
  <2>6. Told(c)'
    <3>1. CASE Resync \in Under(c)'
      BY <1>8, <3>1 DEF Told, Telling
    <3>2. CASE Sequence' # Sequence /\ m \in Under(c)'
      BY <3>2 DEF Told, Telling
    <3>3. CASE Sequence' = Sequence /\ Under(c) \subseteq Under(c)'
      BY <1>1, <1>3, <1>10, <3>3 DEF Told, Telling
    <3> QED BY <1>2, <1>10, <3>1, <3>2, <3>3
  <2> QED BY <2>3, <2>4, <2>5, <2>6 DEF Linked
<1> QED BY <1>9, <1>10

\* A publication leaves what was published before, and every connection in
\* order.
LEMMA PublishKeeps ==
  ASSUME RealtimeInv, NEW s \in States, Publish(s),
         UNCHANGED <<instance, conn, server, clientInstance, lastSequence, view>>
  PROVE  /\ history' \in [Instances -> Seq(States)] /\ LinkType'
         /\ LinksInv'
         /\ ViewIsPublishedState'
<1>1. TypeOK /\ LinkType /\ LinksInv /\ ViewIsPublishedState
  BY DEF RealtimeInv, TypeOK, LinkType
<1>2. CASE Sequence > 0 /\ Changed(history[instance][Sequence], s) = {}
  <2>1. UNCHANGED <<history, wire, queue>>
    BY <1>2 DEF Publish
  <2>2. history' \in [Instances -> Seq(States)] /\ LinkType'
    BY <1>1, <2>1 DEF TypeOK, LinkType
  <2>3. LinksInv'
    BY <1>1, <2>1 DEF LinksInv, Linked, LinkFits, BaseFits, SnapshotFirst, Told, Telling, Under,
                      Behind, Base, Sequence, MessageFits
  <2> QED BY <1>1, <2>1, <2>2, <2>3 DEF ViewIsPublishedState
<1>3. CASE ~(Sequence > 0 /\ Changed(history[instance][Sequence], s) = {})
  <2>0. PICK m \in Messages : m = IF Sequence = 0 THEN Snapshot(1) ELSE Delta(Sequence + 1)
    <3>1. Sequence \in Nat
      BY <1>1 DEF TypeOK, Sequence
    <3>2. Snapshot(1) \in Messages /\ Delta(Sequence + 1) \in Messages
      BY <3>1 DEF Messages, Snapshot, Delta
    <3> QED BY <3>2
  <2>1. history' = [history EXCEPT ![instance] = Append(@, s)] /\ Broadcast(m)
    BY <1>3, <2>0 DEF Publish
  <2>2. /\ history \in [Instances -> Seq(States)] /\ instance \in Instances
        /\ Sequence \in Nat /\ Sequence = Len(history[instance])
    BY <1>1 DEF TypeOK, Sequence
  <2>3. history'[instance] = Append(history[instance], s)
    BY <2>1, <2>2
  <2>4. \A n \in Instances : n # instance => history'[n] = history[n]
    BY <2>1, <2>2
  <2>5. history' \in [Instances -> Seq(States)]
    BY <2>1, <2>2
  <2>6. \A n \in Instances :
          /\ Len(history[n]) \in Nat /\ Len(history[n]) <= Len(history'[n])
          /\ \A k \in 1 .. Len(history[n]) : history'[n][k] = history[n][k]
    <3> SUFFICES ASSUME NEW n \in Instances
                 PROVE  /\ Len(history[n]) \in Nat /\ Len(history[n]) <= Len(history'[n])
                        /\ \A k \in 1 .. Len(history[n]) : history'[n][k] = history[n][k]
      OBVIOUS
    <3>1. CASE n = instance
      BY <2>2, <2>3, <3>1
    <3>2. CASE n # instance
      BY <2>2, <2>4, <3>2
    <3> QED BY <3>1, <3>2
  <2>7. Sequence' = Sequence + 1
    BY <2>2, <2>3 DEF Sequence
  <2>8. /\ m.type \in {"snapshot", "delta"} /\ m.sequence = Sequence + 1
        /\ m.type = "snapshot" <=> Sequence = 0
    BY <2>0, <2>2 DEF Snapshot, Delta
  <2>9. MessageFits(m, instance)'
    BY <2>2, <2>7, <2>8 DEF MessageFits, Sequence
  <2>10. Sequence' > 0 /\ (Sequence' # Sequence => m.type \in {"snapshot", "delta"} /\ m.sequence = Sequence')
    BY <2>2, <2>7, <2>8
  <2>11. LinksInv'
    BY <2>1, <2>5, <2>6, <2>8, <2>9, <2>10, SendingKeeps
  <2>12. LinkType'
    BY <1>1, <2>1, <2>8, Broadcasting
  <2>13. ViewIsPublishedState'
    <3> SUFFICES ASSUME NEW c \in Clients, lastSequence[c] # 0
                 PROVE  /\ clientInstance[c] # 0
                        /\ lastSequence[c] <= Len(history'[clientInstance[c]])
                        /\ view[c] = history'[clientInstance[c]][lastSequence[c]]
      BY DEF ViewIsPublishedState
    <3>1. /\ clientInstance[c] # 0
          /\ lastSequence[c] <= Len(history[clientInstance[c]])
          /\ view[c] = history[clientInstance[c]][lastSequence[c]]
      BY <1>1 DEF ViewIsPublishedState
    <3>2. clientInstance[c] \in Instances /\ lastSequence[c] \in Nat
      BY <1>1, <3>1 DEF TypeOK, Instances
    <3> QED BY <2>5, <2>6, <3>1, <3>2
  <2> QED BY <2>5, <2>11, <2>12, <2>13
<1> QED BY <1>2, <1>3

LEMMA HeartbeatKeeps ==
  ASSUME RealtimeInv, Heartbeat
  PROVE  LinkType' /\ LinksInv' /\ ViewIsPublishedState'
<1> DEFINE m == Other("heartbeat")
<1>1. TypeOK /\ Broadcast(m) /\ Sequence > 0
  BY DEF RealtimeInv, Heartbeat
<1>2. UNCHANGED <<instance, history, conn, server, clientInstance, lastSequence, view>>
  BY DEF Heartbeat, clientVars
<1>3. m \in Messages /\ m.type = "heartbeat"
  BY DEF Messages, Other
<1> HIDE DEF m
<1>4. history' \in [Instances -> Seq(States)] /\ Sequence' = Sequence /\ Sequence \in Nat
  BY <1>1, <1>2 DEF TypeOK, Sequence
<1>5. \A n \in Instances : Len(history[n]) <= Len(history'[n])
  BY <1>1, <1>2 DEF TypeOK
<1>6. MessageFits(m, instance)'
  BY <1>3 DEF MessageFits
<1>7. LinksInv'
  BY <1>1, <1>2, <1>3, <1>4, <1>5, <1>6, SendingKeeps
<1>8. LinkType'
  BY <1>1, <1>3, Broadcasting
<1>9. ViewIsPublishedState'
  BY <1>2 DEF RealtimeInv, ViewIsPublishedState
<1> QED BY <1>7, <1>8, <1>9

\* A step that does not touch a connection or its server leaves it in order.
LEMMA Elsewhere ==
  ASSUME NEW c \in Clients, Linked(c), UNCHANGED <<instance, history>>,
         conn'[c] = conn[c], server'[c] = server[c], queue'[c] = queue[c], wire'[c] = wire[c],
         clientInstance'[c] = clientInstance[c], lastSequence'[c] = lastSequence[c]
  PROVE  Linked(c)'
<1>1. /\ Under(c)' = Under(c) /\ Behind(c)' = Behind(c) /\ Base(c)' = Base(c)
      /\ Sequence' = Sequence
  BY DEF Under, Behind, Base, Sequence
<1>2. \A x : MessageFits(x, server[c])' <=> MessageFits(x, server[c])
  BY DEF MessageFits
<1>3. \A x : Telling(x)' <=> Telling(x)
  BY <1>1 DEF Telling
<1>4. LinkFits(c)'
  BY <1>1, <1>2 DEF Linked, LinkFits
<1>5. BaseFits(c)'
  BY <1>1 DEF Linked, BaseFits
<1>6. SnapshotFirst(c)'
  BY <1>1 DEF Linked, SnapshotFirst
<1>7. Told(c)'
  BY <1>1, <1>3 DEF Linked, Told
<1> QED BY <1>4, <1>5, <1>6, <1>7 DEF Linked

-----------------------------------------------------------------------------
\* A new connection.

\* What synchronises a client that may ask for a replay: what it missed, or a
\* demand to resynchronise in front of a snapshot.
LEMMA Replay ==
  ASSUME RealtimeInv, NEW c \in Clients, MayReplay(c)
  PROVE  /\ lastSequence[c] \in 1 .. Sequence
         /\ Welcome(c) \in Seq(Messages)
         /\ \A m \in Of(Welcome(c)) : MessageFits(m, instance) /\ m.type # "error"
         /\ Welcome(c) = <<>> => lastSequence[c] = Sequence
         /\ Welcome(c) # <<>> => Telling(Welcome(c)[Len(Welcome(c))])
         /\ \/ \A m \in Of(Welcome(c)) : m.type # "snapshot"
            \/ Len(Welcome(c)) = 2 /\ Welcome(c)[1] = Resync
<1> DEFINE last == lastSequence[c]
<1>1. /\ clientInstance[c] = instance /\ last # 0
      /\ Sequence \in Nat /\ last \in Nat /\ last <= Sequence
  BY DEF RealtimeInv, MayReplay, ViewIsPublishedState, TypeOK, Sequence
<1>2. Sequence = Len(history[instance])
  BY DEF Sequence
<1>3. CASE Retained(last)
  <2> DEFINE n == Sequence - last
             r == [k \in 1 .. n |-> Delta(last + k)]
  <2>1. Welcome(c) = r
    BY <1>3 DEF Welcome
  <2>2. n \in Nat
    BY <1>1
  <2>3. \A k \in 1 .. n : /\ r[k] = [type |-> "delta", sequence |-> last + k]
                          /\ last + k \in 2 .. Sequence
    BY <1>1 DEF Delta
  <2>4. \A k \in 1 .. n : r[k] \in Messages
    <3>1. \A j \in Nat : [type |-> "delta", sequence |-> j] \in Messages
      BY DEF Messages
    <3>2. \A k \in 1 .. n : last + k \in Nat
      BY <1>1
    <3> QED BY <2>3, <3>1, <3>2
  <2>5. r \in [1 .. n -> Messages]
    BY <2>4
  <2>6. n > 0 => last + n = Sequence /\ n \in 1 .. n
    BY <1>1
  <2>7. n = 0 => last = Sequence
    BY <1>1
  <2> HIDE DEF r, n
  <2>8. r \in Seq(Messages)
    BY <2>2, <2>5, SeqDef
  <2>9. Len(r) = n
    BY <2>2, <2>5, <2>8, LenProperties
  <2>10. \A m \in Of(r) : m.type = "delta" /\ MessageFits(m, instance)
    BY <1>2, <2>3, <2>9 DEF Of, MessageFits
  <2>11. r = <<>> => last = Sequence
    <3>1. r = <<>> => n = 0
      BY <2>8, <2>9, EmptySeq
    <3> QED BY <2>7, <3>1
  <2>12. r # <<>> => Telling(r[Len(r)])
    <3>1. r # <<>> => n > 0
      BY <2>2, <2>8, <2>9, EmptySeq
    <3> QED BY <2>3, <2>6, <2>9, <3>1 DEF Telling
  <2> QED BY <1>1, <2>1, <2>8, <2>10, <2>11, <2>12
<1>4. CASE ~Retained(last)
  <2> DEFINE r == <<Resync, Snapshot(Sequence)>>
  <2>1. Welcome(c) = r
    BY <1>4 DEF Welcome
  <2>2. Resync \in Messages /\ Snapshot(Sequence) \in Messages
    BY <1>1 DEF Messages, Resync, Other, Snapshot
  <2>3. r \in Seq(Messages) /\ Len(r) = 2 /\ r[1] = Resync /\ r[2] = Snapshot(Sequence)
    BY <2>2
  <2>4. r # <<>>
    BY <2>3
  <2> HIDE DEF r
  <2>5. \A m \in Of(r) : m \in {Resync, Snapshot(Sequence)}
    <3>1. \A k \in 1 .. 2 : k = 1 \/ k = 2
      OBVIOUS
    <3> QED BY <2>3, <3>1 DEF Of
  <2>6. Sequence \in 1 .. Len(history[instance])
    BY <1>1, <1>2
  <2>7. \A m \in Of(r) : MessageFits(m, instance) /\ m.type # "error"
    BY <2>5, <2>6 DEF MessageFits, Resync, Other, Snapshot
  <2>8. Telling(r[Len(r)])
    BY <2>3 DEF Telling, Snapshot
  <2> QED BY <1>1, <2>1, <2>3, <2>4, <2>7, <2>8
<1> QED BY <1>3, <1>4

LEMMA AcceptKeeps ==
  ASSUME RealtimeInv, NEW c \in Clients, Accept(c)
  PROVE  LinkType' /\ LinksInv' /\ ViewIsPublishedState'
<1> DEFINE w == Welcome(c)
           p == PutAll(w)
           Stale == ~MayReplay(c)
<1>1. TypeOK /\ LinksInv /\ ViewIsPublishedState /\ WireSize \in Nat \ {0} /\ QueueSize \in Nat \ {0}
  BY RealtimeAssumption DEF RealtimeInv
<1>2. /\ UNCHANGED <<instance, history, clientInstance, lastSequence, view>>
      /\ conn' = [conn EXCEPT ![c] = "open"] /\ server' = [server EXCEPT ![c] = instance]
      /\ wire' = [wire EXCEPT ![c] = Written(<<>>, p)]
      /\ queue' = [queue EXCEPT ![c] = Waiting(<<>>, p)]
  BY DEF Accept, clientVars
<1>3. Sequence \in Nat /\ Sequence = Len(history[instance]) /\ instance \in Instances
  BY <1>1 DEF TypeOK, Sequence
<1>4. Stale /\ Sequence > 0 => w = <<Snapshot(Sequence)>>
  BY DEF Welcome
<1>5. Stale /\ Sequence = 0 => w = <<>>
  BY DEF Welcome
<1>6. ~Stale =>
        /\ lastSequence[c] \in 1 .. Sequence
        /\ w \in Seq(Messages)
        /\ \A m \in Of(w) : MessageFits(m, instance) /\ m.type # "error"
        /\ w = <<>> => lastSequence[c] = Sequence
        /\ w # <<>> => Telling(w[Len(w)])
        /\ (\A m \in Of(w) : m.type # "snapshot") \/ (Len(w) = 2 /\ w[1] = Resync)
  BY Replay
<1> HIDE DEF w
<1>7. Stale /\ Sequence > 0 =>
        /\ w \in Seq(Messages) /\ Len(w) = 1 /\ w # <<>> /\ Of(w) = {Snapshot(Sequence)}
        /\ Later(w) = {} /\ w[1] = Snapshot(Sequence)
  <2> SUFFICES ASSUME Stale, Sequence > 0
               PROVE  /\ w \in Seq(Messages) /\ Len(w) = 1 /\ w # <<>> /\ Of(w) = {Snapshot(Sequence)}
                      /\ Later(w) = {} /\ w[1] = Snapshot(Sequence)
    OBVIOUS
  <2>1. Snapshot(Sequence) \in Messages
    BY <1>3 DEF Messages, Snapshot
  <2>2. w \in Seq(Messages) /\ Len(w) = 1 /\ w[1] = Snapshot(Sequence) /\ w # <<>>
    <3>1. w = <<Snapshot(Sequence)>>
      BY <1>4
    <3>2. ASSUME NEW m \in Messages
          PROVE  <<m>> \in Seq(Messages) /\ Len(<<m>>) = 1 /\ <<m>>[1] = m /\ <<m>> # <<>>
      OBVIOUS
    <3> QED BY <2>1, <3>1, <3>2
  <2>3. 2 .. 1 = {} /\ 1 .. 1 = {1}
    OBVIOUS
  <2> QED BY <2>2, <2>3 DEF Of, Later
<1>8. w \in Seq(Messages)
  <2>1. <<>> \in Seq(Messages)
    OBVIOUS
  <2>2. ~Stale => w \in Seq(Messages)
    BY <1>6
  <2>3. Stale /\ Sequence > 0 => w \in Seq(Messages)
    BY <1>7
  <2>4. Stale /\ Sequence = 0 => w \in Seq(Messages)
    BY <1>5, <2>1
  <2>5. Sequence > 0 \/ Sequence = 0
    BY <1>3
  <2> QED BY <2>2, <2>3, <2>4, <2>5
<1>9. /\ p \in Seq(Messages) /\ Len(p) <= QueueSize
      /\ Of(p) \subseteq Of(w) \cup {Resync}
      /\ w = <<>> => p = <<>>
      /\ w # <<>> => p # <<>>
      /\ Len(w) = 1 => p = w
      /\ w # <<>> => w[Len(w)] \in Of(p) \/ Resync \in Of(p)
      /\ Len(w) = 2 => p[1] \in {w[1], Resync}
  BY <1>8, PuttingAll
<1> HIDE DEF p
<1> DEFINE e == Written(<<>>, p)
           f == Waiting(<<>>, p)
<1>10. <<>> \in Seq(Messages) /\ Len(<<>>) = 0 /\ 0 <= WireSize /\ Of(<<>>) = {}
  BY <1>1, EmptySeq DEF Of
<1>11. /\ e \in Seq(Messages) /\ f \in Seq(Messages)
       /\ Len(f) = Len(p) - Moved(<<>>, p)
  BY <1>9, <1>10, Moving
<1>12. /\ Of(e) \cup Of(f) = Of(p)
       /\ Len(e) <= WireSize /\ Len(f) <= Len(p)
       /\ f # <<>> => Len(e) = WireSize
       /\ p # <<>> => e # <<>> /\ e[1] = p[1]
       /\ p = <<>> => e = <<>>
       /\ Later(e) \cup Of(f) \subseteq Later(p)
  BY <1>9, <1>10, MovingKeeps
<1>13. conn'[c] = "open" /\ server'[c] = instance /\ wire'[c] = e /\ queue'[c] = f
  BY <1>1, <1>2 DEF TypeOK
<1> HIDE DEF e, f
<1>14. LinkType'
  <2>1. Len(f) <= QueueSize
    BY <1>1, <1>9, <1>11, <1>12
  <2>2. queue' \in [Clients -> Seq(Messages)] /\ wire' \in [Clients -> Seq(Messages)]
    BY <1>1, <1>2, <1>11 DEF TypeOK, e, f
  <2>3. \A d \in Clients \ {c} : wire'[d] = wire[d] /\ queue'[d] = queue[d]
    BY <1>1, <1>2 DEF TypeOK
  <2> QED BY <1>1, <1>12, <1>13, <2>1, <2>2, <2>3 DEF TypeOK, LinkType
<1>15. ViewIsPublishedState'
  BY <1>1, <1>2 DEF ViewIsPublishedState
<1>16. ASSUME NEW d \in Clients, d # c PROVE Linked(d)'
  <2>1. /\ conn'[d] = conn[d] /\ server'[d] = server[d] /\ queue'[d] = queue[d]
        /\ wire'[d] = wire[d]
    BY <1>1, <1>2, <1>16 DEF TypeOK
  <2> QED BY <1>1, <1>2, <2>1, Elsewhere DEF LinksInv
<1>17. Base(c)' = IF Stale THEN 0 ELSE lastSequence[c]
  <2>1. Base(c)' = IF clientInstance[c] \in {0, instance} THEN lastSequence[c] ELSE 0
    BY <1>2, <1>13 DEF Base
  <2>2. clientInstance[c] = 0 => lastSequence[c] = 0
    BY <1>1 DEF ViewIsPublishedState
  <2>3. instance # 0
    BY <1>3 DEF Instances
  <2> QED BY <2>1, <2>2, <2>3 DEF MayReplay
<1>18. Under(c)' = Of(p) /\ Behind(c)' \subseteq Later(p) /\ Sequence' = Sequence
  BY <1>2, <1>12, <1>13 DEF Under, Behind, Sequence
<1>19. Resync.type = "resync_required" /\ Later(p) \subseteq Of(p)
  BY DEF Resync, Other, Later, Of
<1> HIDE DEF Stale
<1>20. LinkFits(c)'
  <2>1. \A m \in Of(w) : MessageFits(m, instance) /\ m.type # "error"
    <3>1. CASE ~Stale
      BY <1>6, <3>1
    <3>2. CASE Stale /\ Sequence > 0
      BY <1>3, <1>7, <3>2 DEF MessageFits, Snapshot
    <3>3. CASE Stale /\ Sequence = 0
      BY <1>5, <1>10, <3>3
    <3> QED BY <1>3, <3>1, <3>2, <3>3
  <2>2. \A m \in Under(c)' : MessageFits(m, server[c])' /\ m.type # "error"
    BY <1>2, <1>9, <1>13, <1>18, <1>19, <2>1 DEF MessageFits
  <2> QED BY <1>2, <1>13, <2>2 DEF LinkFits
<1>21. Stale /\ Sequence > 0 => wire'[c] # <<>> /\ wire'[c][1] = Snapshot(Sequence) /\ Behind(c)' = {}
  BY <1>7, <1>9, <1>12, <1>13, <1>18
<1>22. BaseFits(c)'
  <2>1. ~Stale => Base(c)' # 0 /\ Sequence # 0
    BY <1>3, <1>6, <1>17
  <2>2. Stale /\ Sequence = 0 => wire'[c] = <<>>
    BY <1>5, <1>9, <1>12, <1>13
  <2> QED BY <1>3, <1>18, <1>21, <2>1, <2>2 DEF BaseFits, NeedsNoBase, Snapshot
<1>23. SnapshotFirst(c)'
  <2> SUFFICES ASSUME wire'[c] # <<>>
               PROVE  /\ wire'[c][1].type = "snapshot" => Base(c)' = 0
                      /\ wire'[c][1].type # "resync_required" => \A m \in Behind(c)' : m.type # "snapshot"
    BY DEF SnapshotFirst
  <2>1. CASE Stale
    <3>1. Sequence > 0
      BY <1>3, <1>5, <1>9, <1>12, <1>13, <2>1
    <3> QED BY <1>17, <1>21, <2>1, <3>1
  <2>2. p # <<>> /\ wire'[c][1] = p[1]
    BY <1>12, <1>13
  <2>3. CASE ~Stale /\ \A m \in Of(w) : m.type # "snapshot"
    <3>1. \A m \in Of(p) : m.type # "snapshot"
      BY <1>9, <1>19, <2>3
    <3>2. p[1] \in Of(p)
      <4>1. Len(p) \in Nat \ {0}
        BY <1>9, <2>2, EmptySeq
      <4> QED BY <4>1 DEF Of
    <3> QED BY <1>18, <1>19, <2>2, <3>1, <3>2
  <2>4. CASE ~Stale /\ Len(w) = 2 /\ w[1] = Resync
    BY <1>9, <1>19, <2>2, <2>4
  <2> QED BY <1>6, <2>1, <2>3, <2>4
<1>24. Told(c)'
  <2> SUFFICES ASSUME Sequence > 0
               PROVE  (\E m \in Under(c)' : Telling(m)') \/ Base(c)' = Sequence
    BY <1>18 DEF Told
  <2>1. \A m : Telling(m)' <=> Telling(m)
    BY <1>18 DEF Telling
  <2>2. CASE w = <<>>
    BY <1>6, <1>7, <1>17, <2>2
  <2>3. CASE w # <<>>
    <3>1. Telling(w[Len(w)])
      <4>1. CASE Stale
        BY <1>3, <1>5, <1>7, <2>3, <4>1 DEF Telling, Snapshot
      <4>2. CASE ~Stale
        BY <1>6, <2>3, <4>2
      <4> QED BY <4>1, <4>2
    <3>2. Telling(Resync)
      BY <1>19 DEF Telling
    <3> QED BY <1>9, <1>18, <2>1, <2>3, <3>1, <3>2
  <2> QED BY <2>2, <2>3
<1>25. Linked(c)'
  BY <1>20, <1>22, <1>23, <1>24 DEF Linked
<1> QED BY <1>14, <1>15, <1>16, <1>25 DEF LinksInv

-----------------------------------------------------------------------------
\* What a client does with a message.

\* The message handled leaves; those behind it stay.
LEMMA Consuming ==
  ASSUME RealtimeInv, NEW c \in Clients, wire[c] # <<>>, Consume(c)
  PROVE  /\ LinkType'
         /\ \A d \in Clients \ {c} : wire'[d] = wire[d] /\ queue'[d] = queue[d]
         /\ Under(c)' = Behind(c) /\ Behind(c)' \subseteq Behind(c)
         /\ wire'[c] # <<>> => wire'[c][1] \in Behind(c)
         /\ queue[c] = <<>> => queue'[c] = <<>>
         /\ Behind(c) = {} => wire'[c] = <<>>
         /\ Under(c) = Behind(c) \cup {Head(wire[c])} /\ Head(wire[c]) = wire[c][1]
<1> DEFINE w == wire[c]
           q == queue[c]
           t == Tail(w)
<1>1. TypeOK /\ WireSize \in Nat \ {0} /\ QueueSize \in Nat
  BY RealtimeAssumption DEF RealtimeInv
<1>2. /\ w \in Seq(Messages) /\ q \in Seq(Messages) /\ w # <<>>
      /\ Len(w) \in Nat \ {0} /\ Len(w) <= WireSize /\ Len(q) \in Nat /\ Len(q) <= QueueSize
  BY <1>1 DEF TypeOK
<1>3. /\ t \in Seq(Messages) /\ Len(t) = Len(w) - 1 /\ Head(w) = w[1]
      /\ \A i \in 1 .. Len(t) : t[i] = w[i + 1]
  BY <1>2, HeadTailProperties
<1>4. /\ wire' = [wire EXCEPT ![c] = Written(t, q)] /\ queue' = [queue EXCEPT ![c] = Waiting(t, q)]
      /\ wire'[c] = Written(t, q) /\ queue'[c] = Waiting(t, q)
  BY <1>1 DEF Consume, TypeOK
<1> HIDE DEF w, q, t
<1>5. Of(t) = Later(w)
  <2>1. \A i \in 1 .. Len(t) : i + 1 \in 2 .. Len(w) /\ t[i] = w[i + 1]
    BY <1>2, <1>3
  <2>2. \A i \in 2 .. Len(w) : i - 1 \in 1 .. Len(t) /\ t[i - 1] = w[i]
    <3>1. \A i \in 2 .. Len(w) : i - 1 \in 1 .. Len(t) /\ (i - 1) + 1 = i
      BY <1>2, <1>3
    <3> QED BY <1>3, <3>1
  <2>3. Of(t) \subseteq Later(w)
    BY <2>1 DEF Of, Later
  <2>4. Later(w) \subseteq Of(t)
    BY <2>2 DEF Of, Later
  <2> QED BY <2>3, <2>4
<1>6. Of(w) = Later(w) \cup {w[1]}
  <2>1. \A i \in 1 .. Len(w) : i = 1 \/ i \in 2 .. Len(w)
    BY <1>2
  <2>2. \A i \in 2 .. Len(w) : i \in 1 .. Len(w)
    BY <1>2
  <2>3. 1 \in 1 .. Len(w)
    BY <1>2
  <2> QED BY <2>1, <2>2, <2>3 DEF Of, Later
<1>7. Len(t) <= WireSize
  BY <1>1, <1>2, <1>3
<1>8. /\ Written(t, q) \in Seq(Messages) /\ Waiting(t, q) \in Seq(Messages)
      /\ Len(Waiting(t, q)) = Len(q) - Moved(t, q)
  BY <1>2, <1>3, <1>7, Moving
<1>9. /\ Of(Written(t, q)) \cup Of(Waiting(t, q)) = Of(t) \cup Of(q)
      /\ Len(Written(t, q)) <= WireSize /\ Len(Waiting(t, q)) <= Len(q)
      /\ Waiting(t, q) # <<>> => Len(Written(t, q)) = WireSize
      /\ q = <<>> => Waiting(t, q) = <<>>
  BY <1>2, <1>3, <1>7, MovingKeeps
<1>10. Under(c) = Of(w) \cup Of(q) /\ Behind(c) = Later(w) \cup Of(q)
  BY DEF Under, Behind, w, q
<1>11. /\ Under(c)' = Of(Written(t, q)) \cup Of(Waiting(t, q))
       /\ Behind(c)' = Later(Written(t, q)) \cup Of(Waiting(t, q))
  BY <1>4 DEF Under, Behind
<1>12. Later(Written(t, q)) \subseteq Of(Written(t, q))
  BY DEF Later, Of
<1>13. Under(c)' = Behind(c) /\ Behind(c)' \subseteq Behind(c)
  BY <1>5, <1>9, <1>10, <1>11, <1>12
<1>14. wire'[c] # <<>> => wire'[c][1] \in Of(wire'[c])
  <2>1. wire'[c] # <<>> => 1 \in 1 .. Len(wire'[c])
    BY <1>4, <1>8
  <2> QED BY <2>1 DEF Of
<1>15. wire'[c] # <<>> => wire'[c][1] \in Behind(c)
  BY <1>4, <1>11, <1>13, <1>14
<1>16. LinkType'
  <2>1. Len(Waiting(t, q)) <= QueueSize
    BY <1>1, <1>2, <1>8, <1>9
  <2>2. wire' \in [Clients -> Seq(Messages)] /\ queue' \in [Clients -> Seq(Messages)]
    BY <1>1, <1>4, <1>8 DEF TypeOK
  <2>3. \A d \in Clients \ {c} : wire'[d] = wire[d] /\ queue'[d] = queue[d]
    BY <1>1, <1>4 DEF TypeOK
  <2> QED BY <1>1, <1>4, <1>9, <2>1, <2>2, <2>3 DEF TypeOK, LinkType
<1>17. \A d \in Clients \ {c} : wire'[d] = wire[d] /\ queue'[d] = queue[d]
  BY <1>1, <1>4 DEF TypeOK
<1>18. Under(c) = Behind(c) \cup {Head(wire[c])} /\ Head(wire[c]) = wire[c][1]
  BY <1>3, <1>6, <1>10 DEF w
<1> QED BY <1>4, <1>9, <1>13, <1>15, <1>16, <1>17, <1>18 DEF q

\* The message a client handles, and what it can be.
LEMMA Handling ==
  ASSUME RealtimeInv, NEW c \in Clients, Receive(c), NEW m, m = Head(wire[c])
  PROVE  /\ m \in Messages /\ MessageFits(m, server[c])
         /\ m = wire[c][1] /\ wire[c] # <<>>
         /\ conn[c] \in {"open", "lost"}
         /\ Base(c) = 0 => NeedsNoBase(m)
         /\ conn[c] = "open" => server[c] = instance /\ Sequence > 0
         /\ \A x \in Behind(c) : x \in Under(c) /\ MessageFits(x, server[c]) /\ x.type # "error"
         /\ m.type = "error" => conn[c] = "lost" /\ Behind(c) = {}
         /\ UNCHANGED <<instance, history, server>>
<1>1. /\ TypeOK /\ LinkFits(c) /\ BaseFits(c) /\ SnapshotFirst(c)
      /\ wire[c] # <<>> /\ conn[c] \in {"open", "lost"}
  BY DEF RealtimeInv, LinksInv, Linked, Receive
<1>2. /\ wire[c] \in Seq(Messages) /\ Len(wire[c]) \in Nat \ {0} /\ m = wire[c][1] /\ m \in Messages
  BY <1>1, HeadTailProperties DEF TypeOK
<1>3. 1 \in 1 .. Len(wire[c]) /\ \A k \in 2 .. Len(wire[c]) : k \in 1 .. Len(wire[c])
  BY <1>2
<1>4. m \in Under(c) /\ \A x \in Behind(c) : x \in Under(c)
  BY <1>2, <1>3 DEF Under, Behind, Of, Later
<1>5. conn[c] = "lost" /\ Len(wire[c]) = 1 => Behind(c) = {}
  <2>1. Len(wire[c]) = 1 => Later(wire[c]) = {}
    <3>1. 2 .. 1 = {}
      OBVIOUS
    <3> QED BY <3>1 DEF Later
  <2>2. queue[c] = <<>> => Of(queue[c]) = {}
    BY DEF Of
  <2> QED BY <1>1, <2>1, <2>2 DEF Behind, LinkFits
<1>6. m.type = "error" => conn[c] = "lost" /\ Behind(c) = {}
  BY <1>1, <1>4, <1>5 DEF LinkFits
<1>7. \A x \in Behind(c) : x.type # "error"
  BY <1>1, <1>4, <1>5 DEF LinkFits
<1>8. conn[c] = "open" => server[c] = instance /\ Sequence > 0
  <2>1. Sequence \in Nat
    BY <1>1 DEF TypeOK, Sequence
  <2> QED BY <1>1, <2>1 DEF LinkFits, BaseFits
<1>9. UNCHANGED <<instance, history, server>>
  BY DEF Receive, serverVars
<1> QED BY <1>1, <1>2, <1>4, <1>6, <1>7, <1>8, <1>9 DEF LinkFits, BaseFits

LEMMA ReceiveKeeps ==
  ASSUME RealtimeInv, NEW c \in Clients, Receive(c)
  PROVE  LinkType' /\ LinksInv' /\ ViewIsPublishedState'
<1>0. PICK m : m = Head(wire[c])
  OBVIOUS
<1>1. /\ m \in Messages /\ MessageFits(m, server[c])
      /\ m = wire[c][1] /\ wire[c] # <<>>
      /\ conn[c] \in {"open", "lost"}
      /\ Base(c) = 0 => NeedsNoBase(m)
      /\ conn[c] = "open" => server[c] = instance /\ Sequence > 0
      /\ \A x \in Behind(c) : x \in Under(c) /\ MessageFits(x, server[c]) /\ x.type # "error"
      /\ m.type = "error" => conn[c] = "lost" /\ Behind(c) = {}
      /\ UNCHANGED <<instance, history, server>>
  BY <1>0, Handling
<1>2. /\ ReceiveSnapshot(c, m) \/ ReceiveDelta(c, m) \/ ReceiveResync(c, m) \/ ReceiveOther(c, m)
      /\ NoteInstance(c, m)
  BY <1>0 DEF Receive
<1>3. /\ TypeOK /\ LinksInv /\ ViewIsPublishedState /\ Linked(c)
      /\ LinkFits(c) /\ BaseFits(c) /\ SnapshotFirst(c) /\ Told(c)
  BY DEF RealtimeInv, LinksInv, Linked
<1>4. /\ server[c] \in Instances /\ server[c] # 0 /\ Len(history[server[c]]) \in Nat
      /\ Base(c) \in Nat /\ m.sequence \in Nat
      /\ Sequence = Len(history[instance]) /\ Sequence' = Sequence
  BY <1>1, <1>3 DEF TypeOK, Instances, Base, Messages, Sequence
<1>5. clientInstance'[c] = IF clientInstance[c] # 0 \/ m.type = "snapshot" THEN server[c] ELSE 0
  BY <1>2, <1>3 DEF NoteInstance, TypeOK
<1>6. \A x : Telling(x)' <=> Telling(x)
  BY <1>4 DEF Telling
<1>7. \A x : MessageFits(x, server[c])' <=> MessageFits(x, server[c])
  BY <1>1 DEF MessageFits
\* What a message other than a demand to resynchronise leaves.
<1>8. ASSUME Consume(c), UNCHANGED conn, m.type # "resync_required",
             Base(c)' = 0 => Base(c) = 0 /\ m.type \notin {"snapshot", "delta"},
             Telling(m) /\ conn[c] = "open" => Base(c)' = Sequence,
             (\E x \in Under(c) : Telling(x)) \/ conn[c] # "open" \/ Base(c)' = Sequence
      PROVE  LinkType' /\ Linked(c)'
  <2>1. /\ LinkType'
        /\ Under(c)' = Behind(c) /\ Behind(c)' \subseteq Behind(c)
        /\ wire'[c] # <<>> => wire'[c][1] \in Behind(c)
        /\ queue[c] = <<>> => queue'[c] = <<>>
        /\ Behind(c) = {} => wire'[c] = <<>>
        /\ Under(c) = Behind(c) \cup {m}
    BY <1>0, <1>1, <1>8, Consuming
  <2>2. LinkFits(c)'
    BY <1>1, <1>3, <1>7, <1>8, <2>1 DEF LinkFits
  <2>3. ASSUME Base(c)' = 0 PROVE wire'[c] = <<>> /\ conn[c] # "open"
    <3>1. m.type = "error"
      BY <1>1, <1>8, <2>3 DEF NeedsNoBase
    <3> QED BY <1>1, <2>1, <3>1
  <2>4. BaseFits(c)'
    <3>1. Sequence > 0 => Sequence # 0
      BY <1>3 DEF TypeOK, Sequence
    <3> QED BY <1>1, <1>4, <1>8, <2>3, <3>1 DEF BaseFits
  <2>5. SnapshotFirst(c)'
    <3>1. conn[c] = "open" => \A x \in Behind(c) : x.type # "snapshot"
      BY <1>1, <1>3, <1>8 DEF SnapshotFirst
    <3> QED BY <1>8, <2>1, <3>1 DEF SnapshotFirst
  <2>6. Told(c)'
    <3>1. ASSUME conn[c] = "open", Base(c)' # Sequence PROVE \E x \in Under(c)' : Telling(x)
      BY <1>8, <2>1, <3>1
    <3> QED BY <1>4, <1>6, <1>8, <3>1 DEF Told
  <2> QED BY <2>1, <2>2, <2>4, <2>5, <2>6 DEF Linked
<1>9. conn[c] = "open" => (\E x \in Under(c) : Telling(x)) \/ Base(c) = Sequence
  BY <1>1, <1>3 DEF Told
<1>10. ASSUME NEW k \in Nat, lastSequence' = [lastSequence EXCEPT ![c] = k]
       PROVE  lastSequence'[c] = k
  BY <1>3, <1>10 DEF TypeOK
\* What the client itself does.
<1> DEFINE Handled == /\ LinkType' /\ Linked(c)'
                      /\ lastSequence'[c] # 0 =>
                           /\ clientInstance'[c] = server[c]
                           /\ lastSequence'[c] <= Len(history[server[c]])
                           /\ view'[c] = history[server[c]][lastSequence'[c]]
<1>11. ASSUME ReceiveSnapshot(c, m) PROVE Handled
  <2>1. /\ m.type = "snapshot" /\ lastSequence'[c] = m.sequence
        /\ view'[c] = history[server[c]][m.sequence]
        /\ Consume(c) /\ UNCHANGED conn
    BY <1>3, <1>4, <1>10, <1>11 DEF ReceiveSnapshot, TypeOK
  <2>2. m.sequence \in 1 .. Len(history[server[c]])
    BY <1>1, <2>1 DEF MessageFits
  <2>3. Base(c)' = m.sequence /\ m.sequence # 0
    BY <1>1, <1>4, <1>5, <2>1, <2>2 DEF Base
  <2>4. Telling(m) => Base(c)' = Sequence
    BY <2>1, <2>3 DEF Telling
  <2>5. conn[c] = "open" => Base(c) = 0 /\ Sequence # 0
    BY <1>1, <1>3, <1>4, <2>1 DEF SnapshotFirst, TypeOK
  <2>6. LinkType' /\ Linked(c)'
    BY <1>8, <1>9, <2>1, <2>3, <2>4, <2>5
  <2> QED BY <1>1, <1>4, <1>5, <2>1, <2>2, <2>6
<1>12. ASSUME ReceiveDelta(c, m) PROVE Handled
  <2>1. m.type = "delta" /\ Fits(c, m) /\ Consume(c) /\ UNCHANGED conn
    BY <1>12 DEF ReceiveDelta
  <2>2. Base(c) # 0 /\ m.sequence = Base(c) + 1
    BY <1>1, <2>1 DEF Fits, NeedsNoBase
  <2>3. /\ clientInstance[c] = server[c] /\ view[c] = history[server[c]][Base(c)]
        /\ Base(c) \in 1 .. Len(history[server[c]])
    BY <2>2, ViewBase
  <2>4. lastSequence'[c] = m.sequence /\ clientInstance'[c] = server[c]
    BY <1>4, <1>5, <1>10, <1>12, <2>3 DEF ReceiveDelta
  <2>5. m.sequence \in 2 .. Len(history[server[c]])
    BY <1>1, <2>1 DEF MessageFits
  <2>6. view'[c] = history[server[c]][m.sequence]
    <3> DEFINE old == history[server[c]][Base(c)]
               new == history[server[c]][m.sequence]
    <3>1. m.sequence - 1 = Base(c)
      BY <1>4, <2>2
    <3>2. view'[c] = Patch(old, old, new)
      BY <1>3, <1>12, <2>3, <3>1 DEF ReceiveDelta, TypeOK
    <3>3. old \in States /\ new \in States
      BY <1>3, <1>4, <2>3, <2>5 DEF TypeOK
    <3> HIDE DEF old, new
    <3>4. Patch(old, old, new) = new
      <4>1. new = [i \in Items |-> new[i]]
        BY <3>3 DEF States
      <4>2. \A i \in Items : (IF i \in Changed(old, new) THEN new[i] ELSE old[i]) = new[i]
        BY DEF Changed
      <4> QED BY <4>1, <4>2 DEF Patch
    <3> QED BY <3>2, <3>4 DEF new
  <2>7. Base(c)' = m.sequence /\ m.sequence # 0
    BY <1>1, <1>4, <2>4, <2>5 DEF Base
  <2>8. Telling(m) => Base(c)' = Sequence
    BY <2>1, <2>7 DEF Telling
  <2>9. conn[c] = "open" => Base(c) # Sequence
    BY <1>1, <1>4, <2>2, <2>5
  <2>10. LinkType' /\ Linked(c)'
    BY <1>8, <1>9, <2>1, <2>7, <2>8, <2>9
  <2> QED BY <1>1, <1>4, <2>4, <2>5, <2>6, <2>10
<1>13. ASSUME ReceiveResync(c, m) PROVE Handled
  <2>1. /\ conn'[c] = "closing" /\ wire'[c] = <<>> /\ queue'[c] = <<>> /\ lastSequence'[c] = 0
        /\ queue' \in [Clients -> Seq(Messages)] /\ wire' \in [Clients -> Seq(Messages)]
        /\ \A d \in Clients \ {c} : wire'[d] = wire[d] /\ queue'[d] = queue[d]
    BY <1>3, <1>13 DEF ReceiveResync, CloseForResync, TypeOK
  <2>2. Len(<<>>) = 0
    OBVIOUS
  <2>3. LinkType'
    <3> SUFFICES ASSUME NEW d \in Clients
                 PROVE  /\ Len(wire'[d]) <= WireSize /\ Len(queue'[d]) <= QueueSize
                        /\ queue'[d] # <<>> => Len(wire'[d]) = WireSize
      BY <2>1 DEF LinkType
    <3>1. CASE d = c
      BY <2>1, <2>2, <3>1, RealtimeAssumption
    <3>2. CASE d # c
      BY <1>3, <2>1, <3>2 DEF TypeOK
    <3> QED BY <3>1, <3>2
  <2>4. Under(c)' = {}
    BY <2>1, <2>2 DEF Under, Of
  <2>5. Linked(c)'
    BY <2>1, <2>4 DEF Linked, LinkFits, BaseFits, SnapshotFirst, Told
  <2> QED BY <2>1, <2>3, <2>5
<1>14. ASSUME ReceiveOther(c, m) PROVE Handled
  <2>1. /\ m.type \notin {"snapshot", "resync_required"} /\ Consume(c) /\ UNCHANGED <<conn, view>>
        /\ m.type = "delta" => Base(c) # 0 /\ m.sequence <= Base(c)
    BY <1>14 DEF ReceiveOther
  <2>2. lastSequence'[c] = Base(c)
    BY <1>4, <1>10, <1>14 DEF ReceiveOther
  <2>3. Base(c)' = Base(c)
    <3>1. clientInstance'[c] \in {0, server[c]}
      BY <1>5
    <3> QED BY <1>1, <2>2, <3>1 DEF Base
  <2>4. Base(c) # 0 =>
          /\ clientInstance[c] = server[c] /\ Base(c) \in 1 .. Len(history[server[c]])
          /\ view[c] = history[server[c]][Base(c)]
    BY ViewBase
  <2>5. Telling(m) /\ conn[c] = "open" => Base(c)' = Sequence
    <3> SUFFICES ASSUME Telling(m), conn[c] = "open" PROVE Base(c) = Sequence
      BY <2>3
    <3>1. m.type = "delta" /\ m.sequence = Sequence
      BY <2>1 DEF Telling
    <3>2. Sequence <= Base(c) /\ Base(c) <= Sequence
      BY <1>1, <1>4, <2>1, <2>4, <3>1
    <3> QED BY <1>4, <3>2
  <2>6. Base(c)' = 0 => Base(c) = 0 /\ m.type \notin {"snapshot", "delta"}
    BY <2>1, <2>3
  <2>7. LinkType' /\ Linked(c)'
    BY <1>8, <1>9, <2>1, <2>3, <2>5, <2>6
  <2>8. lastSequence'[c] # 0 =>
          /\ clientInstance'[c] = server[c] /\ lastSequence'[c] <= Len(history[server[c]])
          /\ view'[c] = history[server[c]][lastSequence'[c]]
    BY <1>4, <1>5, <2>1, <2>2, <2>4
  <2> QED BY <1>1, <1>4, <2>7, <2>8
<1>15. Handled
  BY <1>2, <1>11, <1>12, <1>13, <1>14
<1>16. ASSUME NEW d \in Clients, d # c
       PROVE  /\ conn'[d] = conn[d] /\ server'[d] = server[d] /\ queue'[d] = queue[d]
              /\ wire'[d] = wire[d] /\ view'[d] = view[d]
              /\ clientInstance'[d] = clientInstance[d] /\ lastSequence'[d] = lastSequence[d]
  BY <1>1, <1>2, <1>3, <1>16
     DEF NoteInstance, ReceiveSnapshot, ReceiveDelta, ReceiveResync, ReceiveOther, CloseForResync,
         Consume, TypeOK
<1>17. LinksInv'
  <2> SUFFICES ASSUME NEW d \in Clients, d # c PROVE Linked(d)'
    BY <1>15 DEF LinksInv
  <2> QED BY <1>1, <1>3, <1>16, Elsewhere DEF LinksInv
<1>18. ViewIsPublishedState'
  <2> SUFFICES ASSUME NEW d \in Clients, lastSequence'[d] # 0
               PROVE  /\ clientInstance'[d] # 0
                      /\ lastSequence'[d] <= Len(history'[clientInstance'[d]])
                      /\ view'[d] = history'[clientInstance'[d]][lastSequence'[d]]
    BY DEF ViewIsPublishedState
  <2>1. CASE d = c
    BY <1>1, <1>4, <1>15, <2>1
  <2>2. CASE d # c
    BY <1>1, <1>3, <1>16, <2>2 DEF ViewIsPublishedState
  <2> QED BY <2>1, <2>2
<1> QED BY <1>15, <1>17, <1>18

-----------------------------------------------------------------------------
\* What ends a connection, or changes none.

\* A connection that is not open has nothing to be told; its client forgets
\* nothing.
LEMMA LinkKeeps ==
  ASSUME RealtimeInv, NEW c \in Clients, Connect(c) \/ OnClose(c) \/ Refuse(c) \/ Lose(c)
  PROVE  LinkType' /\ LinksInv' /\ ViewIsPublishedState'
<1>1. TypeOK /\ LinkType /\ LinksInv /\ Linked(c) /\ WireSize \in Nat \ {0}
  BY RealtimeAssumption DEF RealtimeInv, LinksInv, TypeOK, LinkType
<1>2. UNCHANGED <<instance, history, clientInstance, lastSequence, view>>
  BY DEF Connect, OnClose, Refuse, Lose, serverVars, clientVars
<1>3. ASSUME NEW d \in Clients, d # c
      PROVE  /\ conn'[d] = conn[d] /\ server'[d] = server[d] /\ queue'[d] = queue[d]
             /\ wire'[d] = wire[d]
  BY <1>1, <1>3 DEF Connect, OnClose, Refuse, Lose, TypeOK
<1>4. ViewIsPublishedState'
  BY <1>2 DEF RealtimeInv, ViewIsPublishedState
<1>5. <<>> \in Seq(Messages) /\ Len(<<>>) = 0 /\ Of(<<>>) = {}
  BY DEF Of
<1>6. \A d \in Clients : queue'[d] \in {queue[d], <<>>}
  BY <1>1 DEF Connect, OnClose, Refuse, Lose, TypeOK
\* What is under way after the step was before it, in the order it had, or is
\* a refusal.
<1>7. ASSUME Connect(c) \/ OnClose(c)
      PROVE  LinkType' /\ Linked(c)'
  <2>1. /\ conn'[c] \notin {"open", "lost"} /\ wire[c] = <<>> /\ queue[c] = <<>>
        /\ UNCHANGED <<wire, queue>>
    BY <1>1, <1>7 DEF Connect, OnClose, Linked, LinkFits, TypeOK
  <2>2. LinkType'
    BY <1>1, <2>1 DEF LinkType
  <2>3. Under(c)' = {}
    BY <1>5, <2>1 DEF Under
  <2> QED BY <2>1, <2>2, <2>3 DEF Linked, LinkFits, BaseFits, SnapshotFirst, Told
<1>8. ASSUME Refuse(c) PROVE LinkType' /\ Linked(c)'
  <2> DEFINE m == Other("error")
  <2>1. /\ conn'[c] = "lost" /\ wire'[c] = <<m>> /\ queue'[c] = <<>>
        /\ wire' = [wire EXCEPT ![c] = <<m>>] /\ queue' = queue
    BY <1>1, <1>8 DEF Refuse, Linked, LinkFits, TypeOK
  <2>2. m \in Messages /\ m.type = "error"
    BY DEF Messages, Other
  <2> HIDE DEF m
  <2>3. <<m>> \in Seq(Messages) /\ Len(<<m>>) = 1 /\ <<m>>[1] = m
    BY <2>2
  <2>4. LinkType'
    <3> SUFFICES ASSUME NEW d \in Clients
                 PROVE  /\ wire' \in [Clients -> Seq(Messages)]
                        /\ Len(wire'[d]) <= WireSize
                        /\ queue'[d] # <<>> => Len(wire'[d]) = WireSize
      BY <1>1, <2>1 DEF LinkType
    <3>1. wire' \in [Clients -> Seq(Messages)]
      BY <1>1, <2>1, <2>3 DEF LinkType
    <3>2. CASE d = c
      BY <1>1, <2>1, <2>3, <3>1, <3>2
    <3>3. CASE d # c
      BY <1>1, <1>3, <3>1, <3>3 DEF LinkType
    <3> QED BY <3>2, <3>3
  <2>5. \A k \in 1 .. Len(<<m>>) : <<m>>[k] = m
    BY <2>3
  <2>6. Of(<<m>>) \subseteq {m}
    BY <2>5 DEF Of
  <2>7. Under(c)' \subseteq {m}
    BY <1>5, <2>1, <2>6 DEF Under
  <2> QED BY <2>1, <2>2, <2>3, <2>4, <2>7
          DEF Linked, LinkFits, BaseFits, SnapshotFirst, Told, NeedsNoBase, MessageFits
<1>9. ASSUME Lose(c) PROVE LinkType' /\ Linked(c)'
  <2>1. PICK n \in 0 .. Len(wire[c]) : wire' = [wire EXCEPT ![c] = SubSeq(wire[c], 1, n)]
    BY <1>9 DEF Lose
  <2> DEFINE w == wire[c]
             v == SubSeq(w, 1, n)
  <2>2. w \in Seq(Messages) /\ Len(w) \in Nat /\ Len(w) <= WireSize /\ n \in Nat /\ n <= Len(w)
    BY <1>1 DEF LinkType
  <2>3. /\ conn'[c] = "lost" /\ wire'[c] = v /\ queue'[c] = <<>> /\ server'[c] = server[c]
        /\ queue' = [queue EXCEPT ![c] = <<>>] /\ conn[c] \in {"connecting", "open"}
    BY <1>1, <1>9, <2>1 DEF Lose, TypeOK, LinkType
  <2> HIDE DEF w
  <2>4. v \in Seq(Messages) /\ Len(v) = n /\ \A k \in 1 .. n : v[k] = w[k]
    <3>1. \A k \in 1 .. n : w[k] \in Messages
      BY <2>2
    <3>2. /\ v \in Seq(Messages) /\ Len(v) = IF 1 <= n THEN n - 1 + 1 ELSE 0
          /\ \A k \in 1 .. n - 1 + 1 : v[k] = w[1 + k - 1]
      BY <2>2, <3>1, SubSeqProperties
    <3>3. n - 1 + 1 = n /\ \A k \in 1 .. n : 1 + k - 1 = k
      BY <2>2
    <3> QED BY <2>2, <3>2, <3>3
  <2> HIDE DEF v
  <2>5. LinkType'
    <3>1. wire' \in [Clients -> Seq(Messages)] /\ queue' \in [Clients -> Seq(Messages)]
      BY <1>1, <1>5, <2>1, <2>3, <2>4 DEF LinkType, v, w
    <3>2. ASSUME NEW d \in Clients
          PROVE  /\ Len(wire'[d]) <= WireSize /\ Len(queue'[d]) <= QueueSize
                 /\ queue'[d] # <<>> => Len(wire'[d]) = WireSize
      <4>1. CASE d = c
        BY <1>1, <1>5, <2>2, <2>3, <2>4, <4>1, RealtimeAssumption
      <4>2. CASE d # c
        BY <1>1, <1>3, <4>2 DEF LinkType
      <4> QED BY <4>1, <4>2
    <3> QED BY <3>1, <3>2 DEF LinkType
  <2>6. Of(v) \subseteq Of(w)
    <3>1. \A k \in 1 .. n : k \in 1 .. Len(w)
      BY <2>2
    <3> QED BY <2>4, <3>1 DEF Of
  <2>7. v # <<>> => w # <<>> /\ v[1] = w[1]
    <3>1. v # <<>> => n \in Nat \ {0}
      BY <2>4, EmptySeq
    <3>2. w = <<>> => Len(w) = 0
      OBVIOUS
    <3> QED BY <2>2, <2>4, <3>1, <3>2
  <2>8. /\ Under(c)' \subseteq Under(c) /\ \A m \in Under(c) : m.type # "error"
        /\ \A m \in Under(c) : MessageFits(m, server[c])
    BY <1>1, <1>5, <2>3, <2>6 DEF Under, Linked, LinkFits, w
  <2>9. LinkFits(c)'
    BY <1>2, <2>3, <2>8 DEF LinkFits, MessageFits
  <2>10. Base(c)' = Base(c)
    BY <1>2, <2>3 DEF Base
  <2>11. BaseFits(c)'
    BY <1>1, <2>3, <2>7, <2>10 DEF Linked, BaseFits, w
  <2> QED BY <2>3, <2>5, <2>9, <2>11 DEF Linked, SnapshotFirst, Told
<1>10. LinkType' /\ Linked(c)'
  BY <1>7, <1>8, <1>9
<1>11. LinksInv'
  <2> SUFFICES ASSUME NEW d \in Clients, d # c PROVE Linked(d)'
    BY <1>10 DEF LinksInv
  <2> QED BY <1>1, <1>2, <1>3, Elsewhere DEF LinksInv
<1> QED BY <1>4, <1>10, <1>11

LEMMA RestartKeeps ==
  ASSUME RealtimeInv, Restart
  PROVE  LinkType' /\ LinksInv' /\ ViewIsPublishedState'
<1>1. TypeOK /\ LinkType /\ LinksInv
  BY DEF RealtimeInv, TypeOK, LinkType
<1>2. /\ UNCHANGED <<history, server, wire, clientInstance, lastSequence, view>>
      /\ conn' = [c \in Clients |-> IF conn[c] \in {"connecting", "open"} THEN "lost" ELSE conn[c]]
      /\ queue' = [c \in Clients |-> <<>>]
  BY DEF Restart, clientVars
<1>3. ViewIsPublishedState'
  BY <1>2 DEF RealtimeInv, ViewIsPublishedState
<1>4. <<>> \in Seq(Messages) /\ Len(<<>>) = 0 /\ Of(<<>>) = {}
  BY DEF Of
<1>5. LinkType'
  BY <1>1, <1>2, <1>4, RealtimeAssumption DEF LinkType
<1>6. ASSUME NEW c \in Clients PROVE Linked(c)'
  <2>1. /\ conn'[c] \notin {"open", "connecting"} /\ queue'[c] = <<>>
        /\ conn[c] = "open" \/ conn[c] = "lost" => conn'[c] = "lost"
        /\ conn[c] \notin {"open", "lost"} => wire[c] = <<>>
        /\ wire[c] # <<>> => conn'[c] = "lost"
    BY <1>1, <1>2 DEF LinksInv, Linked, LinkFits
  <2>2. Under(c)' \subseteq Under(c) /\ Base(c)' = Base(c)
    BY <1>2, <1>4, <2>1 DEF Under, Base
  <2>3. LinkFits(c) /\ BaseFits(c)
    BY <1>1 DEF LinksInv, Linked
  <2>4. LinkFits(c)'
    BY <1>2, <2>1, <2>2, <2>3 DEF LinkFits, MessageFits
  <2>5. BaseFits(c)'
    BY <1>2, <2>1, <2>2, <2>3 DEF BaseFits
  <2> QED BY <2>1, <2>4, <2>5 DEF Linked, SnapshotFirst, Told
<1> QED BY <1>3, <1>5, <1>6 DEF LinksInv

\* A step that changes neither connections nor publications.
LEMMA Apart ==
  ASSUME RealtimeInv, UNCHANGED <<instance, history, linkVars, clientVars>>
  PROVE  LinkType' /\ LinksInv' /\ ViewIsPublishedState'
<1>1. UNCHANGED <<instance, history, conn, server, queue, wire, clientInstance, lastSequence, view>>
  BY DEF linkVars, clientVars
<1>2. LinkType'
  BY <1>1 DEF RealtimeInv, TypeOK, LinkType
<1>3. ViewIsPublishedState'
  BY <1>1 DEF RealtimeInv, ViewIsPublishedState
<1>4. LinksInv'
  BY <1>1, Elsewhere DEF RealtimeInv, LinksInv
<1> QED BY <1>2, <1>3, <1>4

-----------------------------------------------------------------------------
\* The invariant.

\* The steps of the server and of the runtime.
LEMMA ServerStep ==
  ASSUME RealtimeInv, SampleStart \/ SampleDone \/ FetchDone \/ Heartbeat \/ WorldChanges \/ Restart
  PROVE  RealtimeInv'
<1>1. TypeOK
  BY DEF RealtimeInv
<1>2. SampleStart => RealtimeInv'
  <2> SUFFICES ASSUME SampleStart PROVE RealtimeInv'
    OBVIOUS
  <2>1. LinkType' /\ LinksInv' /\ ViewIsPublishedState'
    BY Apart DEF SampleStart
  <2>2. TypeOK'
    BY <1>1 DEF SampleStart, TypeOK, worldVars, linkVars, clientVars
  <2> QED BY <2>1, <2>2 DEF RealtimeInv
<1>3. SampleDone => RealtimeInv'
  <2> SUFFICES ASSUME SampleDone PROVE RealtimeInv'
    OBVIOUS
  <2>1. sampling \in States
    BY <1>1 DEF SampleDone, TypeOK
  <2>2. /\ UNCHANGED <<instance, conn, server, clientInstance, lastSequence, view>>
        /\ Publish(sampling)
    BY DEF SampleDone, clientVars
  <2>3. PICK s \in States : s = sampling
    BY <2>1
  <2>4. history' \in [Instances -> Seq(States)] /\ LinkType' /\ LinksInv' /\ ViewIsPublishedState'
    BY <2>2, <2>3, PublishKeeps
  <2>5. TypeOK'
    BY <1>1, <2>4 DEF SampleDone, TypeOK, LinkType, worldVars, clientVars
  <2> QED BY <2>4, <2>5 DEF RealtimeInv
<1>4. FetchDone => RealtimeInv'
  <2> SUFFICES ASSUME FetchDone PROVE RealtimeInv'
    OBVIOUS
  <2>1. PICK s \in fetches : Publish(s) /\ fetches' = fetches \ {s}
    BY DEF FetchDone
  <2>2. s \in States /\ UNCHANGED <<instance, conn, server, clientInstance, lastSequence, view>>
    BY <1>1, <2>1 DEF FetchDone, TypeOK, clientVars
  <2>3. history' \in [Instances -> Seq(States)] /\ LinkType' /\ LinksInv' /\ ViewIsPublishedState'
    BY <2>1, <2>2, PublishKeeps
  <2>4. TypeOK'
    BY <1>1, <2>1, <2>3 DEF FetchDone, TypeOK, LinkType, worldVars, clientVars
  <2> QED BY <2>3, <2>4 DEF RealtimeInv
<1>5. Heartbeat => RealtimeInv'
  <2> SUFFICES ASSUME Heartbeat PROVE RealtimeInv'
    OBVIOUS
  <2>1. LinkType' /\ LinksInv' /\ ViewIsPublishedState'
    BY HeartbeatKeeps
  <2>2. heartbeats' \in 0 .. MaxHeartbeats
    BY <1>1, RealtimeAssumption DEF Heartbeat, TypeOK
  <2>3. TypeOK'
    BY <1>1, <2>1, <2>2 DEF Heartbeat, TypeOK, LinkType, worldVars, clientVars
  <2> QED BY <2>1, <2>3 DEF RealtimeInv
<1>6. WorldChanges => RealtimeInv'
  <2> SUFFICES ASSUME WorldChanges PROVE RealtimeInv'
    OBVIOUS
  <2>1. LinkType' /\ LinksInv' /\ ViewIsPublishedState'
    BY Apart DEF WorldChanges, serverVars
  <2>2. world' \in States /\ changes' \in 0 .. MaxChanges
    BY <1>1, RealtimeAssumption DEF WorldChanges, TypeOK, States
  <2>3. TypeOK'
    BY <1>1, <2>2 DEF WorldChanges, TypeOK, serverVars, linkVars, clientVars
  <2> QED BY <2>1, <2>3 DEF RealtimeInv
<1>7. Restart => RealtimeInv'
  <2> SUFFICES ASSUME Restart PROVE RealtimeInv'
    OBVIOUS
  <2>1. LinkType' /\ LinksInv' /\ ViewIsPublishedState'
    BY RestartKeeps
  <2>2. instance' \in Instances /\ mishaps' \in 0 .. MaxMishaps
    BY <1>1, RealtimeAssumption DEF Restart, TypeOK, Instances
  <2>3. conn' \in [Clients -> {"down", "connecting", "open", "closing", "lost"}]
    BY <1>1 DEF Restart, TypeOK
  <2>4. TypeOK'
    BY <1>1, <2>1, <2>2, <2>3 DEF Restart, TypeOK, LinkType, worldVars, clientVars
  <2> QED BY <2>1, <2>4 DEF RealtimeInv
<1> QED BY <1>2, <1>3, <1>4, <1>5, <1>6, <1>7

\* The steps of a connection and of its client.
LEMMA ClientStep ==
  ASSUME RealtimeInv, NEW c \in Clients,
         Accept(c) \/ Refuse(c) \/ Connect(c) \/ Receive(c) \/ OnClose(c) \/ Lose(c)
  PROVE  RealtimeInv'
<1>1. TypeOK
  BY DEF RealtimeInv
<1>2. LinkType' /\ LinksInv' /\ ViewIsPublishedState'
  BY AcceptKeeps, LinkKeeps, ReceiveKeeps
<1>3. Accept(c) => TypeOK'
  <2> SUFFICES ASSUME Accept(c) PROVE TypeOK'
    OBVIOUS
  <2>1. fetches' \subseteq States
    BY <1>1 DEF Accept, TypeOK
  <2> QED BY <1>1, <1>2, <2>1 DEF Accept, TypeOK, LinkType, worldVars, clientVars
<1>4. Refuse(c) => TypeOK'
  <2> SUFFICES ASSUME Refuse(c) PROVE TypeOK'
    OBVIOUS
  <2>1. mishaps' \in 0 .. MaxMishaps
    <3>1. mishaps \in 0 .. MaxMishaps
      BY <1>1 DEF TypeOK
    <3>2. mishaps < MaxMishaps /\ mishaps' = mishaps + 1
      BY DEF Refuse
    <3> QED BY <3>1, <3>2, RealtimeAssumption
  <2> QED BY <1>1, <1>2, <2>1 DEF Refuse, TypeOK, LinkType, worldVars, serverVars, clientVars
<1>5. Connect(c) => TypeOK'
  BY <1>1, <1>2 DEF Connect, TypeOK, LinkType, worldVars, serverVars
<1>6. Receive(c) => TypeOK'
  <2> SUFFICES ASSUME Receive(c) PROVE TypeOK'
    OBVIOUS
  <2>0. PICK m : m = Head(wire[c])
    OBVIOUS
  <2>1. m \in Messages /\ MessageFits(m, server[c]) /\ (Base(c) = 0 => NeedsNoBase(m))
    BY <2>0, Handling
  <2>2. /\ ReceiveSnapshot(c, m) \/ ReceiveDelta(c, m) \/ ReceiveResync(c, m) \/ ReceiveOther(c, m)
        /\ NoteInstance(c, m)
    BY <2>0 DEF Receive
  <2>3. server[c] \in Instances /\ m.sequence \in Nat /\ Base(c) \in Nat
    BY <1>1, <2>1 DEF TypeOK, Messages, Base
  <2>4. clientInstance' \in [Clients -> 0 .. MaxInstances]
    <3>1. clientInstance \in [Clients -> 0 .. MaxInstances]
      BY <1>1 DEF TypeOK
    <3>2. server[c] \in 0 .. MaxInstances
      BY <2>3, RealtimeAssumption DEF Instances
    <3>3. NoteInstance(c, m)
      BY <2>2
    <3> QED BY <3>1, <3>2, <3>3 DEF NoteInstance
  <2>5. lastSequence' \in [Clients -> Nat]
    <3>1. \E n \in Nat : lastSequence' = [lastSequence EXCEPT ![c] = n]
      BY <2>2, <2>3 DEF ReceiveSnapshot, ReceiveDelta, ReceiveResync, ReceiveOther, CloseForResync
    <3> QED BY <1>1, <3>1 DEF TypeOK
  <2>6. /\ conn' \in [Clients -> {"down", "connecting", "open", "closing", "lost"}]
        /\ retrying' \in [Clients -> BOOLEAN]
        /\ status' \in [Clients -> {"CONNECTING", "CONNECTED", "RECONNECTING", "DISCONNECTED"}]
    BY <1>1, <2>2
       DEF TypeOK, ReceiveSnapshot, ReceiveDelta, ReceiveResync, ReceiveOther, CloseForResync
  <2>7. view' \in [Clients -> [Items -> Values \cup {Unread}]]
    <3>1. CASE ReceiveSnapshot(c, m)
      <4>1. m.sequence \in 1 .. Len(history[server[c]])
        BY <2>1, <3>1 DEF ReceiveSnapshot, MessageFits
      <4>2. history[server[c]][m.sequence] \in [Items -> Values]
        BY <1>1, <2>3, <4>1 DEF TypeOK, States
      <4>3. history[server[c]][m.sequence] \in [Items -> Values \cup {Unread}]
        BY <4>2
      <4> QED BY <1>1, <3>1, <4>3 DEF ReceiveSnapshot, TypeOK
    <3>2. CASE ReceiveDelta(c, m)
      <4> DEFINE old == history[server[c]][m.sequence - 1]
                 new == history[server[c]][m.sequence]
      <4>1. m.sequence \in 2 .. Len(history[server[c]])
        BY <2>1, <3>2 DEF ReceiveDelta, MessageFits
      <4>2. new \in [Items -> Values]
        BY <1>1, <2>3, <4>1 DEF TypeOK, States
      <4> HIDE DEF old, new
      <4>3. Patch(view[c], old, new) \in [Items -> Values \cup {Unread}]
        <5>1. view[c] \in [Items -> Values \cup {Unread}]
          BY <1>1 DEF TypeOK
        <5> QED BY <4>2, <5>1 DEF Patch
      <4>4. view' = [view EXCEPT ![c] = Patch(@, old, new)]
        BY <3>2 DEF ReceiveDelta, old, new
      <4> QED BY <1>1, <4>3, <4>4 DEF TypeOK
    <3>3. CASE ReceiveResync(c, m) \/ ReceiveOther(c, m)
      BY <1>1, <3>3 DEF ReceiveResync, ReceiveOther, CloseForResync, TypeOK
    <3> QED BY <2>2, <3>1, <3>2, <3>3
  <2> QED BY <1>1, <1>2, <2>4, <2>5, <2>6, <2>7 DEF Receive, TypeOK, LinkType, worldVars, serverVars
<1>7. OnClose(c) => TypeOK'
  BY <1>1, <1>2 DEF OnClose, TypeOK, LinkType, worldVars, serverVars
<1>8. Lose(c) => TypeOK'
  <2> SUFFICES ASSUME Lose(c) PROVE TypeOK'
    OBVIOUS
  <2>1. mishaps' \in 0 .. MaxMishaps
    <3>1. mishaps \in 0 .. MaxMishaps
      BY <1>1 DEF TypeOK
    <3>2. mishaps < MaxMishaps /\ mishaps' = mishaps + 1
      BY DEF Lose
    <3> QED BY <3>1, <3>2, RealtimeAssumption
  <2> QED BY <1>1, <1>2, <2>1 DEF Lose, TypeOK, LinkType, worldVars, serverVars, clientVars
<1> QED BY <1>2, <1>3, <1>4, <1>5, <1>6, <1>7, <1>8 DEF RealtimeInv

\* Every reachable state is of its type, every connection is in order and what
\* clients show was published, together: the one does not hold without the
\* others (the whole of manager.py, router.py and realtime-client.ts).
THEOREM RealtimeInvariance == Spec => []RealtimeInv
<1>1. Init => RealtimeInv
  <2> SUFFICES ASSUME Init PROVE RealtimeInv
    OBVIOUS
  <2>1. <<>> \in Seq(Messages) /\ <<>> \in Seq(States) /\ Len(<<>>) = 0 /\ Of(<<>>) = {}
    BY DEF Of
  <2>2. 1 \in Instances
    BY RealtimeAssumption DEF Instances
  <2>3. TypeOK
    BY <2>1, <2>2, RealtimeAssumption DEF Init, TypeOK, States
  <2>4. ASSUME NEW c \in Clients PROVE Linked(c)
    <3>1. conn[c] = "down" /\ wire[c] = <<>> /\ queue[c] = <<>>
      BY DEF Init
    <3>2. Under(c) = {}
      BY <2>1, <3>1 DEF Under
    <3> QED BY <3>1, <3>2 DEF Linked, LinkFits, BaseFits, SnapshotFirst, Told
  <2>5. ViewIsPublishedState
    BY DEF Init, ViewIsPublishedState
  <2> QED BY <2>3, <2>4, <2>5 DEF RealtimeInv, LinksInv
<1>2. RealtimeInv /\ [Next]_vars => RealtimeInv'
  <2> SUFFICES ASSUME RealtimeInv, [Next]_vars PROVE RealtimeInv'
    OBVIOUS
  <2>1. CASE UNCHANGED vars
    <3>1. LinksInv' /\ ViewIsPublishedState'
      BY <2>1, Apart DEF vars, serverVars
    <3>2. TypeOK'
      BY <2>1 DEF RealtimeInv, TypeOK, vars, worldVars, serverVars, linkVars, clientVars
    <3> QED BY <3>1, <3>2 DEF RealtimeInv
  <2>2. CASE Next
    BY <2>2, ServerStep, ClientStep DEF Next
  <2> QED BY <2>1, <2>2
<1> QED BY <1>1, <1>2, PTL DEF Spec

\* The queues and the transports stay within their limits (send_to_client).
THEOREM RealtimeTypeCorrect == Spec => []TypeOK
<1>1. RealtimeInv => TypeOK
  BY DEF RealtimeInv
<1> QED BY <1>1, RealtimeInvariance, PTL

\* What a client shows is a state the server published, the one its sequence
\* names (handleMessage, get_messages_since and send_to_client).
THEOREM ViewsArePublished == Spec => []ViewIsPublishedState
<1>1. RealtimeInv => ViewIsPublishedState
  BY DEF RealtimeInv
<1> QED BY <1>1, RealtimeInvariance, PTL

\* A client with nothing under way to it is up to date (send_to_client, the
\* initial synchronisation of a connection and handleMessage).
THEOREM QuietIsCurrent == Spec => []QuietMeansCurrent
<1>1. RealtimeInv => QuietMeansCurrent
  <2> SUFFICES ASSUME RealtimeInv, NEW c \in Registered, wire[c] = <<>>, Sequence > 0
               PROVE  clientInstance[c] = instance /\ lastSequence[c] = Sequence
    BY DEF QuietMeansCurrent
  <2>1. c \in Clients /\ conn[c] = "open"
    BY DEF Registered
  <2>2. TypeOK /\ LinkFits(c) /\ Told(c)
    BY <2>1 DEF RealtimeInv, LinksInv, Linked
  <2>3. queue[c] = <<>>
    <3>1. Len(wire[c]) = 0
      OBVIOUS
    <3> QED BY <2>1, <2>2, <3>1, RealtimeAssumption DEF TypeOK
  <2>4. Under(c) = {}
    <3>1. Of(<<>>) = {}
      BY DEF Of
    <3> QED BY <2>3, <3>1 DEF Under
  <2>5. Base(c) = Sequence
    BY <2>1, <2>2, <2>4 DEF Told
  <2>6. Base(c) # 0
    <3>1. Sequence \in Nat
      BY <2>2 DEF TypeOK, Sequence
    <3> QED BY <2>5, <3>1
  <2>7. clientInstance[c] = server[c] /\ lastSequence[c] = Base(c)
    BY <2>1, <2>6, ViewBase
  <2> QED BY <2>1, <2>2, <2>5, <2>7 DEF LinkFits
<1> QED BY <1>1, RealtimeInvariance, PTL
=============================================================================
