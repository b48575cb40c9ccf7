-------------------------- MODULE MqttClientProofs --------------------------
(***************************************************************************)
(* Machine-checked proofs about MqttClient, for every number of API calls, *)
(* packet ids and messages, every capacity of the queue and the socket and *)
(* every set of features.                                                  *)
(***************************************************************************)
EXTENDS MqttClient, Integers, SequenceTheorems, WellFoundedInduction, TLAPS

\* A set of numbers that is not empty has a least one, which Min finds.
LEMMA MinWorks ==
  ASSUME NEW T \in SUBSET Nat, T # {}
  PROVE  Min(T) \in T /\ \A y \in T : Min(T) <= y
<1>1. PICK x \in T : \A y \in T : ~ (<<y, x>> \in OpToRel(<, Nat))
  BY NatLessThanWellFounded, WFMin, Zenon
<1>2. ASSUME NEW y \in T
      PROVE  x <= y
  <2>1. ~(y < x)
    BY <1>1, Zenon DEF OpToRel
  <2> QED
    BY <2>1
<1> QED
  BY <1>2 DEF Min
-----------------------------------------------------------------------------
(* What the queue's operators do to a queue.                               *)

\* The rule of OneQos2InFlight for a queue.
OneOpen(q) ==
  \A j, k \in 1 .. Len(q) :
    OpenQos2(q[j]) /\ OpenQos2(q[k]) /\ j < k => q[k].state = "UNSENT"

Queues == {q \in Seq(QMsgs) : OneOpen(q)}

\* A queue, or what is left of it behind its first messages.
LEMMA CleanKeeps ==
  ASSUME NEW q \in Queues
  PROVE  mqtt_mq_clean(q) \in Queues /\ Len(mqtt_mq_clean(q)) <= Len(q)
<1> DEFINE open == {j \in DOMAIN q : q[j].state # "COMPLETE"}
<1>1. q \in Seq(QMsgs) /\ Len(q) \in Nat /\ DOMAIN q = 1 .. Len(q)
  BY DEF Queues
<1>2. CASE open = {}
  <2>1. mqtt_mq_clean(q) = <<>>
    BY <1>2 DEF mqtt_mq_clean
  <2>2. <<>> \in Seq(QMsgs) /\ Len(<<>>) = 0
    OBVIOUS
  <2>3. OneOpen(<<>>)
    BY <2>2 DEF OneOpen
  <2> QED
    BY <1>1, <2>1, <2>2, <2>3 DEF Queues
<1>3. CASE open # {}
  <2>1. Min(open) \in open
    <3>1. open \in SUBSET Nat
      BY <1>1
    <3> HIDE DEF open
    <3> QED
      BY <1>3, <3>1, MinWorks
  <2>2. PICK a \in 1 .. Len(q) : a = Min(open)
    BY <1>1, <2>1
  <2>3. mqtt_mq_clean(q) = SubSeq(q, a, Len(q))
    BY <1>3, <2>2 DEF mqtt_mq_clean
  <2> DEFINE r == SubSeq(q, a, Len(q))
  <2>4. /\ r \in Seq(QMsgs) /\ Len(r) = Len(q) - a + 1
        /\ \A j \in 1 .. Len(q) - a + 1 : r[j] = q[a + j - 1]
    BY <1>1
  <2> HIDE DEF r
  <2>5. OneOpen(r)
    <3> SUFFICES ASSUME NEW j \in 1 .. Len(r), NEW k \in 1 .. Len(r),
                        OpenQos2(r[j]), OpenQos2(r[k]), j < k
                 PROVE  r[k].state = "UNSENT"
      BY DEF OneOpen
    <3>1. /\ a + j - 1 \in 1 .. Len(q) /\ a + k - 1 \in 1 .. Len(q)
          /\ a + j - 1 < a + k - 1
      BY <1>1, <2>4
    <3>2. r[j] = q[a + j - 1] /\ r[k] = q[a + k - 1]
      BY <2>4
    <3> QED
      BY <3>1, <3>2 DEF Queues, OneOpen
  <2>6. Len(r) <= Len(q)
    BY <1>1, <2>4
  <2> QED
    BY <2>3, <2>4, <2>5, <2>6 DEF Queues, r
<1> QED
  BY <1>2, <1>3

\* MQTT_CLIENT_TRY_PACK cleans a full queue, which keeps it.
LEMMA RoomKeeps ==
  ASSUME NEW q \in Queues
  PROVE  Room(q) \in Queues /\ Len(Room(q)) <= Len(q) /\ Len(Room(q)) \in Nat
<1>1. Len(q) \in Nat
  BY DEF Queues
<1>2. Room(q) \in Queues /\ Len(Room(q)) <= Len(q)
  BY <1>1, CleanKeeps DEF Room
<1> QED
  BY <1>2 DEF Queues

\* A new message goes to the end, unsent.
LEMMA AppendKeeps ==
  ASSUME NEW q \in Queues, NEW m \in QMsgs, m.state = "UNSENT"
  PROVE  Append(q, m) \in Queues /\ Len(Append(q, m)) = Len(q) + 1
<1> DEFINE r == Append(q, m)
<1>1. /\ r \in Seq(QMsgs) /\ Len(r) = Len(q) + 1 /\ Len(q) \in Nat
      /\ \A j \in 1 .. Len(q) : r[j] = q[j]
      /\ r[Len(q) + 1] = m
  BY DEF Queues
<1> HIDE DEF r
<1>2. OneOpen(r)
  <2> SUFFICES ASSUME NEW j \in 1 .. Len(r), NEW k \in 1 .. Len(r),
                      OpenQos2(r[j]), OpenQos2(r[k]), j < k
               PROVE  r[k].state = "UNSENT"
    BY DEF OneOpen
  <2>1. CASE k = Len(q) + 1
    BY <1>1, <2>1
  <2>2. CASE k # Len(q) + 1
    <3>1. j \in 1 .. Len(q) /\ k \in 1 .. Len(q)
      BY <1>1, <2>2
    <3> QED
      BY <1>1, <3>1 DEF Queues, OneOpen
  <2> QED
    BY <2>1, <2>2
<1> QED
  BY <1>1, <1>2 DEF Queues, r

\* TryPack keeps the queue and its capacity.
LEMMA PackKeeps ==
  ASSUME NEW q \in Queues, Len(q) <= QueueCap, NEW err \in Errors,
         NEW m \in QMsgs, m.state = "UNSENT", TryPack(q, err, m)
  PROVE  mq' \in Queues /\ Len(mq') <= QueueCap /\ error' \in Errors
<1>1. QueueCap \in Nat
  BY BoundsAssumption
<1>2. Room(q) \in Queues /\ Len(Room(q)) <= Len(q) /\ Len(Room(q)) \in Nat
  BY RoomKeeps
<1>3. /\ Append(Room(q), m) \in Queues
      /\ Len(Append(Room(q), m)) = Len(Room(q)) + 1
  BY <1>2, AppendKeeps
<1>4. Len(q) \in Nat
  BY DEF Queues
<1>5. CASE err # "OK"
  BY <1>5 DEF TryPack
<1>6. CASE err = "OK" /\ PackOk(q, err)
  <2>1. mq' = Append(Room(q), m) /\ error' = err /\ Len(Room(q)) < QueueCap
    BY <1>6 DEF TryPack, PackOk
  <2> QED
    BY <1>1, <1>2, <1>3, <2>1
<1>7. CASE err = "OK" /\ ~PackOk(q, err)
  <2>1. mq' = Room(q) /\ error' = "SEND_BUFFER_IS_FULL"
    BY <1>7 DEF TryPack
  <2> QED
    BY <1>1, <1>2, <1>4, <2>1 DEF Errors
<1> QED
  BY <1>5, <1>6, <1>7

\* A message that is completed is no longer open.
LEMMA ReleaseKeeps ==
  ASSUME NEW q \in Queues, NEW type, NEW pid
  PROVE  Release(q, type, pid) \in Queues /\ Len(Release(q, type, pid)) = Len(q)
<1> DEFINE a == Min(Matches(q, type, pid))
           r == [q EXCEPT ![a] = [q[a] EXCEPT !.state = "COMPLETE"]]
<1>1. q \in Seq(QMsgs) /\ Len(q) \in Nat /\ DOMAIN q = 1 .. Len(q)
  BY DEF Queues
<1>2. Release(q, type, pid) = r
  BY DEF Release
<1> HIDE DEF a
<1>3. \A j \in 1 .. Len(q) : q[j] \in QMsgs
  BY <1>1
<1>4. \A x \in QMsgs : [x EXCEPT !.state = "COMPLETE"] \in QMsgs
  BY DEF QMsgs
<1>5. r \in Seq(QMsgs) /\ Len(r) = Len(q)
  <2>1. CASE a \in 1 .. Len(q)
    <3> DEFINE x == [q[a] EXCEPT !.state = "COMPLETE"]
    <3>1. x \in QMsgs
      BY <1>3, <1>4, <2>1
    <3> HIDE DEF x
    <3>2. /\ [q EXCEPT ![a] = x] \in Seq(QMsgs)
          /\ Len([q EXCEPT ![a] = x]) = Len(q)
      BY <1>1, <2>1, <3>1, ExceptSeq
    <3> QED
      BY <3>2 DEF x
  <2>2. CASE a \notin 1 .. Len(q)
    <3>1. r = q
      BY <1>1, <2>2
    <3> QED
      BY <1>1, <3>1
  <2> QED
    BY <2>1, <2>2
<1>6. \A j \in 1 .. Len(q) : r[j] = IF j = a THEN [q[a] EXCEPT !.state = "COMPLETE"] ELSE q[j]
  BY <1>1
<1> HIDE DEF r
<1>7. \A j \in 1 .. Len(q) : OpenQos2(r[j]) => r[j] = q[j]
  <2>1. ASSUME NEW j \in 1 .. Len(q), j = a
        PROVE  ~OpenQos2(r[j])
    <3>1. r[j].state = "COMPLETE"
      BY <1>3, <1>6, <2>1 DEF QMsgs
    <3> QED
      BY <3>1 DEF OpenQos2
  <2> QED
    BY <1>6, <2>1
<1>8. OneOpen(r)
  BY <1>5, <1>7 DEF OneOpen, Queues
<1> QED
  BY <1>2, <1>5, <1>8 DEF Queues
-----------------------------------------------------------------------------
(* The steps, by what they do to the queue.                                *)

\* The actions of Next, in the groups the proofs go through.
LEMMA Steps ==
  ASSUME [Next]_vars
  PROVE  \/ mqtt_connect \/ ApiStep \/ FallQuiet
         \/ SyncStart \/ SyncReconnects \/ ReconnectFails \/ SyncEnd \/ SyncEndLocked
         \/ RecvStep \/ SendStep
         \/ \E j \in DOMAIN mq : Expire(j)
         \/ BrokerReceive \/ \E m \in BMsgs : BrokerPublish(m) \/ BrokerRetry(m)
         \/ UNCHANGED vars
  BY DEF Next, SyncStep

\* A new message, unsent, is queued; or a message is only released.
Packing ==
  \E m \in QMsgs : /\ m.state = "UNSENT"
                   /\ \/ TryPack(mq, error, m) \/ TryPack(mq, "OK", m)
                      \/ \E req, pid : TryPack(Release(mq, req, pid), error, m)
Releasing == \E req, pid : mq' = Release(mq, req, pid)

\* The message of the reconnect callback's queue.
Renewed ==
  /\ "reconnect" \in Features
  /\ \E p \in Pids : mq' = <<QMsg("CONNECT", NULL, 0), QMsg("SUBSCRIBE", p, 0)>>

Types1 == toClient \in Seq(Packets) /\ upid \in Pids \cup {NULL}

\* mqtt_mq_register makes an unsent message.
LEMMA QMsgType ==
  ASSUME NEW type \in Types, NEW pid \in Ids, NEW qos \in 0 .. 2
  PROVE  QMsg(type, pid, qos) \in QMsgs /\ QMsg(type, pid, qos).state = "UNSENT"
  BY DEF QMsg, QMsgs

\* The packet that is received.
LEMMA ReceivedPacket ==
  ASSUME toClient \in Seq(Packets), NEW type, Received(type)
  PROVE  /\ Head(toClient) \in Packets /\ Head(toClient).type = type
         /\ Head(toClient) = toClient[1] /\ 1 \in 1 .. Len(toClient)
         /\ sync \in {"begun", "recv"} /\ toClient' = Tail(toClient)
<1>1. toClient # <<>>
  BY DEF Received
<1>2. Head(toClient) \in Packets /\ Len(toClient) \in Nat \ {0}
  BY <1>1, HeadTailProperties, EmptySeq
<1>3. Head(toClient) = toClient[1]
  BY <1>1
<1> QED
  BY <1>2, <1>3 DEF Received, Receiving

\* An API call packs at most one message, and never inside the send loop.
LEMMA ApiEffect ==
  ASSUME Types1, ApiStep
  PROVE  sync' = sync /\ (Packing \/ UNCHANGED mq) /\ (mq' = mq \/ sync # "send")
<1>1. ASSUME NEW qos \in 0 .. 2, mqtt_publish(qos)
      PROVE  sync' = sync /\ Packing /\ sync # "send"
  <2>1. PICK p \in FreePids : TryPack(mq, error, QMsg("PUBLISH", p, qos))
    BY <1>1 DEF mqtt_publish
  <2>2. p \in Ids /\ "PUBLISH" \in Types
    BY DEF FreePids, Ids, Types, Requests
  <2>3. Packing
    BY <2>1, <2>2, QMsgType DEF Packing
  <2> QED
    BY <1>1, <2>3 DEF mqtt_publish, Unlocked, syncVars
<1>2. ASSUME mqtt_subscribe
      PROVE  sync' = sync /\ Packing /\ sync # "send"
  <2>1. PICK p \in FreePids : TryPack(mq, error, QMsg("SUBSCRIBE", p, 0))
    BY <1>2 DEF mqtt_subscribe
  <2>2. p \in Ids /\ "SUBSCRIBE" \in Types
    BY DEF FreePids, Ids, Types, Requests
  <2>3. Packing
    BY <2>1, <2>2, QMsgType DEF Packing
  <2> QED
    BY <1>2, <2>3 DEF mqtt_subscribe, Unlocked, syncVars
<1>3. ASSUME NEW type \in {"PINGREQ", "DISCONNECT"}, TryPack(mq, error, QMsg(type, NULL, 0))
      PROVE  Packing
  <2>1. type \in Types /\ NULL \in Ids
    BY DEF Types, Requests, OneWay, Ids
  <2> QED
    BY <1>3, <2>1, QMsgType DEF Packing
<1>4. ASSUME mqtt_ping \/ mqtt_disconnect \/ ReconnectDisconnects
      PROVE  sync' = sync /\ Packing /\ sync # "send"
  BY <1>3, <1>4 DEF mqtt_ping, mqtt_disconnect, ReconnectDisconnects, Unlocked, syncVars
<1>5. ASSUME mqtt_unsubscribe
      PROVE  sync' = sync /\ Packing /\ sync # "send"
  <2>1. upid \in Ids /\ "UNSUBSCRIBE" \in Types
    BY DEF Types1, Ids, Types, Requests
  <2>2. TryPack(mq, error, QMsg("UNSUBSCRIBE", upid, 0))
    BY <1>5 DEF mqtt_unsubscribe
  <2>3. Packing
    BY <2>1, <2>2, QMsgType DEF Packing
  <2> QED
    BY <1>5, <2>3 DEF mqtt_unsubscribe, Unlocked, syncVars
<1>6. ASSUME UnsubscribePid \/ mqtt_reconnect
      PROVE  sync' = sync /\ mq' = mq
  BY <1>6 DEF UnsubscribePid, mqtt_reconnect, cliVars, syncVars
<1> QED
  BY <1>1, <1>2, <1>4, <1>5, <1>6 DEF ApiStep

\* A received packet releases a message, packs one, or leaves the queue.
LEMMA RecvEffect ==
  ASSUME Types1, RecvStep
  PROVE  sync' \in {"recv", "idle", "mid"} /\ (Packing \/ Releasing \/ UNCHANGED mq)
<1>1. ASSUME NEW t, RecvAck(t)
      PROVE  sync' \in {"recv", "idle"} /\ (Releasing \/ UNCHANGED mq)
  BY <1>1 DEF RecvAck, UnknownAck, Releasing
<1>2. ASSUME RecvPublish
      PROVE  sync' \in {"recv", "idle"} /\ (Packing \/ UNCHANGED mq)
  <2> DEFINE p == Head(toClient)
             type == IF p.qos = 1 THEN "PUBACK" ELSE "PUBREC"
  <2>1. p \in Packets
    BY <1>2, ReceivedPacket DEF RecvPublish, Types1
  <2>2. p.pid \in Ids /\ type \in Types
    BY <2>1 DEF Packets, Types, Requests, OneWay
  <2>3. sync' \in {"recv", "idle"} /\ (TryPack(mq, error, QMsg(type, p.pid, 0)) \/ mq' = mq)
    BY <1>2 DEF RecvPublish
  <2> HIDE DEF p, type
  <2> QED
    BY <2>2, <2>3, QMsgType DEF Packing
<1>3. ASSUME NEW t, NEW req, NEW next \in {"PUBREL", "PUBCOMP"}, RecvStage(t, req, next)
      PROVE  sync' \in {"recv", "idle"} /\ (Packing \/ UNCHANGED mq)
  <2> DEFINE p == Head(toClient)
  <2>1. p \in Packets
    BY <1>3, ReceivedPacket DEF RecvStage, Types1
  <2>2. p.pid \in Ids /\ next \in Types
    BY <2>1 DEF Packets, Types, Requests, OneWay
  <2>3. /\ sync' \in {"recv", "idle"}
        /\ TryPack(Release(mq, req, p.pid), error, QMsg(next, p.pid, 0)) \/ mq' = mq
    BY <1>3 DEF RecvStage, UnknownAck
  <2> HIDE DEF p
  <2> QED
    BY <2>2, <2>3, QMsgType DEF Packing
<1>4. ASSUME RecvNothing \/ RecvError
      PROVE  sync' \in {"idle", "mid"} /\ mq' = mq
  BY <1>4 DEF RecvNothing, RecvError, cliVars
<1> QED
  BY <1>1, <1>2, <1>3, <1>4 DEF RecvStep

\* What the other steps do.
LEMMA Effects ==
  ASSUME Types1, [Next]_vars
  PROVE  \/ (Packing \/ Releasing \/ Renewed \/ UNCHANGED mq) /\ sync' # "send"
         \/ UNCHANGED <<mq, sync, i, inflight_qos2>>
         \/ \E j \in DOMAIN mq : Expire(j)
         \/ SendStart \/ SendSkip \/ SendWhole \/ \E n \in 0 .. ChunkLen - 1 : SendPart(n)
<1>1. CASE mqtt_connect
  <2>1. "CONNECT" \in Types /\ NULL \in Ids
    BY DEF Types, Requests, Ids
  <2> QED
    BY <1>1, <2>1, QMsgType DEF mqtt_connect, Packing
<1>2. CASE ApiStep
  <2>1. sync' = sync /\ (Packing \/ mq' = mq) /\ (mq' = mq \/ sync # "send")
    BY <1>2, ApiEffect
  <2>2. UNCHANGED <<i, inflight_qos2>>
    BY <1>2 DEF ApiStep, mqtt_publish, mqtt_subscribe, mqtt_ping, mqtt_disconnect,
                UnsubscribePid, mqtt_unsubscribe, ReconnectDisconnects, mqtt_reconnect, syncVars
  <2> QED
    BY <2>1, <2>2
<1>3. CASE FallQuiet \/ BrokerReceive \/ \E m \in BMsgs : BrokerPublish(m) \/ BrokerRetry(m)
  BY <1>3 DEF FallQuiet, BrokerReceive, BrokerPublish, BrokerRetry, cliVars, syncVars
<1>4. CASE SyncStart \/ SyncEndLocked \/ ReconnectFails
  BY <1>4 DEF SyncStart, SyncEndLocked, ReconnectFails, cliVars, syncVars
<1>5. CASE SyncReconnects \/ SyncEnd
  BY <1>5 DEF SyncReconnects, NeedsReconnect, SyncEnd, mqtt_reinit, Renewed, cliVars
<1>6. CASE RecvStep
  BY <1>6, RecvEffect
<1>7. CASE SendStep
  <2>1. CASE SendError
    BY <2>1 DEF SendError
  <2>2. CASE SendEnd
    <3>1. "PINGREQ" \in Types /\ NULL \in Ids
      BY DEF Types, Requests, Ids
    <3> QED
      BY <2>2, <3>1, QMsgType DEF SendEnd, Packing
  <2> QED
    BY <1>7, <2>1, <2>2 DEF SendStep
<1>8. CASE UNCHANGED vars
  BY <1>8 DEF vars, cliVars, syncVars
<1> QED
  BY <1>1, <1>2, <1>3, <1>4, <1>5, <1>6, <1>7, <1>8, Steps
-----------------------------------------------------------------------------
(* The queue is a queue of messages that keeps the rule of OneQos2InFlight, *)
(* because the send loop has seen every QoS 2 PUBLISH that is open before   *)
(* the message it is at.                                                    *)

QueueOK == mq \in Queues /\ Len(mq) <= QueueCap /\ error \in Errors

Seen ==
  sync = "send" /\ i <= Len(mq) =>
    \A j \in 1 .. Len(mq) : j < i /\ OpenQos2(mq[j]) => inflight_qos2

\* One message of a queue is changed.
LEMMA ChangeOne ==
  ASSUME NEW q \in Seq(QMsgs), NEW a \in 1 .. Len(q), NEW x \in QMsgs,
         NEW r, r = [q EXCEPT ![a] = x]
  PROVE  /\ r \in Seq(QMsgs) /\ Len(r) = Len(q)
         /\ \A j \in 1 .. Len(q) : r[j] = IF j = a THEN x ELSE q[j]
<1>1. r \in Seq(QMsgs) /\ Len(r) = Len(q)
  BY ExceptSeq
<1> QED
  BY <1>1

\* Expire(a): a message is late, and as open as before.
LEMMA ExpireChanges ==
  ASSUME mq \in Seq(QMsgs), NEW a \in DOMAIN mq, Expire(a)
  PROVE  /\ mq' \in Seq(QMsgs) /\ Len(mq') = Len(mq)
         /\ \A j \in 1 .. Len(mq) :
              /\ OpenQos2(mq'[j]) <=> OpenQos2(mq[j])
              /\ mq'[j].state = mq[j].state
<1> DEFINE x == [mq[a] EXCEPT !.late = TRUE]
<1>1. a \in 1 .. Len(mq) /\ mq[a] \in QMsgs
  OBVIOUS
<1>2. /\ x \in QMsgs /\ x.type = mq[a].type /\ x.qos = mq[a].qos
      /\ x.state = mq[a].state
  BY <1>1 DEF QMsgs
<1>3. mq' = [mq EXCEPT ![a] = x]
  BY DEF Expire
<1> HIDE DEF x
<1>4. /\ mq' \in Seq(QMsgs) /\ Len(mq') = Len(mq)
      /\ \A j \in 1 .. Len(mq) : mq'[j] = IF j = a THEN x ELSE mq[j]
  BY <1>1, <1>2, <1>3, ChangeOne
<1> QED
  BY <1>2, <1>4 DEF OpenQos2

\* SendWhole: the message at i is sent, and no more open than before.
LEMMA SendWholeChanges ==
  ASSUME mq \in Seq(QMsgs), i \in Nat \ {0}, SendWhole
  PROVE  /\ mq' \in Seq(QMsgs) /\ Len(mq') = Len(mq) /\ i \in 1 .. Len(mq)
         /\ OpenQos2(mq'[i]) => OpenQos2(mq[i])
         /\ \A j \in 1 .. Len(mq) : j # i => mq'[j] = mq[j]
<1> DEFINE x == [mq[i] EXCEPT !.state = SentState(mq[i]), !.late = FALSE]
<1>1. i \in 1 .. Len(mq) /\ mq[i] \in QMsgs
  BY DEF SendWhole, Sending
<1>2. SentState(mq[i]) \in {"COMPLETE", "AWAITING_ACK"}
  BY DEF SentState
<1>3. /\ x \in QMsgs /\ x.type = mq[i].type /\ x.qos = mq[i].qos
      /\ mq[i].state # "COMPLETE"
  BY <1>1, <1>2 DEF QMsgs, SendWhole, MustSend, TimedOut
<1>4. mq' = [mq EXCEPT ![i] = x]
  BY <1>1 DEF SendWhole
<1> HIDE DEF x
<1>5. /\ mq' \in Seq(QMsgs) /\ Len(mq') = Len(mq)
      /\ \A j \in 1 .. Len(mq) : mq'[j] = IF j = i THEN x ELSE mq[j]
  BY <1>1, <1>3, <1>4, ChangeOne
<1>6. OpenQos2(mq'[i]) => OpenQos2(mq[i])
  BY <1>1, <1>3, <1>5 DEF OpenQos2
<1> QED
  BY <1>1, <1>5, <1>6

\* What a pack leaves is a queue that fits.
LEMMA PackingKeeps ==
  ASSUME QueueOK, Packing
  PROVE  mq' \in Queues /\ Len(mq') <= QueueCap
<1>1. PICK m \in QMsgs :
        /\ m.state = "UNSENT"
        /\ \/ TryPack(mq, error, m) \/ TryPack(mq, "OK", m)
           \/ \E req, pid : TryPack(Release(mq, req, pid), error, m)
  BY DEF Packing
<1>2. "OK" \in Errors
  BY DEF Errors
<1>3. CASE TryPack(mq, error, m) \/ TryPack(mq, "OK", m)
  BY <1>1, <1>2, <1>3, PackKeeps DEF QueueOK
<1>4. ASSUME NEW req, NEW pid, TryPack(Release(mq, req, pid), error, m)
      PROVE  mq' \in Queues /\ Len(mq') <= QueueCap
  <2> DEFINE q == Release(mq, req, pid)
  <2>1. q \in Queues /\ Len(q) <= QueueCap
    BY ReleaseKeeps DEF QueueOK
  <2> HIDE DEF q
  <2>2. TryPack(q, error, m)
    BY <1>4 DEF q
  <2> QED
    BY <1>1, <2>1, <2>2, PackKeeps DEF QueueOK
<1> QED
  BY <1>1, <1>3, <1>4

\* The queue of the reconnect callback.
LEMMA RenewedKeeps ==
  ASSUME Renewed
  PROVE  mq' \in Queues /\ Len(mq') <= QueueCap
<1>1. PICK p \in Pids : mq' = <<QMsg("CONNECT", NULL, 0), QMsg("SUBSCRIBE", p, 0)>>
  BY DEF Renewed
<1> DEFINE m == QMsg("CONNECT", NULL, 0)
           n == QMsg("SUBSCRIBE", p, 0)
<1>2. m \in QMsgs /\ n \in QMsgs
  <2>1. {"CONNECT", "SUBSCRIBE"} \subseteq Types /\ {p, NULL} \subseteq Ids
    BY DEF Types, Requests, Ids
  <2> QED
    BY <2>1, QMsgType
<1>3. m.type = "CONNECT" /\ n.type = "SUBSCRIBE"
  BY DEF QMsg
<1>4. QueueCap \in Nat /\ QueueCap >= 2
  BY BoundsAssumption DEF Renewed
<1> HIDE DEF m, n
<1>5. mq' = <<m, n>>
  BY <1>1 DEF m, n
<1>6. mq' \in Seq(QMsgs) /\ Len(mq') = 2 /\ mq'[1] = m /\ mq'[2] = n
  BY <1>2, <1>5
<1>7. \A j \in 1 .. Len(mq') : ~OpenQos2(mq'[j])
  BY <1>3, <1>6 DEF OpenQos2
<1> QED
  BY <1>4, <1>6, <1>7 DEF Queues, OneOpen

\* Every step keeps the queue: a QoS 2 PUBLISH is sent only when the loop has
\* seen no other that is open before it.
LEMMA QueueStep ==
  ASSUME QueueOK, Types1, Seen, i \in Nat \ {0}, [Next]_vars
  PROVE  mq' \in Queues /\ Len(mq') <= QueueCap
<1>1. mq \in Queues /\ Len(mq) <= QueueCap /\ mq \in Seq(QMsgs) /\ OneOpen(mq)
  BY DEF QueueOK, Queues
<1>2. CASE Packing \/ Renewed
  BY <1>2, PackingKeeps, RenewedKeeps
<1>3. CASE Releasing
  BY <1>1, <1>3, ReleaseKeeps DEF Releasing
<1>4. CASE mq' = mq
  BY <1>1, <1>4
<1>5. ASSUME NEW a \in DOMAIN mq, Expire(a)
      PROVE  mq' \in Queues /\ Len(mq') <= QueueCap
  <2>1. /\ mq' \in Seq(QMsgs) /\ Len(mq') = Len(mq)
        /\ \A j \in 1 .. Len(mq) :
             /\ OpenQos2(mq'[j]) <=> OpenQos2(mq[j])
             /\ mq'[j].state = mq[j].state
    BY <1>1, <1>5, ExpireChanges
  <2>2. OneOpen(mq')
    BY <1>1, <2>1 DEF OneOpen
  <2> QED
    BY <1>1, <2>1, <2>2 DEF Queues
<1>6. CASE SendWhole
  <2>1. /\ mq' \in Seq(QMsgs) /\ Len(mq') = Len(mq) /\ i \in 1 .. Len(mq)
        /\ OpenQos2(mq'[i]) => OpenQos2(mq[i])
        /\ \A j \in 1 .. Len(mq) : j # i => mq'[j] = mq[j]
    BY <1>1, <1>6, SendWholeChanges
  <2>2. ASSUME OpenQos2(mq[i]), NEW j \in 1 .. Len(mq), j < i
        PROVE  ~OpenQos2(mq[j])
    BY <1>6, <2>1, <2>2 DEF SendWhole, Sending, MustSend, Seen
  <2>3. OneOpen(mq')
    <3> SUFFICES ASSUME NEW j \in 1 .. Len(mq'), NEW k \in 1 .. Len(mq'),
                        OpenQos2(mq'[j]), OpenQos2(mq'[k]), j < k
                 PROVE  mq'[k].state = "UNSENT"
      BY DEF OneOpen
    <3>1. j \in 1 .. Len(mq) /\ k \in 1 .. Len(mq)
      BY <2>1
    <3>2. k # i
      <4> SUFFICES ASSUME k = i
                   PROVE  FALSE
        OBVIOUS
      <4>1. OpenQos2(mq[i]) /\ j < i /\ mq'[j] = mq[j]
        BY <2>1, <3>1
      <4> QED
        BY <2>2, <3>1, <4>1
    <3>3. mq'[k] = mq[k] /\ OpenQos2(mq[j])
      BY <2>1, <3>1, <3>2
    <3> QED
      BY <1>1, <3>1, <3>3 DEF OneOpen
  <2> QED
    BY <1>1, <2>1, <2>3 DEF Queues
<1>7. CASE SendStart \/ SendSkip \/ \E n \in 0 .. ChunkLen - 1 : SendPart(n)
  BY <1>4, <1>7 DEF SendStart, SendSkip, SendPart, cliVars
<1> QED
  BY <1>2, <1>3, <1>4, <1>5, <1>6, <1>7, Effects

\* Every step keeps what the send loop has seen.
LEMMA SeenStep ==
  ASSUME QueueOK, Types1, Seen, i \in Nat \ {0}, [Next]_vars
  PROVE  Seen'
<1>1. mq \in Seq(QMsgs) /\ Len(mq) \in Nat
  BY DEF QueueOK, Queues
<1>2. CASE sync' # "send"
  BY <1>2 DEF Seen
<1>3. CASE UNCHANGED <<mq, sync, i, inflight_qos2>>
  BY <1>3 DEF Seen, OpenQos2
<1>4. ASSUME NEW a \in DOMAIN mq, Expire(a)
      PROVE  Seen'
  <2>1. /\ Len(mq') = Len(mq)
        /\ \A j \in 1 .. Len(mq) : OpenQos2(mq'[j]) <=> OpenQos2(mq[j])
    BY <1>1, <1>4, ExpireChanges
  <2>2. sync' = sync /\ i' = i /\ inflight_qos2' = inflight_qos2
    BY <1>4 DEF Expire, syncVars
  <2> QED
    BY <2>1, <2>2 DEF Seen, OpenQos2
<1>5. CASE SendStart
  BY <1>5 DEF SendStart, Seen
<1>6. CASE SendSkip
  <2>1. mq' = mq /\ sync' = sync /\ i' = i + 1 /\ sync = "send" /\ i <= Len(mq)
    BY <1>6 DEF SendSkip, Sending
  <2>2. inflight_qos2' = (inflight_qos2 \/ OpenQos2(mq[i]))
    BY <1>6 DEF SendSkip
  <2> SUFFICES ASSUME NEW j \in 1 .. Len(mq), j < i + 1, OpenQos2(mq[j])
               PROVE  inflight_qos2'
    BY <2>1 DEF Seen, OpenQos2
  <2>3. CASE j = i
    BY <2>2, <2>3
  <2>4. CASE j # i
    <3>1. j < i
      BY <2>4
    <3>2. inflight_qos2
      BY <2>1, <3>1 DEF Seen
    <3> QED
      BY <2>2, <3>2
  <2> QED
    BY <2>3, <2>4
<1>7. CASE SendWhole
  <2>1. sync' = sync /\ i' = i + 1 /\ sync = "send" /\ i <= Len(mq)
    BY <1>7 DEF SendWhole, Sending
  <2>2. inflight_qos2' = (inflight_qos2 \/ OpenQos2(mq[i]))
    BY <1>7 DEF SendWhole
  <2>3. /\ Len(mq') = Len(mq)
        /\ OpenQos2(mq'[i]) => OpenQos2(mq[i])
        /\ \A j \in 1 .. Len(mq) : j # i => mq'[j] = mq[j]
    BY <1>1, <1>7, SendWholeChanges
  <2> SUFFICES ASSUME NEW j \in 1 .. Len(mq), j < i + 1, OpenQos2(mq'[j])
               PROVE  inflight_qos2'
    BY <2>1, <2>3 DEF Seen, OpenQos2
  <2>4. CASE j = i
    BY <2>2, <2>3, <2>4
  <2>5. CASE j # i
    <3>1. j < i /\ OpenQos2(mq[j])
      BY <2>3, <2>5
    <3>2. inflight_qos2
      BY <2>1, <3>1 DEF Seen
    <3> QED
      BY <2>2, <3>2
  <2> QED
    BY <2>4, <2>5
<1>8. ASSUME NEW n \in 0 .. ChunkLen - 1, SendPart(n)
      PROVE  Seen'
  <2>1. i' = Len(mq) + 1 /\ mq' = mq
    BY <1>8 DEF SendPart
  <2>2. ~(i' <= Len(mq'))
    BY <1>1, <2>1
  <2> QED
    BY <2>2 DEF Seen
<1> QED
  BY <1>2, <1>3, <1>4, <1>5, <1>6, <1>7, <1>8, Effects
-----------------------------------------------------------------------------
(* Types: where the threads are, the flags, and the error.                  *)

Syncs == {"off", "idle", "begun", "recv", "mid", "send", "after", "locked"}

Control ==
  /\ sync \in Syncs /\ i \in 1 .. QueueCap + 1
  /\ send_offset \in 0 .. ChunkLen - 1
  /\ user \in {"idle", "unsub", "recon"} /\ upid \in Pids \cup {NULL}
  /\ calls \in 0 .. MaxCalls

Flags ==
  /\ inflight_qos2 \in BOOLEAN /\ reconnecting \in BOOLEAN
  /\ quiet \in BOOLEAN /\ garbled \in BOOLEAN

\* TryPack sets error to what it was, or to SEND_BUFFER_IS_FULL.
LEMMA PackError ==
  ASSUME NEW q, NEW err, NEW m, TryPack(q, err, m)
  PROVE  error' \in {err, "SEND_BUFFER_IS_FULL"}
  BY DEF TryPack

\* The errors that a step may set.
Codes == {error, "OK", "SEND_BUFFER_IS_FULL", "RECONNECTING", "RECONNECT_FAILED",
          "SOCKET_ERROR", "REFUSED"}

\* MQTT_ERROR_ACK_OF_UNKNOWN is set for what is received only.
LEMMA ErrorCodes ==
  ASSUME [Next]_vars
  PROVE  error' \in Codes \/ (error' = "ACK_OF_UNKNOWN" /\ RecvStep)
<1>2. ASSUME NEW q, NEW err \in {error, "OK"}, NEW m, TryPack(q, err, m)
      PROVE  error' \in Codes
  BY <1>2, PackError DEF Codes
<1>3. CASE mqtt_connect \/ ApiStep
  <2>1. ASSUME mqtt_connect
        PROVE  error' \in Codes
    BY <1>2, <2>1 DEF mqtt_connect
  <2>2. ASSUME NEW qos \in 0 .. 2, mqtt_publish(qos)
        PROVE  error' \in Codes
    BY <1>2, <2>2 DEF mqtt_publish
  <2>3. CASE mqtt_subscribe \/ mqtt_ping \/ mqtt_disconnect \/ mqtt_unsubscribe
             \/ ReconnectDisconnects
    BY <1>2, <2>3 DEF mqtt_subscribe, mqtt_ping, mqtt_disconnect, mqtt_unsubscribe,
                      ReconnectDisconnects
  <2>4. CASE UnsubscribePid \/ mqtt_reconnect
    BY <2>4 DEF UnsubscribePid, mqtt_reconnect, cliVars, Codes
  <2> QED
    BY <1>3, <2>1, <2>2, <2>3, <2>4 DEF ApiStep
<1>4. CASE SyncStart \/ SyncReconnects \/ ReconnectFails \/ SyncEnd \/ SyncEndLocked
  BY <1>4 DEF SyncStart, SyncReconnects, ReconnectFails, SyncEnd, SyncEndLocked, mqtt_reinit,
              cliVars, Codes
<1>5. CASE RecvStep
  <2>1. ASSUME NEW t, RecvAck(t)
        PROVE  error' \in Codes \cup {"ACK_OF_UNKNOWN"}
    BY <2>1 DEF RecvAck, UnknownAck, Codes
  <2>2. ASSUME NEW t, NEW req, NEW next, RecvStage(t, req, next)
        PROVE  error' \in Codes \cup {"ACK_OF_UNKNOWN"}
    <3>1. \/ error' \in {error, "ACK_OF_UNKNOWN"}
          \/ \E q, m : TryPack(q, error, m)
      BY <2>2 DEF RecvStage, UnknownAck
    <3> QED
      BY <1>2, <3>1 DEF Codes
  <2>3. ASSUME RecvPublish
        PROVE  error' \in Codes
    <3>1. error' = error \/ \E m : TryPack(mq, error, m)
      BY <2>3 DEF RecvPublish
    <3> QED
      BY <1>2, <3>1 DEF Codes
  <2>4. CASE RecvNothing \/ RecvError
    BY <2>4 DEF RecvNothing, RecvError, cliVars, Codes
  <2> QED
    BY <1>5, <2>1, <2>2, <2>3, <2>4 DEF RecvStep
<1>6. CASE SendStep
  <2>1. ASSUME SendEnd
        PROVE  error' \in Codes
    <3>1. error' = error \/ \E m : TryPack(mq, error, m)
      BY <2>1 DEF SendEnd
    <3> QED
      BY <1>2, <3>1 DEF Codes
  <2>2. CASE SendStart \/ SendSkip \/ SendWhole \/ SendError
             \/ \E n \in 0 .. ChunkLen - 1 : SendPart(n)
    BY <2>2 DEF SendStart, SendSkip, SendWhole, SendError, SendPart, cliVars, Codes
  <2> QED
    BY <1>6, <2>1, <2>2 DEF SendStep
<1>7. CASE FallQuiet \/ BrokerReceive \/ (\E j \in DOMAIN mq : Expire(j))
           \/ (\E m \in BMsgs : BrokerPublish(m) \/ BrokerRetry(m)) \/ UNCHANGED vars
  BY <1>7 DEF FallQuiet, BrokerReceive, Expire, BrokerPublish, BrokerRetry, vars, cliVars, Codes
<1> QED
  BY <1>3, <1>4, <1>5, <1>6, <1>7, Steps

\* error is always one of the client's errors.
LEMMA ErrorStep ==
  ASSUME error \in Errors, [Next]_vars
  PROVE  error' \in Errors
<1>1. Codes \cup {"ACK_OF_UNKNOWN"} \subseteq Errors
  BY DEF Codes, Errors
<1> QED
  BY <1>1, ErrorCodes

\* The offset of a message is one inside a packet.
LEMMA OffsetType ==
  ASSUME send_offset \in 0 .. ChunkLen - 1, NEW m
  PROVE  Offset(m) \in 0 .. ChunkLen - 1
  BY BoundsAssumption DEF Offset

\* Where the threads are: mqtt_sync, its loop index, the offset, the user.
LEMMA ControlStep ==
  ASSUME QueueOK, Control, [Next]_vars
  PROVE  Control'
<1>1. QueueCap \in Nat \ {0} /\ ChunkLen \in Nat \ {0} /\ MaxCalls \in Nat
  BY BoundsAssumption
<1>2. Len(mq) \in Nat /\ Len(mq) <= QueueCap
  BY DEF QueueOK, Queues
<1>3. CASE mqtt_connect
  BY <1>3 DEF mqtt_connect, userVars, Control, Syncs
<1>4. CASE ApiStep
  <2>1. sync' = sync /\ i' = i /\ send_offset' = send_offset
    BY <1>4 DEF ApiStep, mqtt_publish, mqtt_subscribe, mqtt_ping, mqtt_disconnect,
                UnsubscribePid, mqtt_unsubscribe, ReconnectDisconnects, mqtt_reconnect, syncVars, cliVars
  <2>2. user' \in {user, "unsub", "idle", "recon"}
    BY <1>4 DEF ApiStep, mqtt_publish, mqtt_subscribe, mqtt_ping, mqtt_disconnect,
                UnsubscribePid, mqtt_unsubscribe, ReconnectDisconnects, mqtt_reconnect
  <2>3. upid' \in {upid, NULL} \cup Pids
    BY <1>4 DEF ApiStep, mqtt_publish, mqtt_subscribe, mqtt_ping, mqtt_disconnect,
                UnsubscribePid, mqtt_unsubscribe, ReconnectDisconnects, mqtt_reconnect, FreePids
  <2>4. calls' = calls \/ (calls < MaxCalls /\ calls' = calls + 1)
    BY <1>4 DEF ApiStep, mqtt_publish, mqtt_subscribe, mqtt_ping, mqtt_disconnect,
                UnsubscribePid, mqtt_unsubscribe, ReconnectDisconnects, mqtt_reconnect, Call
  <2>5. calls' \in 0 .. MaxCalls
    BY <1>1, <2>4 DEF Control
  <2> QED
    BY <2>1, <2>2, <2>3, <2>5 DEF Control
<1>5. CASE SyncStart \/ SyncReconnects \/ ReconnectFails \/ SyncEnd \/ SyncEndLocked
  <2>1. UNCHANGED <<i, send_offset, user, upid, calls>>
    BY <1>5 DEF SyncStart, SyncReconnects, ReconnectFails, SyncEnd, SyncEndLocked, mqtt_reinit,
                syncVars, userVars, cliVars
  <2>2. sync' \in {sync, "begun", "idle", "locked"}
    BY <1>5 DEF SyncStart, SyncReconnects, ReconnectFails, SyncEnd, SyncEndLocked, syncVars
  <2> QED
    BY <2>1, <2>2 DEF Control, Syncs
<1>6. CASE RecvStep
  <2>1. UNCHANGED <<i, send_offset, user, upid, calls>>
    BY <1>6 DEF RecvStep, RecvAck, RecvPublish, RecvStage, RecvNothing, RecvError, Received,
                userVars, cliVars
  <2>2. sync' \in {"recv", "idle", "mid"}
    BY <1>6 DEF RecvStep, RecvAck, RecvPublish, RecvStage, RecvNothing, RecvError, UnknownAck
  <2> QED
    BY <2>1, <2>2 DEF Control, Syncs
<1>7. CASE SendStep
  <2>1. UNCHANGED <<user, upid, calls>> /\ sync' \in {sync, "send", "after"}
    BY <1>7 DEF SendStep, SendStart, SendSkip, SendWhole, SendPart, SendError, SendEnd, userVars
  <2>2. i' = i \/ i' = 1 \/ (i' = i + 1 /\ i <= Len(mq)) \/ i' = Len(mq) + 1
    BY <1>7 DEF SendStep, SendStart, SendSkip, SendWhole, SendPart, SendError, SendEnd, Sending
  <2>3. i' \in 1 .. QueueCap + 1
    BY <1>1, <1>2, <2>2 DEF Control
  <2>4. Offset(mq[i]) \in 0 .. ChunkLen - 1
    BY OffsetType DEF Control
  <2>5. \/ send_offset' \in {send_offset, 0, Offset(mq[i])}
        \/ \E n \in 0 .. ChunkLen - 1 :
             n < ChunkLen - Offset(mq[i]) /\ send_offset' = Offset(mq[i]) + n
    BY <1>7 DEF SendStep, SendStart, SendSkip, SendWhole, SendPart, SendError, SendEnd, cliVars
  <2>6. send_offset' \in 0 .. ChunkLen - 1
    BY <1>1, <2>4, <2>5 DEF Control
  <2> QED
    BY <2>1, <2>3, <2>6 DEF Control, Syncs
<1>8. CASE FallQuiet \/ BrokerReceive \/ (\E j \in DOMAIN mq : Expire(j))
           \/ (\E m \in BMsgs : BrokerPublish(m) \/ BrokerRetry(m)) \/ UNCHANGED vars
  <2>1. UNCHANGED <<sync, i, send_offset, user, upid, calls>>
    BY <1>8 DEF FallQuiet, BrokerReceive, Expire, BrokerPublish, BrokerRetry, vars, cliVars,
                syncVars, userVars
  <2> QED
    BY <2>1 DEF Control
<1> QED
  BY <1>3, <1>4, <1>5, <1>6, <1>7, <1>8, Steps

\* The flags are Boolean.
LEMMA FlagsStep ==
  ASSUME Flags, [Next]_vars
  PROVE  Flags'
<1>1. CASE mqtt_connect \/ ApiStep
  <2>1. UNCHANGED <<inflight_qos2, reconnecting, quiet, garbled>>
    BY <1>1 DEF mqtt_connect, ApiStep, mqtt_publish, mqtt_subscribe, mqtt_ping, mqtt_disconnect,
                UnsubscribePid, mqtt_unsubscribe, ReconnectDisconnects, mqtt_reconnect, syncVars, netVars
  <2> QED
    BY <2>1, Zenon DEF Flags
<1>2. CASE SyncReconnects \/ ReconnectFails \/ SyncEnd \/ SyncEndLocked
  <2>1. UNCHANGED <<inflight_qos2, quiet, garbled>>
    BY <1>2 DEF SyncReconnects, ReconnectFails, SyncEnd, SyncEndLocked, mqtt_reinit, syncVars, netVars
  <2>2. reconnecting' = reconnecting \/ reconnecting' = FALSE
    BY <1>2 DEF SyncReconnects, ReconnectFails, SyncEnd, SyncEndLocked, syncVars
  <2> QED
    BY <2>1, <2>2, Zenon DEF Flags
<1>3. CASE SyncStart
  <2>1. UNCHANGED <<inflight_qos2, quiet, garbled>>
    BY <1>3 DEF SyncStart, netVars
  <2>2. reconnecting' \in BOOLEAN
    BY <1>3, Zenon DEF SyncStart
  <2> QED
    BY <2>1, <2>2, Zenon DEF Flags
<1>4. CASE RecvStep
  <2>1. UNCHANGED <<inflight_qos2, reconnecting, quiet, garbled>>
    BY <1>4 DEF RecvStep, RecvAck, RecvPublish, RecvStage, RecvNothing, RecvError, Received, netVars
  <2> QED
    BY <2>1, Zenon DEF Flags
<1>5. CASE SendStart \/ SendError \/ SendEnd
  <2>1. UNCHANGED <<reconnecting, quiet, garbled>>
    BY <1>5 DEF SendStart, SendError, SendEnd, netVars
  <2>2. inflight_qos2' = inflight_qos2 \/ inflight_qos2' = FALSE
    BY <1>5 DEF SendStart, SendError, SendEnd
  <2> QED
    BY <2>1, <2>2, Zenon DEF Flags
<1>6. CASE SendSkip
  <2>1. UNCHANGED <<reconnecting, quiet, garbled>>
    BY <1>6 DEF SendSkip, netVars
  <2>2. inflight_qos2' \in BOOLEAN
    BY <1>6, Zenon DEF SendSkip
  <2> QED
    BY <2>1, <2>2, Zenon DEF Flags
<1>7. CASE SendWhole
  <2>1. reconnecting' = reconnecting /\ quiet' = FALSE
    BY <1>7 DEF SendWhole
  <2>2. inflight_qos2' \in BOOLEAN
    BY <1>7, Zenon DEF SendWhole
  <2>3. garbled' \in BOOLEAN
    BY <1>7, Zenon DEF SendWhole, Write
  <2> QED
    BY <2>1, <2>2, <2>3, Zenon DEF Flags
<1>8. ASSUME NEW n \in 0 .. ChunkLen - 1, SendPart(n)
      PROVE  Flags'
  <2>1. UNCHANGED <<inflight_qos2, reconnecting, quiet>>
    BY <1>8 DEF SendPart
  <2>2. garbled' \in BOOLEAN
    BY <1>8, Zenon DEF SendPart, Write
  <2> QED
    BY <2>1, <2>2, Zenon DEF Flags
<1>9. CASE FallQuiet \/ BrokerReceive \/ (\E j \in DOMAIN mq : Expire(j))
           \/ (\E m \in BMsgs : BrokerPublish(m) \/ BrokerRetry(m)) \/ UNCHANGED vars
  <2>1. UNCHANGED <<inflight_qos2, reconnecting, garbled>>
    BY <1>9 DEF FallQuiet, BrokerReceive, Expire, BrokerPublish, BrokerRetry, vars, syncVars, netVars
  <2>2. quiet' = quiet \/ quiet' = TRUE
    BY <1>9 DEF FallQuiet, BrokerReceive, Expire, BrokerPublish, BrokerRetry, vars
  <2> QED
    BY <2>1, <2>2, Zenon DEF Flags
<1> QED
  BY <1>1, <1>2, <1>3, <1>4, <1>5, <1>6, <1>7, <1>8, <1>9, Steps DEF SendStep
-----------------------------------------------------------------------------
(* Types: what is on the wire, the broker's view, the history.              *)

\* What arrives is a packet, and a PUBLISH carries a message of the broker.
Arrivals == {p \in Packets : p.type = "PUBLISH" => p.msg \in BMsgs}

Frames == [pkt : Packets, off : 1 .. ChunkLen - 1]

Wire ==
  /\ toBroker \in Seq(Packets) /\ toClient \in Seq(Arrivals)
  /\ frame = NULL \/ frame \in Frames

Broker ==
  /\ conn \in {"new", "up", "subscribed", "closed"}
  /\ bst \in [BMsgs -> {"unsent", "sent", "released", "done"}]
  /\ bpid \in [BMsgs -> BPids \cup {NULL}]

History == delivered \in [BMsgs -> 0 .. 2] /\ dropped \subseteq BMsgs

\* A packet without a message.
LEMMA PktType ==
  ASSUME NEW type \in Types, NEW pid \in Ids
  PROVE  /\ Pkt(type, pid) \in Packets
         /\ type # "PUBLISH" => Pkt(type, pid) \in Arrivals
<1>1. Pkt(type, pid) \in Packets /\ Pkt(type, pid).type = type
  BY DEF Pkt, Packets
<1> QED
  BY <1>1 DEF Arrivals

\* The bytes of a queued message are a packet.
LEMMA BytesType ==
  ASSUME NEW m \in QMsgs
  PROVE  Bytes(m) \in Packets
<1>1. m.type \in Types /\ m.pid \in Ids /\ m.qos \in 0 .. 2
  BY DEF QMsgs
<1> QED
  BY <1>1 DEF Bytes, Pkt, Packets

\* An answer of the broker is none of its messages.
LEMMA RepliesType ==
  ASSUME NEW p \in Packets, NEW r \in Replies(p), NEW b \in BOOLEAN
  PROVE  [r EXCEPT !.ok = b] \in Arrivals
<1>1. p.pid \in Ids /\ NULL \in Ids
  BY DEF Packets, Ids
<1>2. \E type \in Answers \cup {"PUBACK", "PUBREC", "PUBCOMP", "PUBREL"} :
        r \in {Pkt(type, NULL), Pkt(type, p.pid)}
  BY DEF Replies, Answers
<1>3. PICK type \in Answers \cup {"PUBACK", "PUBREC", "PUBCOMP", "PUBREL"} :
        r \in {Pkt(type, NULL), Pkt(type, p.pid)}
  BY <1>2
<1>4. type \in Types /\ type # "PUBLISH"
  BY <1>3 DEF Types, Answers, Requests, OneWay
<1>5. PICK pid \in Ids : r = Pkt(type, pid)
  BY <1>1, <1>3
<1>6. [r EXCEPT !.ok = b] = [type |-> type, pid |-> pid, qos |-> 0, msg |-> NULL, ok |-> b]
  BY <1>5 DEF Pkt
<1> QED
  BY <1>4, <1>6 DEF Arrivals, Packets

\* A message of the broker, with its packet id.
LEMMA PublishType ==
  ASSUME NEW m \in BMsgs, NEW pid \in BPids \cup {NULL}
  PROVE  Publish(m, pid) \in Arrivals
<1>1. BQos[m] \in 0 .. 2 /\ pid \in Ids /\ "PUBLISH" \in Types
  BY BoundsAssumption DEF Ids, Types, Requests
<1>2. Publish(m, pid) \in Packets
  BY <1>1 DEF Publish, Pkt, Packets
<1>3. Publish(m, pid).msg = m
  BY <1>1 DEF Publish, Pkt
<1> QED
  BY <1>2, <1>3 DEF Arrivals

\* What arrives are packets.
LEMMA ArrivalsArePackets ==
  ASSUME NEW s \in Seq(Arrivals)
  PROVE  s \in Seq(Packets)
<1>1. Arrivals \subseteq Packets
  BY DEF Arrivals
<1> QED
  BY <1>1

\* Writing a part of a packet, or the rest of it.
LEMMA WriteKeeps ==
  ASSUME Wire, NEW m \in QMsgs, NEW off \in 0 .. ChunkLen - 1,
         NEW n \in 0 .. ChunkLen - off, Write(m, off, n)
  PROVE  Wire'
<1>1. ChunkLen \in Nat \ {0}
  BY BoundsAssumption
<1>2. Bytes(m) \in Packets
  BY BytesType
<1>3. toBroker' \in Seq(Packets)
  <2>1. toBroker' = toBroker \/ toBroker' = Append(toBroker, Bytes(m))
    BY DEF Write
  <2> QED
    BY <1>2, <2>1 DEF Wire
<1>4. frame' = NULL \/ frame' \in Frames
  <2>1. CASE n = 0
    BY <2>1 DEF Write, Wire
  <2>2. CASE n # 0 /\ off + n = ChunkLen
    BY <2>2 DEF Write
  <2>3. CASE n # 0 /\ off + n # ChunkLen
    <3>1. frame' = [pkt |-> Bytes(m), off |-> off + n]
      BY <2>3 DEF Write
    <3>2. off + n \in 1 .. ChunkLen - 1
      BY <1>1, <2>3
    <3> QED
      BY <1>2, <3>1, <3>2 DEF Frames
  <2> QED
    BY <2>1, <2>2, <2>3
<1>5. toClient' = toClient
  BY DEF Write
<1> QED
  BY <1>3, <1>4, <1>5 DEF Wire

\* The steps that leave the wire and the broker alone.
LEMMA WireFrame ==
  ASSUME \/ mqtt_connect \/ ApiStep \/ FallQuiet \/ SyncStart \/ ReconnectFails \/ SyncEndLocked
         \/ SendStart \/ SendSkip \/ SendError \/ SendEnd \/ RecvNothing \/ RecvError
         \/ (\E j \in DOMAIN mq : Expire(j)) \/ UNCHANGED vars
  PROVE  UNCHANGED <<toBroker, toClient, frame, conn, bst, bpid, delivered, dropped>>
<1>1. ASSUME mqtt_connect \/ ApiStep
      PROVE  UNCHANGED <<netVars, brkVars, histVars>>
  <2>1. ASSUME NEW qos \in 0 .. 2, mqtt_publish(qos)
        PROVE  UNCHANGED <<netVars, brkVars, histVars>>
    BY <2>1 DEF mqtt_publish
  <2>2. CASE mqtt_connect \/ mqtt_subscribe \/ mqtt_ping \/ mqtt_disconnect
    BY <2>2 DEF mqtt_connect, mqtt_subscribe, mqtt_ping, mqtt_disconnect
  <2>3. CASE UnsubscribePid \/ mqtt_unsubscribe \/ ReconnectDisconnects \/ mqtt_reconnect
    BY <2>3 DEF UnsubscribePid, mqtt_unsubscribe, ReconnectDisconnects, mqtt_reconnect
  <2> QED
    BY <1>1, <2>1, <2>2, <2>3 DEF ApiStep
<1>2. ASSUME FallQuiet \/ SyncStart \/ ReconnectFails \/ SyncEndLocked
      PROVE  UNCHANGED <<netVars, brkVars, histVars>>
  BY <1>2 DEF FallQuiet, SyncStart, ReconnectFails, SyncEndLocked
<1>3. ASSUME SendStart \/ SendSkip \/ SendError \/ SendEnd \/ RecvNothing \/ RecvError
      PROVE  UNCHANGED <<netVars, brkVars, histVars>>
  <2>1. CASE SendStart \/ SendSkip \/ SendError \/ SendEnd
    BY <2>1 DEF SendStart, SendSkip, SendError, SendEnd
  <2>2. CASE RecvNothing
    BY <2>2 DEF RecvNothing
  <2>3. CASE RecvError
    BY <2>3 DEF RecvError
  <2> QED
    BY <1>3, <2>1, <2>2, <2>3
<1>4. ASSUME (\E j \in DOMAIN mq : Expire(j)) \/ UNCHANGED vars
      PROVE  UNCHANGED <<netVars, brkVars, histVars>>
  BY <1>4 DEF Expire, vars
<1> QED
  BY <1>1, <1>2, <1>3, <1>4 DEF netVars, brkVars, histVars

\* Receiving takes the oldest packet.
LEMMA ReceivingFrame ==
  ASSUME Wire, NEW type, Received(type)
  PROVE  /\ Wire' /\ UNCHANGED <<conn, bst, bpid>>
         /\ Head(toClient) \in Arrivals /\ Head(toClient).type = type
<1>1. toClient \in Seq(Arrivals) /\ toClient # <<>>
  BY DEF Wire, Received
<1>2. Tail(toClient) \in Seq(Arrivals) /\ Head(toClient) \in Arrivals
  BY <1>1, HeadTailProperties
<1>3. /\ toClient' = Tail(toClient) /\ UNCHANGED <<toBroker, frame, conn, bst, bpid>>
      /\ Head(toClient).type = type
  BY DEF Received, brkVars
<1> QED
  BY <1>2, <1>3 DEF Wire

\* The history of a delivered message: once, or more often.
LEMMA DeliverKeeps ==
  ASSUME History, NEW m, Deliver(m)
  PROVE  delivered' \in [BMsgs -> 0 .. 2]
<1>1. ASSUME NEW x \in 0 .. 2
      PROVE  Min({2, x + 1}) \in 0 .. 2
  <2>1. {2, x + 1} \in SUBSET Nat /\ {2, x + 1} # {}
    OBVIOUS
  <2>2. PICK y : y = Min({2, x + 1})
    OBVIOUS
  <2>3. y \in {2, x + 1} /\ y <= 2
    BY <2>1, <2>2, MinWorks
  <2> QED
    BY <2>2, <2>3
<1>2. CASE m \in BMsgs
  <2>1. PICK y \in 0 .. 2 : y = Min({2, delivered[m] + 1})
    BY <1>1, <1>2 DEF History
  <2>2. delivered' = [delivered EXCEPT ![m] = y]
    BY <2>1 DEF Deliver
  <2> QED
    BY <2>2 DEF History
<1>3. CASE m \notin BMsgs
  <2>1. delivered' = delivered
    BY <1>3 DEF Deliver, History
  <2> QED
    BY <2>1 DEF History
<1> QED
  BY <1>2, <1>3

\* What is received leaves the types.
LEMMA RecvWire ==
  ASSUME Wire, Broker, History, RecvStep
  PROVE  Wire' /\ Broker' /\ History'
<1>1. ASSUME NEW t, RecvAck(t)
      PROVE  Wire' /\ Broker' /\ History'
  <2>1. Received(t) /\ UNCHANGED <<delivered, dropped>>
    BY <1>1 DEF RecvAck, UnknownAck, histVars
  <2> QED
    BY <2>1, ReceivingFrame DEF Broker, History
<1>2. ASSUME NEW t, NEW req, NEW next, RecvStage(t, req, next)
      PROVE  Wire' /\ Broker' /\ History'
  <2>1. Received(t) /\ UNCHANGED <<delivered, dropped>>
    BY <1>2 DEF RecvStage, UnknownAck, histVars
  <2> QED
    BY <2>1, ReceivingFrame DEF Broker, History
<1>3. ASSUME RecvPublish
      PROVE  Wire' /\ Broker' /\ History'
  <2> DEFINE p == Head(toClient)
  <2>1. Received("PUBLISH")
    BY <1>3 DEF RecvPublish
  <2>2. Wire' /\ Broker' /\ p \in Arrivals /\ p.type = "PUBLISH"
    BY <2>1, ReceivingFrame DEF Broker
  <2>3. p.msg \in BMsgs
    BY <2>2 DEF Arrivals
  <2>4. /\ delivered' = delivered \/ Deliver(p.msg)
        /\ dropped' = dropped \/ dropped' = dropped \cup {p.msg}
    BY <1>3 DEF RecvPublish
  <2> HIDE DEF p
  <2>5. delivered' \in [BMsgs -> 0 .. 2]
    BY <2>4, DeliverKeeps DEF History
  <2>6. dropped' \subseteq BMsgs
    BY <2>3, <2>4 DEF History
  <2> QED
    BY <2>2, <2>5, <2>6 DEF History
<1>4. ASSUME RecvNothing \/ RecvError
      PROVE  Wire' /\ Broker' /\ History'
  BY <1>4, WireFrame DEF Wire, Broker, History
<1> QED
  BY <1>1, <1>2, <1>3, <1>4 DEF RecvStep

\* What is sent leaves the types.
LEMMA SendWire ==
  ASSUME QueueOK, Control, Wire, Broker, History, SendStep
  PROVE  Wire' /\ Broker' /\ History'
<1>1. ChunkLen \in Nat \ {0}
  BY BoundsAssumption
<1>2. Offset(mq[i]) \in 0 .. ChunkLen - 1
  BY OffsetType DEF Control
<1>3. ASSUME Sending
      PROVE  mq[i] \in QMsgs
  <2>1. i \in 1 .. Len(mq) /\ mq \in Seq(QMsgs)
    BY <1>3 DEF Sending, Control, QueueOK, Queues
  <2> QED
    BY <2>1
<1>4. ASSUME SendWhole
      PROVE  Wire' /\ Broker' /\ History'
  <2>1. Write(mq[i], Offset(mq[i]), ChunkLen - Offset(mq[i])) /\ mq[i] \in QMsgs
    BY <1>3, <1>4 DEF SendWhole
  <2>2. ChunkLen - Offset(mq[i]) \in 0 .. ChunkLen - Offset(mq[i])
    BY <1>1, <1>2
  <2>3. Wire'
    BY <1>2, <2>1, <2>2, WriteKeeps
  <2>4. UNCHANGED <<conn, bst, bpid, delivered, dropped>>
    BY <1>4 DEF SendWhole, brkVars, histVars
  <2> QED
    BY <2>3, <2>4 DEF Broker, History
<1>5. ASSUME NEW n \in 0 .. ChunkLen - 1, SendPart(n)
      PROVE  Wire' /\ Broker' /\ History'
  <2>1. /\ Write(mq[i], Offset(mq[i]), n) /\ mq[i] \in QMsgs
        /\ n < ChunkLen - Offset(mq[i])
    BY <1>3, <1>5 DEF SendPart
  <2>2. n \in 0 .. ChunkLen - Offset(mq[i])
    BY <1>1, <1>2, <2>1
  <2>3. Wire'
    BY <1>2, <2>1, <2>2, WriteKeeps
  <2>4. UNCHANGED <<conn, bst, bpid, delivered, dropped>>
    BY <1>5 DEF SendPart, brkVars, histVars
  <2> QED
    BY <2>3, <2>4 DEF Broker, History
<1>6. ASSUME SendStart \/ SendSkip \/ SendError \/ SendEnd
      PROVE  Wire' /\ Broker' /\ History'
  BY <1>6, WireFrame DEF Wire, Broker, History
<1> QED
  BY <1>4, <1>5, <1>6 DEF SendStep

\* The broker's steps leave the types.
LEMMA BrokerWire ==
  ASSUME Wire, Broker, History,
         BrokerReceive \/ \E m \in BMsgs : BrokerPublish(m) \/ BrokerRetry(m)
  PROVE  Wire' /\ Broker' /\ History'
<1>1. ASSUME NEW r \in Arrivals
      PROVE  Append(toClient, r) \in Seq(Arrivals)
  BY <1>1 DEF Wire
<1>2. ASSUME BrokerReceive
      PROVE  Wire' /\ Broker' /\ History'
  <2> DEFINE p == Head(toBroker)
  <2>1. p \in Packets /\ Tail(toBroker) \in Seq(Packets)
    BY <1>2, HeadTailProperties DEF BrokerReceive, Wire
  <2>2. /\ toBroker' = Tail(toBroker) /\ conn' \in {"closed", "up", "subscribed", conn}
        /\ bst' = Progress(p) /\ UNCHANGED <<frame, bpid, delivered, dropped>>
    BY <1>2 DEF BrokerReceive, histVars
  <2>3. toClient' \in Seq(Arrivals)
    <3>1. \/ toClient' = toClient
          \/ \E r \in Replies(p), ok \in {TRUE, "fail" \notin Features} :
               toClient' = Append(toClient, [r EXCEPT !.ok =
                             ok \/ r.type \notin {"CONNACK", "SUBACK"}])
      BY <1>2, Zenon DEF BrokerReceive
    <3> HIDE DEF p
    <3>2. ASSUME NEW r \in Replies(p), NEW ok,
                 toClient' = Append(toClient, [r EXCEPT !.ok =
                               ok \/ r.type \notin {"CONNACK", "SUBACK"}])
          PROVE  toClient' \in Seq(Arrivals)
      <4>1. PICK b \in BOOLEAN : b = (ok \/ r.type \notin {"CONNACK", "SUBACK"})
        BY Zenon
      <4>2. toClient' = Append(toClient, [r EXCEPT !.ok = b])
        BY <3>2, <4>1, Zenon
      <4>3. [r EXCEPT !.ok = b] \in Arrivals
        BY <2>1, RepliesType
      <4> QED
        BY <1>1, <4>2, <4>3
    <3> QED
      BY <3>1, <3>2, Zenon DEF Wire
  <2>4. bst' \in [BMsgs -> {"unsent", "sent", "released", "done"}]
    BY <2>2 DEF Progress, Broker
  <2> QED
    BY <2>1, <2>2, <2>3, <2>4 DEF Wire, Broker, History
<1>3. ASSUME NEW m \in BMsgs, BrokerPublish(m)
      PROVE  Wire' /\ Broker' /\ History'
  <2>1. UNCHANGED <<toBroker, frame, conn, delivered, dropped>>
    BY <1>3 DEF BrokerPublish, histVars
  <2>2. \E p \in BPids \cup {NULL} :
          /\ toClient' = Append(toClient, Publish(m, p))
          /\ bst' \in {[bst EXCEPT ![m] = "done"], [bst EXCEPT ![m] = "sent"]}
          /\ bpid' = bpid \/ bpid' = [bpid EXCEPT ![m] = p]
    BY <1>3 DEF BrokerPublish
  <2>3. PICK p \in BPids \cup {NULL} :
          /\ toClient' = Append(toClient, Publish(m, p))
          /\ bst' \in {[bst EXCEPT ![m] = "done"], [bst EXCEPT ![m] = "sent"]}
          /\ bpid' = bpid \/ bpid' = [bpid EXCEPT ![m] = p]
    BY <2>2
  <2>4. Publish(m, p) \in Arrivals
    BY PublishType
  <2>5. toClient' \in Seq(Arrivals)
    BY <1>1, <2>3, <2>4
  <2>6. /\ bst' \in [BMsgs -> {"unsent", "sent", "released", "done"}]
        /\ bpid' \in [BMsgs -> BPids \cup {NULL}]
    BY <2>3 DEF Broker
  <2> QED
    BY <2>1, <2>5, <2>6 DEF Wire, Broker, History
<1>4. ASSUME NEW m \in BMsgs, BrokerRetry(m)
      PROVE  Wire' /\ Broker' /\ History'
  <2>1. UNCHANGED <<toBroker, frame, conn, bst, bpid, delivered, dropped>>
    BY <1>4 DEF BrokerRetry, brkVars, histVars
  <2>2. bpid[m] \in BPids \cup {NULL} /\ bpid[m] \in Ids
    BY DEF Broker, Ids
  <2>3. Publish(m, bpid[m]) \in Arrivals
    BY <2>2, PublishType
  <2>4. Pkt("PUBREL", bpid[m]) \in Arrivals
    <3>1. "PUBREL" \in Types /\ "PUBREL" # "PUBLISH"
      BY DEF Types, Requests
    <3> QED
      BY <2>2, <3>1, PktType
  <2>5. \/ toClient' = Append(toClient, Publish(m, bpid[m]))
        \/ toClient' = Append(toClient, Pkt("PUBREL", bpid[m]))
    BY <1>4 DEF BrokerRetry
  <2>6. toClient' \in Seq(Arrivals)
    BY <1>1, <2>3, <2>4, <2>5
  <2> QED
    BY <2>1, <2>6 DEF Wire, Broker, History
<1> QED
  BY <1>2, <1>3, <1>4

\* mqtt_reinit empties the wire.
LEMMA ReinitWire ==
  ASSUME Broker, mqtt_reinit
  PROVE  Wire' /\ Broker'
<1>1. toBroker' = <<>> /\ toClient' = <<>> /\ frame' = NULL
  BY DEF mqtt_reinit
<1>2. <<>> \in Seq(Packets) /\ <<>> \in Seq(Arrivals)
  OBVIOUS
<1>3. Wire'
  BY <1>1, <1>2 DEF Wire
<1>4. Broker'
  BY DEF mqtt_reinit, Broker
<1> QED
  BY <1>3, <1>4

\* Every step keeps the types of the wire, the broker and the history.
LEMMA WireStep ==
  ASSUME QueueOK, Control, Wire, Broker, History, [Next]_vars
  PROVE  Wire' /\ Broker' /\ History'
<1>1. ASSUME SyncReconnects \/ SyncEnd
      PROVE  Wire' /\ Broker' /\ History'
  <2>1. UNCHANGED <<delivered, dropped>>
    BY <1>1 DEF SyncReconnects, SyncEnd, histVars
  <2>2. mqtt_reinit \/ UNCHANGED <<netVars, brkVars>>
    BY <1>1 DEF SyncReconnects, SyncEnd
  <2>3. CASE mqtt_reinit
    BY <2>1, <2>3, ReinitWire DEF History
  <2>4. CASE UNCHANGED <<netVars, brkVars>>
    BY <2>1, <2>4 DEF netVars, brkVars, Wire, Broker, History
  <2> QED
    BY <2>2, <2>3, <2>4
<1>2. ASSUME UNCHANGED <<toBroker, toClient, frame, conn, bst, bpid, delivered, dropped>>
      PROVE  Wire' /\ Broker' /\ History'
  BY <1>2 DEF Wire, Broker, History
<1> QED
  BY <1>1, <1>2, WireFrame, RecvWire, SendWire, BrokerWire, Steps
-----------------------------------------------------------------------------
(* The theorems.                                                            *)

\* The inductive invariant.
IInv == QueueOK /\ Seen /\ Control /\ Flags /\ Wire /\ Broker /\ History

\* It holds at the start.
LEMMA InitInv == Init => IInv
<1> SUFFICES ASSUME Init
             PROVE  IInv
  OBVIOUS
<1>1. QueueCap \in Nat \ {0} /\ ChunkLen \in Nat \ {0} /\ MaxCalls \in Nat
  BY BoundsAssumption
<1>2. <<>> \in Seq(QMsgs) /\ Len(<<>>) = 0 /\ <<>> \in Seq(Packets) /\ <<>> \in Seq(Arrivals)
  OBVIOUS
<1>3. QueueOK
  <2>1. mq = <<>> /\ error \in Errors
    BY DEF Init, Errors
  <2>2. <<>> \in Queues
    BY <1>2 DEF Queues, OneOpen
  <2> QED
    BY <1>1, <1>2, <2>1, <2>2 DEF QueueOK
<1>4. Seen /\ Control
  BY <1>1 DEF Init, Seen, Control, Syncs
<1>5. Flags
  <2>1. inflight_qos2 = FALSE /\ reconnecting = FALSE /\ garbled = FALSE
    BY DEF Init
  <2>2. quiet \in BOOLEAN
    BY Zenon DEF Init
  <2> QED
    BY <2>1, <2>2, Zenon DEF Flags
<1>6. Wire /\ Broker /\ History
  BY <1>2 DEF Init, Wire, Broker, History
<1> QED
  BY <1>3, <1>4, <1>5, <1>6 DEF IInv

\* Every step keeps it.
LEMMA StepInv == IInv /\ [Next]_vars => IInv'
<1> SUFFICES ASSUME IInv, [Next]_vars
             PROVE  IInv'
  OBVIOUS
<1>1. QueueOK /\ Seen /\ Control /\ Flags /\ Wire /\ Broker /\ History
  BY DEF IInv
<1>2. Types1 /\ i \in Nat \ {0} /\ error \in Errors
  BY <1>1, ArrivalsArePackets DEF Types1, Wire, Control, QueueOK
<1>3. QueueOK'
  BY <1>1, <1>2, QueueStep, ErrorStep DEF QueueOK
<1>4. Seen'
  BY <1>1, <1>2, SeenStep
<1>5. Control' /\ Flags'
  BY <1>1, ControlStep, FlagsStep
<1>6. Wire' /\ Broker' /\ History'
  BY <1>1, WireStep
<1> QED
  BY <1>3, <1>4, <1>5, <1>6 DEF IInv

\* Every variable of the client, of the connection and of the broker's view
\* keeps its type: the queue its capacity, send_offset a place inside a packet,
\* the loop index one place behind the queue at most, and the duplicates are
\* messages of the broker.
THEOREM TypeCorrect == Spec => []TypeOK
<1>1. IInv => TypeOK
  <2> SUFFICES ASSUME IInv
               PROVE  TypeOK
    OBVIOUS
  <2>1. QueueOK /\ Control /\ Flags /\ Wire /\ Broker /\ History
    BY DEF IInv
  <2>2. mq \in Seq(QMsgs) /\ toClient \in Seq(Packets)
    BY <2>1, ArrivalsArePackets DEF QueueOK, Queues, Wire
  <2>3. /\ inflight_qos2 \in BOOLEAN /\ reconnecting \in BOOLEAN
        /\ quiet \in BOOLEAN /\ garbled \in BOOLEAN
    BY <2>1, Zenon DEF Flags
  <2>4. frame = NULL \/ frame \in [pkt : Packets, off : 1 .. ChunkLen - 1]
    BY <2>1 DEF Wire, Frames
  <2> QED
    BY <2>1, <2>2, <2>3, <2>4, Zenon DEF QueueOK, Control, Syncs, Wire, Broker, History, TypeOK
<1> QED
  BY <1>1, InitInv, StepInv, PTL DEF Spec

\* __mqtt_send: at most one QoS 2 PUBLISH is between its PUBLISH and its PUBREC,
\* and those queued behind it are unsent, whatever is queued, answered late,
\* repeated, sent in part or lost with the connection.
THEOREM OneQos2Safe == Spec => []OneQos2InFlight
<1>1. IInv => OneQos2InFlight
  BY DEF IInv, QueueOK, Queues, OneOpen, OneQos2InFlight
<1> QED
  BY <1>1, InitInv, StepInv, PTL DEF Spec
=============================================================================
