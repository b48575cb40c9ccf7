----------------------------- MODULE MqttClient -----------------------------
(***************************************************************************)
(* The MQTT-C client (src/src/mqtt-c/src/mqtt.c): the send queue, the API  *)
(* calls that fill it, and mqtt_sync, which a dedicated thread calls again *)
(* and again: first __mqtt_recv, then __mqtt_send, each under the mutex.   *)
(* The socket is non-blocking and may accept only a part of a packet; the  *)
(* bytes of a packet are Len chunks.  The broker is external.              *)
(*                                                                         *)
(* Time is abstracted to its two tests: a message that awaits its answer   *)
(* may become "late" (response_timeout), and the line may become "quiet"   *)
(* (keep_alive).  The queue's byte layout is the module MqttQueue's; here  *)
(* its capacity is a number of messages.                                   *)
(***************************************************************************)
EXTENDS Naturals, Sequences, FiniteSets, FiniteSetsExt

CONSTANTS
  Api,       \* API calls that the application makes
  MaxCalls,  \* bound on their number
  Pids,      \* packet ids of the client (1 .. 65535 in the code)
  QueueCap,  \* messages that fit into sendbuf
  ChunkLen,  \* chunks of a packet
  SockCap,   \* packets that fit into each direction of the connection
  BMsgs,     \* messages the broker publishes to this client
  BQos,      \* their QoS levels
  BPids,     \* packet ids of the broker
  Features,  \* subset of AllFeatures
  NULL

\* partial: the socket may take a part of a packet; timeout: answers may be
\* late; keepalive: the line may fall quiet; retry: the broker may repeat an
\* unacknowledged packet; reuse: it may use a packet id again once the exchange
\* is over; fail: sockets fail, requests are refused; reconnect: the client was
\* made by mqtt_init_reconnect; unreachable: a reconnect that mqtt_reconnect asked
\* for may find no broker.
AllFeatures ==
  {"partial", "timeout", "keepalive", "retry", "reuse", "fail", "reconnect",
   "unreachable"}

ASSUME FeatureAssumption == Features \subseteq AllFeatures
ASSUME BoundsAssumption ==
  /\ QueueCap \in Nat \ {0} /\ ChunkLen \in Nat \ {0} /\ SockCap \in Nat \ {0}
  /\ "reconnect" \in Features => QueueCap >= 2   \* mqtt_reinit's queue is filled
  /\ MaxCalls \in Nat /\ BQos \in [BMsgs -> 0 .. 2]
ASSUME IdAssumption ==
  NULL \notin Pids /\ NULL \notin BPids /\ NULL \notin BMsgs

VARIABLES
  mq,           \* queued messages, oldest first
  send_offset,  \* client->send_offset
  error,        \* client->error
  sync,         \* where mqtt_sync is
  i,            \* loop index of __mqtt_send
  inflight_qos2,\* its local of that name
  reconnecting, \* mqtt_sync's local of that name
  quiet,        \* now > time_of_last_send + keep_alive
  user,         \* where a second API thread is: "idle", "unsub" or "recon"
  upid,         \* its packet id
  calls,        \* API calls made
  toBroker, toClient,  \* packets in the two directions of the connection
  conn,         \* the broker's view: "new", "up", "subscribed", "closed"
  bst, bpid,    \* state and packet id of the broker's own messages
  frame,        \* history: the packet that is incomplete on the wire, or NULL
  garbled,      \* history: bytes were written that do not continue the frame
  delivered,    \* history: how often publish_response_callback saw a message
  dropped       \* history: messages that were taken for duplicates

cliVars  == <<mq, send_offset, error>>
syncVars == <<sync, i, inflight_qos2, reconnecting>>
userVars == <<user, upid, calls>>
netVars  == <<toBroker, toClient, frame, garbled>>
brkVars  == <<conn, bst, bpid>>
histVars == <<delivered, dropped>>
vars == <<cliVars, syncVars, quiet, userVars, netVars, brkVars, histVars>>

-----------------------------------------------------------------------------
(* Packets and queued messages.                                            *)

Requests == {"CONNECT", "SUBSCRIBE", "UNSUBSCRIBE", "PINGREQ", "PUBLISH",
             "PUBREC", "PUBREL"}
OneWay   == {"PUBACK", "PUBCOMP", "DISCONNECT"}
Answers  == {"CONNACK", "SUBACK", "UNSUBACK", "PINGRESP"}
Types    == Requests \cup OneWay \cup Answers
Errors   == {"OK", "CONNECT_NOT_CALLED", "INITIAL_RECONNECT", "RECONNECTING",
             "RECONNECT_FAILED", "SEND_BUFFER_IS_FULL", "ACK_OF_UNKNOWN",
             "SOCKET_ERROR", "REFUSED"}
Ids      == Pids \cup BPids \cup {NULL}

Packets == [type : Types, pid : Ids, qos : 0 .. 2,
            msg : BMsgs \cup {NULL}, ok : BOOLEAN]

\* What marks the absence of a frame is not one.
ASSUME FrameAssumption == NULL \notin [pkt : Packets, off : 1 .. ChunkLen - 1]

\* A packet without a message of the application.
Pkt(type, pid) ==
  [type |-> type, pid |-> pid, qos |-> 0, msg |-> NULL, ok |-> TRUE]

\* struct mqtt_queued_message; late is the test against time_sent.
QMsgs == [type : Types, pid : Ids, qos : 0 .. 2,
          state : {"UNSENT", "AWAITING_ACK", "COMPLETE"}, late : BOOLEAN]

QMsg(type, pid, qos) == [type |-> type, pid |-> pid, qos |-> qos,
                         state |-> "UNSENT", late |-> FALSE]

\* The bytes of a queued message.
Bytes(m) == [Pkt(m.type, m.pid) EXCEPT !.qos = m.qos]

TypeOK ==
  /\ mq \in Seq(QMsgs) /\ Len(mq) <= QueueCap
  /\ send_offset \in 0 .. ChunkLen - 1 /\ error \in Errors
  /\ sync \in {"off", "idle", "begun", "recv", "mid", "send", "after", "locked"}
  /\ i \in 1 .. QueueCap + 1 /\ inflight_qos2 \in BOOLEAN
  /\ reconnecting \in BOOLEAN /\ quiet \in BOOLEAN
  /\ user \in {"idle", "unsub", "recon"} /\ upid \in Pids \cup {NULL}
  /\ calls \in 0 .. MaxCalls
  /\ toBroker \in Seq(Packets) /\ toClient \in Seq(Packets)
  /\ conn \in {"new", "up", "subscribed", "closed"}
  /\ bst \in [BMsgs -> {"unsent", "sent", "released", "done"}]
  /\ bpid \in [BMsgs -> BPids \cup {NULL}]
  /\ frame = NULL \/ frame \in [pkt : Packets, off : 1 .. ChunkLen - 1]
  /\ garbled \in BOOLEAN
  /\ delivered \in [BMsgs -> 0 .. 2] /\ dropped \subseteq BMsgs

-----------------------------------------------------------------------------
(* The queue.                                                              *)
\* Mistake: messages are removed as soon as they are sent.
mqtt_mq_clean_Sent(q) ==
  LET open == {j \in DOMAIN q : q[j].state = "UNSENT"}
  IN  IF open = {} THEN <<>> ELSE SubSeq(q, Min(open), Len(q))

\* mqtt_mq_clean: remove the completed messages at the head.
mqtt_mq_clean(q) ==
  LET open == {j \in DOMAIN q : q[j].state # "COMPLETE"}
  IN  IF open = {} THEN <<>> ELSE SubSeq(q, Min(open), Len(q))

\* mqtt_mq_find: by packet id, completed messages included; without a packet
\* id, the first message that is not complete.
Matches(q, type, pid) ==
  {j \in DOMAIN q : /\ q[j].type = type
                    /\ IF pid = NULL THEN q[j].state # "COMPLETE"
                                     ELSE q[j].pid = pid}
\* Mistake: the newest match is released.
Release_Newest(q, type, pid) ==
  [q EXCEPT ![Max(Matches(q, type, pid))].state = "COMPLETE"]

\* msg->state = MQTT_QUEUED_COMPLETE for the message that mqtt_mq_find finds.
Release(q, type, pid) ==
  [q EXCEPT ![Min(Matches(q, type, pid))].state = "COMPLETE"]

\* The queue MQTT_CLIENT_TRY_PACK packs into: cleaned only when it is full.
Room(q) == IF Len(q) < QueueCap THEN q ELSE mqtt_mq_clean(q)

\* MQTT_CLIENT_TRY_PACK succeeds for a client in state err with queue q.
PackOk(q, err) == err = "OK" /\ Len(Room(q)) < QueueCap

\* MQTT_CLIENT_TRY_PACK and mqtt_mq_register: what becomes of queue and error.
TryPack(q, err, m) ==
  /\ mq' = IF err # "OK" THEN q
           ELSE IF PackOk(q, err) THEN Append(Room(q), m) ELSE Room(q)
  /\ error' = IF err # "OK" \/ PackOk(q, err) THEN err
              ELSE "SEND_BUFFER_IS_FULL"
\* Mistake: no check that the id is unique.
FreePids_Any == Pids

\* __mqtt_next_pid: ids the LFSR can stop at.
FreePids == {p \in Pids : \A j \in DOMAIN mq : mq[j].pid # p}

-----------------------------------------------------------------------------
(* mqtt_init (then mqtt_connect is the next call), or mqtt_init_reconnect  *)
(* (then mqtt_sync has the callback connect).  time_of_last_send is not    *)
(* initialised.                                                            *)
Init ==
  /\ mq = <<>> /\ send_offset = 0
  /\ IF "reconnect" \in Features
     THEN error = "INITIAL_RECONNECT" /\ sync = "idle"
     ELSE error = "CONNECT_NOT_CALLED" /\ sync = "off"
  /\ i = 1 /\ inflight_qos2 = FALSE /\ reconnecting = FALSE
  /\ quiet \in BOOLEAN
  /\ user = "idle" /\ upid = NULL /\ calls = 0
  /\ toBroker = <<>> /\ toClient = <<>> /\ conn = "new"
  /\ bst = [m \in BMsgs |-> "unsent"] /\ bpid = [m \in BMsgs |-> NULL]
  /\ frame = NULL /\ garbled = FALSE
  /\ delivered = [m \in BMsgs |-> 0] /\ dropped = {}

-----------------------------------------------------------------------------
(* API calls.  They run under the mutex, which mqtt_sync holds in its      *)
(* receive and send loops.                                                 *)

Unlocked == sync \in {"idle", "begun", "mid", "after"}

PublishCall == [qos \in 0 .. 2 |-> <<"publish0", "publish1", "publish2">>[qos + 1]]

Call(c) == c \in Api /\ calls < MaxCalls /\ calls' = calls + 1

mqtt_connect ==
  /\ sync = "off" /\ sync' = "idle"
  /\ TryPack(mq, "OK", QMsg("CONNECT", NULL, 0))
  /\ UNCHANGED <<send_offset, i, inflight_qos2, reconnecting, quiet, userVars,
                 netVars, brkVars, histVars>>

mqtt_publish(qos) ==
  /\ Unlocked /\ Call(PublishCall[qos])
  /\ \E p \in FreePids : TryPack(mq, error, QMsg("PUBLISH", p, qos))
  /\ UNCHANGED <<send_offset, syncVars, quiet, user, upid,
                 netVars, brkVars, histVars>>

mqtt_subscribe ==
  /\ Unlocked /\ Call("subscribe")
  /\ \E p \in FreePids : TryPack(mq, error, QMsg("SUBSCRIBE", p, 0))
  /\ UNCHANGED <<send_offset, syncVars, quiet, user, upid,
                 netVars, brkVars, histVars>>

mqtt_ping ==
  /\ Unlocked /\ Call("ping")
  /\ TryPack(mq, error, QMsg("PINGREQ", NULL, 0))
  /\ UNCHANGED <<send_offset, syncVars, quiet, user, upid,
                 netVars, brkVars, histVars>>

mqtt_disconnect ==
  /\ Unlocked /\ Call("disconnect")
  /\ TryPack(mq, error, QMsg("DISCONNECT", NULL, 0))
  /\ UNCHANGED <<send_offset, syncVars, quiet, user, upid,
                 netVars, brkVars, histVars>>

\* mqtt_unsubscribe chooses its packet id before it takes the mutex ...
UnsubscribePid ==
  /\ user = "idle" /\ sync # "off" /\ Call("unsubscribe")
  /\ user' = "unsub" /\ upid' \in FreePids
  /\ UNCHANGED <<cliVars, syncVars, quiet, netVars, brkVars, histVars>>

\* ... and packs the message under it.
mqtt_unsubscribe ==
  /\ Unlocked /\ user = "unsub"
  /\ TryPack(mq, error, QMsg("UNSUBSCRIBE", upid, 0))
  /\ user' = "idle" /\ upid' = NULL
  /\ UNCHANGED <<send_offset, syncVars, quiet, calls,
                 netVars, brkVars, histVars>>

\* mqtt_reconnect: mqtt_disconnect, and if that is queued, a second critical
\* section that sets the error.
ReconnectDisconnects ==
  /\ Unlocked /\ user = "idle" /\ Call("reconnect")
  /\ TryPack(mq, error, QMsg("DISCONNECT", NULL, 0))
  /\ user' = IF PackOk(mq, error) THEN "recon" ELSE "idle"
  /\ UNCHANGED <<send_offset, syncVars, quiet, upid,
                 netVars, brkVars, histVars>>

mqtt_reconnect ==
  /\ Unlocked /\ user = "recon"
  /\ error' = "RECONNECTING" /\ user' = "idle"
  /\ UNCHANGED <<mq, send_offset, syncVars, quiet, upid, calls,
                 netVars, brkVars, histVars>>

ApiStep ==
  \/ \E qos \in 0 .. 2 : mqtt_publish(qos)
  \/ mqtt_subscribe \/ mqtt_ping \/ mqtt_disconnect
  \/ UnsubscribePid \/ mqtt_unsubscribe
  \/ ReconnectDisconnects \/ mqtt_reconnect

-----------------------------------------------------------------------------
(* mqtt_sync.                                                              *)

\* The application's reconnect_callback, as mqtt.h describes it (external): a
\* new socket, mqtt_reinit, mqtt_connect, mqtt_subscribe.  mqtt_reinit starts
\* with an empty queue and leaves send_offset as it is.
mqtt_reinit ==
  /\ \E p \in Pids : mq' = <<QMsg("CONNECT", NULL, 0), QMsg("SUBSCRIBE", p, 0)>>
  /\ error' = "OK"
  /\ toBroker' = <<>> /\ toClient' = <<>> /\ frame' = NULL /\ conn' = "new"
  /\ bst' = [m \in BMsgs |-> IF bst[m] = "unsent" THEN "unsent" ELSE "done"]
  /\ UNCHANGED <<send_offset, garbled, bpid>>
\* Mistake: the callback is only used for the first connection.
NeedsReconnect_Once == error = "INITIAL_RECONNECT" /\ "reconnect" \in Features

NeedsReconnect ==
  error \notin {"OK", "RECONNECTING"} /\ "reconnect" \in Features

\* The start of mqtt_sync: without an error, or without a callback.
SyncStart ==
  /\ sync = "idle" /\ ~NeedsReconnect
  /\ sync' = "begun"
  /\ reconnecting' = (error = "RECONNECTING")
  /\ error' = IF error = "RECONNECTING" THEN "OK" ELSE error
  /\ UNCHANGED <<mq, send_offset, i, inflight_qos2, quiet, userVars,
                 netVars, brkVars, histVars>>

\* With an error and a callback: reconnect, then receive and send.
SyncReconnects ==
  /\ sync = "idle" /\ NeedsReconnect
  /\ mqtt_reinit
  /\ sync' = "begun" /\ reconnecting' = FALSE
  /\ UNCHANGED <<i, inflight_qos2, quiet, userVars, histVars>>

\* The callback could not reach the broker.
ReconnectFails ==
  /\ sync = "idle" /\ NeedsReconnect /\ "fail" \in Features
  /\ error' = "RECONNECT_FAILED"
  /\ UNCHANGED <<mq, send_offset, syncVars, quiet, userVars,
                 netVars, brkVars, histVars>>

\* After __mqtt_send, the reconnect that mqtt_reconnect asked for.
SyncEnd ==
  /\ sync = "after" /\ sync' = "idle"
  /\ IF reconnecting /\ "reconnect" \in Features
     THEN mqtt_reinit
     ELSE UNCHANGED <<cliVars, netVars, brkVars>>
  /\ UNCHANGED <<i, inflight_qos2, reconnecting, quiet, userVars, histVars>>

\* There the callback fails, does not come to mqtt_connect, and nobody unlocks
\* the mutex: the next mqtt_sync waits for it for ever.
SyncEndLocked ==
  /\ sync = "after" /\ reconnecting /\ {"reconnect", "unreachable"} \subseteq Features
  /\ sync' = "locked"
  /\ UNCHANGED <<cliVars, i, inflight_qos2, reconnecting, quiet, userVars,
                 netVars, brkVars, histVars>>

-----------------------------------------------------------------------------
(* __mqtt_recv: one action per packet that is taken from the socket.  An   *)
(* error ends the loop and mqtt_sync; the packet is consumed all the same. *)

Receiving == sync \in {"begun", "recv"}

Received(type) ==
  /\ Receiving /\ toClient # <<>> /\ Head(toClient).type = type
  /\ toClient' = Tail(toClient)
  /\ UNCHANGED <<send_offset, i, inflight_qos2, reconnecting, quiet, userVars,
                 toBroker, frame, garbled, brkVars>>

\* MQTT_ERROR_ACK_OF_UNKNOWN.
UnknownAck ==
  /\ error' = "ACK_OF_UNKNOWN" /\ sync' = "idle"
  /\ UNCHANGED <<mq, histVars>>

\* The request that an answer releases, and the id it is found by.
RequestOf(type) ==
  CASE type = "CONNACK"  -> "CONNECT"
    [] type = "SUBACK"   -> "SUBSCRIBE"
    [] type = "UNSUBACK" -> "UNSUBSCRIBE"
    [] type = "PINGRESP" -> "PINGREQ"
    [] type = "PUBACK"   -> "PUBLISH"
    [] type = "PUBCOMP"  -> "PUBREL"

\* CONNACK, SUBACK, UNSUBACK, PINGRESP, PUBACK, PUBCOMP: release the request;
\* a refusal is an error.
RecvAck(type) ==
  LET p == Head(toClient)
      req == RequestOf(type)
  IN  /\ Received(type)
      /\ IF Matches(mq, req, p.pid) = {} THEN UnknownAck
         ELSE /\ mq' = Release(mq, req, p.pid)
              /\ error' = IF p.ok THEN error ELSE "REFUSED"
              /\ sync' = IF p.ok THEN "recv" ELSE "idle"
              /\ UNCHANGED histVars

\* The publish callback runs.
Deliver(m) == delivered' = [delivered EXCEPT ![m] = Min({2, @ + 1})]

\* PUBLISH: stage PUBACK or PUBREC, then the callback; a QoS 2 message whose
\* PUBREC is still queued is a duplicate.
RecvPublish ==
  LET p == Head(toClient)
      reply == QMsg(IF p.qos = 1 THEN "PUBACK" ELSE "PUBREC", p.pid, 0)
      pack == TryPack(mq, error, reply)
  IN  /\ Received("PUBLISH")
      /\ \/ /\ p.qos = 0
            /\ Deliver(p.msg) /\ sync' = "recv"
            /\ UNCHANGED <<mq, error, dropped>>
         \/ /\ p.qos = 2 /\ Matches(mq, "PUBREC", p.pid) # {}
            /\ dropped' = dropped \cup {p.msg} /\ sync' = "recv"
            /\ UNCHANGED <<mq, error, delivered>>
         \/ /\ p.qos # 0 /\ (p.qos = 2 => Matches(mq, "PUBREC", p.pid) = {})
            /\ pack
            /\ IF PackOk(mq, error)
               THEN Deliver(p.msg) /\ sync' = "recv"
               ELSE UNCHANGED delivered /\ sync' = "idle"
            /\ UNCHANGED dropped

\* PUBREC: release the PUBLISH, stage PUBREL; PUBREL: release the PUBREC, stage
\* PUBCOMP.  A PUBREC whose PUBREL is queued is a duplicate.
RecvStage(type, req, next) ==
  LET p == Head(toClient)
  IN  /\ Received(type)
      /\ IF type = "PUBREC" /\ Matches(mq, "PUBREL", p.pid) # {}
         THEN sync' = "recv" /\ UNCHANGED <<mq, error, histVars>>
         ELSE IF Matches(mq, req, p.pid) = {} THEN UnknownAck
         ELSE LET q == Release(mq, req, p.pid)
              IN  /\ TryPack(q, error, QMsg(next, p.pid, 0))
                  /\ sync' = IF PackOk(q, error) THEN "recv" ELSE "idle"
                  /\ UNCHANGED histVars
\* Mistake: return from mqtt_sync when nothing was received.
RecvNothing_Returns ==
  /\ Receiving /\ toClient = <<>> /\ conn # "closed"
  /\ sync' = "idle"
  /\ UNCHANGED <<cliVars, i, inflight_qos2, reconnecting, quiet, userVars,
                 netVars, brkVars, histVars>>

\* Nothing (more) to read: unlock, then __mqtt_send.
RecvNothing ==
  /\ Receiving /\ toClient = <<>> /\ conn # "closed"
  /\ sync' = "mid"
  /\ UNCHANGED <<cliVars, i, inflight_qos2, reconnecting, quiet, userVars,
                 netVars, brkVars, histVars>>

\* The peer closed the connection, the socket failed, or what arrived cannot
\* be unpacked or does not fit into recvbuf.
RecvError ==
  /\ Receiving
  /\ "fail" \in Features \/ (conn = "closed" /\ toClient = <<>>)
  /\ error' = "SOCKET_ERROR" /\ sync' = "idle"
  /\ UNCHANGED <<mq, send_offset, i, inflight_qos2, reconnecting, quiet,
                 userVars, netVars, brkVars, histVars>>

RecvStep ==
  \/ \E t \in Answers \cup {"PUBACK", "PUBCOMP"} : RecvAck(t)
  \/ RecvPublish
  \/ RecvStage("PUBREC", "PUBLISH", "PUBREL")
  \/ RecvStage("PUBREL", "PUBREC", "PUBCOMP")
  \/ RecvNothing \/ RecvError

-----------------------------------------------------------------------------
(* __mqtt_send: one action per queued message.                             *)

\* A full send buffer does not stop the sending; every other error does.
SendStart ==
  /\ sync = "mid"
  /\ IF error \in {"OK", "SEND_BUFFER_IS_FULL"}
     THEN sync' = "send" /\ i' = 1 /\ inflight_qos2' = FALSE
     ELSE sync' = "after" /\ UNCHANGED <<i, inflight_qos2>>
  /\ UNCHANGED <<cliVars, reconnecting, quiet, userVars, netVars, brkVars,
                 histVars>>

Sending == sync = "send" /\ i <= Len(mq)

TimedOut(m) == m.state = "AWAITING_ACK" /\ m.late

OpenQos2(m) == m.type = "PUBLISH" /\ m.qos = 2 /\ m.state # "COMPLETE"
\* Mistake: no QoS 2 rule.
MustSend_AnyQos(m) == m.state = "UNSENT" \/ TimedOut(m)

\* resend, after the QoS 2 rule: not behind another open QoS 2 PUBLISH.
MustSend(m) ==
  /\ m.state = "UNSENT" \/ TimedOut(m)
  /\ ~(OpenQos2(m) /\ inflight_qos2)

\* A timeout starts over at offset 0, whatever was being sent.
Offset(m) == IF TimedOut(m) THEN 0 ELSE send_offset

SendSkip ==
  /\ Sending /\ ~MustSend(mq[i])
  /\ i' = i + 1
  /\ send_offset' = Offset(mq[i])
  /\ inflight_qos2' = (inflight_qos2 \/ OpenQos2(mq[i]))
  /\ UNCHANGED <<mq, error, sync, reconnecting, quiet, userVars, netVars,
                 brkVars, histVars>>

\* State after a complete send; the DUP flag of a QoS 1 PUBLISH is set exactly
\* from then on.
SentState(m) ==
  IF m.type \in OneWay \/ (m.type = "PUBLISH" /\ m.qos = 0)
  THEN "COMPLETE" ELSE "AWAITING_ACK"

\* The chunks off + 1 .. off + n of m reach the socket: they continue the frame
\* that is incomplete there, or they garble the stream.
Write(m, off, n) ==
  LET fits == IF frame = NULL THEN off = 0
              ELSE frame.pkt = Bytes(m) /\ frame.off = off
      whole == off + n = ChunkLen
  IN  /\ garbled' = (garbled \/ (n > 0 /\ ~fits))
      /\ frame' = IF n = 0 THEN frame ELSE IF whole THEN NULL
                  ELSE [pkt |-> Bytes(m), off |-> off + n]
      /\ toBroker' = IF whole THEN Append(toBroker, Bytes(m)) ELSE toBroker
      /\ UNCHANGED toClient
\* Mistake: the offset is not reset behind a complete message.
SendWhole_KeepsOffset ==
  LET m == mq[i] IN
  /\ Sending /\ MustSend(m) /\ Len(toBroker) < SockCap
  /\ Write(m, Offset(m), ChunkLen - Offset(m))
  /\ send_offset' = ChunkLen /\ i' = i + 1 /\ quiet' = FALSE
  /\ mq' = [mq EXCEPT ![i].state = SentState(m), ![i].late = FALSE]
  /\ inflight_qos2' = (inflight_qos2 \/ OpenQos2(m))
  /\ UNCHANGED <<error, sync, reconnecting, userVars, brkVars, histVars>>

\* The whole rest of the message is accepted.
SendWhole ==
  LET m == mq[i] IN
  /\ Sending /\ MustSend(m) /\ Len(toBroker) < SockCap
  /\ Write(m, Offset(m), ChunkLen - Offset(m))
  /\ send_offset' = 0 /\ i' = i + 1 /\ quiet' = FALSE
  /\ mq' = [mq EXCEPT ![i].state = SentState(m), ![i].late = FALSE]
  /\ inflight_qos2' = (inflight_qos2 \/ OpenQos2(m))
  /\ UNCHANGED <<error, sync, reconnecting, userVars, brkVars, histVars>>
\* Mistake: how much was accepted is forgotten.
SendPart_Forgets(n) ==
  LET m == mq[i] IN
  /\ Sending /\ MustSend(m) /\ n < ChunkLen - Offset(m)
  /\ "partial" \in Features \/ (n = 0 /\ Len(toBroker) = SockCap)
  /\ Write(m, Offset(m), n)
  /\ i' = Len(mq) + 1
  /\ UNCHANGED <<mq, send_offset, error, sync, inflight_qos2, reconnecting,
                 quiet, userVars, brkVars, histVars>>

\* Only n chunks are (none when the socket is full): leave the loop.
SendPart(n) ==
  LET m == mq[i] IN
  /\ Sending /\ MustSend(m) /\ n < ChunkLen - Offset(m)
  /\ "partial" \in Features \/ (n = 0 /\ Len(toBroker) = SockCap)
  /\ Write(m, Offset(m), n)
  /\ send_offset' = Offset(m) + n
  /\ i' = Len(mq) + 1
  /\ UNCHANGED <<mq, error, sync, inflight_qos2, reconnecting, quiet, userVars,
                 brkVars, histVars>>

\* The socket fails.
SendError ==
  /\ "fail" \in Features /\ Sending /\ MustSend(mq[i])
  /\ error' = "SOCKET_ERROR" /\ sync' = "after"
  /\ send_offset' = Offset(mq[i])
  /\ UNCHANGED <<mq, i, inflight_qos2, reconnecting, quiet, userVars, netVars,
                 brkVars, histVars>>

\* The keep-alive test at the end of __mqtt_send queues a PINGREQ.
SendEnd ==
  /\ sync = "send" /\ i > Len(mq)
  /\ sync' = "after"
  /\ IF quiet THEN TryPack(mq, error, QMsg("PINGREQ", NULL, 0))
              ELSE UNCHANGED <<mq, error>>
  /\ UNCHANGED <<send_offset, i, inflight_qos2, reconnecting, quiet, userVars,
                 netVars, brkVars, histVars>>

SendStep ==
  \/ SendStart \/ SendSkip \/ SendWhole
  \/ \E n \in 0 .. ChunkLen - 1 : SendPart(n)
  \/ SendError \/ SendEnd

SyncStep ==
  \/ SyncStart \/ SyncReconnects \/ ReconnectFails \/ RecvStep \/ SendStep
  \/ SyncEnd \/ SyncEndLocked

-----------------------------------------------------------------------------
(* Time and the broker (external).                                         *)

Expire(j) ==
  /\ "timeout" \in Features
  /\ mq[j].state = "AWAITING_ACK" /\ ~mq[j].late
  /\ mq' = [mq EXCEPT ![j].late = TRUE]
  /\ UNCHANGED <<send_offset, error, syncVars, quiet, userVars, netVars,
                 brkVars, histVars>>

FallQuiet ==
  /\ "keepalive" \in Features /\ sync # "off" /\ ~quiet
  /\ quiet' = TRUE
  /\ UNCHANGED <<cliVars, syncVars, userVars, netVars, brkVars, histVars>>

InFlight == {m \in BMsgs : bst[m] \in {"sent", "released"}}

\* What the broker answers to a packet.
Replies(p) ==
  CASE p.type = "CONNECT"     -> {Pkt("CONNACK", NULL)}
    [] p.type = "SUBSCRIBE"   -> {Pkt("SUBACK", p.pid)}
    [] p.type = "UNSUBSCRIBE" -> {Pkt("UNSUBACK", p.pid)}
    [] p.type = "PINGREQ"     -> {Pkt("PINGRESP", NULL)}
    [] p.type = "PUBLISH" /\ p.qos = 1 -> {Pkt("PUBACK", p.pid)}
    [] p.type = "PUBLISH" /\ p.qos = 2 -> {Pkt("PUBREC", p.pid)}
    [] p.type = "PUBREL"      -> {Pkt("PUBCOMP", p.pid)}
    [] p.type = "PUBREC" /\ (\E m \in InFlight : bpid[m] = p.pid)
                              -> {Pkt("PUBREL", p.pid)}
    [] OTHER                  -> {}

\* The broker's exchange with message id pid moves on.
Progress(p) ==
  [m \in BMsgs |->
     IF m \notin InFlight \/ bpid[m] # p.pid THEN bst[m]
     ELSE CASE p.type \in {"PUBACK", "PUBCOMP"} -> "done"
            [] p.type = "PUBREC" -> "released"
            [] OTHER -> bst[m]]

\* The broker takes a packet and answers it, possibly with a refusal.  It closes
\* the connection on DISCONNECT and on a second CONNECT.
BrokerReceive ==
  LET p == Head(toBroker)
      close == p.type = "DISCONNECT" \/ (p.type = "CONNECT" /\ conn # "new")
  IN  /\ toBroker # <<>> /\ conn # "closed" /\ Len(toClient) < SockCap
      /\ toBroker' = Tail(toBroker)
      /\ conn' = IF close THEN "closed"
                 ELSE CASE p.type = "CONNECT" -> "up"
                        [] p.type = "SUBSCRIBE" -> "subscribed"
                        [] OTHER -> conn
      /\ IF close \/ Replies(p) = {} THEN toClient' = toClient
         ELSE \E r \in Replies(p), ok \in {TRUE, "fail" \notin Features} :
                toClient' = Append(toClient, [r EXCEPT !.ok =
                              ok \/ r.type \notin {"CONNACK", "SUBACK"}])
      /\ bst' = Progress(p)
      /\ UNCHANGED <<cliVars, syncVars, quiet, userVars, frame, garbled, bpid,
                     histVars>>

Publish(m, pid) == [Pkt("PUBLISH", pid) EXCEPT !.qos = BQos[m], !.msg = m]

\* A message for the subscribed client.
BrokerPublish(m) ==
  /\ conn = "subscribed" /\ bst[m] = "unsent" /\ Len(toClient) < SockCap
  /\ IF BQos[m] = 0
     THEN /\ toClient' = Append(toClient, Publish(m, NULL))
          /\ bst' = [bst EXCEPT ![m] = "done"] /\ UNCHANGED bpid
     ELSE \E p \in BPids :
          /\ \A n \in BMsgs :
               bpid[n] = p => "reuse" \in Features /\ bst[n] = "done"
          /\ toClient' = Append(toClient, Publish(m, p))
          /\ bst' = [bst EXCEPT ![m] = "sent"] /\ bpid' = [bpid EXCEPT ![m] = p]
  /\ UNCHANGED <<cliVars, syncVars, quiet, userVars, toBroker, frame, garbled,
                 conn, histVars>>

\* The broker repeats what has not been acknowledged.
BrokerRetry(m) ==
  /\ "retry" \in Features /\ conn = "subscribed" /\ Len(toClient) < SockCap
  /\ m \in InFlight
  /\ toClient' = Append(toClient, IF bst[m] = "sent" THEN Publish(m, bpid[m])
                                  ELSE Pkt("PUBREL", bpid[m]))
  /\ UNCHANGED <<cliVars, syncVars, quiet, userVars, toBroker, frame, garbled,
                 brkVars, histVars>>

-----------------------------------------------------------------------------
\* On a garbled stream nothing more is claimed: the model stops.
Next ==
  /\ ~garbled
  /\ \/ mqtt_connect \/ ApiStep \/ SyncStep
     \/ \E j \in DOMAIN mq : Expire(j)
     \/ FallQuiet
     \/ BrokerReceive
     \/ \E m \in BMsgs : BrokerPublish(m) \/ BrokerRetry(m)

Spec == Init /\ [][Next]_vars

\* client_refresher calls mqtt_sync for ever, the broker answers, a socket that
\* is offered data again and again accepts it in the end, a reconnect that is
\* tried again and again succeeds, and a thread that waits for the mutex gets it.
Fairness ==
  /\ WF_vars(mqtt_connect)
  /\ WF_vars(~garbled /\ SyncStep) /\ SF_vars(~garbled /\ SendWhole)
  /\ SF_vars(~garbled /\ SyncReconnects)
  /\ SF_vars(~garbled /\ mqtt_reconnect)
  /\ WF_vars(~garbled /\ BrokerReceive)

FairSpec == Spec /\ Fairness

-----------------------------------------------------------------------------
(* Properties.                                                             *)

\* mqtt_client.send_offset ("This is used to allow partial send commands") and
\* __mqtt_send: what reaches the socket is a sequence of whole packets; a packet
\* that was accepted in part is continued where it stopped.
StreamFramed == ~garbled

\* __mqtt_recv, mqtt_mq_clean: an honest broker's answers always find the request
\* they answer; none is removed from the queue too early.
NoUnknownAck == error # "ACK_OF_UNKNOWN"

\* mqtt_mq_find: a message is released only after it was sent completely, so that
\* no unsent request (and no partly sent one) is taken for answered.
ReleasedWasSent ==
  [][\A j \in DOMAIN mq \cap DOMAIN mq' :
       /\ mq[j].state = "UNSENT" /\ mq'[j].state = "COMPLETE"
       /\ mq'[j].type = mq[j].type /\ mq'[j].pid = mq[j].pid
       => SentState(mq[j]) = "COMPLETE" /\ toBroker' # toBroker]_vars

\* __mqtt_next_pid ("check that the PID is unique"): no two requests of this
\* client in the queue have the same packet id, and a PUBREL shares its id only
\* with the PUBLISH it follows.
Uses(j) == mq[j].type \in {"PUBLISH", "SUBSCRIBE", "UNSUBSCRIBE"}
PidsUnique ==
  \A j, k \in DOMAIN mq :
    Uses(j) /\ mq[j].pid = mq[k].pid /\ j # k =>
      /\ ~Uses(k)
      /\ mq[k].type = "PUBREL" => mq[j].type = "PUBLISH" /\ mq[j].qos = 2

\* __mqtt_recv ("check if this is a duplicate"): a QoS 2 message reaches the
\* callback at most once, and one that is dropped had reached it before.
ExactlyOnce ==
  \A m \in BMsgs : BQos[m] = 2 =>
    delivered[m] <= 1 /\ (m \in dropped => delivered[m] = 1)

\* __mqtt_send ("only send QoS 2 message if there are no inflight QoS 2 PUBLISH
\* messages"): at most one awaits its PUBREC, and those behind it are unsent.
OneQos2InFlight ==
  \A j, k \in DOMAIN mq :
    OpenQos2(mq[j]) /\ OpenQos2(mq[k]) /\ j < k => mq[k].state = "UNSENT"

\* mqtt_sync: what the application asked for is answered, or the client is in an
\* error state (or locked up, see ReconnectTried); neither a failure nor a full
\* socket blocks it for ever.
Open(t) == \E j \in DOMAIN mq : mq[j].type = t /\ mq[j].state # "COMPLETE"
SubscribeAnswered ==
  Open("SUBSCRIBE") ~> (~Open("SUBSCRIBE") \/ error # "OK" \/ sync = "locked")

\* mqtt_reconnect and mqtt_sync's reconnecting: whatever mqtt_sync does between the
\* two critical sections of mqtt_reconnect, the request is not overwritten: the
\* callback is called in the end, with a new connection or without; unless mqtt_sync
\* has locked the mutex it holds (it reads client->error twice without it).
ReconnectTried == (user = "recon") ~> (conn = "new" \/ sync = "locked")
=============================================================================
