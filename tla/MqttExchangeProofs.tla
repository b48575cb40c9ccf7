------------------------- MODULE MqttExchangeProofs -------------------------
(***************************************************************************)
(* Machine-checked proofs about the exchanges of MqttClient: an answer is  *)
(* matched with the request it answers, packet ids are unique, the bytes   *)
(* on the wire are whole packets and a QoS 2 message is delivered once.    *)
(* Each theorem names the features it is about as its hypothesis.          *)
(***************************************************************************)
EXTENDS MqttClientProofs, FiniteSetTheorems

-----------------------------------------------------------------------------
(* The exchanges of requests and answers.                                  *)

\* The requests that are answered once.  A broker that repeats its packets answers
\* a PUBREC more than once.
Tracked == IF "retry" \in Features THEN Requests \ {"PUBREC"} ELSE Requests

\* Messages as the API and __mqtt_recv make them; none is ever late.
Shaped ==
  {m \in QMsgs : /\ m.type \in Requests \cup OneWay /\ (m.type # "PUBLISH" => m.qos = 0)
                 /\ m.pid = NULL <=> m.type \in {"CONNECT", "PINGREQ", "DISCONNECT"}
                 /\ ~m.late}

Sent == {Bytes(m) : m \in Shaped}

\* The packets that ask for an answer, and what answers them.
Asks == {b \in Sent : b.type \in Tracked /\ (b.type = "PUBLISH" => b.qos # 0)}

AnswerTo(b) ==
  CASE b.type = "CONNECT"     -> "CONNACK"
    [] b.type = "SUBSCRIBE"   -> "SUBACK"
    [] b.type = "UNSUBSCRIBE" -> "UNSUBACK"
    [] b.type = "PINGREQ"     -> "PINGRESP"
    [] b.type = "PUBREC"      -> "PUBREL"
    [] b.type = "PUBREL"      -> "PUBCOMP"
    [] b.type = "PUBLISH"     -> IF b.qos = 1 THEN "PUBACK" ELSE "PUBREC"

Answering(b) == {r \in Arrivals : r.type = AnswerTo(b) /\ r.pid = b.pid}

\* The messages that await an answer to b.
Waits(b) == {m \in Shaped : m.state = "AWAITING_ACK" /\ Bytes(m) = b}

\* How many elements of a sequence are in a set.
Places(s, S) == {k \in 1 .. Len(s) : s[k] \in S}
Count(s, S) == Cardinality(Places(s, S))

\* For every packet on its way to the broker that will be answered, and for every
\* answer on its way back, a message of its own awaits it.
Answered ==
  \A b \in Asks :
    Count(toBroker, {b}) + Count(toClient, Answering(b)) <= Count(mq, Waits(b))

\* A request other than PINGREQ is found by its type and packet id.
Single(q) ==
  \A j, k \in 1 .. Len(q) :
    q[j].type \in Requests \ {"PINGREQ"} /\ q[j].type = q[k].type /\ q[j].pid = q[k].pid
      => j = k

\* Nothing is sent before an older message, other than the QoS 2 PUBLISH that
\* waits for its turn.
InTurn(q) ==
  \A j, k \in 1 .. Len(q) :
    j < k /\ q[j].state = "UNSENT" /\ ~OpenQos2(q[j]) /\ q[k].type \in Tracked \cup OneWay
      => q[k].state = "UNSENT"

\* The send loop leaves nothing unsent behind it but QoS 2 PUBLISH messages.
TurnSeen ==
  sync = "send" /\ i <= Len(mq) =>
    \A j \in 1 .. Len(mq) : j < i /\ mq[j].state = "UNSENT" => OpenQos2(mq[j])

\* What arrives is a message of the broker, a PUBREL that it repeats, or an answer; a
\* message with QoS 1 or 2 has an id.
Expected(r) ==
  \/ r.type = "PUBLISH" /\ (r.qos # 0 => r.pid # NULL)
  \/ "retry" \in Features /\ r.type = "PUBREL" /\ r.pid # NULL
  \/ \E b \in Asks : r \in Answering(b)

BrokerIds ==
  /\ \A k \in 1 .. Len(toClient) : Expected(toClient[k])
  /\ \A m \in BMsgs : bst[m] \in {"sent", "released"} => bpid[m] # NULL

\* No UNSUBSCRIBE has the id that mqtt_unsubscribe has chosen.
UserId ==
  user = "unsub" =>
    /\ upid # NULL
    /\ \A j \in 1 .. Len(mq) : mq[j].type = "UNSUBSCRIBE" => mq[j].pid # upid

Orderly(q) == (\A j \in 1 .. Len(q) : q[j] \in Shaped) /\ Single(q) /\ InTurn(q)

Exchange ==
  /\ Orderly(mq) /\ TurnSeen
  /\ \A k \in 1 .. Len(toBroker) : toBroker[k] \in Sent
  /\ sync = "off" => mq = <<>>
  /\ BrokerIds /\ UserId /\ Answered

\* Without mqtt_unsubscribe, which chooses its id before it takes the mutex.
Apart(q) ==
  \A j, k \in 1 .. Len(q) :
    /\ q[j].type # "UNSUBSCRIBE"
    /\ q[j].type \in {"PUBLISH", "SUBSCRIBE"} /\ q[j].pid = q[k].pid /\ j # k =>
         /\ q[k].type \notin {"PUBLISH", "SUBSCRIBE"}
         /\ q[k].type = "PUBREL" => q[j].type = "PUBLISH" /\ q[j].qos = 2

-----------------------------------------------------------------------------
(* The bytes on the wire.                                                  *)

\* The packet that is incomplete on the wire is the first message that is unsent,
\* and send_offset is how far it has come.
FirstUnsent(j) ==
  /\ j \in 1 .. Len(mq) /\ mq[j].state = "UNSENT"
  /\ \A k \in 1 .. j - 1 : mq[k].state # "UNSENT"

Framed ==
  /\ ~garbled
  /\ IF frame = NULL THEN send_offset = 0
     ELSE /\ "partial" \in Features
          /\ \E j \in 1 .. Len(mq) :
               FirstUnsent(j) /\ frame = [pkt |-> Bytes(mq[j]), off |-> send_offset]

NoQos2 == \A j \in 1 .. Len(mq) : ~(mq[j].type = "PUBLISH" /\ mq[j].qos = 2)

-----------------------------------------------------------------------------
(* Exactly-once delivery.                                                  *)

\* The broker's ids, when it does not use them again.
IdsOnce ==
  /\ \A m, n \in BMsgs : bpid[m] = bpid[n] /\ bpid[m] # NULL => m = n
  /\ \A m \in BMsgs :
       /\ bst[m] = "unsent" => bpid[m] = NULL /\ delivered[m] = 0
       /\ bst[m] \in {"sent", "released"} => bpid[m] # NULL

\* What arrives carries the id of its message, and no PUBLISH follows the PUBREL of
\* its exchange.
Arriving ==
  /\ \A k \in 1 .. Len(toClient) : toClient[k].type = "PUBLISH" =>
       LET m == toClient[k].msg
       IN  /\ toClient[k].qos = BQos[m] /\ bst[m] # "unsent"
           /\ BQos[m] # 0 => toClient[k].pid = bpid[m] /\ bpid[m] # NULL
  /\ \A l \in 1 .. Len(toClient) : toClient[l].type = "PUBREL" =>
       \E m \in BMsgs :
         /\ bpid[m] = toClient[l].pid /\ bpid[m] # NULL
         /\ bst[m] \in {"released", "done"}
         /\ \A k \in 1 .. Len(toClient) :
              toClient[k].type = "PUBLISH" /\ toClient[k].msg = m => k < l

\* The packet ids of the PUBREC messages of a queue, and of those that are open.
RecIds(q) == {q[j].pid : j \in {k \in 1 .. Len(q) : q[k].type = "PUBREC"}}
OpenRecs(q) ==
  {q[j].pid : j \in {k \in 1 .. Len(q) : q[k].type = "PUBREC" /\ q[k].state # "COMPLETE"}}

\* A queued PUBREC is of a message that was delivered.
RecsDelivered ==
  \A p \in RecIds(mq) : \E m \in BMsgs : bpid[m] = p /\ BQos[m] = 2 /\ delivered[m] = 1

\* While a message that was delivered may arrive again, its PUBREC is queued.
Awaited(m) ==
  \/ bst[m] = "sent"
  \/ \E k \in 1 .. Len(toClient) : toClient[k].type = "PUBLISH" /\ toClient[k].msg = m

Remembered ==
  \A m \in BMsgs :
    BQos[m] = 2 /\ delivered[m] # 0 /\ Awaited(m) => bpid[m] \in OpenRecs(mq)

Delivery == IdsOnce /\ Arriving /\ RecsDelivered /\ Remembered /\ ExactlyOnce

-----------------------------------------------------------------------------
(* What the operations do to the queue, message by message.                *)

\* r is what is left of q behind d completed messages, with m behind it or not.
Packed(q, r, m, d) ==
  /\ d \in 0 .. Len(q) /\ \A j \in 1 .. d : q[j].state = "COMPLETE"
  /\ r \in Seq(QMsgs)
  /\ \A j \in 1 .. Len(q) - d : r[j] = q[j + d]
  /\ Len(r) = Len(q) - d \/ (Len(r) = Len(q) - d + 1 /\ r[Len(q) - d + 1] = m)

\* mqtt_mq_clean drops completed messages only.
LEMMA CleanDrops ==
  ASSUME NEW q \in Seq(QMsgs), NEW m
  PROVE  \E d \in 0 .. Len(q) :
           Packed(q, mqtt_mq_clean(q), m, d) /\ Len(mqtt_mq_clean(q)) = Len(q) - d
<1> DEFINE open == {j \in DOMAIN q : q[j].state # "COMPLETE"}
<1>1. Len(q) \in Nat /\ DOMAIN q = 1 .. Len(q)
  OBVIOUS
<1>2. CASE open = {}
  <2>1. mqtt_mq_clean(q) = <<>>
    BY <1>2 DEF mqtt_mq_clean
  <2>2. <<>> \in Seq(QMsgs) /\ Len(<<>>) = 0
    OBVIOUS
  <2>3. \A j \in 1 .. Len(q) : q[j].state = "COMPLETE"
    BY <1>1, <1>2
  <2>4. Packed(q, <<>>, m, Len(q)) /\ Len(<<>>) = Len(q) - Len(q)
    BY <1>1, <2>2, <2>3 DEF Packed
  <2>5. Len(q) \in 0 .. Len(q)
    BY <1>1
  <2> HIDE DEF open
  <2> QED
    BY <2>1, <2>4, <2>5, Zenon
<1>3. CASE open # {}
  <2>1. open \in SUBSET Nat
    BY <1>1
  <2>2. Min(open) \in open /\ \A y \in open : Min(open) <= y
    <3> HIDE DEF open
    <3> QED
      BY <1>3, <2>1, MinWorks
  <2>3. PICK a \in 1 .. Len(q) : a = Min(open)
    BY <1>1, <2>2
  <2>4. mqtt_mq_clean(q) = SubSeq(q, a, Len(q))
    BY <1>3, <2>3 DEF mqtt_mq_clean
  <2> DEFINE r == SubSeq(q, a, Len(q))
  <2>5. /\ r \in Seq(QMsgs) /\ Len(r) = Len(q) - a + 1
        /\ \A j \in 1 .. Len(q) - a + 1 : r[j] = q[a + j - 1]
    BY <1>1
  <2>6. \A j \in 1 .. a - 1 : q[j].state = "COMPLETE"
    <3> SUFFICES ASSUME NEW j \in 1 .. a - 1, j \in open
                 PROVE  FALSE
      BY <1>1
    <3>1. a <= j
      <4> HIDE DEF open
      <4> QED
        BY <2>2, <2>3
    <3> QED
      BY <3>1
  <2> HIDE DEF r
  <2>7. a - 1 \in 0 .. Len(q) /\ Len(r) = Len(q) - (a - 1)
    BY <1>1, <2>5
  <2>8. ASSUME NEW j \in 1 .. Len(q) - (a - 1)
        PROVE  r[j] = q[j + (a - 1)]
    <3>1. j \in 1 .. Len(q) - a + 1 /\ a + j - 1 = j + (a - 1)
      BY <1>1
    <3> QED
      BY <2>5, <3>1
  <2>9. Packed(q, r, m, a - 1)
    BY <2>5, <2>6, <2>7, <2>8 DEF Packed
  <2> QED
    BY <2>4, <2>7, <2>9 DEF r
<1> QED
  BY <1>2, <1>3

\* MQTT_CLIENT_TRY_PACK: the room that is made, and what goes behind it.
LEMMA PackIs ==
  ASSUME NEW q \in Seq(QMsgs), NEW m \in QMsgs, NEW err, TryPack(q, err, m)
  PROVE  \E d \in 0 .. Len(q) :
           /\ Packed(q, mq', m, d)
           /\ Len(mq') = IF PackOk(q, err) THEN Len(q) - d + 1 ELSE Len(q) - d
<1>1. Len(q) \in Nat
  OBVIOUS
<1>2. Packed(q, q, m, 0)
  BY <1>1 DEF Packed
<1>3. PICK d \in 0 .. Len(q) :
        Packed(q, Room(q), m, d) /\ Len(Room(q)) = Len(q) - d
  <2>1. CASE Room(q) = q
    BY <1>1, <1>2, <2>1
  <2>2. CASE Room(q) = mqtt_mq_clean(q)
    BY <2>2, CleanDrops
  <2> QED
    BY <2>1, <2>2 DEF Room
<1>4. Packed(q, Append(Room(q), m), m, d) /\ Len(Append(Room(q), m)) = Len(q) - d + 1
  <2> DEFINE r == Append(Room(q), m)
  <2>1. Room(q) \in Seq(QMsgs)
    BY <1>3 DEF Packed
  <2>2. /\ r \in Seq(QMsgs) /\ Len(r) = Len(Room(q)) + 1 /\ r[Len(Room(q)) + 1] = m
        /\ \A j \in 1 .. Len(Room(q)) : r[j] = Room(q)[j]
    BY <2>1
  <2> HIDE DEF r
  <2>3. Packed(q, r, m, d)
    BY <1>1, <1>3, <2>2 DEF Packed
  <2> QED
    BY <1>3, <2>2, <2>3 DEF r
<1>5. CASE err # "OK"
  BY <1>1, <1>2, <1>5 DEF TryPack, PackOk
<1>6. CASE err = "OK" /\ PackOk(q, err)
  BY <1>4, <1>6 DEF TryPack
<1>7. CASE err = "OK" /\ ~PackOk(q, err)
  BY <1>3, <1>7 DEF TryPack
<1> QED
  BY <1>5, <1>6, <1>7

\* r is q with the message at a completed, the one that mqtt_mq_find finds.
Released(q, r, type, pid, a) ==
  /\ a \in Matches(q, type, pid) /\ \A j \in Matches(q, type, pid) : a <= j
  /\ r \in Seq(QMsgs) /\ Len(r) = Len(q)
  /\ \A j \in 1 .. Len(q) :
       r[j] = IF j = a THEN [q[j] EXCEPT !.state = "COMPLETE"] ELSE q[j]

\* An answer completes one message.
LEMMA ReleaseIs ==
  ASSUME NEW q \in Seq(QMsgs), NEW type, NEW pid, Matches(q, type, pid) # {}
  PROVE  \E a \in 1 .. Len(q) : Released(q, Release(q, type, pid), type, pid, a)
<1> DEFINE M == Matches(q, type, pid)
<1>1. M \in SUBSET Nat /\ M \subseteq 1 .. Len(q) /\ Len(q) \in Nat
  BY DEF Matches
<1> HIDE DEF M
<1>2. Min(M) \in M /\ \A j \in M : Min(M) <= j
  BY <1>1, MinWorks DEF M
<1>3. PICK a \in 1 .. Len(q) : a = Min(M)
  BY <1>1, <1>2
<1> DEFINE x == [q[a] EXCEPT !.state = "COMPLETE"]
<1>4. q[a] \in QMsgs
  OBVIOUS
<1>5. x \in QMsgs
  BY <1>4 DEF QMsgs
<1>6. Release(q, type, pid) = [q EXCEPT ![a] = x]
  BY <1>3 DEF Release, M
<1>7. /\ Release(q, type, pid) \in Seq(QMsgs) /\ Len(Release(q, type, pid)) = Len(q)
      /\ \A j \in 1 .. Len(q) : Release(q, type, pid)[j] = IF j = a THEN x ELSE q[j]
  <2> HIDE DEF x
  <2> QED
    BY <1>5, <1>6, ChangeOne
<1>8. \A j \in 1 .. Len(q) :
        Release(q, type, pid)[j] = IF j = a THEN [q[j] EXCEPT !.state = "COMPLETE"] ELSE q[j]
  BY <1>7
<1> QED
  BY <1>2, <1>3, <1>7, <1>8 DEF M, Released

-----------------------------------------------------------------------------
(* The steps.                                                              *)

\* mqtt_mq_register: the fields of a new message.
LEMMA QMsgFields ==
  ASSUME NEW type \in Types, NEW pid \in Ids, NEW qos \in 0 .. 2
  PROVE  /\ QMsg(type, pid, qos) \in QMsgs
         /\ QMsg(type, pid, qos).type = type /\ QMsg(type, pid, qos).pid = pid
         /\ QMsg(type, pid, qos).qos = qos /\ QMsg(type, pid, qos).state = "UNSENT"
         /\ QMsg(type, pid, qos).late = FALSE
<1>1. QMsg(type, pid, qos) \in QMsgs
  BY QMsgType
<1> QED
  BY <1>1 DEF QMsg

\* Most messages are made with QoS 0.
LEMMA QMsg0Fields ==
  ASSUME NEW type \in Types, NEW pid \in Ids
  PROVE  /\ QMsg(type, pid, 0) \in QMsgs
         /\ QMsg(type, pid, 0).type = type /\ QMsg(type, pid, 0).pid = pid
         /\ QMsg(type, pid, 0).qos = 0 /\ QMsg(type, pid, 0).state = "UNSENT"
         /\ QMsg(type, pid, 0).late = FALSE
<1>1. QMsg(type, pid, 0) \in QMsgs
  BY DEF QMsg, QMsgs
<1> QED
  BY <1>1 DEF QMsg

\* The messages that the API calls make.
ApiMade ==
  {QMsg("PUBLISH", p, qos) : p \in FreePids, qos \in 0 .. 2}
  \cup {QMsg("SUBSCRIBE", p, 0) : p \in FreePids}
  \cup {QMsg("PINGREQ", NULL, 0), QMsg("DISCONNECT", NULL, 0)}

\* An API call packs a message, or chooses a packet id, or asks for a reconnect.
LEMMA ApiSteps ==
  ASSUME ApiStep
  PROVE  /\ UNCHANGED <<send_offset, syncVars, quiet, netVars, brkVars, histVars>>
         /\ \/ /\ UNCHANGED mq /\ sync # "off" /\ "unsubscribe" \in Api
               /\ user' = "unsub" /\ upid' \in FreePids
            \/ UNCHANGED <<mq, upid>> /\ user' = "idle"
            \/ /\ Unlocked /\ user = "unsub" /\ user' = "idle"
               /\ TryPack(mq, error, QMsg("UNSUBSCRIBE", upid, 0))
            \/ /\ Unlocked /\ (user' = "unsub" => user = "unsub") /\ UNCHANGED upid
               /\ \E m \in ApiMade :
                    TryPack(mq, error, m) /\ (m.qos = 2 => "publish2" \in Api)
<1>1. ASSUME NEW qos \in 0 .. 2, mqtt_publish(qos)
      PROVE  /\ UNCHANGED <<send_offset, syncVars, quiet, netVars, brkVars, histVars>>
             /\ Unlocked /\ user' = user /\ UNCHANGED upid
             /\ \E m \in ApiMade :
                  TryPack(mq, error, m) /\ (m.qos = 2 => "publish2" \in Api)
  <2>1. PICK p \in FreePids : TryPack(mq, error, QMsg("PUBLISH", p, qos))
    BY <1>1 DEF mqtt_publish
  <2>2. QMsg("PUBLISH", p, qos) \in ApiMade
    BY DEF ApiMade
  <2>3. QMsg("PUBLISH", p, qos).qos = qos
    BY DEF QMsg
  <2>4. qos = 2 => "publish2" \in Api
    BY <1>1 DEF mqtt_publish, Call, PublishCall
  <2>5. /\ UNCHANGED <<send_offset, syncVars, quiet, netVars, brkVars, histVars>>
        /\ Unlocked /\ user' = user /\ UNCHANGED upid
    BY <1>1 DEF mqtt_publish
  <2> QED
    BY <2>1, <2>2, <2>3, <2>4, <2>5
<1>2. ASSUME mqtt_subscribe
      PROVE  /\ UNCHANGED <<send_offset, syncVars, quiet, netVars, brkVars, histVars>>
             /\ Unlocked /\ user' = user /\ UNCHANGED upid
             /\ \E m \in ApiMade :
                  TryPack(mq, error, m) /\ (m.qos = 2 => "publish2" \in Api)
  <2>1. PICK p \in FreePids : TryPack(mq, error, QMsg("SUBSCRIBE", p, 0))
    BY <1>2 DEF mqtt_subscribe
  <2>2. QMsg("SUBSCRIBE", p, 0) \in ApiMade
    BY DEF ApiMade
  <2>3. QMsg("SUBSCRIBE", p, 0).qos = 0
    BY DEF QMsg
  <2>4. /\ UNCHANGED <<send_offset, syncVars, quiet, netVars, brkVars, histVars>>
        /\ Unlocked /\ user' = user /\ UNCHANGED upid
    BY <1>2 DEF mqtt_subscribe
  <2> QED
    BY <2>1, <2>2, <2>3, <2>4
<1>3. ASSUME mqtt_ping \/ mqtt_disconnect \/ ReconnectDisconnects
      PROVE  /\ UNCHANGED <<send_offset, syncVars, quiet, netVars, brkVars, histVars>>
             /\ Unlocked /\ user' \in {user, "recon", "idle"} /\ UNCHANGED upid
             /\ \E m \in ApiMade :
                  TryPack(mq, error, m) /\ (m.qos = 2 => "publish2" \in Api)
  <2>1. PICK m \in {QMsg("PINGREQ", NULL, 0), QMsg("DISCONNECT", NULL, 0)} :
          TryPack(mq, error, m)
    BY <1>3 DEF mqtt_ping, mqtt_disconnect, ReconnectDisconnects
  <2>2. m \in ApiMade /\ m.qos = 0
    BY DEF ApiMade, QMsg
  <2>3. /\ UNCHANGED <<send_offset, syncVars, quiet, netVars, brkVars, histVars>>
        /\ Unlocked /\ user' \in {user, "recon", "idle"} /\ UNCHANGED upid
    BY <1>3 DEF mqtt_ping, mqtt_disconnect, ReconnectDisconnects
  <2> QED
    BY <2>1, <2>2, <2>3
<1>4. ASSUME mqtt_unsubscribe
      PROVE  /\ UNCHANGED <<send_offset, syncVars, quiet, netVars, brkVars, histVars>>
             /\ Unlocked /\ user = "unsub" /\ user' = "idle"
             /\ TryPack(mq, error, QMsg("UNSUBSCRIBE", upid, 0))
  BY <1>4 DEF mqtt_unsubscribe
<1>5. ASSUME UnsubscribePid
      PROVE  /\ UNCHANGED <<send_offset, syncVars, quiet, netVars, brkVars, histVars>>
             /\ UNCHANGED mq /\ sync # "off" /\ "unsubscribe" \in Api
             /\ user' = "unsub" /\ upid' \in FreePids
  BY <1>5 DEF UnsubscribePid, cliVars, Call
<1>6. ASSUME mqtt_reconnect
      PROVE  /\ UNCHANGED <<send_offset, syncVars, quiet, netVars, brkVars, histVars>>
             /\ UNCHANGED <<mq, upid>> /\ user' = "idle"
  BY <1>6 DEF mqtt_reconnect
<1> QED
  BY <1>1, <1>2, <1>3, <1>4, <1>5, <1>6 DEF ApiStep

-----------------------------------------------------------------------------
(* What packs and answers do to the PUBREC messages of a queue.             *)

\* A pack keeps what is open, and may add its message.
LEMMA PackRecs ==
  ASSUME NEW q \in Seq(QMsgs), NEW m \in QMsgs, m.state = "UNSENT",
         NEW err, TryPack(q, err, m)
  PROVE  /\ RecIds(mq') \subseteq RecIds(q) \cup {m.pid}
         /\ m.type # "PUBREC" \/ ~PackOk(q, err) => RecIds(mq') \subseteq RecIds(q)
         /\ OpenRecs(q) \subseteq OpenRecs(mq')
         /\ m.type = "PUBREC" /\ PackOk(q, err) => m.pid \in OpenRecs(mq')
<1>1. PICK d \in 0 .. Len(q) :
        /\ Packed(q, mq', m, d)
        /\ Len(mq') = IF PackOk(q, err) THEN Len(q) - d + 1 ELSE Len(q) - d
  BY PackIs
<1>2. PICK r : r = mq'
  OBVIOUS
<1>3. /\ Packed(q, r, m, d) /\ Len(q) \in Nat /\ Len(r) \in Nat
      /\ Len(r) = IF PackOk(q, err) THEN Len(q) - d + 1 ELSE Len(q) - d
  BY <1>1, <1>2 DEF Packed
<1>4. ASSUME NEW j \in 1 .. Len(r), r[j].type = "PUBREC"
      PROVE  r[j].pid \in RecIds(q) \/ (r[j] = m /\ PackOk(q, err))
  <2>1. CASE j \in 1 .. Len(q) - d
    <3>1. r[j] = q[j + d] /\ j + d \in 1 .. Len(q)
      BY <1>3, <2>1 DEF Packed
    <3> QED
      BY <1>4, <3>1 DEF RecIds
  <2>2. CASE j \notin 1 .. Len(q) - d
    BY <1>3, <2>2 DEF Packed
  <2> QED
    BY <2>1, <2>2
<1>5. ASSUME NEW j \in 1 .. Len(q), q[j].type = "PUBREC", q[j].state # "COMPLETE"
      PROVE  q[j].pid \in OpenRecs(r)
  <2>1. j - d \in 1 .. Len(r) /\ r[j - d] = q[j]
    <3>1. j - d \in 1 .. Len(q) - d
      BY <1>3, <1>5 DEF Packed
    <3>2. r[j - d] = q[(j - d) + d] /\ (j - d) + d = j
      BY <1>3, <3>1 DEF Packed
    <3> QED
      BY <1>3, <3>1, <3>2 DEF Packed
  <2> QED
    BY <1>5, <2>1 DEF OpenRecs
<1>6. ASSUME m.type = "PUBREC", PackOk(q, err)
      PROVE  m.pid \in OpenRecs(r)
  <2>1. Len(r) \in 1 .. Len(r) /\ r[Len(r)] = m
    BY <1>3, <1>6 DEF Packed
  <2> QED
    BY <1>6, <2>1 DEF OpenRecs
<1> QED
  BY <1>2, <1>4, <1>5, <1>6 DEF RecIds, OpenRecs

\* A release closes a message of its type, with its packet id.
LEMMA ReleaseRecs ==
  ASSUME NEW q \in Seq(QMsgs), NEW req, NEW pid, Matches(q, req, pid) # {}
  PROVE  /\ Release(q, req, pid) \in Seq(QMsgs)
         /\ RecIds(Release(q, req, pid)) = RecIds(q)
         /\ req # "PUBREC" => OpenRecs(q) \subseteq OpenRecs(Release(q, req, pid))
         /\ pid # NULL => OpenRecs(q) \ {pid} \subseteq OpenRecs(Release(q, req, pid))
<1>1. PICK r : r = Release(q, req, pid)
  OBVIOUS
<1>2. PICK a \in 1 .. Len(q) : Released(q, r, req, pid, a)
  BY <1>1, ReleaseIs
<1>3. q[a].type = req /\ (pid # NULL => q[a].pid = pid)
  BY <1>2 DEF Matches, Released
<1>4. ASSUME NEW j \in 1 .. Len(q)
      PROVE  r[j].type = q[j].type /\ r[j].pid = q[j].pid /\ (j # a => r[j] = q[j])
  <2>1. q[j] \in QMsgs
    OBVIOUS
  <2> QED
    BY <1>2, <2>1 DEF QMsgs, Released
<1>5. RecIds(r) = RecIds(q) /\ r \in Seq(QMsgs)
  BY <1>2, <1>4 DEF RecIds, Released
<1>6. ASSUME NEW j \in 1 .. Len(q), q[j].type = "PUBREC", q[j].state # "COMPLETE", j # a
      PROVE  q[j].pid \in OpenRecs(r)
  BY <1>2, <1>4, <1>6 DEF OpenRecs, Released
<1> QED
  BY <1>1, <1>2, <1>3, <1>5, <1>6 DEF OpenRecs

\* What is late or sent stays what it is for the broker.
LEMMA SameRecs ==
  ASSUME mq \in Seq(QMsgs), NEW r \in Seq(QMsgs), Len(r) = Len(mq),
         \A j \in 1 .. Len(mq) :
           /\ r[j].type = mq[j].type /\ r[j].pid = mq[j].pid
           /\ r[j].type = "PUBREC" /\ mq[j].state # "COMPLETE" => r[j].state # "COMPLETE"
  PROVE  RecIds(r) \subseteq RecIds(mq) /\ OpenRecs(mq) \subseteq OpenRecs(r)
<1>1. RecIds(r) \subseteq RecIds(mq)
  BY DEF RecIds
<1>2. OpenRecs(mq) \subseteq OpenRecs(r)
  <2> SUFFICES ASSUME NEW j \in 1 .. Len(mq), mq[j].type = "PUBREC", mq[j].state # "COMPLETE"
               PROVE  mq[j].pid \in OpenRecs(r)
    BY DEF OpenRecs
  <2>1. j \in 1 .. Len(r) /\ r[j].type = "PUBREC" /\ r[j].state # "COMPLETE" /\ r[j].pid = mq[j].pid
    OBVIOUS
  <2> QED
    BY <2>1 DEF OpenRecs
<1> QED
  BY <1>1, <1>2

\* The message that is late, and the one that is sent.
LEMMA ExpireIs ==
  ASSUME mq \in Seq(QMsgs), NEW a \in DOMAIN mq, Expire(a)
  PROVE  /\ mq' \in Seq(QMsgs) /\ Len(mq') = Len(mq)
         /\ \A j \in 1 .. Len(mq) :
              /\ mq'[j].type = mq[j].type /\ mq'[j].pid = mq[j].pid
              /\ mq'[j].state = mq[j].state
<1> DEFINE x == [mq[a] EXCEPT !.late = TRUE]
<1>1. a \in 1 .. Len(mq) /\ mq[a] \in QMsgs
  OBVIOUS
<1>2. /\ x \in QMsgs /\ x.type = mq[a].type /\ x.pid = mq[a].pid /\ x.state = mq[a].state
  BY <1>1 DEF QMsgs
<1>3. mq' = [mq EXCEPT ![a] = x]
  BY DEF Expire
<1> HIDE DEF x
<1>4. /\ mq' \in Seq(QMsgs) /\ Len(mq') = Len(mq)
      /\ \A j \in 1 .. Len(mq) : mq'[j] = IF j = a THEN x ELSE mq[j]
  BY <1>1, <1>2, <1>3, ChangeOne
<1> QED
  BY <1>2, <1>4

\* SendWhole changes the message at i only: its state, and it is late no more.
LEMMA SendWholeIs ==
  ASSUME mq \in Seq(QMsgs), i \in Nat \ {0}, SendWhole
  PROVE  /\ i \in 1 .. Len(mq) /\ mq' \in Seq(QMsgs) /\ Len(mq') = Len(mq)
         /\ \A j \in 1 .. Len(mq) : j # i => mq'[j] = mq[j]
         /\ mq'[i] = [mq[i] EXCEPT !.state = SentState(mq[i]), !.late = FALSE]
<1> DEFINE x == [mq[i] EXCEPT !.state = SentState(mq[i]), !.late = FALSE]
<1>1. i \in 1 .. Len(mq) /\ mq[i] \in QMsgs
  <2>1. i <= Len(mq) /\ Len(mq) \in Nat
    BY DEF SendWhole, Sending
  <2> QED
    BY <2>1
<1>2. SentState(mq[i]) \in {"COMPLETE", "AWAITING_ACK"}
  BY DEF SentState
<1>3. x \in QMsgs
  BY <1>1, <1>2 DEF QMsgs
<1>4. mq' = [mq EXCEPT ![i] = x]
  BY DEF SendWhole
<1>5. /\ mq' \in Seq(QMsgs) /\ Len(mq') = Len(mq)
      /\ \A j \in 1 .. Len(mq) : mq'[j] = IF j = i THEN x ELSE mq[j]
  <2> HIDE DEF x
  <2> QED
    BY <1>1, <1>3, <1>4, ChangeOne
<1> QED
  BY <1>1, <1>5

-----------------------------------------------------------------------------
(* Exactly-once delivery, step by step.                                    *)

Types2 == /\ mq \in Seq(QMsgs) /\ toClient \in Seq(Arrivals) /\ i \in Nat \ {0}
          /\ upid \in Pids \cup {NULL} /\ Broker /\ History

\* The steps inside the client leave every PUBREC that is open, and add none.
Kept ==
  /\ UNCHANGED <<toClient, bst, bpid, delivered, dropped>>
  /\ RecIds(mq') \subseteq RecIds(mq) /\ OpenRecs(mq) \subseteq OpenRecs(mq')

\* The message of an API call is no PUBREC.
LEMMA ApiMadeType ==
  ASSUME NEW m \in ApiMade
  PROVE  /\ m \in QMsgs /\ m.state = "UNSENT"
         /\ m.type \in {"PUBLISH", "SUBSCRIBE", "PINGREQ", "DISCONNECT"}
<1>1. \E type \in {"PUBLISH", "SUBSCRIBE", "PINGREQ", "DISCONNECT"}, pid \in Ids, qos \in 0 .. 2 :
        m = QMsg(type, pid, qos)
  BY DEF ApiMade, FreePids, Ids
<1>2. PICK type \in {"PUBLISH", "SUBSCRIBE", "PINGREQ", "DISCONNECT"}, pid \in Ids, qos \in 0 .. 2 :
        m = QMsg(type, pid, qos)
  BY <1>1
<1>3. type \in Types
  BY DEF Types, Requests, OneWay
<1>4. QMsg(type, pid, qos).type = type
  BY DEF QMsg
<1> QED
  BY <1>2, <1>3, <1>4, QMsgType

\* What the client does without taking a packet leaves deliveries and answers alone.
LEMMA LocalKept ==
  ASSUME Types2,
         \/ mqtt_connect \/ ApiStep \/ FallQuiet \/ SyncStart \/ ReconnectFails \/ SyncEndLocked
         \/ SendStep \/ RecvNothing \/ RecvError
         \/ (\E j \in DOMAIN mq : Expire(j)) \/ UNCHANGED vars
  PROVE  Kept
<1>1. ASSUME UNCHANGED <<toClient, bst, bpid, delivered, dropped>>, mq' = mq
      PROVE  Kept
  BY <1>1 DEF Kept
<1>2. ASSUME UNCHANGED <<toClient, bst, bpid, delivered, dropped>>,
             NEW m \in QMsgs, m.state = "UNSENT", m.type # "PUBREC",
             NEW err, TryPack(mq, err, m)
      PROVE  Kept
  BY <1>2, PackRecs DEF Kept, Types2
<1>3. ASSUME mqtt_connect
      PROVE  Kept
  <2>1. "CONNECT" \in Types /\ NULL \in Ids
    BY DEF Types, Requests, Ids
  <2>2. /\ QMsg("CONNECT", NULL, 0) \in QMsgs /\ QMsg("CONNECT", NULL, 0).state = "UNSENT"
        /\ QMsg("CONNECT", NULL, 0).type = "CONNECT"
    BY <2>1, QMsg0Fields
  <2>3. UNCHANGED <<toClient, bst, bpid, delivered, dropped>>
    BY <1>3, WireFrame
  <2>4. TryPack(mq, "OK", QMsg("CONNECT", NULL, 0))
    BY <1>3 DEF mqtt_connect
  <2> QED
    BY <1>2, <2>2, <2>3, <2>4
<1>4. ASSUME ApiStep
      PROVE  Kept
  <2>1. UNCHANGED <<toClient, bst, bpid, delivered, dropped>>
    BY <1>4, WireFrame
  <2>2. \/ UNCHANGED mq
        \/ TryPack(mq, error, QMsg("UNSUBSCRIBE", upid, 0))
        \/ \E m \in ApiMade : TryPack(mq, error, m)
    BY <1>4, ApiSteps
  <2>3. ASSUME NEW m \in ApiMade, TryPack(mq, error, m)
        PROVE  Kept
    BY <1>2, <2>1, <2>3, ApiMadeType
  <2>4. ASSUME TryPack(mq, error, QMsg("UNSUBSCRIBE", upid, 0))
        PROVE  Kept
    <3>1. "UNSUBSCRIBE" \in Types /\ upid \in Ids
      BY DEF Types, Requests, Ids, Types2
    <3>2. /\ QMsg("UNSUBSCRIBE", upid, 0) \in QMsgs
          /\ QMsg("UNSUBSCRIBE", upid, 0).state = "UNSENT"
          /\ QMsg("UNSUBSCRIBE", upid, 0).type = "UNSUBSCRIBE"
      BY <3>1, QMsg0Fields
    <3> QED
      BY <1>2, <2>1, <2>4, <3>2
  <2> QED
    BY <1>1, <2>1, <2>2, <2>3, <2>4
<1>5. ASSUME FallQuiet \/ SyncStart \/ ReconnectFails \/ SyncEndLocked \/ RecvNothing \/ RecvError
             \/ UNCHANGED vars
      PROVE  Kept
  <2>1. UNCHANGED <<toClient, bst, bpid, delivered, dropped>>
    BY <1>5, WireFrame
  <2>2. mq' = mq
    BY <1>5 DEF FallQuiet, SyncStart, ReconnectFails, SyncEndLocked, RecvNothing, RecvError, vars,
                cliVars
  <2> QED
    BY <1>1, <2>1, <2>2
<1>6. ASSUME NEW a \in DOMAIN mq, Expire(a)
      PROVE  Kept
  <2>1. UNCHANGED <<toClient, bst, bpid, delivered, dropped>>
    BY <1>6, WireFrame
  <2>2. /\ mq' \in Seq(QMsgs) /\ Len(mq') = Len(mq)
        /\ \A j \in 1 .. Len(mq) :
             /\ mq'[j].type = mq[j].type /\ mq'[j].pid = mq[j].pid
             /\ mq'[j].state = mq[j].state
    BY <1>6, ExpireIs DEF Types2
  <2> QED
    BY <2>1, <2>2, SameRecs DEF Kept, Types2
<1>7. ASSUME SendWhole
      PROVE  Kept
  <2>1. UNCHANGED <<toClient, bst, bpid, delivered, dropped>>
    BY <1>7 DEF SendWhole, Write, brkVars, histVars
  <2>2. /\ i \in 1 .. Len(mq) /\ mq' \in Seq(QMsgs) /\ Len(mq') = Len(mq)
        /\ \A j \in 1 .. Len(mq) : j # i => mq'[j] = mq[j]
        /\ mq'[i] = [mq[i] EXCEPT !.state = SentState(mq[i]), !.late = FALSE]
    BY <1>7, SendWholeIs DEF Types2
  <2>3. mq[i] \in QMsgs
    BY <2>2 DEF Types2
  <2>4. /\ mq'[i].type = mq[i].type /\ mq'[i].pid = mq[i].pid
        /\ mq'[i].state = SentState(mq[i])
    BY <2>2, <2>3 DEF QMsgs
  <2>5. mq[i].type = "PUBREC" => SentState(mq[i]) # "COMPLETE"
    BY DEF SentState, OneWay
  <2>6. \A j \in 1 .. Len(mq) :
          /\ mq'[j].type = mq[j].type /\ mq'[j].pid = mq[j].pid
          /\ mq'[j].type = "PUBREC" /\ mq[j].state # "COMPLETE" => mq'[j].state # "COMPLETE"
    BY <2>2, <2>4, <2>5
  <2> QED
    BY <2>1, <2>2, <2>6, SameRecs DEF Kept, Types2
<1>8. ASSUME SendStart \/ SendSkip \/ SendError \/ \E n \in 0 .. ChunkLen - 1 : SendPart(n)
      PROVE  Kept
  <2>1. UNCHANGED <<toClient, bst, bpid, delivered, dropped>> /\ mq' = mq
    BY <1>8 DEF SendStart, SendSkip, SendError, SendPart, Write, cliVars, netVars, brkVars, histVars
  <2> QED
    BY <1>1, <2>1
<1>9. ASSUME SendEnd
      PROVE  Kept
  <2>1. UNCHANGED <<toClient, bst, bpid, delivered, dropped>>
    BY <1>9, WireFrame
  <2>2. "PINGREQ" \in Types /\ NULL \in Ids
    BY DEF Types, Requests, Ids
  <2>3. /\ QMsg("PINGREQ", NULL, 0) \in QMsgs /\ QMsg("PINGREQ", NULL, 0).state = "UNSENT"
        /\ QMsg("PINGREQ", NULL, 0).type = "PINGREQ"
    BY <2>2, QMsg0Fields
  <2>4. mq' = mq \/ TryPack(mq, error, QMsg("PINGREQ", NULL, 0))
    BY <1>9 DEF SendEnd
  <2> QED
    BY <1>1, <1>2, <2>1, <2>3, <2>4
<1> QED
  BY <1>3, <1>4, <1>5, <1>6, <1>7, <1>8, <1>9 DEF SendStep

\* What arrives and what is queued may only become less, unless it is repeated.
LEMMA LessDelivery ==
  ASSUME Delivery, UNCHANGED <<bst, bpid, delivered, dropped>>, Arriving',
         RecIds(mq') \subseteq RecIds(mq),
         \A m \in BMsgs :
           Awaited(m)' => Awaited(m) /\ (bpid[m] \in OpenRecs(mq) => bpid[m] \in OpenRecs(mq'))
  PROVE  Delivery'
<1>1. IdsOnce' /\ ExactlyOnce'
  BY DEF Delivery, IdsOnce, ExactlyOnce
<1>2. RecsDelivered'
  BY DEF Delivery, RecsDelivered
<1>3. Remembered'
  BY DEF Delivery, Remembered
<1> QED
  BY <1>1, <1>2, <1>3 DEF Delivery

\* A step that keeps what Delivery is about keeps Delivery.
LEMMA KeptDelivery ==
  ASSUME Delivery, Kept
  PROVE  Delivery'
<1>1. Arriving'
  BY DEF Delivery, Arriving, Kept
<1>2. \A m \in BMsgs : Awaited(m)' <=> Awaited(m)
  BY DEF Awaited, Kept
<1> QED
  BY <1>1, <1>2, LessDelivery DEF Kept

\* The client takes the oldest packet.
LEMMA TailArriving ==
  ASSUME Arriving, toClient \in Seq(Arrivals), toClient # <<>>, toClient' = Tail(toClient),
         UNCHANGED <<bst, bpid>>
  PROVE  Arriving' /\ \A m \in BMsgs : Awaited(m)' => Awaited(m)
<1>1. PICK s \in Seq(Arrivals) : s = Tail(toClient)
  OBVIOUS
<1>2. /\ Len(toClient) \in Nat \ {0} /\ Len(s) = Len(toClient) - 1
      /\ \A k \in 1 .. Len(s) : s[k] = toClient[k + 1] /\ k + 1 \in 1 .. Len(toClient)
  BY <1>1
<1>3. ASSUME NEW k \in 1 .. Len(s), s[k].type = "PUBLISH"
      PROVE  LET m == s[k].msg
             IN  /\ s[k].qos = BQos[m] /\ bst[m] # "unsent"
                 /\ BQos[m] # 0 => s[k].pid = bpid[m] /\ bpid[m] # NULL
  BY <1>2, <1>3 DEF Arriving
<1>4. ASSUME NEW l \in 1 .. Len(s), s[l].type = "PUBREL"
      PROVE  \E m \in BMsgs :
               /\ bpid[m] = s[l].pid /\ bpid[m] # NULL
               /\ bst[m] \in {"released", "done"}
               /\ \A k \in 1 .. Len(s) : s[k].type = "PUBLISH" /\ s[k].msg = m => k < l
  <2>1. l + 1 \in 1 .. Len(toClient) /\ toClient[l + 1] = s[l]
    BY <1>2
  <2>2. PICK m \in BMsgs :
          /\ bpid[m] = s[l].pid /\ bpid[m] # NULL
          /\ bst[m] \in {"released", "done"}
          /\ \A k \in 1 .. Len(toClient) :
               toClient[k].type = "PUBLISH" /\ toClient[k].msg = m => k < l + 1
    BY <1>4, <2>1 DEF Arriving
  <2>3. ASSUME NEW k \in 1 .. Len(s), s[k].type = "PUBLISH", s[k].msg = m
        PROVE  k < l
    <3>1. k + 1 \in 1 .. Len(toClient) /\ toClient[k + 1] = s[k]
      BY <1>2
    <3>2. k + 1 < l + 1
      BY <2>2, <2>3, <3>1
    <3> QED
      BY <3>2
  <2> QED
    BY <2>2, <2>3
<1>5. Arriving'
  BY <1>1, <1>3, <1>4 DEF Arriving
<1>6. \A m \in BMsgs : Awaited(m)' => Awaited(m)
  BY <1>1, <1>2 DEF Awaited
<1> QED
  BY <1>5, <1>6

\* What a received packet leaves unchanged.
LEMMA ReceivedIs ==
  ASSUME Types2, NEW type, Received(type)
  PROVE  /\ toClient # <<>> /\ toClient' = Tail(toClient) /\ UNCHANGED <<bst, bpid, conn>>
         /\ 1 \in 1 .. Len(toClient) /\ Head(toClient) = toClient[1]
         /\ toClient[1] \in Arrivals /\ toClient[1] \in Packets /\ toClient[1].type = type
         /\ toClient[1].pid \in Ids /\ toClient[1].qos \in 0 .. 2
<1>1. toClient # <<>> /\ toClient' = Tail(toClient) /\ Head(toClient).type = type
      /\ UNCHANGED <<bst, bpid, conn>>
  BY DEF Received, brkVars
<1>2. toClient \in Seq(Arrivals) /\ Len(toClient) \in Nat /\ Len(toClient) # 0
  BY <1>1, EmptySeq DEF Types2
<1>3. 1 \in 1 .. Len(toClient) /\ Head(toClient) = toClient[1] /\ toClient[1] \in Arrivals
  BY <1>1, <1>2
<1>4. toClient[1] \in Packets
  BY <1>3 DEF Arrivals
<1> QED
  BY <1>1, <1>3, <1>4 DEF Packets

\* An answer to a request of the client leaves the exchanges of the broker.
LEMMA AckDelivery ==
  ASSUME Delivery, Types2, NEW t \in Answers \cup {"PUBACK", "PUBCOMP"}, RecvAck(t)
  PROVE  Delivery'
<1>1. Received(t) /\ UNCHANGED <<delivered, dropped>>
  BY DEF RecvAck, UnknownAck, histVars
<1>2. Arriving' /\ (\A m \in BMsgs : Awaited(m)' => Awaited(m)) /\ UNCHANGED <<bst, bpid>>
  BY <1>1, ReceivedIs, TailArriving DEF Delivery, Types2
<1>3. RequestOf(t) # "PUBREC"
  BY DEF RequestOf, Answers
<1>4. RecIds(mq') \subseteq RecIds(mq) /\ OpenRecs(mq) \subseteq OpenRecs(mq')
  <2> DEFINE p == Head(toClient)
  <2>1. \/ mq' = mq
        \/ Matches(mq, RequestOf(t), p.pid) # {} /\ mq' = Release(mq, RequestOf(t), p.pid)
    BY DEF RecvAck, UnknownAck
  <2> QED
    BY <1>3, <2>1, ReleaseRecs DEF Types2
<1> QED
  BY <1>1, <1>2, <1>4, LessDelivery

\* PUBREC: the request of the client goes on with a PUBREL.
LEMMA PubrecDelivery ==
  ASSUME Delivery, Types2, RecvStage("PUBREC", "PUBLISH", "PUBREL")
  PROVE  Delivery'
<1> DEFINE p == Head(toClient)
           q == Release(mq, "PUBLISH", p.pid)
<1>1. Received("PUBREC") /\ UNCHANGED <<delivered, dropped>>
  BY DEF RecvStage, UnknownAck, histVars
<1>2. Arriving' /\ (\A m \in BMsgs : Awaited(m)' => Awaited(m)) /\ UNCHANGED <<bst, bpid>>
  BY <1>1, ReceivedIs, TailArriving DEF Delivery, Types2
<1>3. RecIds(mq') \subseteq RecIds(mq) /\ OpenRecs(mq) \subseteq OpenRecs(mq')
  <2>1. \/ mq' = mq
        \/ Matches(mq, "PUBLISH", p.pid) # {} /\ TryPack(q, error, QMsg("PUBREL", p.pid, 0))
    BY DEF RecvStage, UnknownAck
  <2>2. CASE Matches(mq, "PUBLISH", p.pid) # {} /\ TryPack(q, error, QMsg("PUBREL", p.pid, 0))
    <3>1. /\ q \in Seq(QMsgs) /\ RecIds(q) = RecIds(mq)
          /\ OpenRecs(mq) \subseteq OpenRecs(q)
      BY <2>2, ReleaseRecs DEF Types2
    <3>2. "PUBREL" \in Types /\ p.pid \in Ids
      BY <1>1, ReceivedIs DEF Types, Requests
    <3>3. /\ QMsg("PUBREL", p.pid, 0) \in QMsgs /\ QMsg("PUBREL", p.pid, 0).state = "UNSENT"
          /\ QMsg("PUBREL", p.pid, 0).type # "PUBREC"
      BY <3>2, QMsg0Fields
    <3> HIDE DEF q, p
    <3>4. RecIds(mq') \subseteq RecIds(q) /\ OpenRecs(q) \subseteq OpenRecs(mq')
      BY <2>2, <3>1, <3>3, PackRecs
    <3> QED
      BY <3>1, <3>4
  <2> QED
    BY <2>1, <2>2
<1> QED
  BY <1>1, <1>2, <1>3, LessDelivery

\* PUBREL: the message is over for the client; its broker does not send it again.
LEMMA PubrelDelivery ==
  ASSUME Delivery, Types2, RecvStage("PUBREL", "PUBREC", "PUBCOMP")
  PROVE  Delivery'
<1> DEFINE p == Head(toClient)
           q == Release(mq, "PUBREC", p.pid)
<1>1. Received("PUBREL") /\ UNCHANGED <<delivered, dropped>>
  BY DEF RecvStage, UnknownAck, histVars
<1>2. /\ toClient # <<>> /\ toClient' = Tail(toClient) /\ UNCHANGED <<bst, bpid>>
      /\ 1 \in 1 .. Len(toClient) /\ p = toClient[1] /\ p.type = "PUBREL" /\ p.pid \in Ids
  BY <1>1, ReceivedIs
<1>3. Arriving' /\ \A m \in BMsgs : Awaited(m)' => Awaited(m)
  BY <1>2, TailArriving DEF Delivery, Types2
<1>4. PICK n \in BMsgs :
        /\ bpid[n] = p.pid /\ bpid[n] # NULL /\ bst[n] \in {"released", "done"}
        /\ \A k \in 1 .. Len(toClient) :
             toClient[k].type = "PUBLISH" /\ toClient[k].msg = n => k < 1
  BY <1>2 DEF Delivery, Arriving
<1>5. ~Awaited(n)
  BY <1>4 DEF Awaited
<1>6. \A m \in BMsgs : bpid[m] = p.pid => ~Awaited(m)'
  BY <1>3, <1>4, <1>5 DEF Delivery, IdsOnce
<1>7. RecIds(mq') \subseteq RecIds(mq) /\ OpenRecs(mq) \ {p.pid} \subseteq OpenRecs(mq')
  <2>1. \/ mq' = mq
        \/ Matches(mq, "PUBREC", p.pid) # {} /\ TryPack(q, error, QMsg("PUBCOMP", p.pid, 0))
    BY DEF RecvStage, UnknownAck
  <2>2. CASE Matches(mq, "PUBREC", p.pid) # {} /\ TryPack(q, error, QMsg("PUBCOMP", p.pid, 0))
    <3>1. /\ q \in Seq(QMsgs) /\ RecIds(q) = RecIds(mq)
          /\ OpenRecs(mq) \ {p.pid} \subseteq OpenRecs(q)
      BY <1>4, <2>2, ReleaseRecs DEF Types2
    <3>2. "PUBCOMP" \in Types /\ p.pid \in Ids
      BY <1>2 DEF Types, OneWay
    <3>3. /\ QMsg("PUBCOMP", p.pid, 0) \in QMsgs /\ QMsg("PUBCOMP", p.pid, 0).state = "UNSENT"
          /\ QMsg("PUBCOMP", p.pid, 0).type # "PUBREC"
      BY <3>2, QMsg0Fields
    <3> HIDE DEF q, p
    <3>4. RecIds(mq') \subseteq RecIds(q) /\ OpenRecs(q) \subseteq OpenRecs(mq')
      BY <2>2, <3>1, <3>3, PackRecs
    <3> QED
      BY <3>1, <3>4
  <2> QED
    BY <2>1, <2>2
<1> HIDE DEF p
<1> QED
  BY <1>1, <1>2, <1>3, <1>6, <1>7, LessDelivery

\* PUBLISH: a QoS 2 message that was delivered is known by its PUBREC.
LEMMA PublishDelivery ==
  ASSUME Delivery, Types2, RecvPublish
  PROVE  Delivery'
<1> DEFINE p == Head(toClient)
           n == p.msg
           reply == QMsg(IF p.qos = 1 THEN "PUBACK" ELSE "PUBREC", p.pid, 0)
<1>1. Received("PUBLISH")
  BY DEF RecvPublish
<1>2. /\ toClient # <<>> /\ toClient' = Tail(toClient) /\ UNCHANGED <<bst, bpid>>
      /\ 1 \in 1 .. Len(toClient) /\ p = toClient[1] /\ p.type = "PUBLISH"
      /\ p.pid \in Ids /\ p.qos \in 0 .. 2 /\ p \in Arrivals
  BY <1>1, ReceivedIs
<1>3. Arriving' /\ \A m \in BMsgs : Awaited(m)' => Awaited(m)
  BY <1>2, TailArriving DEF Delivery, Types2
<1>4. n \in BMsgs /\ Awaited(n)
  BY <1>2 DEF Arrivals, Awaited
<1>5. /\ p.qos = BQos[n] /\ bst[n] # "unsent"
      /\ p.qos # 0 => p.pid = bpid[n] /\ bpid[n] # NULL
  BY <1>2 DEF Delivery, Arriving
<1>6. \/ p.qos = 0 /\ Deliver(n) /\ UNCHANGED <<mq, dropped>>
      \/ /\ p.qos = 2 /\ Matches(mq, "PUBREC", p.pid) # {}
         /\ dropped' = dropped \cup {n} /\ UNCHANGED <<mq, delivered>>
      \/ /\ p.qos # 0 /\ (p.qos = 2 => Matches(mq, "PUBREC", p.pid) = {})
         /\ TryPack(mq, error, reply) /\ UNCHANGED dropped
         /\ IF PackOk(mq, error) THEN Deliver(n) ELSE UNCHANGED delivered
  BY <1>1 DEF RecvPublish
<1>7. p.qos # 0 => (Matches(mq, "PUBREC", p.pid) # {} <=> p.pid \in RecIds(mq))
  BY <1>5 DEF Matches, RecIds, Types2
<1>8. OpenRecs(mq) \subseteq RecIds(mq)
  BY DEF OpenRecs, RecIds
<1>9. /\ reply \in QMsgs /\ reply.state = "UNSENT" /\ reply.pid = p.pid
      /\ reply.type = IF p.qos = 1 THEN "PUBACK" ELSE "PUBREC"
  <2>1. PICK type \in Types : type = IF p.qos = 1 THEN "PUBACK" ELSE "PUBREC"
    BY DEF Types, Requests, OneWay
  <2>2. reply = QMsg(type, p.pid, 0)
    BY <2>1
  <2> HIDE DEF reply, p
  <2> QED
    BY <1>2, <2>1, <2>2, QMsg0Fields
<1> HIDE DEF p, n, reply
\* The history is that of n alone.
<1>10. ASSUME Deliver(n)
       PROVE  /\ \A m \in BMsgs \ {n} : delivered'[m] = delivered[m]
              /\ delivered[n] = 0 => delivered'[n] = 1
  <2>1. delivered \in [BMsgs -> 0 .. 2]
    BY DEF Types2, History
  <2>2. ASSUME delivered[n] = 0
        PROVE  Min({2, delivered[n] + 1}) = 1
    <3>1. {2, 1} \in SUBSET Nat /\ {2, 1} # {}
      OBVIOUS
    <3>2. PICK y : y = Min({2, 1})
      OBVIOUS
    <3>3. y \in {2, 1} /\ y <= 1
      BY <3>1, <3>2, MinWorks
    <3>4. delivered[n] + 1 = 1
      BY <2>2
    <3> QED
      BY <3>2, <3>3, <3>4
  <2> QED
    BY <1>4, <1>10, <2>1, <2>2 DEF Deliver
<1>11. ASSUME \A m \in BMsgs \ {n} : delivered'[m] = delivered[m]
       PROVE  IdsOnce'
  BY <1>2, <1>5, <1>11 DEF Delivery, IdsOnce
<1>12. CASE p.qos = 0
  <2>1. Deliver(n) /\ UNCHANGED <<mq, dropped>>
    BY <1>6, <1>12
  <2>2. IdsOnce' /\ \A m \in BMsgs : BQos[m] = 2 => delivered'[m] = delivered[m]
    <3>1. \A m \in BMsgs \ {n} : delivered'[m] = delivered[m]
      BY <1>10, <2>1
    <3>2. BQos[n] # 2
      BY <1>5, <1>12
    <3> QED
      BY <1>11, <3>1, <3>2
  <2>3. RecsDelivered' /\ Remembered' /\ ExactlyOnce'
    BY <1>2, <1>3, <2>1, <2>2 DEF Delivery, RecsDelivered, Remembered, ExactlyOnce
  <2> QED
    BY <1>3, <2>2, <2>3 DEF Delivery
<1>13. CASE p.qos = 2 /\ p.pid \in RecIds(mq)
  <2>1. dropped' = dropped \cup {n} /\ UNCHANGED <<mq, delivered>>
    BY <1>6, <1>7, <1>13
  <2>2. delivered[n] = 1
    BY <1>4, <1>5, <1>13 DEF Delivery, RecsDelivered, IdsOnce
  <2>3. IdsOnce' /\ RecsDelivered' /\ Remembered' /\ ExactlyOnce'
    BY <1>2, <1>3, <2>1, <2>2 DEF Delivery, IdsOnce, RecsDelivered, Remembered, ExactlyOnce
  <2> QED
    BY <1>3, <2>3 DEF Delivery
<1>14. CASE p.qos # 0 /\ (p.qos = 2 => p.pid \notin RecIds(mq))
  <2>1. /\ TryPack(mq, error, reply) /\ UNCHANGED dropped
        /\ IF PackOk(mq, error) THEN Deliver(n) ELSE UNCHANGED delivered
    BY <1>6, <1>7, <1>14
  <2>2. /\ RecIds(mq') \subseteq RecIds(mq) \cup {p.pid}
        /\ p.qos = 1 \/ ~PackOk(mq, error) => RecIds(mq') \subseteq RecIds(mq)
        /\ OpenRecs(mq) \subseteq OpenRecs(mq')
        /\ p.qos = 2 /\ PackOk(mq, error) => p.pid \in OpenRecs(mq')
    BY <1>2, <1>9, <1>14, <2>1, PackRecs DEF Types2
  <2>3. p.qos = 2 => delivered[n] = 0
    BY <1>4, <1>5, <1>8, <1>14 DEF Delivery, Remembered
  <2>4. /\ \A m \in BMsgs \ {n} : delivered'[m] = delivered[m]
        /\ p.qos = 2 /\ PackOk(mq, error) => delivered'[n] = 1
        /\ ~PackOk(mq, error) => delivered' = delivered
    BY <1>10, <2>1, <2>3
  <2>5. RecsDelivered'
    <3> SUFFICES ASSUME NEW x \in RecIds(mq')
                 PROVE  \E m \in BMsgs : bpid[m] = x /\ BQos[m] = 2 /\ delivered'[m] = 1
      BY <1>2 DEF RecsDelivered
    <3>1. CASE x \in RecIds(mq)
      <4>1. PICK m \in BMsgs : bpid[m] = x /\ BQos[m] = 2 /\ delivered[m] = 1
        BY <3>1 DEF Delivery, RecsDelivered
      <4>2. m # n
        BY <1>5, <2>3, <4>1
      <4> QED
        BY <2>4, <4>1, <4>2
    <3>2. CASE x \notin RecIds(mq)
      <4>1. x = p.pid /\ p.qos = 2 /\ p.qos # 0 /\ PackOk(mq, error)
        BY <1>2, <1>14, <2>2, <3>2
      <4>2. bpid[n] = x /\ BQos[n] = 2 /\ delivered'[n] = 1
        BY <1>5, <2>4, <4>1
      <4> QED
        BY <1>4, <4>2, Zenon
    <3> QED
      BY <3>1, <3>2
  <2>6. Remembered'
    <3> SUFFICES ASSUME NEW m \in BMsgs, BQos[m] = 2, delivered'[m] # 0, Awaited(m)'
                 PROVE  bpid[m] \in OpenRecs(mq')
      BY <1>2 DEF Remembered
    <3>1. Awaited(m)
      BY <1>3
    <3>2. CASE delivered[m] # 0
      BY <2>2, <3>1, <3>2 DEF Delivery, Remembered
    <3>3. CASE delivered[m] = 0
      <4>1. m = n /\ PackOk(mq, error)
        BY <2>4, <3>3
      <4> QED
        BY <1>5, <2>2, <4>1
    <3> QED
      BY <3>2, <3>3
  <2>7. ExactlyOnce'
    <3> SUFFICES ASSUME NEW m \in BMsgs, BQos[m] = 2
                 PROVE  delivered'[m] <= 1 /\ (m \in dropped => delivered'[m] = 1)
      BY <2>1 DEF ExactlyOnce
    <3>1. delivered[m] <= 1 /\ (m \in dropped => delivered[m] = 1)
      BY DEF Delivery, ExactlyOnce
    <3>2. CASE delivered'[m] = delivered[m]
      BY <3>1, <3>2
    <3>3. CASE delivered'[m] # delivered[m]
      <4>1. m = n /\ PackOk(mq, error)
        BY <2>4, <3>3
      <4> QED
        BY <1>5, <2>4, <4>1
    <3> QED
      BY <3>2, <3>3
  <2> QED
    BY <1>3, <1>11, <2>4, <2>5, <2>6, <2>7 DEF Delivery
<1> QED
  BY <1>2, <1>12, <1>13, <1>14

\* What the broker sends: a message that may still be sent, or the PUBREL of one
\* whose PUBREC has arrived.
LEMMA AppendArriving ==
  ASSUME Arriving, toClient \in Seq(Arrivals), NEW r \in Arrivals,
         toClient' = Append(toClient, r),
         \A m \in BMsgs : bst[m] # "unsent" => bst'[m] # "unsent" /\ bpid'[m] = bpid[m],
         \A m \in BMsgs : bst[m] \in {"released", "done"} => bst'[m] \in {"released", "done"},
         r.type = "PUBLISH" =>
           /\ r.qos = BQos[r.msg] /\ bst'[r.msg] # "unsent"
           /\ BQos[r.msg] # 0 => r.pid = bpid'[r.msg] /\ bpid'[r.msg] # NULL
           /\ bst[r.msg] \in {"unsent", "sent"},
         r.type = "PUBREL" =>
           \E m \in BMsgs : bpid'[m] = r.pid /\ bpid'[m] # NULL /\ bst'[m] \in {"released", "done"}
  PROVE  /\ Arriving'
         /\ \A m \in BMsgs :
              Awaited(m)' => \/ Awaited(m) \/ bst'[m] = "sent"
                             \/ r.type = "PUBLISH" /\ r.msg = m
<1>1. PICK s \in Seq(Arrivals) : s = Append(toClient, r)
  OBVIOUS
<1>2. /\ Len(toClient) \in Nat /\ Len(s) = Len(toClient) + 1
      /\ s[Len(toClient) + 1] = r /\ \A k \in 1 .. Len(toClient) : s[k] = toClient[k]
  BY <1>1
<1>3. ASSUME NEW k \in 1 .. Len(toClient)
      PROVE  toClient[k] \in Arrivals
  OBVIOUS
<1>4. ASSUME NEW k \in 1 .. Len(s), s[k].type = "PUBLISH"
      PROVE  LET m == s[k].msg
             IN  /\ s[k].qos = BQos[m] /\ bst'[m] # "unsent"
                 /\ BQos[m] # 0 => s[k].pid = bpid'[m] /\ bpid'[m] # NULL
  <2>1. CASE k = Len(toClient) + 1
    BY <1>2, <1>4, <2>1
  <2>2. CASE k \in 1 .. Len(toClient)
    <3>1. s[k] = toClient[k] /\ toClient[k].msg \in BMsgs
      BY <1>2, <1>3, <1>4, <2>2 DEF Arrivals
    <3> QED
      BY <1>4, <2>2, <3>1 DEF Arriving
  <2> QED
    BY <1>2, <2>1, <2>2
<1>5. ASSUME NEW l \in 1 .. Len(s), s[l].type = "PUBREL"
      PROVE  \E m \in BMsgs :
               /\ bpid'[m] = s[l].pid /\ bpid'[m] # NULL
               /\ bst'[m] \in {"released", "done"}
               /\ \A k \in 1 .. Len(s) : s[k].type = "PUBLISH" /\ s[k].msg = m => k < l
  <2>1. CASE l = Len(toClient) + 1
    <3>1. \A k \in 1 .. Len(s) : s[k].type = "PUBLISH" => k < l
      BY <1>2, <1>5, <2>1
    <3> QED
      BY <1>2, <1>5, <2>1, <3>1
  <2>2. CASE l \in 1 .. Len(toClient)
    <3>1. s[l] = toClient[l]
      BY <1>2, <2>2
    <3>2. PICK m \in BMsgs :
            /\ bpid[m] = s[l].pid /\ bpid[m] # NULL
            /\ bst[m] \in {"released", "done"}
            /\ \A k \in 1 .. Len(toClient) :
                 toClient[k].type = "PUBLISH" /\ toClient[k].msg = m => k < l
      BY <1>5, <2>2, <3>1 DEF Arriving
    <3>3. bpid'[m] = bpid[m] /\ bst'[m] \in {"released", "done"}
      BY <3>2
    <3>4. ASSUME NEW k \in 1 .. Len(s), s[k].type = "PUBLISH", s[k].msg = m
          PROVE  k < l
      <4>1. k # Len(toClient) + 1
        BY <1>2, <3>2, <3>4
      <4> QED
        BY <1>2, <3>2, <3>4, <4>1
    <3> QED
      BY <3>2, <3>3, <3>4
  <2> QED
    BY <1>2, <2>1, <2>2
<1>6. Arriving'
  BY <1>1, <1>4, <1>5 DEF Arriving
<1>7. ASSUME NEW m \in BMsgs, NEW k \in 1 .. Len(s), s[k].type = "PUBLISH", s[k].msg = m
      PROVE  Awaited(m) \/ (r.type = "PUBLISH" /\ r.msg = m)
  BY <1>2, <1>7 DEF Awaited
<1> QED
  BY <1>1, <1>6, <1>7 DEF Awaited

\* The broker takes a packet: a PUBREC releases its message.
LEMMA TakenDelivery ==
  ASSUME Delivery, IInv, BrokerReceive
  PROVE  Delivery'
<1> DEFINE p == Head(toBroker)
<1>1. /\ bst \in [BMsgs -> {"unsent", "sent", "released", "done"}]
      /\ toBroker \in Seq(Packets) /\ toClient \in Seq(Arrivals)
  BY DEF IInv, Wire, Broker
<1>2. p \in Packets
  BY <1>1, HeadTailProperties DEF BrokerReceive
<1>3. bst' = Progress(p) /\ UNCHANGED <<mq, bpid, delivered, dropped>>
  BY DEF BrokerReceive, cliVars, histVars
<1>4. \/ toClient' = toClient
      \/ \E r \in Replies(p), ok \in {TRUE, "fail" \notin Features} :
           toClient' = Append(toClient, [r EXCEPT !.ok =
                         ok \/ r.type \notin {"CONNACK", "SUBACK"}])
  BY Zenon DEF BrokerReceive
<1> HIDE DEF p
<1>5. ASSUME NEW m \in BMsgs
      PROVE  /\ bst[m] = "unsent" <=> bst'[m] = "unsent"
             /\ bst'[m] = "sent" => bst[m] = "sent"
             /\ bst[m] \in {"released", "done"} => bst'[m] \in {"released", "done"}
             /\ bst'[m] \in {"sent", "released"} => bst[m] \in {"sent", "released"}
             /\ bst[m] \in {"sent", "released"} /\ bpid[m] = p.pid /\ p.type = "PUBREC" =>
                  bst'[m] \in {"released", "done"}
  <2>1. bst'[m] = IF m \notin InFlight \/ bpid[m] # p.pid THEN bst[m]
                  ELSE CASE p.type \in {"PUBACK", "PUBCOMP"} -> "done"
                         [] p.type = "PUBREC" -> "released"
                         [] OTHER -> bst[m]
    BY <1>3 DEF Progress
  <2>2. m \in InFlight <=> bst[m] \in {"sent", "released"}
    BY DEF InFlight
  <2>3. CASE p.type \in {"PUBACK", "PUBCOMP"}
    BY <2>1, <2>2, <2>3
  <2>4. CASE p.type = "PUBREC"
    BY <2>1, <2>2, <2>4
  <2>5. CASE p.type \notin {"PUBACK", "PUBCOMP", "PUBREC"}
    BY <2>1, <2>2, <2>5
  <2> QED
    BY <2>3, <2>4, <2>5
<1>6. Arriving' /\ \A m \in BMsgs : Awaited(m)' => Awaited(m)
  <2>1. CASE toClient' = toClient
    <3>1. Arriving'
      <4>1. \A k \in 1 .. Len(toClient) :
              toClient[k].type = "PUBLISH" => toClient[k].msg \in BMsgs
        BY <1>1 DEF Arrivals
      <4> QED
        BY <1>3, <1>5, <2>1, <4>1 DEF Delivery, Arriving
    <3>2. \A m \in BMsgs : Awaited(m)' => Awaited(m)
      BY <1>5, <2>1 DEF Awaited
    <3> QED
      BY <3>1, <3>2
  <2>2. ASSUME NEW x \in Replies(p), NEW ok,
               toClient' = Append(toClient, [x EXCEPT !.ok =
                             ok \/ x.type \notin {"CONNACK", "SUBACK"}])
        PROVE  Arriving' /\ \A m \in BMsgs : Awaited(m)' => Awaited(m)
    <3>1. PICK b \in BOOLEAN : b = (ok \/ x.type \notin {"CONNACK", "SUBACK"})
      BY Zenon
    <3>2. PICK r \in Arrivals : r = [x EXCEPT !.ok = b]
      BY <1>2, RepliesType
    <3>3. toClient' = Append(toClient, r)
      BY <2>2, <3>1, <3>2, Zenon
    <3>4. /\ r.type # "PUBLISH"
          /\ r.type = "PUBREL" =>
               /\ p.type = "PUBREC" /\ r.pid = p.pid
               /\ \E m \in InFlight : bpid[m] = p.pid
      BY <3>2 DEF Replies, Pkt
    <3>5. r.type = "PUBREL" =>
            \E m \in BMsgs : bpid'[m] = r.pid /\ bpid'[m] # NULL /\ bst'[m] \in {"released", "done"}
      BY <1>3, <1>5, <3>4 DEF InFlight, Delivery, IdsOnce
    <3>6. /\ \A m \in BMsgs : bst[m] # "unsent" => bst'[m] # "unsent" /\ bpid'[m] = bpid[m]
          /\ \A m \in BMsgs : bst[m] \in {"released", "done"} => bst'[m] \in {"released", "done"}
      BY <1>3, <1>5
    <3>7. /\ Arriving'
          /\ \A m \in BMsgs :
               Awaited(m)' => \/ Awaited(m) \/ bst'[m] = "sent"
                              \/ r.type = "PUBLISH" /\ r.msg = m
      BY <1>1, <3>3, <3>4, <3>5, <3>6, AppendArriving DEF Delivery
    <3> QED
      BY <1>5, <3>4, <3>7 DEF Awaited
  <2> QED
    BY <1>4, <2>1, <2>2, Zenon
<1>7. IdsOnce'
  BY <1>3, <1>5 DEF Delivery, IdsOnce
<1>8. RecsDelivered' /\ ExactlyOnce'
  BY <1>3 DEF Delivery, RecsDelivered, ExactlyOnce
<1>9. Remembered'
  BY <1>3, <1>6 DEF Delivery, Remembered
<1> QED
  BY <1>6, <1>7, <1>8, <1>9 DEF Delivery

\* The broker sends a message of its own, with an id that it uses once.
LEMMA PublishedDelivery ==
  ASSUME "reuse" \notin Features, Delivery, IInv, NEW n \in BMsgs, BrokerPublish(n)
  PROVE  Delivery'
<1>1. /\ bst \in [BMsgs -> {"unsent", "sent", "released", "done"}]
      /\ bpid \in [BMsgs -> BPids \cup {NULL}] /\ toClient \in Seq(Arrivals)
  BY DEF IInv, Wire, Broker
<1>2. /\ bst[n] = "unsent" /\ bpid[n] = NULL /\ delivered[n] = 0
      /\ UNCHANGED <<mq, delivered, dropped>>
  BY DEF BrokerPublish, Delivery, IdsOnce, cliVars, histVars
<1>3. \E p \in BPids \cup {NULL} :
        /\ toClient' = Append(toClient, Publish(n, p))
        /\ bpid' = [bpid EXCEPT ![n] = p]
        /\ IF BQos[n] = 0 THEN p = NULL /\ bst' = [bst EXCEPT ![n] = "done"]
           ELSE /\ p \in BPids /\ bst' = [bst EXCEPT ![n] = "sent"]
                /\ \A m \in BMsgs : bpid[m] # p
  <2>1. CASE BQos[n] = 0
    <3>1. /\ toClient' = Append(toClient, Publish(n, NULL)) /\ bpid' = bpid
          /\ bst' = [bst EXCEPT ![n] = "done"]
      BY <2>1 DEF BrokerPublish
    <3>2. bpid' = [bpid EXCEPT ![n] = NULL]
      BY <1>1, <1>2, <3>1
    <3> QED
      BY <2>1, <3>1, <3>2
  <2>2. CASE BQos[n] # 0
    BY <2>2 DEF BrokerPublish
  <2> QED
    BY <2>1, <2>2
<1>4. PICK p \in BPids \cup {NULL} :
        /\ toClient' = Append(toClient, Publish(n, p))
        /\ bpid' = [bpid EXCEPT ![n] = p]
        /\ IF BQos[n] = 0 THEN p = NULL /\ bst' = [bst EXCEPT ![n] = "done"]
           ELSE /\ p \in BPids /\ bst' = [bst EXCEPT ![n] = "sent"]
                /\ \A m \in BMsgs : bpid[m] # p
  BY <1>3
<1>5. /\ \A m \in BMsgs \ {n} : bst'[m] = bst[m] /\ bpid'[m] = bpid[m]
      /\ bpid'[n] = p /\ bst'[n] = IF BQos[n] = 0 THEN "done" ELSE "sent"
  BY <1>1, <1>4
<1>6. BQos[n] # 0 => p # NULL /\ \A m \in BMsgs : bpid[m] # p
  BY <1>4, IdAssumption
<1>7. PICK r \in Arrivals : r = Publish(n, p)
  BY PublishType
<1>8. r.type = "PUBLISH" /\ r.qos = BQos[n] /\ r.msg = n /\ r.pid = p
  BY <1>7 DEF Publish, Pkt
<1>9. /\ Arriving'
      /\ \A m \in BMsgs :
           Awaited(m)' => \/ Awaited(m) \/ bst'[m] = "sent"
                          \/ r.type = "PUBLISH" /\ r.msg = m
  <2>1. /\ \A m \in BMsgs : bst[m] # "unsent" => bst'[m] # "unsent" /\ bpid'[m] = bpid[m]
        /\ \A m \in BMsgs : bst[m] \in {"released", "done"} => bst'[m] \in {"released", "done"}
    BY <1>2, <1>5
  <2>2. /\ r.qos = BQos[r.msg] /\ bst'[r.msg] # "unsent"
        /\ BQos[r.msg] # 0 => r.pid = bpid'[r.msg] /\ bpid'[r.msg] # NULL
        /\ bst[r.msg] \in {"unsent", "sent"}
    BY <1>2, <1>5, <1>6, <1>8
  <2>3. toClient' = Append(toClient, r)
    BY <1>4, <1>7
  <2> QED
    BY <1>1, <1>8, <2>1, <2>2, <2>3, AppendArriving DEF Delivery
<1>10. \A m \in BMsgs \ {n} : Awaited(m)' => Awaited(m)
  BY <1>5, <1>8, <1>9 DEF Awaited
<1>11. IdsOnce'
  <2>1. ASSUME NEW m \in BMsgs, NEW k \in BMsgs, bpid'[m] = bpid'[k], bpid'[m] # NULL
        PROVE  m = k
    <3>1. BQos[n] = 0 => bpid'[n] = NULL
      BY <1>4, <1>5
    <3> QED
      BY <1>5, <1>6, <2>1, <3>1 DEF Delivery, IdsOnce
  <2>2. ASSUME NEW m \in BMsgs
        PROVE  /\ bst'[m] = "unsent" => bpid'[m] = NULL /\ delivered'[m] = 0
               /\ bst'[m] \in {"sent", "released"} => bpid'[m] # NULL
    <3>1. CASE m = n
      BY <1>5, <1>6, <3>1
    <3>2. CASE m # n
      BY <1>2, <1>5, <3>2 DEF Delivery, IdsOnce
    <3> QED
      BY <3>1, <3>2
  <2> QED
    BY <2>1, <2>2 DEF IdsOnce
<1>12. RecsDelivered'
  BY <1>2, <1>5 DEF Delivery, RecsDelivered
<1>13. Remembered' /\ ExactlyOnce'
  BY <1>2, <1>5, <1>10 DEF Delivery, Remembered, ExactlyOnce
<1> QED
  BY <1>9, <1>11, <1>12, <1>13 DEF Delivery

\* The broker repeats its PUBLISH before the PUBREC, its PUBREL behind it.
LEMMA RepeatedDelivery ==
  ASSUME Delivery, IInv, NEW n \in BMsgs, BrokerRetry(n)
  PROVE  Delivery'
<1>1. bpid \in [BMsgs -> BPids \cup {NULL}] /\ toClient \in Seq(Arrivals)
  BY DEF IInv, Wire, Broker
<1>2. /\ bst[n] \in {"sent", "released"} /\ bpid[n] # NULL
      /\ UNCHANGED <<mq, bst, bpid, delivered, dropped>>
      /\ toClient' = Append(toClient, IF bst[n] = "sent" THEN Publish(n, bpid[n])
                                      ELSE Pkt("PUBREL", bpid[n]))
  BY DEF BrokerRetry, InFlight, Delivery, IdsOnce, cliVars, brkVars, histVars
<1>3. PICK r \in Arrivals :
        /\ r = IF bst[n] = "sent" THEN Publish(n, bpid[n]) ELSE Pkt("PUBREL", bpid[n])
  <2>1. Publish(n, bpid[n]) \in Arrivals
    BY <1>1, PublishType
  <2>2. Pkt("PUBREL", bpid[n]) \in Arrivals
    <3>1. bpid[n] \in Ids /\ "PUBREL" \in Types /\ "PUBREL" # "PUBLISH"
      BY <1>1 DEF Ids, Types, Requests
    <3> QED
      BY <3>1, PktType
  <2> QED
    BY <2>1, <2>2
<1>4. /\ r.pid = bpid[n]
      /\ IF bst[n] = "sent" THEN r.type = "PUBLISH" /\ r.qos = BQos[n] /\ r.msg = n
         ELSE r.type = "PUBREL"
  BY <1>3 DEF Publish, Pkt
<1>5. /\ Arriving'
      /\ \A m \in BMsgs :
           Awaited(m)' => \/ Awaited(m) \/ bst'[m] = "sent"
                          \/ r.type = "PUBLISH" /\ r.msg = m
  <2>1. toClient' = Append(toClient, r)
    BY <1>2, <1>3
  <2>2. r.type = "PUBLISH" =>
          /\ r.qos = BQos[r.msg] /\ bst'[r.msg] # "unsent"
          /\ BQos[r.msg] # 0 => r.pid = bpid'[r.msg] /\ bpid'[r.msg] # NULL
          /\ bst[r.msg] \in {"unsent", "sent"}
    BY <1>2, <1>4
  <2>3. r.type = "PUBREL" =>
          \E m \in BMsgs : bpid'[m] = r.pid /\ bpid'[m] # NULL /\ bst'[m] \in {"released", "done"}
    BY <1>2, <1>4
  <2>4. /\ \A m \in BMsgs : bst[m] # "unsent" => bst'[m] # "unsent" /\ bpid'[m] = bpid[m]
        /\ \A m \in BMsgs : bst[m] \in {"released", "done"} => bst'[m] \in {"released", "done"}
    BY <1>2
  <2> QED
    BY <1>1, <2>1, <2>2, <2>3, <2>4, AppendArriving DEF Delivery
<1>6. \A m \in BMsgs : Awaited(m)' => Awaited(m)
  BY <1>2, <1>4, <1>5 DEF Awaited
<1> QED
  BY <1>2, <1>5, <1>6, LessDelivery

\* A new connection forgets the exchanges of the old one.
LEMMA ReinitDelivery ==
  ASSUME Delivery, mqtt_reinit, UNCHANGED <<delivered, dropped>>
  PROVE  Delivery'
<1>1. /\ toClient' = <<>> /\ UNCHANGED bpid
      /\ bst' = [m \in BMsgs |-> IF bst[m] = "unsent" THEN "unsent" ELSE "done"]
  BY DEF mqtt_reinit
<1>2. PICK p \in Pids : mq' = <<QMsg("CONNECT", NULL, 0), QMsg("SUBSCRIBE", p, 0)>>
  BY DEF mqtt_reinit
<1>3. RecIds(mq') = {}
  <2>1. PICK r : r = <<QMsg("CONNECT", NULL, 0), QMsg("SUBSCRIBE", p, 0)>>
    OBVIOUS
  <2>2. Len(r) = 2 /\ r[1].type = "CONNECT" /\ r[2].type = "SUBSCRIBE"
    BY <2>1 DEF QMsg
  <2>3. \A j \in 1 .. Len(r) : r[j].type # "PUBREC"
    BY <2>2
  <2> QED
    BY <1>2, <2>1, <2>3 DEF RecIds
<1>4. Len(<<>>) = 0
  OBVIOUS
<1>5. Arriving' /\ \A m \in BMsgs : ~Awaited(m)'
  BY <1>1, <1>4 DEF Arriving, Awaited
<1>6. IdsOnce' /\ RecsDelivered' /\ Remembered' /\ ExactlyOnce'
  BY <1>1, <1>3, <1>5 DEF Delivery, IdsOnce, RecsDelivered, Remembered, ExactlyOnce
<1> QED
  BY <1>5, <1>6 DEF Delivery

\* It holds at the start.
LEMMA InitDelivery == Init => Delivery
<1> SUFFICES ASSUME Init
             PROVE  Delivery
  OBVIOUS
<1>1. mq = <<>> /\ toClient = <<>> /\ Len(<<>>) = 0
  BY DEF Init
<1>2. RecIds(mq) = {}
  BY <1>1 DEF RecIds
<1>3. IdsOnce /\ Arriving /\ ExactlyOnce
  BY <1>1 DEF Init, IdsOnce, Arriving, ExactlyOnce
<1>4. RecsDelivered /\ Remembered
  BY <1>2 DEF Init, RecsDelivered, Remembered
<1> QED
  BY <1>3, <1>4 DEF Delivery

\* Every step keeps it.
LEMMA StepDelivery ==
  ASSUME "reuse" \notin Features, Delivery, IInv, [Next]_vars
  PROVE  Delivery'
<1>1. Types2
  BY DEF IInv, QueueOK, Queues, Control, Wire, Types2
<1>2. CASE \/ mqtt_connect \/ ApiStep \/ FallQuiet \/ SyncStart \/ ReconnectFails \/ SyncEndLocked
           \/ SendStep \/ RecvNothing \/ RecvError
           \/ (\E j \in DOMAIN mq : Expire(j)) \/ UNCHANGED vars
  BY <1>1, <1>2, LocalKept, KeptDelivery
<1>3. CASE SyncReconnects \/ SyncEnd
  <2>1. UNCHANGED histVars /\ (mqtt_reinit \/ UNCHANGED <<cliVars, netVars, brkVars>>)
    BY <1>3 DEF SyncReconnects, SyncEnd
  <2>2. UNCHANGED <<delivered, dropped>>
    BY <2>1 DEF histVars
  <2>3. CASE UNCHANGED <<cliVars, netVars, brkVars>>
    <3>1. Kept
      BY <2>2, <2>3 DEF Kept, cliVars, netVars, brkVars
    <3> QED
      BY <3>1, KeptDelivery
  <2> QED
    BY <2>1, <2>2, <2>3, ReinitDelivery
<1>4. CASE RecvStep
  BY <1>1, <1>2, <1>4, AckDelivery, PublishDelivery, PubrecDelivery, PubrelDelivery DEF RecvStep
<1>5. CASE BrokerReceive \/ \E m \in BMsgs : BrokerPublish(m) \/ BrokerRetry(m)
  BY <1>5, TakenDelivery, PublishedDelivery, RepeatedDelivery
<1> QED
  BY <1>2, <1>3, <1>4, <1>5, Steps

\* __mqtt_recv ("check if this is a duplicate"): however often the broker repeats a
\* QoS 2 message, whatever is late, sent in part, refused or lost with the
\* connection, the callback sees it once at most, and what was taken for a duplicate
\* had reached it; as long as no packet id of the broker comes back.
THEOREM ExactlyOnceSafe ==
  ASSUME "reuse" \notin Features
  PROVE  Spec => []ExactlyOnce
<1>1. Delivery => ExactlyOnce
  BY DEF Delivery
<1>2. Init => IInv /\ Delivery
  BY InitInv, InitDelivery
<1>3. IInv /\ Delivery /\ [Next]_vars => (IInv /\ Delivery)'
  BY StepInv, StepDelivery
<1> QED
  BY <1>1, <1>2, <1>3, PTL DEF Spec

-----------------------------------------------------------------------------
(* Counting the elements of a sequence that are in a set.                  *)

\* A count is a number; it is positive only when there is such an element.
LEMMA CountNat ==
  ASSUME NEW X, NEW s \in Seq(X), NEW S
  PROVE  /\ IsFiniteSet(Places(s, S)) /\ Count(s, S) \in Nat
         /\ Count(s, S) # 0 <=> \E k \in 1 .. Len(s) : s[k] \in S
<1>1. Len(s) \in Nat /\ Places(s, S) \in SUBSET (1 .. Len(s))
  BY DEF Places
<1>2. IsFiniteSet(1 .. Len(s))
  BY <1>1, FS_Interval
<1>3. IsFiniteSet(Places(s, S))
  BY <1>1, <1>2, FS_Subset
<1>4. Count(s, S) \in Nat /\ (Count(s, S) = 0 <=> Places(s, S) = {})
  BY <1>3, FS_CardinalityType, FS_EmptySet DEF Count
<1> QED
  BY <1>3, <1>4 DEF Places

\* Nothing is counted in what is empty.
LEMMA CountNone ==
  ASSUME NEW S
  PROVE  Count(<<>>, S) = 0
<1>1. Len(<<>>) = 0
  OBVIOUS
<1>2. Places(<<>>, S) = {}
  BY <1>1 DEF Places
<1> QED
  BY <1>2, FS_EmptySet DEF Count

\* r is what is left of s behind d elements, and more that is not counted.
LEMMA CountShift ==
  ASSUME NEW X, NEW s \in Seq(X), NEW r \in Seq(X), NEW S, NEW d \in 0 .. Len(s),
         Len(s) - d <= Len(r), \A j \in 1 .. Len(s) - d : r[j] = s[j + d],
         \A j \in 1 .. Len(r) : j > Len(s) - d => r[j] \notin S
  PROVE  Count(r, S) = Cardinality(Places(s, S) \ 1 .. d)
<1>1. Len(s) \in Nat /\ Len(r) \in Nat
  OBVIOUS
<1> DEFINE A == Places(r, S)
           B == Places(s, S) \ 1 .. d
           f == [k \in A |-> k + d]
<1>2. ASSUME NEW k \in A
      PROVE  k \in Nat /\ k + d \in B
  <2>1. k \in 1 .. Len(s) - d /\ r[k] \in S
    BY <1>1 DEF Places
  <2>2. k + d \in 1 .. Len(s) /\ k + d \notin 1 .. d /\ s[k + d] \in S
    BY <1>1, <2>1
  <2> QED
    BY <2>1, <2>2 DEF Places
<1>3. ASSUME NEW k \in B
      PROVE  k - d \in A /\ (k - d) + d = k
  <2>1. k \in 1 .. Len(s) /\ k \notin 1 .. d /\ s[k] \in S
    BY DEF Places
  <2>2. k - d \in 1 .. Len(s) - d /\ (k - d) + d = k
    BY <1>1, <2>1
  <2>3. r[k - d] \in S
    BY <2>1, <2>2
  <2> QED
    BY <1>1, <2>2, <2>3 DEF Places
<1>4. IsFiniteSet(A)
  BY CountNat
<1> HIDE DEF A, B
<1>5. f \in Bijection(A, B)
  <2>1. f \in [A -> B]
    BY <1>2
  <2>2. \A k \in A, l \in A : f[k] = f[l] => k = l
    BY <1>2
  <2>3. \A k \in B : \E l \in A : f[l] = k
    BY <1>3
  <2> QED
    BY <2>1, <2>2, <2>3 DEF Bijection, Injection, Surjection, IsInjective
<1>6. Cardinality(B) = Cardinality(A)
  BY <1>4, <1>5, FS_Bijection DEF ExistsBijection
<1> QED
  BY <1>6 DEF A, B, Count

\* The oldest element leaves.
LEMMA CountTail ==
  ASSUME NEW X, NEW s \in Seq(X), s # <<>>, NEW S
  PROVE  Count(s, S) = Count(Tail(s), S) + (IF s[1] \in S THEN 1 ELSE 0)
<1>1. PICK r \in Seq(X) : r = Tail(s)
  <2>1. Tail(s) \in Seq(X)
    OBVIOUS
  <2> QED
    BY <2>1
<1>2. Len(s) \in Nat \ {0} /\ Len(r) = Len(s) - 1 /\ \A j \in 1 .. Len(s) - 1 : r[j] = s[j + 1]
  BY <1>1, EmptySeq
<1>3. Count(r, S) = Cardinality(Places(s, S) \ 1 .. 1)
  <2>1. /\ 1 \in 0 .. Len(s) /\ Len(s) - 1 <= Len(r)
        /\ \A j \in 1 .. Len(r) : j > Len(s) - 1 => r[j] \notin S
    BY <1>2
  <2> QED
    BY <1>2, <2>1, CountShift
<1>4. 1 .. 1 = {1} /\ (1 \in Places(s, S) <=> s[1] \in S)
  BY <1>2 DEF Places
<1>5. Cardinality(Places(s, S) \ {1}) = Count(s, S) - (IF s[1] \in S THEN 1 ELSE 0)
  <2>1. IsFiniteSet(Places(s, S)) /\ Count(s, S) \in Nat
    BY CountNat
  <2>2. Cardinality(Places(s, S) \ {1})
          = IF 1 \in Places(s, S) THEN Count(s, S) - 1 ELSE Count(s, S)
    BY <2>1, FS_RemoveElement DEF Count
  <2> QED
    BY <1>4, <2>1, <2>2
<1>6. Count(s, S) \in Nat /\ Count(r, S) \in Nat
  BY CountNat
<1> QED
  BY <1>1, <1>3, <1>4, <1>5, <1>6

\* A new element comes.
LEMMA CountAppend ==
  ASSUME NEW X, NEW s \in Seq(X), NEW x \in X, NEW S
  PROVE  Count(Append(s, x), S) = Count(s, S) + (IF x \in S THEN 1 ELSE 0)
<1>1. PICK r \in Seq(X) : r = Append(s, x)
  <2>1. Append(s, x) \in Seq(X)
    OBVIOUS
  <2> QED
    BY <2>1
<1>2. /\ Len(s) \in Nat /\ Len(r) = Len(s) + 1 /\ r[Len(s) + 1] = x
      /\ \A j \in 1 .. Len(s) : r[j] = s[j]
  BY <1>1
<1>3. Len(s) + 1 \notin Places(s, S)
  BY <1>2 DEF Places
<1>4. Places(r, S) = IF x \in S THEN Places(s, S) \cup {Len(s) + 1} ELSE Places(s, S)
  <2>1. \A j \in 1 .. Len(r) : j = Len(s) + 1 \/ j \in 1 .. Len(s)
    BY <1>2
  <2>2. Len(s) + 1 \in 1 .. Len(r) /\ \A j \in 1 .. Len(s) : j \in 1 .. Len(r)
    BY <1>2
  <2> QED
    BY <1>2, <2>1, <2>2 DEF Places
<1>5. IsFiniteSet(Places(s, S)) /\ Count(s, S) \in Nat
  BY CountNat
<1>6. Cardinality(Places(s, S) \cup {Len(s) + 1}) = Count(s, S) + 1
  BY <1>3, <1>5, FS_AddElement DEF Count
<1>7. Count(r, S) = Count(s, S) + (IF x \in S THEN 1 ELSE 0)
  BY <1>4, <1>5, <1>6 DEF Count
<1> QED
  BY <1>1, <1>7

\* One element changes.
LEMMA CountChange ==
  ASSUME NEW X, NEW s \in Seq(X), NEW r \in Seq(X), Len(r) = Len(s), NEW a \in 1 .. Len(s),
         NEW S, \A j \in 1 .. Len(s) : j # a => r[j] = s[j]
  PROVE  Count(r, S) + (IF s[a] \in S THEN 1 ELSE 0)
           = Count(s, S) + (IF r[a] \in S THEN 1 ELSE 0)
<1> DEFINE P == Places(s, S) \ {a}
<1>1. /\ IsFiniteSet(Places(s, S)) /\ Count(s, S) \in Nat /\ Count(r, S) \in Nat
      /\ a \in Places(s, S) <=> s[a] \in S
  BY CountNat DEF Places
<1>2. IsFiniteSet(P) /\ Cardinality(P) = Count(s, S) - (IF s[a] \in S THEN 1 ELSE 0)
  <2>1. /\ IsFiniteSet(P)
        /\ Cardinality(P) = IF a \in Places(s, S) THEN Count(s, S) - 1 ELSE Count(s, S)
    BY <1>1, FS_RemoveElement DEF Count
  <2> QED
    BY <1>1, <2>1
<1>3. Places(r, S) = IF r[a] \in S THEN P \cup {a} ELSE P
  BY DEF Places
<1>4. a \notin P
  OBVIOUS
<1> HIDE DEF P
<1>5. Count(r, S) = Cardinality(P) + (IF r[a] \in S THEN 1 ELSE 0)
  <2>1. Cardinality(P) \in Nat
    BY <1>2, FS_CardinalityType
  <2>2. Cardinality(P \cup {a}) = Cardinality(P) + 1
    BY <1>2, <1>4, FS_AddElement
  <2> QED
    BY <1>3, <2>1, <2>2 DEF Count
<1> QED
  BY <1>1, <1>2, <1>5

\* No completed message and no unsent one is counted.
LEMMA CountPacked ==
  ASSUME NEW q \in Seq(QMsgs), NEW r, NEW m, NEW d, Packed(q, r, m, d), m.state = "UNSENT",
         NEW S, \A x \in S : x.state = "AWAITING_ACK"
  PROVE  Count(r, S) = Count(q, S)
<1>1. /\ d \in 0 .. Len(q) /\ r \in Seq(QMsgs) /\ Len(q) \in Nat
      /\ \A j \in 1 .. Len(q) - d : r[j] = q[j + d]
      /\ Len(r) = Len(q) - d \/ (Len(r) = Len(q) - d + 1 /\ r[Len(q) - d + 1] = m)
  BY DEF Packed
<1>2. Len(q) - d <= Len(r) /\ \A j \in 1 .. Len(r) : j > Len(q) - d => r[j] \notin S
  BY <1>1
<1>3. Count(r, S) = Cardinality(Places(q, S) \ 1 .. d)
  BY <1>1, <1>2, CountShift
<1>4. Places(q, S) \ 1 .. d = Places(q, S)
  BY DEF Places, Packed
<1> QED
  BY <1>3, <1>4 DEF Count

-----------------------------------------------------------------------------
(* Requests and their answers, step by step.                               *)

\* The bytes of a message are those of its type, id and QoS.
LEMMA BytesAre ==
  ASSUME NEW m \in Shaped
  PROVE  /\ Bytes(m) \in Sent /\ Bytes(m) \in Packets
         /\ Bytes(m) = [type |-> m.type, pid |-> m.pid, qos |-> m.qos,
                        msg |-> NULL, ok |-> TRUE]
<1>1. m \in QMsgs
  BY DEF Shaped
<1>2. Bytes(m) \in Packets
  BY <1>1, BytesType
<1>3. Bytes(m) = [type |-> m.type, pid |-> m.pid, qos |-> m.qos,
                  msg |-> NULL, ok |-> TRUE]
  <2>1. PICK p : p = Pkt(m.type, m.pid)
    OBVIOUS
  <2>2. p = [type |-> m.type, pid |-> m.pid, qos |-> 0, msg |-> NULL, ok |-> TRUE]
    BY <2>1, Zenon DEF Pkt
  <2>3. Bytes(m) = [p EXCEPT !.qos = m.qos]
    BY <2>1, Zenon DEF Bytes
  <2> QED
    BY <2>2, <2>3
<1> QED
  BY <1>2, <1>3 DEF Sent

\* The fields of a packet that the client sends.
LEMMA SentIs ==
  ASSUME NEW b \in Sent
  PROVE  /\ b \in Packets
         /\ b = [type |-> b.type, pid |-> b.pid, qos |-> b.qos, msg |-> NULL, ok |-> TRUE]
         /\ b.type # "PUBLISH" => b.qos = 0
         /\ b.pid = NULL <=> b.type \in {"CONNECT", "PINGREQ", "DISCONNECT"}
         /\ b.type \in Types /\ b.pid \in Ids /\ b.qos \in 0 .. 2
<1>1. PICK m \in Shaped : b = Bytes(m)
  BY DEF Sent
<1>2. /\ b \in Packets
      /\ b = [type |-> m.type, pid |-> m.pid, qos |-> m.qos, msg |-> NULL, ok |-> TRUE]
  BY <1>1, BytesAre
<1>3. b.type = m.type /\ b.pid = m.pid /\ b.qos = m.qos
  BY <1>2
<1> QED
  BY <1>2, <1>3 DEF Shaped, Packets

\* The requests, and what answers each of them.
LEMMA AskIs ==
  ASSUME NEW b \in Asks
  PROVE  /\ b \in Sent /\ b.type \in Tracked /\ b.type \in Requests
         /\ b.pid = NULL <=> b.type \in {"CONNECT", "PINGREQ"}
         /\ AnswerTo(b) # "PUBLISH"
         /\ AnswerTo(b) \in Answers \cup {"PUBACK", "PUBCOMP"} =>
              b.type = RequestOf(AnswerTo(b))
         /\ AnswerTo(b) = "PUBREC" => b.type = "PUBLISH" /\ b.qos = 2
         /\ AnswerTo(b) = "PUBREL" => b.type = "PUBREC" /\ "retry" \notin Features
         /\ b.type = "PUBLISH" => b.qos = IF AnswerTo(b) = "PUBACK" THEN 1 ELSE 2
<1>1. b \in Sent /\ b.type \in Tracked /\ b.type \in Requests /\ (b.type = "PUBLISH" => b.qos # 0)
  BY DEF Asks, Tracked
<1>2. /\ b.qos \in 0 .. 2
      /\ b.pid = NULL <=> b.type \in {"CONNECT", "PINGREQ", "DISCONNECT"}
  BY <1>1, SentIs
<1>3. \/ b.type = "CONNECT" /\ AnswerTo(b) = "CONNACK"
      \/ b.type = "SUBSCRIBE" /\ AnswerTo(b) = "SUBACK"
      \/ b.type = "UNSUBSCRIBE" /\ AnswerTo(b) = "UNSUBACK"
      \/ b.type = "PINGREQ" /\ AnswerTo(b) = "PINGRESP"
      \/ b.type = "PUBREC" /\ AnswerTo(b) = "PUBREL" /\ "retry" \notin Features
      \/ b.type = "PUBREL" /\ AnswerTo(b) = "PUBCOMP"
      \/ b.type = "PUBLISH" /\ b.qos = 1 /\ AnswerTo(b) = "PUBACK"
      \/ b.type = "PUBLISH" /\ b.qos = 2 /\ AnswerTo(b) = "PUBREC"
  BY <1>1, <1>2 DEF AnswerTo, Requests, Tracked
<1> QED
  BY <1>1, <1>2, <1>3 DEF RequestOf, Answers

\* A request is known by the type and the id of its answer.
LEMMA SameAsk ==
  ASSUME NEW b \in Asks, NEW c \in Asks, AnswerTo(b) = AnswerTo(c), b.pid = c.pid
  PROVE  b = c
<1>1. b \in Sent /\ c \in Sent /\ b.type \in Requests /\ c.type \in Requests
  BY AskIs
<1>2. b.type = c.type
  BY <1>1 DEF AnswerTo, Requests
<1>3. b.qos = c.qos
  <2>1. CASE b.type = "PUBLISH"
    BY <1>2, <2>1, AskIs
  <2>2. CASE b.type # "PUBLISH"
    BY <1>1, <1>2, <2>2, SentIs
  <2> QED
    BY <2>1, <2>2
<1>4. /\ b = [type |-> b.type, pid |-> b.pid, qos |-> b.qos, msg |-> NULL, ok |-> TRUE]
      /\ c = [type |-> c.type, pid |-> c.pid, qos |-> c.qos, msg |-> NULL, ok |-> TRUE]
  BY <1>1, SentIs
<1> QED
  BY <1>2, <1>3, <1>4

\* A message waits for the answer to its own bytes.
LEMMA WaitsAre ==
  ASSUME NEW m \in Shaped, NEW b
  PROVE  /\ m \in Waits(b) =>
              /\ m.state = "AWAITING_ACK" /\ Bytes(m) = b
              /\ m.type = b.type /\ m.pid = b.pid /\ m.qos = b.qos
         /\ b \in Sent /\ m.state = "AWAITING_ACK" /\ m.type = b.type /\ m.pid = b.pid
              /\ m.qos = b.qos => m \in Waits(b)
<1>1. Bytes(m) = [type |-> m.type, pid |-> m.pid, qos |-> m.qos, msg |-> NULL, ok |-> TRUE]
  BY BytesAre
<1>2. ASSUME b \in Sent
      PROVE  b = [type |-> b.type, pid |-> b.pid, qos |-> b.qos, msg |-> NULL, ok |-> TRUE]
  BY <1>2, SentIs
<1>3. m \in Waits(b) <=> m.state = "AWAITING_ACK" /\ Bytes(m) = b
  BY DEF Waits
<1>4. Bytes(m).type = m.type /\ Bytes(m).pid = m.pid /\ Bytes(m).qos = m.qos
  BY <1>1
<1>5. ASSUME b \in Sent, m.type = b.type, m.pid = b.pid, m.qos = b.qos
      PROVE  Bytes(m) = b
  BY <1>1, <1>2, <1>5
<1> QED
  BY <1>3, <1>4, <1>5

\* What a pack does to an orderly queue.
LEMMA PackOrderly ==
  ASSUME NEW q \in Seq(QMsgs), Orderly(q), NEW m \in Shaped, m.state = "UNSENT",
         NEW err, TryPack(q, err, m),
         m.type \in Requests \ {"PINGREQ"} =>
           \A j \in 1 .. Len(q) : ~(q[j].type = m.type /\ q[j].pid = m.pid)
  PROVE  /\ mq' \in Seq(QMsgs) /\ Orderly(mq')
         /\ \A b \in Asks : Count(mq', Waits(b)) = Count(q, Waits(b))
         /\ \A k \in 1 .. Len(mq') : mq'[k] = m \/ \E j \in 1 .. Len(q) : mq'[k] = q[j]
<1>1. m \in QMsgs
  BY DEF Shaped
<1>2. PICK d \in 0 .. Len(q) : Packed(q, mq', m, d)
  BY <1>1, PackIs
<1>3. PICK r : r = mq'
  OBVIOUS
<1>4. /\ Packed(q, r, m, d) /\ r \in Seq(QMsgs) /\ Len(q) \in Nat /\ Len(r) \in Nat
      /\ \A j \in 1 .. Len(q) - d : r[j] = q[j + d] /\ j + d \in 1 .. Len(q)
      /\ \A k \in 1 .. Len(r) :
           k \in 1 .. Len(q) - d \/ (k = Len(q) - d + 1 /\ r[k] = m)
  BY <1>2, <1>3 DEF Packed
<1>5. ASSUME NEW k \in 1 .. Len(r)
      PROVE  r[k] = m \/ \E j \in 1 .. Len(q) : r[k] = q[j]
  BY <1>4
<1>6. ASSUME NEW k \in 1 .. Len(r)
      PROVE  r[k] \in Shaped
  BY <1>4 DEF Orderly
<1>7. Single(r)
  <2> SUFFICES ASSUME NEW j \in 1 .. Len(r), NEW k \in 1 .. Len(r),
                      r[j].type \in Requests \ {"PINGREQ"},
                      r[j].type = r[k].type, r[j].pid = r[k].pid
               PROVE  j = k
    BY DEF Single
  <2>1. CASE j \in 1 .. Len(q) - d /\ k \in 1 .. Len(q) - d
    <3>1. /\ r[j] = q[j + d] /\ r[k] = q[k + d]
          /\ j + d \in 1 .. Len(q) /\ k + d \in 1 .. Len(q)
      BY <1>4, <2>1
    <3>2. j + d = k + d
      BY <3>1 DEF Orderly, Single
    <3> QED
      BY <2>1, <3>2
  <2>2. CASE j \in 1 .. Len(q) - d /\ k \notin 1 .. Len(q) - d
    BY <1>4, <2>2
  <2>3. CASE j \notin 1 .. Len(q) - d /\ k \in 1 .. Len(q) - d
    BY <1>4, <2>3
  <2>4. CASE j \notin 1 .. Len(q) - d /\ k \notin 1 .. Len(q) - d
    BY <1>4, <2>4
  <2> QED
    BY <2>1, <2>2, <2>3, <2>4
<1>8. InTurn(r)
  <2> SUFFICES ASSUME NEW j \in 1 .. Len(r), NEW k \in 1 .. Len(r), j < k,
                      r[j].state = "UNSENT", ~OpenQos2(r[j]), r[k].type \in Tracked \cup OneWay
               PROVE  r[k].state = "UNSENT"
    BY DEF InTurn
  <2>1. CASE k \in 1 .. Len(q) - d
    <3>1. /\ j \in 1 .. Len(q) - d /\ r[j] = q[j + d] /\ r[k] = q[k + d] /\ j + d < k + d
          /\ j + d \in 1 .. Len(q) /\ k + d \in 1 .. Len(q)
      BY <1>4, <2>1
    <3> QED
      BY <3>1 DEF Orderly, InTurn
  <2>2. CASE k \notin 1 .. Len(q) - d
    BY <1>4, <2>2
  <2> QED
    BY <2>1, <2>2
<1>9. ASSUME NEW b \in Asks
      PROVE  Count(r, Waits(b)) = Count(q, Waits(b))
  <2>1. \A x \in Waits(b) : x.state = "AWAITING_ACK"
    BY DEF Waits
  <2> QED
    BY <1>4, <2>1, CountPacked
<1> QED
  BY <1>3, <1>4, <1>5, <1>6, <1>7, <1>8, <1>9 DEF Orderly

\* The request that an answer is for was sent, and is the one that mqtt_mq_find
\* finds.
LEMMA AnswerFinds ==
  ASSUME Exchange, mq \in Seq(QMsgs), toBroker \in Seq(Packets), toClient \in Seq(Arrivals),
         1 \in 1 .. Len(toClient), NEW b \in Asks, toClient[1] \in Answering(b)
  PROVE  /\ Matches(mq, b.type, b.pid) # {}
         /\ \A r, c : Released(mq, r, b.type, b.pid, c) => mq[c] \in Waits(b)
<1>1. Len(mq) \in Nat /\ \A j \in 1 .. Len(mq) : mq[j] \in Shaped
  BY DEF Exchange, Orderly
<1>2. /\ Count(toBroker, {b}) + Count(toClient, Answering(b)) <= Count(mq, Waits(b))
      /\ Count(toBroker, {b}) \in Nat /\ Count(toClient, Answering(b)) \in Nat \ {0}
      /\ Count(mq, Waits(b)) \in Nat
  BY CountNat DEF Exchange, Answered
<1>3. Count(mq, Waits(b)) # 0
  BY <1>2
<1>4. PICK j \in 1 .. Len(mq) : mq[j] \in Waits(b)
  BY <1>3, CountNat
<1>5. /\ mq[j].state = "AWAITING_ACK" /\ mq[j].type = b.type /\ mq[j].pid = b.pid
      /\ mq[j].qos = b.qos
  BY <1>1, <1>4, WaitsAre
<1>6. j \in Matches(mq, b.type, b.pid)
  BY <1>5 DEF Matches
<1>7. ASSUME NEW r, NEW c, Released(mq, r, b.type, b.pid, c)
      PROVE  mq[c] \in Waits(b)
  <2>1. /\ c \in 1 .. Len(mq) /\ c <= j /\ mq[c].type = b.type
        /\ IF b.pid = NULL THEN mq[c].state # "COMPLETE" ELSE mq[c].pid = b.pid
    BY <1>6, <1>7 DEF Released, Matches
  <2>2. mq[c].pid = b.pid
    BY <1>1, <2>1, AskIs DEF Shaped
  <2>3. CASE b.type # "PINGREQ"
    <3>1. c = j
      BY <1>5, <2>1, <2>2, <2>3, AskIs DEF Exchange, Orderly, Single
    <3> QED
      BY <1>4, <3>1
  <2>4. CASE b.type = "PINGREQ"
    <3>1. b \in Sent /\ b.type \in Tracked /\ b.pid = NULL
      BY <2>4, AskIs
    <3>2. mq[c].qos = 0 /\ b.qos = 0
      BY <1>1, <2>1, <2>4, <3>1, SentIs DEF Shaped
    <3>3. mq[c].state # "UNSENT"
      <4>1. ~OpenQos2(mq[c])
        BY <2>1, <2>4 DEF OpenQos2
      <4>2. CASE c = j
        BY <1>5, <4>2
      <4>3. CASE c < j
        BY <1>5, <2>1, <3>1, <4>1, <4>3 DEF Exchange, Orderly, InTurn
      <4> QED
        BY <2>1, <4>2, <4>3
    <3>4. mq[c].state = "AWAITING_ACK"
      <4>1. mq[c].state \in {"UNSENT", "AWAITING_ACK", "COMPLETE"}
        BY <1>1, <2>1 DEF Shaped, QMsgs
      <4> QED
        BY <2>1, <3>1, <3>3, <4>1
    <3> QED
      BY <1>1, <2>1, <2>2, <3>1, <3>2, <3>4, WaitsAre
  <2> QED
    BY <2>3, <2>4
<1> QED
  BY <1>6, <1>7

\* What a release does to an orderly queue, when the message was sent.
LEMMA ReleaseOrderly ==
  ASSUME NEW q \in Seq(QMsgs), Orderly(q), NEW r, NEW type, NEW pid, NEW a \in 1 .. Len(q),
         Released(q, r, type, pid, a),
         type \in Tracked \cup OneWay => q[a].state # "UNSENT"
  PROVE  /\ Orderly(r) /\ r \in Seq(QMsgs) /\ Len(r) = Len(q)
         /\ \A k \in 1 .. Len(q) : r[k].type = q[k].type /\ r[k].pid = q[k].pid
         /\ \A b \in Asks : Count(r, Waits(b)) + (IF q[a] \in Waits(b) THEN 1 ELSE 0)
                              = Count(q, Waits(b))
<1>1. /\ r \in Seq(QMsgs) /\ Len(r) = Len(q) /\ Len(q) \in Nat /\ q[a].type = type
      /\ r[a] = [q[a] EXCEPT !.state = "COMPLETE"]
      /\ \A k \in 1 .. Len(q) : k # a => r[k] = q[k]
  <2>1. q[a].type = type
    BY DEF Released, Matches
  <2>2. /\ r \in Seq(QMsgs) /\ Len(r) = Len(q)
        /\ \A j \in 1 .. Len(q) :
             r[j] = IF j = a THEN [q[j] EXCEPT !.state = "COMPLETE"] ELSE q[j]
    BY DEF Released
  <2>3. r[a] = [q[a] EXCEPT !.state = "COMPLETE"]
    BY <2>2
  <2>4. Len(q) \in Nat
    OBVIOUS
  <2> QED
    BY <2>1, <2>2, <2>3, <2>4
<1>2. \A k \in 1 .. Len(q) : q[k] \in Shaped /\ q[k] \in QMsgs
  BY DEF Orderly
<1>3. /\ r[a] \in Shaped /\ r[a].state = "COMPLETE" /\ r[a].type = q[a].type
      /\ r[a].pid = q[a].pid
  <2>1. q[a] \in QMsgs /\ q[a] \in Shaped
    BY <1>2
  <2>2. r[a] \in QMsgs
    BY <1>1
  <2>3. /\ r[a].state = "COMPLETE" /\ r[a].type = q[a].type /\ r[a].pid = q[a].pid
        /\ r[a].qos = q[a].qos /\ r[a].late = q[a].late
    BY <1>1, <2>1 DEF QMsgs
  <2> QED
    BY <2>1, <2>2, <2>3 DEF Shaped
<1>4. \A k \in 1 .. Len(q) : r[k].type = q[k].type /\ r[k].pid = q[k].pid /\ r[k] \in Shaped
  BY <1>1, <1>2, <1>3
<1>5. Single(r)
  BY <1>1, <1>4 DEF Orderly, Single
<1>6. InTurn(r)
  <2> SUFFICES ASSUME NEW j \in 1 .. Len(q), NEW k \in 1 .. Len(q), j < k,
                      r[j].state = "UNSENT", ~OpenQos2(r[j]), r[k].type \in Tracked \cup OneWay
               PROVE  r[k].state = "UNSENT"
    BY <1>1 DEF InTurn
  <2>1. r[j] = q[j]
    BY <1>1, <1>3
  <2>2. q[k].state = "UNSENT"
    BY <1>4, <2>1 DEF Orderly, InTurn
  <2>3. k # a
    BY <1>1, <1>4, <2>2
  <2> QED
    BY <1>1, <2>2, <2>3
<1>7. ASSUME NEW b \in Asks
      PROVE  Count(r, Waits(b)) + (IF q[a] \in Waits(b) THEN 1 ELSE 0) = Count(q, Waits(b))
  <2>1. r[a] \notin Waits(b)
    BY <1>3 DEF Waits
  <2>2. Count(r, Waits(b)) + (IF q[a] \in Waits(b) THEN 1 ELSE 0)
          = Count(q, Waits(b)) + (IF r[a] \in Waits(b) THEN 1 ELSE 0)
    BY <1>1, CountChange
  <2>3. Count(q, Waits(b)) \in Nat
    BY CountNat
  <2> QED
    BY <2>1, <2>2, <2>3
<1> QED
  BY <1>1, <1>4, <1>5, <1>6, <1>7 DEF Orderly

\* The types that the proofs about the exchanges need.
Types3 ==
  /\ mq \in Seq(QMsgs) /\ toBroker \in Seq(Packets) /\ toClient \in Seq(Arrivals)
  /\ Control /\ Broker

\* Whatever arrives, other than a message of the broker and what it repeats, is an
\* answer.
LEMMA HeadAnswers ==
  ASSUME Exchange, 1 \in 1 .. Len(toClient), toClient[1].type # "PUBLISH",
         toClient[1].type = "PUBREL" => "retry" \notin Features
  PROVE  \E b \in Asks : /\ toClient[1] \in Answering(b) /\ AnswerTo(b) = toClient[1].type
                         /\ b.pid = toClient[1].pid
<1>1. Expected(toClient[1])
  BY DEF Exchange, BrokerIds
<1>2. PICK b \in Asks : toClient[1] \in Answering(b)
  BY <1>1 DEF Expected
<1> QED
  BY <1>2 DEF Answering

\* A packet is taken, and the request that it answers is released.
LEMMA TakenExchange ==
  ASSUME Exchange, Types3, toClient # <<>>, 1 \in 1 .. Len(toClient),
         NEW q,
         \/ q = mq
         \/ \E b \in Asks : toClient[1] \in Answering(b) /\ q = Release(mq, b.type, b.pid)
         \/ /\ "retry" \in Features /\ Matches(mq, "PUBREC", toClient[1].pid) # {}
            /\ q = Release(mq, "PUBREC", toClient[1].pid)
  PROVE  /\ q \in Seq(QMsgs) /\ Orderly(q) /\ Len(q) = Len(mq)
         /\ \A k \in 1 .. Len(mq) : q[k].type = mq[k].type /\ q[k].pid = mq[k].pid
         /\ \A b \in Asks :
              Count(toBroker, {b}) + Count(Tail(toClient), Answering(b)) <= Count(q, Waits(b))
<1>1. mq \in Seq(QMsgs) /\ Orderly(mq) /\ toBroker \in Seq(Packets) /\ toClient \in Seq(Arrivals)
  BY DEF Types3, Exchange
<1>2. Tail(toClient) \in Seq(Arrivals)
  BY <1>1, HeadTailProperties
<1>3. ASSUME NEW b \in Asks
      PROVE  /\ Count(toBroker, {b}) + Count(toClient, Answering(b)) <= Count(mq, Waits(b))
             /\ Count(toClient, Answering(b)) = Count(Tail(toClient), Answering(b))
                  + (IF toClient[1] \in Answering(b) THEN 1 ELSE 0)
             /\ Count(toBroker, {b}) \in Nat /\ Count(toClient, Answering(b)) \in Nat
             /\ Count(Tail(toClient), Answering(b)) \in Nat /\ Count(mq, Waits(b)) \in Nat
  BY <1>1, <1>2, CountNat, CountTail DEF Exchange, Answered
<1>4. CASE q = mq
  <2>1. ASSUME NEW b \in Asks
        PROVE  Count(toBroker, {b}) + Count(Tail(toClient), Answering(b)) <= Count(mq, Waits(b))
    BY <1>3
  <2> QED
    BY <1>1, <1>4, <2>1
<1>5. ASSUME NEW c \in Asks, toClient[1] \in Answering(c), q = Release(mq, c.type, c.pid)
      PROVE  /\ q \in Seq(QMsgs) /\ Orderly(q) /\ Len(q) = Len(mq)
             /\ \A k \in 1 .. Len(mq) : q[k].type = mq[k].type /\ q[k].pid = mq[k].pid
             /\ \A b \in Asks :
                  Count(toBroker, {b}) + Count(Tail(toClient), Answering(b)) <= Count(q, Waits(b))
  <2>1. Matches(mq, c.type, c.pid) # {}
    BY <1>1, <1>5, AnswerFinds
  <2>2. PICK a \in 1 .. Len(mq) : Released(mq, q, c.type, c.pid, a)
    BY <1>1, <1>5, <2>1, ReleaseIs
  <2>3. mq[a] \in Waits(c)
    BY <1>1, <1>5, <2>2, AnswerFinds
  <2>4. mq[a].state # "UNSENT" /\ mq[a] \in Shaped /\ Bytes(mq[a]) = c
    BY <2>3 DEF Waits
  <2>5. /\ Orderly(q) /\ q \in Seq(QMsgs) /\ Len(q) = Len(mq)
        /\ \A k \in 1 .. Len(mq) : q[k].type = mq[k].type /\ q[k].pid = mq[k].pid
        /\ \A b \in Asks : Count(q, Waits(b)) + (IF mq[a] \in Waits(b) THEN 1 ELSE 0)
                             = Count(mq, Waits(b))
    BY <1>1, <2>2, <2>4, ReleaseOrderly
  <2>6. ASSUME NEW b \in Asks
        PROVE  Count(toBroker, {b}) + Count(Tail(toClient), Answering(b)) <= Count(q, Waits(b))
    <3>1. Count(q, Waits(b)) \in Nat
      BY <2>5, CountNat
    <3>2. mq[a] \in Waits(b) => b = c
      BY <2>4 DEF Waits
    <3>3. CASE b = c
      BY <1>3, <1>5, <2>3, <2>5, <3>1, <3>3
    <3>4. CASE b # c
      BY <1>3, <2>5, <3>1, <3>2, <3>4
    <3> QED
      BY <3>3, <3>4
  <2> QED
    BY <2>5, <2>6
<1>6. CASE /\ "retry" \in Features /\ Matches(mq, "PUBREC", toClient[1].pid) # {}
           /\ q = Release(mq, "PUBREC", toClient[1].pid)
  <2>1. PICK a \in 1 .. Len(mq) : Released(mq, q, "PUBREC", toClient[1].pid, a)
    BY <1>1, <1>6, ReleaseIs
  <2>2. mq[a].type = "PUBREC" /\ mq[a] \in Shaped
    BY <1>1, <2>1 DEF Released, Matches, Orderly
  <2>3. "PUBREC" \notin Tracked \cup OneWay
    BY <1>6 DEF Tracked, OneWay
  <2>4. /\ Orderly(q) /\ q \in Seq(QMsgs) /\ Len(q) = Len(mq)
        /\ \A k \in 1 .. Len(mq) : q[k].type = mq[k].type /\ q[k].pid = mq[k].pid
        /\ \A b \in Asks : Count(q, Waits(b)) + (IF mq[a] \in Waits(b) THEN 1 ELSE 0)
                             = Count(mq, Waits(b))
    BY <1>1, <2>1, <2>3, ReleaseOrderly
  <2>5. ASSUME NEW b \in Asks
        PROVE  Count(toBroker, {b}) + Count(Tail(toClient), Answering(b)) <= Count(q, Waits(b))
    <3>1. Count(q, Waits(b)) \in Nat
      BY <2>4, CountNat
    <3>2. mq[a] \notin Waits(b)
      BY <2>2, <2>3, WaitsAre, AskIs
    <3> QED
      BY <1>3, <2>4, <3>1, <3>2
  <2> QED
    BY <2>4, <2>5
<1> QED
  BY <1>4, <1>5, <1>6

\* Behind a received packet: what is left of the request, and a reply perhaps.
LEMMA BehindExchange ==
  ASSUME Exchange, Types3, NEW type, Received(type), NEW q,
         \/ q = mq
         \/ \E b \in Asks : toClient[1] \in Answering(b) /\ q = Release(mq, b.type, b.pid)
         \/ /\ "retry" \in Features /\ Matches(mq, "PUBREC", toClient[1].pid) # {}
            /\ q = Release(mq, "PUBREC", toClient[1].pid),
         \/ mq' = q
         \/ \E m \in Shaped :
              /\ TryPack(q, error, m) /\ m.state = "UNSENT" /\ m.type # "UNSUBSCRIBE"
              /\ m.type \in Requests \ {"PINGREQ"} =>
                   \A j \in 1 .. Len(mq) : ~(mq[j].type = m.type /\ mq[j].pid = m.pid),
         sync' \in {"recv", "idle"}
  PROVE  Exchange'
<1>1. /\ toClient # <<>> /\ toClient' = Tail(toClient)
      /\ UNCHANGED <<toBroker, bst, bpid, user, upid>>
  BY DEF Received, brkVars, userVars
<1>2. /\ toClient \in Seq(Arrivals) /\ Len(toClient) \in Nat \ {0} /\ 1 \in 1 .. Len(toClient)
      /\ mq \in Seq(QMsgs)
  <2>1. toClient \in Seq(Arrivals) /\ Len(toClient) # 0 /\ mq \in Seq(QMsgs)
    BY <1>1, EmptySeq DEF Types3
  <2> QED
    BY <2>1
<1>3. /\ q \in Seq(QMsgs) /\ Orderly(q) /\ Len(q) = Len(mq)
      /\ \A k \in 1 .. Len(mq) : q[k].type = mq[k].type /\ q[k].pid = mq[k].pid
      /\ \A b \in Asks :
           Count(toBroker, {b}) + Count(Tail(toClient), Answering(b)) <= Count(q, Waits(b))
  BY <1>1, <1>2, TakenExchange
<1>4. /\ Orderly(mq')
      /\ \A b \in Asks : Count(mq', Waits(b)) = Count(q, Waits(b))
      /\ \A k \in 1 .. Len(mq') : mq'[k].type = "UNSUBSCRIBE" =>
           \E j \in 1 .. Len(mq) : mq[j].type = "UNSUBSCRIBE" /\ mq'[k].pid = mq[j].pid
  <2>1. CASE mq' = q
    BY <1>3, <2>1
  <2>2. ASSUME NEW m \in Shaped, TryPack(q, error, m), m.state = "UNSENT",
               m.type # "UNSUBSCRIBE",
               m.type \in Requests \ {"PINGREQ"} =>
                 \A j \in 1 .. Len(mq) : ~(mq[j].type = m.type /\ mq[j].pid = m.pid)
        PROVE  /\ Orderly(mq')
               /\ \A b \in Asks : Count(mq', Waits(b)) = Count(q, Waits(b))
               /\ \A k \in 1 .. Len(mq') : mq'[k] = m \/ \E j \in 1 .. Len(q) : mq'[k] = q[j]
    <3>1. m.type \in Requests \ {"PINGREQ"} =>
            \A j \in 1 .. Len(q) : ~(q[j].type = m.type /\ q[j].pid = m.pid)
      BY <1>3, <2>2
    <3> QED
      BY <1>3, <2>2, <3>1, PackOrderly
  <2> QED
    BY <1>3, <2>1, <2>2
<1>5. TurnSeen' /\ (sync' = "off" => mq' = <<>>)
  BY DEF TurnSeen
<1>6. BrokerIds'
  <2>1. PICK s : s = Tail(toClient)
    OBVIOUS
  <2>2. \A k \in 1 .. Len(s) : s[k] = toClient[k + 1] /\ k + 1 \in 1 .. Len(toClient)
    BY <1>2, <2>1
  <2>3. \A k \in 1 .. Len(s) : Expected(s[k])
    BY <2>2 DEF Exchange, BrokerIds
  <2> QED
    BY <1>1, <2>1, <2>3 DEF Exchange, BrokerIds
<1>7. UserId'
  BY <1>1, <1>4 DEF Exchange, UserId
<1>8. Answered'
  BY <1>1, <1>3, <1>4 DEF Answered
<1> QED
  BY <1>1, <1>4, <1>5, <1>6, <1>7, <1>8 DEF Exchange

\* A message that mqtt_mq_register makes for the client's own use.
LEMMA ShapedMsg ==
  ASSUME NEW type \in Requests \cup OneWay, NEW pid \in Ids,
         pid = NULL <=> type \in {"CONNECT", "PINGREQ", "DISCONNECT"}
  PROVE  /\ QMsg(type, pid, 0) \in Shaped /\ QMsg(type, pid, 0).state = "UNSENT"
         /\ QMsg(type, pid, 0).type = type /\ QMsg(type, pid, 0).pid = pid
<1>1. type \in Types
  BY DEF Types
<1>2. PICK m : m = QMsg(type, pid, 0)
  OBVIOUS
<1>3. /\ m \in QMsgs /\ m.type = type /\ m.pid = pid /\ m.qos = 0 /\ m.state = "UNSENT"
      /\ m.late = FALSE
  BY <1>1, <1>2, QMsg0Fields
<1> QED
  BY <1>2, <1>3 DEF Shaped

\* The queue after the request that a received packet answers is released, and what
\* is staged behind it.
Taken(q) ==
  \/ q = mq
  \/ \E b \in Asks : toClient[1] \in Answering(b) /\ q = Release(mq, b.type, b.pid)
  \/ /\ "retry" \in Features /\ Matches(mq, "PUBREC", toClient[1].pid) # {}
     /\ q = Release(mq, "PUBREC", toClient[1].pid)

Reply(m) ==
  /\ m \in Shaped /\ m.state = "UNSENT" /\ m.type \in {"PUBACK", "PUBREC", "PUBREL", "PUBCOMP"}
  /\ m.type \in {"PUBREC", "PUBREL"} =>
       \A j \in 1 .. Len(mq) : ~(mq[j].type = m.type /\ mq[j].pid = m.pid)
  /\ m.type = "PUBREL" =>
       \E b \in Asks : b.type = "PUBLISH" /\ b.qos = 2 /\ b.pid = m.pid /\ toClient[1] \in Answering(b)

Staged(q) == mq' = q \/ \E m : Reply(m) /\ TryPack(q, error, m)

\* What __mqtt_recv does with every packet.
LEMMA RecvIs ==
  ASSUME Exchange, Types3, RecvStep
  PROVE  \/ RecvNothing \/ RecvError
         \/ \E type, q : Received(type) /\ Taken(q) /\ Staged(q) /\ sync' \in {"recv", "idle"}
<1> DEFINE p == toClient[1]
           Goal == \E type, q : Received(type) /\ Taken(q) /\ Staged(q) /\ sync' \in {"recv", "idle"}
<1>1. ASSUME NEW type, Received(type)
      PROVE  /\ Head(toClient) = p /\ p.type = type /\ 1 \in 1 .. Len(toClient)
             /\ Expected(p) /\ p.pid \in Ids /\ p.qos \in 0 .. 2
  <2>1. toClient # <<>> /\ toClient \in Seq(Arrivals) /\ Head(toClient).type = type
    BY <1>1 DEF Received, Types3
  <2>2. Len(toClient) \in Nat /\ Len(toClient) # 0
    BY <2>1, EmptySeq
  <2>3. Head(toClient) = p /\ 1 \in 1 .. Len(toClient) /\ p \in Arrivals
    BY <2>1, <2>2
  <2>4. p \in Packets
    BY <2>3 DEF Arrivals
  <2> QED
    BY <2>1, <2>3, <2>4 DEF Packets, Exchange, BrokerIds
<1>2. ASSUME NEW t \in Answers \cup {"PUBACK", "PUBCOMP"}, RecvAck(t)
      PROVE  Goal
  <2>1. /\ Received(t) /\ sync' \in {"recv", "idle"}
        /\ mq' = mq \/ mq' = Release(mq, RequestOf(t), p.pid)
    BY <1>1, <1>2 DEF RecvAck, UnknownAck
  <2>2. p.type = t /\ t # "PUBLISH" /\ t # "PUBREL" /\ 1 \in 1 .. Len(toClient)
    BY <1>1, <2>1 DEF Answers
  <2>3. PICK b \in Asks : p \in Answering(b) /\ AnswerTo(b) = t /\ b.pid = p.pid
    BY <2>2, HeadAnswers
  <2>4. RequestOf(t) = b.type
    BY <2>3, AskIs
  <2> HIDE DEF p
  <2>5. mq' = mq \/ mq' = Release(mq, b.type, b.pid)
    BY <2>1, <2>3, <2>4
  <2>6. Taken(mq')
    BY <2>3, <2>5 DEF Taken, p
  <2> QED
    BY <2>1, <2>6 DEF Staged
<1>3. ASSUME RecvPublish
      PROVE  Goal
  <2>1. Received("PUBLISH") /\ sync' \in {"recv", "idle"}
    BY <1>3 DEF RecvPublish
  <2>2. /\ Head(toClient) = p /\ p.type = "PUBLISH" /\ Expected(p)
        /\ p.pid \in Ids /\ p.qos \in 0 .. 2
    BY <1>1, <2>1
  <2>3. p.qos # 0 => p.pid # NULL
    BY <2>2, AskIs DEF Expected, Answering
  <2> DEFINE type == IF p.qos = 1 THEN "PUBACK" ELSE "PUBREC"
             m == QMsg(type, p.pid, 0)
  <2>4. \/ mq' = mq
        \/ /\ p.qos # 0 /\ (p.qos = 2 => Matches(mq, "PUBREC", p.pid) = {})
           /\ TryPack(mq, error, m)
    BY <1>3, <2>2 DEF RecvPublish
  <2>5. CASE p.qos # 0 /\ (p.qos = 2 => Matches(mq, "PUBREC", p.pid) = {})
             /\ TryPack(mq, error, m)
    <3>1. type \in Requests \cup OneWay /\ type \in {"PUBACK", "PUBREC"}
      BY DEF Requests, OneWay
    <3>2. type = "PUBREC" => p.qos = 2
      BY <2>2, <2>5
    <3> HIDE DEF p, type
    <3>3. /\ m \in Shaped /\ m.state = "UNSENT" /\ m.type = type /\ m.pid = p.pid
      BY <2>2, <2>3, <2>5, <3>1, ShapedMsg
    <3> HIDE DEF m
    <3>4. ASSUME type = "PUBREC", NEW j \in 1 .. Len(mq), mq[j].type = m.type, mq[j].pid = m.pid
          PROVE  FALSE
      <4>1. j \in Matches(mq, "PUBREC", p.pid)
        BY <2>3, <2>5, <3>3, <3>4 DEF Matches, Types3
      <4> QED
        BY <2>5, <3>2, <3>4, <4>1
    <3>5. Reply(m)
      BY <3>1, <3>3, <3>4 DEF Reply
    <3> QED
      BY <2>1, <2>5, <3>5 DEF Staged, Taken
  <2>6. CASE mq' = mq
    BY <2>1, <2>6 DEF Staged, Taken
  <2> QED
    BY <2>4, <2>5, <2>6
<1>4. ASSUME RecvStage("PUBREC", "PUBLISH", "PUBREL")
      PROVE  Goal
  <2>1. Received("PUBREC") /\ sync' \in {"recv", "idle"}
    BY <1>4 DEF RecvStage, UnknownAck
  <2>2. Head(toClient) = p /\ p.type = "PUBREC" /\ p.pid \in Ids /\ 1 \in 1 .. Len(toClient)
    BY <1>1, <2>1
  <2>3. PICK b \in Asks : p \in Answering(b) /\ AnswerTo(b) = "PUBREC" /\ b.pid = p.pid
    BY <2>2, HeadAnswers
  <2>4. b.type = "PUBLISH" /\ b.qos = 2 /\ b.pid # NULL
    BY <2>3, AskIs
  <2> DEFINE m == QMsg("PUBREL", p.pid, 0)
  <2>5. \/ mq' = mq
        \/ /\ Matches(mq, "PUBREL", p.pid) = {}
           /\ TryPack(Release(mq, "PUBLISH", p.pid), error, m)
    BY <1>4, <2>2 DEF RecvStage, UnknownAck
  <2>6. CASE Matches(mq, "PUBREL", p.pid) = {}
             /\ TryPack(Release(mq, "PUBLISH", p.pid), error, m)
    <3>1. "PUBREL" \in Requests \cup OneWay
      BY DEF Requests
    <3> HIDE DEF p
    <3>2. /\ m \in Shaped /\ m.state = "UNSENT" /\ m.type = "PUBREL" /\ m.pid = p.pid
      BY <2>2, <2>3, <2>4, <3>1, ShapedMsg
    <3> HIDE DEF m
    <3>3. \A j \in 1 .. Len(mq) : ~(mq[j].type = m.type /\ mq[j].pid = m.pid)
      BY <2>3, <2>4, <2>6, <3>2 DEF Matches, Types3
    <3>4. Reply(m)
      BY <2>3, <2>4, <3>2, <3>3 DEF Reply, p
    <3>5. PICK q : q = Release(mq, "PUBLISH", p.pid)
      OBVIOUS
    <3>6. Taken(q) /\ Staged(q)
      BY <2>3, <2>4, <2>6, <3>4, <3>5 DEF Taken, Staged, p
    <3> QED
      BY <2>1, <3>6
  <2>7. CASE mq' = mq
    BY <2>1, <2>7 DEF Taken, Staged
  <2> QED
    BY <2>5, <2>6, <2>7
<1>5. ASSUME RecvStage("PUBREL", "PUBREC", "PUBCOMP")
      PROVE  Goal
  <2>1. Received("PUBREL") /\ sync' \in {"recv", "idle"}
    BY <1>5 DEF RecvStage, UnknownAck
  <2>2. /\ Head(toClient) = p /\ p.type = "PUBREL" /\ p.pid \in Ids /\ 1 \in 1 .. Len(toClient)
        /\ Expected(p)
    BY <1>1, <2>1
  <2>3. p.pid # NULL /\ \/ "retry" \in Features
                        \/ \E b \in Asks : p \in Answering(b) /\ b.type = "PUBREC" /\ b.pid = p.pid
    <3>1. CASE "retry" \in Features /\ p.pid # NULL
      BY <3>1
    <3>2. ASSUME NEW b \in Asks, p \in Answering(b)
          PROVE  b.type = "PUBREC" /\ b.pid = p.pid /\ p.pid # NULL
      BY <2>2, <3>2, AskIs DEF Answering
    <3> QED
      BY <2>2, <3>1, <3>2 DEF Expected
  <2> DEFINE m == QMsg("PUBCOMP", p.pid, 0)
  <2>4. \/ mq' = mq
        \/ Matches(mq, "PUBREC", p.pid) # {} /\ TryPack(Release(mq, "PUBREC", p.pid), error, m)
    BY <1>5, <2>2 DEF RecvStage, UnknownAck
  <2>5. CASE Matches(mq, "PUBREC", p.pid) # {}
             /\ TryPack(Release(mq, "PUBREC", p.pid), error, m)
    <3>1. "PUBCOMP" \in Requests \cup OneWay
      BY DEF OneWay
    <3> HIDE DEF p
    <3>2. /\ m \in Shaped /\ m.state = "UNSENT" /\ m.type = "PUBCOMP"
      BY <2>2, <2>3, <3>1, ShapedMsg
    <3> HIDE DEF m
    <3>3. Reply(m)
      BY <3>2 DEF Reply
    <3>4. PICK q : q = Release(mq, "PUBREC", p.pid)
      OBVIOUS
    <3>5. \/ \E b \in Asks : p \in Answering(b) /\ q = Release(mq, b.type, b.pid)
          \/ "retry" \in Features /\ Matches(mq, "PUBREC", p.pid) # {}
      BY <2>3, <2>5, <3>4
    <3>6. Taken(q) /\ Staged(q)
      BY <2>5, <3>3, <3>4, <3>5 DEF Taken, Staged, p
    <3> QED
      BY <2>1, <3>6
  <2>6. CASE mq' = mq
    BY <2>1, <2>6 DEF Taken, Staged
  <2> QED
    BY <2>4, <2>5, <2>6
<1> QED
  BY <1>2, <1>3, <1>4, <1>5 DEF RecvStep

\* Every packet that is received.
LEMMA RecvExchange ==
  ASSUME Exchange, Types3, RecvStep
  PROVE  Exchange'
<1>1. CASE RecvNothing \/ RecvError
  <2>1. UNCHANGED <<mq, toBroker, toClient, bst, bpid, user, upid>> /\ sync' \in {"mid", "idle"}
    BY <1>1 DEF RecvNothing, RecvError, cliVars, netVars, brkVars, userVars
  <2>2. TurnSeen'
    BY <2>1 DEF TurnSeen
  <2> QED
    BY <2>1, <2>2 DEF Exchange, BrokerIds, UserId, Answered
<1>2. ASSUME NEW type, NEW q, Received(type), Taken(q), Staged(q), sync' \in {"recv", "idle"}
      PROVE  Exchange'
  <2>1. ASSUME NEW m, Reply(m)
        PROVE  /\ m \in Shaped /\ m.state = "UNSENT" /\ m.type # "UNSUBSCRIBE"
               /\ m.type \in Requests \ {"PINGREQ"} =>
                    \A j \in 1 .. Len(mq) : ~(mq[j].type = m.type /\ mq[j].pid = m.pid)
    <3>1. m.type \in Requests => m.type \in {"PUBREC", "PUBREL"}
      BY <2>1 DEF Reply, Requests
    <3> QED
      BY <2>1, <3>1 DEF Reply
  <2>2. \/ mq' = q
        \/ \E m \in Shaped :
             /\ TryPack(q, error, m) /\ m.state = "UNSENT" /\ m.type # "UNSUBSCRIBE"
             /\ m.type \in Requests \ {"PINGREQ"} =>
                  \A j \in 1 .. Len(mq) : ~(mq[j].type = m.type /\ mq[j].pid = m.pid)
    BY <1>2, <2>1 DEF Staged
  <2> QED
    BY <1>2, <2>2, BehindExchange DEF Taken
<1> QED
  BY <1>1, <1>2, RecvIs

\* A step that leaves the queue and the wire.
LEMMA SameExchange ==
  ASSUME Exchange, UNCHANGED <<mq, toBroker, toClient, bst, bpid>>, TurnSeen', UserId',
         sync' = "off" => sync = "off"
  PROVE  Exchange'
  BY DEF Exchange, BrokerIds, Answered

\* A step that packs a message and leaves the wire.
LEMMA PackExchange ==
  ASSUME Exchange, Types3, NEW m \in Shaped, m.state = "UNSENT", NEW err, TryPack(mq, err, m),
         m.type \in Requests \ {"PINGREQ"} =>
           \A j \in 1 .. Len(mq) : ~(mq[j].type = m.type /\ mq[j].pid = m.pid),
         UNCHANGED <<toBroker, toClient, bst, bpid>>, sync' \notin {"off", "send"},
         user' = "unsub" => user = "unsub" /\ upid' = upid /\ m.type # "UNSUBSCRIBE"
  PROVE  Exchange'
<1>1. mq \in Seq(QMsgs) /\ Orderly(mq)
  BY DEF Types3, Exchange
<1>2. /\ mq' \in Seq(QMsgs) /\ Orderly(mq')
      /\ \A b \in Asks : Count(mq', Waits(b)) = Count(mq, Waits(b))
      /\ \A k \in 1 .. Len(mq') : mq'[k] = m \/ \E j \in 1 .. Len(mq) : mq'[k] = mq[j]
  BY <1>1, PackOrderly
<1>3. TurnSeen'
  BY DEF TurnSeen
<1>4. UserId'
  BY <1>2 DEF Exchange, UserId
<1>5. Answered'
  BY <1>2 DEF Exchange, Answered
<1> QED
  BY <1>2, <1>3, <1>4, <1>5 DEF Exchange, BrokerIds

\* The message of an API call has an id that no other message of the queue has.
LEMMA ApiMadeShaped ==
  ASSUME mq \in Seq(QMsgs), NEW m \in ApiMade
  PROVE  /\ m \in Shaped /\ m.state = "UNSENT" /\ m.type # "UNSUBSCRIBE"
         /\ m.type \in Requests \ {"PINGREQ"} => \A j \in 1 .. Len(mq) : mq[j].pid # m.pid
<1>1. ASSUME NEW p \in FreePids, NEW type \in {"PUBLISH", "SUBSCRIBE"}, NEW qos \in 0 .. 2,
             type = "PUBLISH" \/ qos = 0, m = QMsg(type, p, qos)
      PROVE  /\ m \in Shaped /\ m.state = "UNSENT" /\ m.type # "UNSUBSCRIBE"
             /\ \A j \in 1 .. Len(mq) : mq[j].pid # m.pid
  <2>1. p \in Pids /\ p \in Ids /\ p # NULL /\ \A j \in 1 .. Len(mq) : mq[j].pid # p
    BY IdAssumption DEF FreePids, Ids
  <2>2. type \in Types /\ type \in Requests \cup OneWay
    BY DEF Types, Requests
  <2>3. /\ m \in QMsgs /\ m.type = type /\ m.pid = p /\ m.qos = qos /\ m.state = "UNSENT"
        /\ m.late = FALSE
    <3>1. m = [type |-> type, pid |-> p, qos |-> qos, state |-> "UNSENT", late |-> FALSE]
      BY <1>1 DEF QMsg
    <3> QED
      BY <2>1, <2>2, <3>1 DEF QMsgs
  <2> QED
    BY <1>1, <2>1, <2>2, <2>3 DEF Shaped
<1>2. ASSUME NEW type \in {"PINGREQ", "DISCONNECT"}, m = QMsg(type, NULL, 0)
      PROVE  /\ m \in Shaped /\ m.state = "UNSENT" /\ m.type # "UNSUBSCRIBE"
             /\ m.type \notin Requests \ {"PINGREQ"}
  <2>1. type \in Requests \cup OneWay /\ NULL \in Ids /\ type \notin Requests \ {"PINGREQ"}
    BY DEF Requests, OneWay, Ids
  <2> QED
    BY <1>2, <2>1, ShapedMsg
<1>3. \/ \E p \in FreePids, qos \in 0 .. 2 : m = QMsg("PUBLISH", p, qos)
      \/ \E p \in FreePids : m = QMsg("SUBSCRIBE", p, 0)
      \/ m = QMsg("PINGREQ", NULL, 0) \/ m = QMsg("DISCONNECT", NULL, 0)
  BY DEF ApiMade
<1>4. ASSUME NEW p \in FreePids, m = QMsg("SUBSCRIBE", p, 0)
      PROVE  /\ m \in Shaped /\ m.state = "UNSENT" /\ m.type # "UNSUBSCRIBE"
             /\ \A j \in 1 .. Len(mq) : mq[j].pid # m.pid
  <2>1. 0 \in 0 .. 2
    OBVIOUS
  <2> QED
    BY <1>1, <1>4, <2>1
<1> QED
  BY <1>1, <1>2, <1>3, <1>4

\* mqtt_connect, the other API calls, and the ends of mqtt_sync.
LEMMA LocalExchange ==
  ASSUME Exchange, Types3, "timeout" \notin Features,
         \/ mqtt_connect \/ ApiStep \/ FallQuiet \/ SyncStart \/ ReconnectFails \/ SyncEndLocked
         \/ (\E j \in DOMAIN mq : Expire(j)) \/ UNCHANGED vars
  PROVE  Exchange'
<1>1. UNCHANGED <<toBroker, toClient, bst, bpid>>
  BY WireFrame
<1>2. ASSUME mqtt_connect
      PROVE  Exchange'
  <2>1. sync = "off" /\ sync' = "idle" /\ mq = <<>> /\ UNCHANGED <<user, upid>>
    BY <1>2 DEF mqtt_connect, Exchange, userVars
  <2>2. "CONNECT" \in Requests \cup OneWay /\ NULL \in Ids
    BY DEF Requests, Ids
  <2>3. PICK m \in Shaped : m = QMsg("CONNECT", NULL, 0) /\ m.state = "UNSENT" /\ m.type = "CONNECT"
    BY <2>2, ShapedMsg
  <2>4. TryPack(mq, "OK", m)
    BY <1>2, <2>3 DEF mqtt_connect
  <2>5. \A j \in 1 .. Len(mq) : ~(mq[j].type = m.type /\ mq[j].pid = m.pid)
    BY <2>1
  <2> QED
    BY <1>1, <2>1, <2>3, <2>4, <2>5, PackExchange
<1>3. ASSUME ApiStep
      PROVE  Exchange'
  <2>1. UNCHANGED <<sync, i>>
    BY <1>3, ApiSteps DEF syncVars
  <2>2. ASSUME mq' = mq, sync # "off", user' = "unsub", upid' \in FreePids
        PROVE  Exchange'
    <3>1. UserId'
      BY <2>2, IdAssumption DEF UserId, FreePids, Types3
    <3>2. TurnSeen'
      BY <2>1, <2>2 DEF Exchange, TurnSeen
    <3> QED
      BY <1>1, <2>1, <2>2, <3>1, <3>2, SameExchange
  <2>3. ASSUME UNCHANGED <<mq, upid>>, user' = "idle"
        PROVE  Exchange'
    <3>1. UserId' /\ TurnSeen'
      BY <2>1, <2>3 DEF UserId, Exchange, TurnSeen
    <3> QED
      BY <1>1, <2>1, <2>3, <3>1, SameExchange
  <2>4. ASSUME Unlocked, user = "unsub", user' = "idle",
               TryPack(mq, error, QMsg("UNSUBSCRIBE", upid, 0))
        PROVE  Exchange'
    <3>1. /\ upid \in Ids /\ upid # NULL /\ "UNSUBSCRIBE" \in Requests \cup OneWay
          /\ \A j \in 1 .. Len(mq) : mq[j].type = "UNSUBSCRIBE" => mq[j].pid # upid
      BY <2>4 DEF Exchange, UserId, Types3, Control, Ids, Requests
    <3>2. PICK m \in Shaped :
            /\ m = QMsg("UNSUBSCRIBE", upid, 0) /\ m.state = "UNSENT"
            /\ m.type = "UNSUBSCRIBE" /\ m.pid = upid
      BY <3>1, ShapedMsg
    <3>3. TryPack(mq, error, m) /\ \A j \in 1 .. Len(mq) : ~(mq[j].type = m.type /\ mq[j].pid = m.pid)
      BY <2>4, <3>1, <3>2
    <3>4. sync' \notin {"off", "send"}
      BY <2>1, <2>4 DEF Unlocked
    <3> QED
      BY <1>1, <2>4, <3>2, <3>3, <3>4, PackExchange
  <2>5. ASSUME Unlocked, user' = "unsub" => user = "unsub", UNCHANGED upid,
               NEW m \in ApiMade, TryPack(mq, error, m)
        PROVE  Exchange'
    <3>1. /\ m \in Shaped /\ m.state = "UNSENT" /\ m.type # "UNSUBSCRIBE"
          /\ m.type \in Requests \ {"PINGREQ"} =>
               \A j \in 1 .. Len(mq) : ~(mq[j].type = m.type /\ mq[j].pid = m.pid)
      BY ApiMadeShaped DEF Types3
    <3>2. sync' \notin {"off", "send"}
      BY <2>1, <2>5 DEF Unlocked
    <3> QED
      BY <1>1, <2>5, <3>1, <3>2, PackExchange
  <2> QED
    BY <1>3, <2>2, <2>3, <2>4, <2>5, ApiSteps
<1>4. ASSUME FallQuiet \/ SyncStart \/ ReconnectFails \/ SyncEndLocked \/ UNCHANGED vars
      PROVE  Exchange'
  <2>1. /\ UNCHANGED <<mq, user, upid, i>> /\ sync' \in {sync, "begun", "locked"}
    BY <1>4 DEF FallQuiet, SyncStart, ReconnectFails, SyncEndLocked, vars, cliVars, syncVars, userVars
  <2>2. TurnSeen' /\ UserId'
    BY <2>1 DEF Exchange, TurnSeen, UserId
  <2> QED
    BY <1>1, <2>1, <2>2, SameExchange
<1> QED
  BY <1>2, <1>3, <1>4 DEF Expire

\* Without timeouts only what is unsent is sent.
LEMMA SendsUnsent ==
  ASSUME Exchange, Types3, Sending, MustSend(mq[i])
  PROVE  /\ i \in 1 .. Len(mq) /\ mq[i] \in Shaped /\ mq[i].state = "UNSENT"
         /\ Offset(mq[i]) = send_offset /\ ~(OpenQos2(mq[i]) /\ inflight_qos2)
<1>1. i \in Nat \ {0} /\ i <= Len(mq) /\ Len(mq) \in Nat
  BY BoundsAssumption DEF Types3, Control, Sending
<1>2. i \in 1 .. Len(mq)
  BY <1>1
<1>3. mq[i] \in Shaped /\ ~TimedOut(mq[i])
  BY <1>2 DEF Exchange, Orderly, Shaped, TimedOut
<1> QED
  BY <1>2, <1>3 DEF MustSend, Offset

\* The whole of a message is sent: from now on it waits for its answer.
LEMMA SendWholeExchange ==
  ASSUME Exchange, Types3, SendWhole
  PROVE  Exchange'
<1> DEFINE m == mq[i]
<1>1. /\ i \in 1 .. Len(mq) /\ m \in Shaped /\ m.state = "UNSENT"
      /\ Offset(m) = send_offset
  BY SendsUnsent DEF SendWhole
<1>2. /\ UNCHANGED <<toClient, bst, bpid, user, upid, sync>> /\ i' = i + 1 /\ sync = "send"
      /\ toBroker' = Append(toBroker, Bytes(m))
  <2>1. UNCHANGED <<toClient, bst, bpid, user, upid, sync>> /\ i' = i + 1 /\ sync = "send"
    BY DEF SendWhole, Write, userVars, brkVars, Sending
  <2>2. send_offset + (ChunkLen - send_offset) = ChunkLen
    BY BoundsAssumption DEF Types3, Control
  <2>3. Write(m, Offset(m), ChunkLen - Offset(m))
    BY DEF SendWhole
  <2>4. toBroker' = Append(toBroker, Bytes(m))
    BY <1>1, <2>2, <2>3 DEF Write
  <2> QED
    BY <2>1, <2>4
<1>3. /\ mq' \in Seq(QMsgs) /\ Len(mq') = Len(mq) /\ mq \in Seq(QMsgs)
      /\ \A j \in 1 .. Len(mq) : j # i => mq'[j] = mq[j]
      /\ mq'[i] = [m EXCEPT !.state = SentState(m), !.late = FALSE]
  <2>1. i \in Nat \ {0} /\ mq \in Seq(QMsgs)
    BY BoundsAssumption DEF Types3, Control
  <2> QED
    BY <2>1, SendWholeIs
<1>4. PICK r : r = mq'
  OBVIOUS
<1> HIDE DEF m
<1>5. /\ r[i] \in Shaped /\ r[i].type = m.type /\ r[i].pid = m.pid /\ r[i].qos = m.qos
      /\ r[i].state = SentState(m)
  <2>1. m \in QMsgs /\ r[i] \in QMsgs
    BY <1>1, <1>3, <1>4 DEF Shaped
  <2>2. /\ r[i].type = m.type /\ r[i].pid = m.pid /\ r[i].qos = m.qos
        /\ r[i].state = SentState(m) /\ r[i].late = FALSE
    BY <1>3, <1>4, <2>1 DEF QMsgs
  <2> QED
    BY <1>1, <2>1, <2>2 DEF Shaped
<1>6. SentState(m) # "UNSENT"
  BY DEF SentState
<1>7. \A j \in 1 .. Len(mq) : r[j] \in Shaped /\ r[j].type = mq[j].type /\ r[j].pid = mq[j].pid
  BY <1>3, <1>4, <1>5 DEF Exchange, Orderly, m
<1>8. Single(r)
  BY <1>3, <1>4, <1>7 DEF Exchange, Orderly, Single
<1>9. InTurn(r)
  <2> SUFFICES ASSUME NEW j \in 1 .. Len(mq), NEW k \in 1 .. Len(mq), j < k,
                      r[j].state = "UNSENT", ~OpenQos2(r[j]), r[k].type \in Tracked \cup OneWay
               PROVE  r[k].state = "UNSENT"
    BY <1>3, <1>4 DEF InTurn
  <2>1. r[j] = mq[j]
    BY <1>3, <1>4, <1>5, <1>6
  <2>2. k # i
    BY <1>1, <1>2, <2>1 DEF Exchange, TurnSeen
  <2> QED
    BY <1>3, <1>4, <2>1, <2>2 DEF Exchange, Orderly, InTurn
<1>10. TurnSeen'
  <2> SUFFICES ASSUME NEW j \in 1 .. Len(mq), j < i + 1, r[j].state = "UNSENT"
               PROVE  OpenQos2(r[j])
    BY <1>2, <1>3, <1>4 DEF TurnSeen
  <2>1. j # i /\ r[j] = mq[j]
    BY <1>3, <1>4, <1>5, <1>6
  <2>2. j < i
    BY <1>1, <2>1
  <2> QED
    BY <1>1, <1>2, <2>1, <2>2 DEF Exchange, TurnSeen
<1>11. Bytes(m) \in Sent /\ Bytes(m) \in Packets
  BY <1>1, BytesAre
<1>12. \A k \in 1 .. Len(toBroker') : toBroker'[k] \in Sent
  BY <1>2, <1>11 DEF Exchange, Types3
<1>13. ASSUME NEW b \in Asks
       PROVE  Count(toBroker', {b}) + Count(toClient, Answering(b)) <= Count(r, Waits(b))
  <2>1. /\ Count(toBroker, {b}) + Count(toClient, Answering(b)) <= Count(mq, Waits(b))
        /\ Count(toBroker, {b}) \in Nat /\ Count(toClient, Answering(b)) \in Nat
        /\ Count(mq, Waits(b)) \in Nat /\ Count(r, Waits(b)) \in Nat
    BY <1>3, <1>4, CountNat DEF Exchange, Answered, Types3
  <2>2. Count(toBroker', {b}) = Count(toBroker, {b}) + (IF Bytes(m) = b THEN 1 ELSE 0)
    <3>1. toBroker \in Seq(Packets)
      BY DEF Types3
    <3>2. Bytes(m) \in {b} <=> Bytes(m) = b
      OBVIOUS
    <3> QED
      BY <1>2, <1>11, <3>1, <3>2, CountAppend
  <2>3. m \notin Waits(b)
    BY <1>1 DEF Waits
  <2>4. Bytes(m) = b => r[i] \in Waits(b)
    <3> SUFFICES ASSUME Bytes(m) = b
                 PROVE  r[i] \in Waits(b)
      OBVIOUS
    <3>1. m.type = b.type /\ m.pid = b.pid /\ m.qos = b.qos /\ b \in Sent
      BY <1>1, <1>11, BytesAre
    <3>2. SentState(m) = "AWAITING_ACK"
      BY <3>1 DEF SentState, Asks, Tracked, Requests, OneWay
    <3> QED
      BY <1>5, <3>1, <3>2, WaitsAre
  <2>5. Count(r, Waits(b)) + (IF m \in Waits(b) THEN 1 ELSE 0)
          = Count(mq, Waits(b)) + (IF r[i] \in Waits(b) THEN 1 ELSE 0)
    BY <1>1, <1>3, <1>4, CountChange DEF m
  <2> QED
    BY <2>1, <2>2, <2>3, <2>4, <2>5
<1>14. Orderly(mq')
  BY <1>3, <1>4, <1>7, <1>8, <1>9 DEF Orderly
<1>15. UserId'
  BY <1>2, <1>3, <1>4, <1>7 DEF Exchange, UserId
<1>16. Answered' /\ BrokerIds'
  BY <1>2, <1>4, <1>13 DEF Exchange, Answered, BrokerIds
<1> QED
  BY <1>2, <1>10, <1>12, <1>14, <1>15, <1>16 DEF Exchange

\* The send loop.
LEMMA SendExchange ==
  ASSUME Exchange, Types3, SendStep
  PROVE  Exchange'
<1>1. ASSUME SendStart \/ SendSkip \/ SendError
      PROVE  Exchange'
  <2>1. UNCHANGED <<mq, toBroker, toClient, bst, bpid, user, upid>>
    BY <1>1 DEF SendStart, SendSkip, SendError, cliVars, netVars, brkVars, userVars
  <2>2. sync' # "off" /\ UserId'
    BY <1>1, <2>1 DEF SendStart, SendSkip, SendError, Sending, Exchange, UserId
  <2>3. TurnSeen'
    <3>1. CASE SendStart
      <4>1. sync' = "after" \/ i' = 1
        BY <3>1 DEF SendStart
      <4>2. \A j \in 1 .. Len(mq) : ~(j < 1)
        OBVIOUS
      <4> QED
        BY <2>1, <4>1, <4>2 DEF TurnSeen
    <3>2. CASE SendSkip
      <4>1. /\ i' = i + 1 /\ sync = "send" /\ i <= Len(mq) /\ ~MustSend(mq[i])
        BY <3>2 DEF SendSkip, Sending
      <4>2. i \in Nat
        BY BoundsAssumption DEF Types3, Control
      <4>3. mq[i].state = "UNSENT" => OpenQos2(mq[i])
        BY <4>1 DEF MustSend
      <4>4. ASSUME NEW j \in 1 .. Len(mq), j < i + 1, mq[j].state = "UNSENT"
            PROVE  OpenQos2(mq[j])
        <5>1. j = i \/ j < i
          BY <4>2, <4>4
        <5> QED
          BY <4>1, <4>3, <4>4, <5>1 DEF Exchange, TurnSeen
      <4> QED
        BY <2>1, <4>1, <4>4 DEF TurnSeen
    <3>3. CASE SendError
      BY <3>3 DEF SendError, TurnSeen
    <3> QED
      BY <1>1, <3>1, <3>2, <3>3
  <2> QED
    BY <2>1, <2>2, <2>3, SameExchange
<1>2. ASSUME NEW n \in 0 .. ChunkLen - 1, SendPart(n)
      PROVE  Exchange'
  <2>1. /\ UNCHANGED <<mq, toClient, bst, bpid, user, upid, sync>> /\ i' = Len(mq) + 1
        /\ sync = "send" /\ n < ChunkLen - Offset(mq[i]) /\ Write(mq[i], Offset(mq[i]), n)
        /\ Sending /\ MustSend(mq[i])
    BY <1>2 DEF SendPart, Write, userVars, brkVars, Sending
  <2>2. Offset(mq[i]) = send_offset
    BY <2>1, SendsUnsent
  <2>3. toBroker' = toBroker
    <3>1. send_offset + n # ChunkLen
      BY <2>1, <2>2, BoundsAssumption DEF Types3, Control
    <3> QED
      BY <2>1, <2>2, <3>1 DEF Write
  <2>4. UserId' /\ sync' # "off"
    BY <2>1 DEF Exchange, UserId
  <2>5. TurnSeen'
    <3>1. Len(mq) \in Nat
      BY DEF Types3
    <3>2. ~(i' <= Len(mq))
      BY <2>1, <3>1
    <3> QED
      BY <2>1, <3>2 DEF TurnSeen
  <2> QED
    BY <2>1, <2>3, <2>4, <2>5, SameExchange
<1>3. ASSUME SendEnd
      PROVE  Exchange'
  <2>1. /\ UNCHANGED <<toBroker, toClient, bst, bpid>> /\ sync' = "after"
        /\ UNCHANGED <<user, upid>>
    BY <1>3 DEF SendEnd, netVars, brkVars, userVars
  <2>2. "PINGREQ" \in Requests \cup OneWay /\ NULL \in Ids
    BY DEF Requests, Ids
  <2>3. PICK m \in Shaped : m = QMsg("PINGREQ", NULL, 0) /\ m.state = "UNSENT" /\ m.type = "PINGREQ"
    BY <2>2, ShapedMsg
  <2>4. mq' = mq \/ TryPack(mq, error, m)
    BY <1>3, <2>3 DEF SendEnd
  <2>5. CASE mq' = mq
    <3>1. TurnSeen' /\ UserId'
      BY <2>1, <2>5 DEF TurnSeen, Exchange, UserId
    <3> QED
      BY <2>1, <2>5, <3>1, SameExchange
  <2>6. CASE TryPack(mq, error, m)
    BY <2>1, <2>3, <2>6, PackExchange
  <2> QED
    BY <2>4, <2>5, <2>6
<1> QED
  BY <1>1, <1>2, <1>3, SendWholeExchange DEF SendStep

\* The broker takes a request and answers it: the message that awaits the answer
\* is the one that awaited it before.
LEMMA TakenByBroker ==
  ASSUME Exchange, Types3, BrokerReceive
  PROVE  Exchange'
<1> DEFINE p == Head(toBroker)
<1>1. /\ toBroker # <<>> /\ toBroker' = Tail(toBroker) /\ bst' = Progress(p)
      /\ UNCHANGED <<mq, sync, i, user, upid, bpid>>
      /\ \/ toClient' = toClient
         \/ \E r \in Replies(p), ok \in {TRUE, "fail" \notin Features} :
              toClient' = Append(toClient, [r EXCEPT !.ok =
                            ok \/ r.type \notin {"CONNACK", "SUBACK"}])
  <2>1. /\ toBroker # <<>> /\ toBroker' = Tail(toBroker) /\ bst' = Progress(p)
        /\ UNCHANGED <<mq, sync, i, user, upid, bpid>>
    BY DEF BrokerReceive, cliVars, syncVars, userVars
  <2>2. \/ toClient' = toClient
        \/ \E r \in Replies(p), ok \in {TRUE, "fail" \notin Features} :
             toClient' = Append(toClient, [r EXCEPT !.ok =
                           ok \/ r.type \notin {"CONNACK", "SUBACK"}])
    BY Zenon DEF BrokerReceive
  <2> QED
    BY <2>1, <2>2, Zenon
<1>2. /\ toBroker \in Seq(Packets) /\ toClient \in Seq(Arrivals) /\ mq \in Seq(QMsgs)
      /\ bst \in [BMsgs -> {"unsent", "sent", "released", "done"}]
  BY DEF Types3, Broker
<1>3. Len(toBroker) \in Nat \ {0} /\ p = toBroker[1] /\ p \in Sent /\ p \in Packets
  <2>1. Len(toBroker) \in Nat /\ Len(toBroker) # 0
    BY <1>1, <1>2, EmptySeq
  <2>2. p = toBroker[1] /\ 1 \in 1 .. Len(toBroker)
    BY <1>1, <1>2, <2>1
  <2> QED
    BY <1>2, <2>1, <2>2 DEF Exchange
<1>4. PICK s : s = Tail(toBroker)
  OBVIOUS
<1>5. /\ s \in Seq(Packets) /\ \A k \in 1 .. Len(s) : s[k] \in Sent
  <2>1. /\ s \in Seq(Packets)
        /\ \A k \in 1 .. Len(s) : s[k] = toBroker[k + 1] /\ k + 1 \in 1 .. Len(toBroker)
    BY <1>1, <1>2, <1>3, <1>4
  <2> QED
    BY <2>1 DEF Exchange
<1> HIDE DEF p
\* The count of b in toBroker, without p.
<1>6. ASSUME NEW b \in Asks
      PROVE  /\ Count(toBroker, {b}) = Count(s, {b}) + (IF p = b THEN 1 ELSE 0)
             /\ Count(s, {b}) \in Nat /\ Count(toClient, Answering(b)) \in Nat
             /\ Count(mq, Waits(b)) \in Nat
             /\ Count(toBroker, {b}) + Count(toClient, Answering(b)) <= Count(mq, Waits(b))
  <2>1. Count(toBroker, {b}) = Count(s, {b}) + (IF toBroker[1] \in {b} THEN 1 ELSE 0)
    BY <1>1, <1>2, <1>4, CountTail
  <2>2. toBroker[1] \in {b} <=> p = b
    BY <1>3
  <2>3. Count(s, {b}) \in Nat
    BY <1>5, CountNat
  <2>4. Count(toClient, Answering(b)) \in Nat /\ Count(mq, Waits(b)) \in Nat
    BY <1>2, CountNat
  <2> QED
    BY <2>1, <2>2, <2>3, <2>4 DEF Exchange, Answered
<1>7. ASSUME NEW m \in BMsgs, bst'[m] \in {"sent", "released"}
      PROVE  bpid[m] # NULL
  <2>1. bst'[m] = bst[m] \/ m \in InFlight
    BY <1>1, <1>2 DEF Progress
  <2> QED
    BY <1>7, <2>1 DEF InFlight, Exchange, BrokerIds
<1>8. TurnSeen' /\ UserId' /\ (sync' = "off" => mq' = <<>>) /\ Orderly(mq')
      /\ \A k \in 1 .. Len(toBroker') : toBroker'[k] \in Sent
  BY <1>1, <1>4, <1>5 DEF Exchange, TurnSeen, UserId
<1>9. CASE toClient' = toClient
  <2>1. Answered'
    BY <1>1, <1>4, <1>6, <1>9 DEF Answered
  <2>2. BrokerIds'
    BY <1>1, <1>7, <1>9 DEF Exchange, BrokerIds
  <2> QED
    BY <1>8, <2>1, <2>2 DEF Exchange
<1>10. ASSUME NEW x \in Replies(p), NEW ok,
              toClient' = Append(toClient, [x EXCEPT !.ok =
                            ok \/ x.type \notin {"CONNACK", "SUBACK"}])
       PROVE  Exchange'
  <2>1. PICK c \in BOOLEAN : c = (ok \/ x.type \notin {"CONNACK", "SUBACK"})
    BY Zenon
  <2>2. PICK r \in Arrivals : r = [x EXCEPT !.ok = c]
    BY <1>3, RepliesType
  <2>3. toClient' = Append(toClient, r)
    BY <1>10, <2>1, <2>2, Zenon
  \* The answer to p.
  <2>4. /\ r.type # "PUBLISH" /\ r.pid = p.pid
        /\ \/ p \in Asks /\ AnswerTo(p) = r.type
           \/ "retry" \in Features /\ r.type = "PUBREL" /\ p.type = "PUBREC"
    <3>1. p.pid = NULL <=> p.type \in {"CONNECT", "PINGREQ", "DISCONNECT"}
      BY <1>3, SentIs
    <3>2. x = Pkt(x.type, x.pid) /\ r.type = x.type /\ r.pid = x.pid
      BY <2>2 DEF Replies, Pkt
    <3>3. \/ p.type = "CONNECT" /\ x.type = "CONNACK" /\ x.pid = NULL
          \/ p.type = "SUBSCRIBE" /\ x.type = "SUBACK" /\ x.pid = p.pid
          \/ p.type = "UNSUBSCRIBE" /\ x.type = "UNSUBACK" /\ x.pid = p.pid
          \/ p.type = "PINGREQ" /\ x.type = "PINGRESP" /\ x.pid = NULL
          \/ p.type = "PUBLISH" /\ p.qos = 1 /\ x.type = "PUBACK" /\ x.pid = p.pid
          \/ p.type = "PUBLISH" /\ p.qos = 2 /\ x.type = "PUBREC" /\ x.pid = p.pid
          \/ p.type = "PUBREL" /\ x.type = "PUBCOMP" /\ x.pid = p.pid
          \/ p.type = "PUBREC" /\ x.type = "PUBREL" /\ x.pid = p.pid
      BY <1>10 DEF Replies, Pkt
    <3> QED
      BY <1>3, <3>1, <3>2, <3>3 DEF Asks, AnswerTo, Tracked, Requests
  <2>5. ASSUME NEW b \in Asks
        PROVE  r \in Answering(b) => b = p
    <3> SUFFICES ASSUME r \in Answering(b)
                 PROVE  b = p
      OBVIOUS
    <3>1. AnswerTo(b) = r.type /\ b.pid = p.pid
      BY <2>4 DEF Answering
    <3>2. p \in Asks /\ AnswerTo(p) = r.type
      BY <2>4, <3>1, AskIs
    <3> QED
      BY <3>1, <3>2, SameAsk
  <2>6. ASSUME NEW b \in Asks
        PROVE  Count(s, {b}) + Count(toClient', Answering(b)) <= Count(mq, Waits(b))
    <3>1. Count(toClient', Answering(b))
            = Count(toClient, Answering(b)) + (IF r \in Answering(b) THEN 1 ELSE 0)
      BY <1>2, <2>3, CountAppend
    <3> QED
      BY <1>6, <2>5, <3>1
  <2>7. Expected(r)
    <3>1. CASE p \in Asks /\ AnswerTo(p) = r.type
      BY <2>4, <3>1 DEF Expected, Answering
    <3>2. CASE "retry" \in Features /\ r.type = "PUBREL" /\ p.type = "PUBREC"
      BY <1>3, <2>4, <3>2, SentIs DEF Expected
    <3> QED
      BY <2>4, <3>1, <3>2
  <2>8. BrokerIds'
    <3>1. \A k \in 1 .. Len(toClient') : Expected(toClient'[k])
      BY <1>2, <2>3, <2>7 DEF Exchange, BrokerIds
    <3> QED
      BY <1>1, <1>7, <3>1 DEF BrokerIds
  <2>9. Answered'
    BY <1>1, <1>4, <2>6 DEF Answered
  <2> QED
    BY <1>8, <2>8, <2>9 DEF Exchange
<1> QED
  BY <1>1, <1>9, <1>10, Zenon DEF p

\* A message of the broker, or what it repeats, answers nothing.
LEMMA SentByBroker ==
  ASSUME Exchange, Types3, NEW n \in BMsgs, BrokerPublish(n) \/ BrokerRetry(n)
  PROVE  Exchange'
<1>1. /\ UNCHANGED <<mq, toBroker, sync, i, user, upid>>
      /\ toClient \in Seq(Arrivals) /\ mq \in Seq(QMsgs)
      /\ bst \in [BMsgs -> {"unsent", "sent", "released", "done"}]
      /\ bpid \in [BMsgs -> BPids \cup {NULL}]
  BY DEF BrokerPublish, BrokerRetry, Types3, Broker, cliVars, syncVars, userVars
<1>2. ASSUME NEW m \in BMsgs, NEW p \in BPids \cup {NULL}, BQos[m] # 0 => p # NULL
      PROVE  /\ Publish(m, p) \in Arrivals /\ Publish(m, p).type = "PUBLISH"
             /\ Expected(Publish(m, p))
  <2>1. PICK r \in Arrivals : r = Publish(m, p)
    BY PublishType
  <2>2. r.type = "PUBLISH" /\ r.pid = p /\ r.qos = BQos[m]
    BY <2>1 DEF Publish, Pkt
  <2> QED
    BY <1>2, <2>1, <2>2 DEF Expected
<1>3. /\ \E r \in Arrivals :
           /\ toClient' = Append(toClient, r) /\ Expected(r)
           /\ r.type = "PUBLISH" \/ ("retry" \in Features /\ r.type = "PUBREL")
      /\ \A m \in BMsgs : bst'[m] \in {"sent", "released"} => bpid'[m] # NULL
  <2>1. CASE BrokerPublish(n)
    <3>1. CASE BQos[n] = 0
      <4>1. /\ toClient' = Append(toClient, Publish(n, NULL))
            /\ bst' = [bst EXCEPT ![n] = "done"] /\ bpid' = bpid
        BY <2>1, <3>1 DEF BrokerPublish
      <4>2. \A m \in BMsgs : bst'[m] \in {"sent", "released"} => bpid'[m] # NULL
        BY <1>1, <4>1 DEF Exchange, BrokerIds
      <4> QED
        BY <1>2, <3>1, <4>1, <4>2
    <3>2. CASE BQos[n] # 0
      <4>1. PICK p \in BPids :
              /\ toClient' = Append(toClient, Publish(n, p))
              /\ bst' = [bst EXCEPT ![n] = "sent"] /\ bpid' = [bpid EXCEPT ![n] = p]
        BY <2>1, <3>2 DEF BrokerPublish
      <4>2. p # NULL
        BY IdAssumption
      <4>3. \A m \in BMsgs : bst'[m] \in {"sent", "released"} => bpid'[m] # NULL
        BY <1>1, <4>1, <4>2 DEF Exchange, BrokerIds
      <4> QED
        BY <1>2, <4>1, <4>2, <4>3
    <3> QED
      BY <3>1, <3>2
  <2>2. CASE BrokerRetry(n)
    <3>1. /\ bst[n] \in {"sent", "released"} /\ UNCHANGED <<bst, bpid>> /\ "retry" \in Features
          /\ \/ toClient' = Append(toClient, Publish(n, bpid[n]))
             \/ toClient' = Append(toClient, Pkt("PUBREL", bpid[n]))
      BY <2>2 DEF BrokerRetry, InFlight, brkVars
    <3>2. bpid[n] # NULL /\ bpid[n] \in BPids \cup {NULL} /\ bpid[n] \in Ids
      BY <1>1, <3>1 DEF Exchange, BrokerIds, Ids
    <3>3. \A m \in BMsgs : bst'[m] \in {"sent", "released"} => bpid'[m] # NULL
      BY <3>1 DEF Exchange, BrokerIds
    <3>4. /\ Pkt("PUBREL", bpid[n]) \in Arrivals /\ Pkt("PUBREL", bpid[n]).type = "PUBREL"
          /\ Expected(Pkt("PUBREL", bpid[n]))
      <4>1. "PUBREL" \in Types /\ "PUBREL" # "PUBLISH"
        BY DEF Types, Requests
      <4>2. PICK r \in Arrivals : r = Pkt("PUBREL", bpid[n])
        BY <3>2, <4>1, PktType
      <4>3. r.type = "PUBREL" /\ r.pid = bpid[n]
        BY <4>2 DEF Pkt
      <4> QED
        BY <3>1, <3>2, <4>2, <4>3 DEF Expected
    <3> QED
      BY <1>2, <3>1, <3>2, <3>3, <3>4
  <2> QED
    BY <2>1, <2>2
<1>4. PICK r \in Arrivals :
        /\ toClient' = Append(toClient, r) /\ Expected(r)
        /\ r.type = "PUBLISH" \/ ("retry" \in Features /\ r.type = "PUBREL")
  BY <1>3
<1>5. ASSUME NEW b \in Asks
      PROVE  Count(toClient', Answering(b)) = Count(toClient, Answering(b))
  <2>1. r \notin Answering(b)
    BY <1>4, AskIs DEF Answering
  <2>2. Count(toClient', Answering(b))
          = Count(toClient, Answering(b)) + (IF r \in Answering(b) THEN 1 ELSE 0)
    BY <1>1, <1>4, CountAppend
  <2>3. Count(toClient, Answering(b)) \in Nat
    BY <1>1, CountNat
  <2> QED
    BY <2>1, <2>2, <2>3
<1>6. Answered'
  BY <1>1, <1>5 DEF Exchange, Answered
<1>7. BrokerIds'
  <2>1. \A k \in 1 .. Len(toClient') : Expected(toClient'[k])
    BY <1>1, <1>4 DEF Exchange, BrokerIds
  <2> QED
    BY <1>3, <2>1 DEF BrokerIds
<1>8. TurnSeen' /\ UserId'
  BY <1>1 DEF Exchange, TurnSeen, UserId
<1> QED
  BY <1>1, <1>6, <1>7, <1>8 DEF Exchange

\* A new connection: two requests, and nothing on its way.
LEMMA ReinitExchange ==
  ASSUME Exchange, Types3, mqtt_reinit, sync' \notin {"off", "send"}, UNCHANGED <<user, upid>>
  PROVE  Exchange'
<1>1. /\ toBroker' = <<>> /\ toClient' = <<>> /\ UNCHANGED bpid
      /\ bst' = [m \in BMsgs |-> IF bst[m] = "unsent" THEN "unsent" ELSE "done"]
  BY DEF mqtt_reinit
<1>2. PICK p \in Pids : mq' = <<QMsg("CONNECT", NULL, 0), QMsg("SUBSCRIBE", p, 0)>>
  BY DEF mqtt_reinit
<1>3. /\ {"CONNECT", "SUBSCRIBE"} \subseteq Requests \cup OneWay
      /\ NULL \in Ids /\ p \in Ids /\ p # NULL
  BY IdAssumption DEF Requests, Ids
<1>4. PICK m \in Shaped : m = QMsg("CONNECT", NULL, 0) /\ m.state = "UNSENT" /\ m.type = "CONNECT"
  BY <1>3, ShapedMsg
<1>5. PICK n \in Shaped : n = QMsg("SUBSCRIBE", p, 0) /\ n.state = "UNSENT" /\ n.type = "SUBSCRIBE"
  BY <1>3, ShapedMsg
<1>6. PICK r : r = <<m, n>>
  OBVIOUS
<1>7. Len(r) = 2 /\ r[1] = m /\ r[2] = n /\ mq' = r
  BY <1>2, <1>4, <1>5, <1>6
<1>8. \A j \in 1 .. Len(r) : j = 1 \/ j = 2
  BY <1>7
<1>9. Orderly(r)
  <2>1. \A j \in 1 .. Len(r) : r[j] \in Shaped /\ r[j].state = "UNSENT"
    BY <1>4, <1>5, <1>7, <1>8
  <2>2. Single(r)
    BY <1>4, <1>5, <1>7, <1>8 DEF Single
  <2> QED
    BY <2>1, <2>2 DEF Orderly, InTurn
<1>10. Len(<<>>) = 0 /\ <<>> \in Seq(Packets) /\ r \in Seq(Shaped)
  BY <1>6
<1>11. \A b \in Asks : Count(<<>>, {b}) + Count(<<>>, Answering(b)) <= Count(r, Waits(b))
  <2> SUFFICES ASSUME NEW b \in Asks
               PROVE  Count(<<>>, {b}) + Count(<<>>, Answering(b)) <= Count(r, Waits(b))
    OBVIOUS
  <2>1. Count(<<>>, {b}) \in Nat /\ Count(<<>>, Answering(b)) \in Nat /\ Count(r, Waits(b)) \in Nat
    BY <1>10, CountNat
  <2>2. Count(<<>>, {b}) = 0 /\ Count(<<>>, Answering(b)) = 0
    BY CountNone
  <2> QED
    BY <2>1, <2>2
<1>12. Answered'
  BY <1>1, <1>7, <1>11 DEF Answered
<1>13. UserId'
  <2>1. \A j \in 1 .. Len(r) : r[j].type # "UNSUBSCRIBE"
    BY <1>4, <1>5, <1>7, <1>8
  <2> QED
    BY <1>7, <2>1 DEF Exchange, UserId
<1>14. BrokerIds'
  BY <1>1, <1>10 DEF BrokerIds
<1>15. TurnSeen'
  BY DEF TurnSeen
<1> QED
  BY <1>1, <1>7, <1>9, <1>10, <1>12, <1>13, <1>14, <1>15 DEF Exchange

\* It holds at the start.
LEMMA InitExchange == Init => Exchange
<1> SUFFICES ASSUME Init
             PROVE  Exchange
  OBVIOUS
<1>1. /\ mq = <<>> /\ toBroker = <<>> /\ toClient = <<>> /\ user = "idle"
      /\ sync \in {"off", "idle"} /\ bst = [m \in BMsgs |-> "unsent"]
      /\ Len(<<>>) = 0 /\ <<>> \in Seq(Packets)
  BY DEF Init
<1>2. Orderly(mq) /\ TurnSeen /\ BrokerIds /\ UserId
  BY <1>1 DEF Orderly, Single, InTurn, TurnSeen, BrokerIds, UserId
<1>3. Answered
  <2> SUFFICES ASSUME NEW b \in Asks
               PROVE  Count(<<>>, {b}) + Count(<<>>, Answering(b)) <= Count(<<>>, Waits(b))
    BY <1>1 DEF Answered
  <2>1. \A S : Count(<<>>, S) = 0
    BY CountNone
  <2> QED
    BY <2>1
<1> QED
  BY <1>1, <1>2, <1>3 DEF Exchange

\* Every step keeps it.
LEMMA StepExchange ==
  ASSUME "timeout" \notin Features, Exchange, IInv, [Next]_vars
  PROVE  Exchange'
<1>1. Types3
  BY DEF IInv, QueueOK, Queues, Wire, Types3
<1>2. CASE SyncReconnects \/ SyncEnd
  <2>1. /\ sync' \in {"begun", "idle"} /\ UNCHANGED userVars
        /\ mqtt_reinit \/ UNCHANGED <<cliVars, netVars, brkVars>>
    BY <1>2 DEF SyncReconnects, SyncEnd
  <2>2. UNCHANGED <<user, upid>>
    BY <2>1 DEF userVars
  <2>3. CASE UNCHANGED <<cliVars, netVars, brkVars>>
    <3>1. UNCHANGED <<mq, toBroker, toClient, bst, bpid>>
      BY <2>3 DEF cliVars, netVars, brkVars
    <3>2. TurnSeen' /\ UserId'
      BY <2>1, <2>2, <3>1 DEF TurnSeen, Exchange, UserId
    <3> QED
      BY <2>1, <3>1, <3>2, SameExchange
  <2> QED
    BY <1>1, <2>1, <2>2, <2>3, ReinitExchange
<1>3. CASE RecvStep
  BY <1>1, <1>3, RecvExchange
<1>4. CASE SendStep
  BY <1>1, <1>4, SendExchange
<1>5. CASE BrokerReceive \/ \E m \in BMsgs : BrokerPublish(m) \/ BrokerRetry(m)
  BY <1>1, <1>5, TakenByBroker, SentByBroker
<1>6. CASE \/ mqtt_connect \/ ApiStep \/ FallQuiet \/ SyncStart \/ ReconnectFails
           \/ SyncEndLocked \/ (\E j \in DOMAIN mq : Expire(j)) \/ UNCHANGED vars
  BY <1>1, <1>6, LocalExchange
<1> QED
  BY <1>2, <1>3, <1>4, <1>5, <1>6, Steps

\* What answers a request of the client finds it.
LEMMA KnownAck ==
  ASSUME "retry" \notin Features, Exchange, IInv, NEW type, Received(type)
  PROVE  /\ type \in Answers \cup {"PUBACK", "PUBCOMP"} =>
              Matches(mq, RequestOf(type), Head(toClient).pid) # {}
         /\ type = "PUBREC" => Matches(mq, "PUBLISH", Head(toClient).pid) # {}
         /\ type = "PUBREL" => Matches(mq, "PUBREC", Head(toClient).pid) # {}
<1>1. mq \in Seq(QMsgs) /\ toBroker \in Seq(Packets) /\ toClient \in Seq(Arrivals)
  BY DEF IInv, QueueOK, Queues, Wire
<1>2. toClient # <<>> /\ Len(toClient) \in Nat /\ Len(toClient) # 0
  BY <1>1, EmptySeq DEF Received
<1>3. 1 \in 1 .. Len(toClient) /\ Head(toClient) = toClient[1] /\ toClient[1].type = type
  BY <1>1, <1>2 DEF Received
<1>4. ASSUME type # "PUBLISH"
      PROVE  \E b \in Asks : /\ AnswerTo(b) = type /\ b.pid = toClient[1].pid
                             /\ Matches(mq, b.type, b.pid) # {}
  <2>1. PICK b \in Asks : /\ toClient[1] \in Answering(b) /\ AnswerTo(b) = toClient[1].type
                          /\ b.pid = toClient[1].pid
    BY <1>3, <1>4, HeadAnswers
  <2> QED
    BY <1>1, <1>3, <2>1, AnswerFinds
<1>5. ASSUME type \in Answers \cup {"PUBACK", "PUBCOMP", "PUBREC", "PUBREL"}
      PROVE  type # "PUBLISH"
  BY <1>5 DEF Answers
<1> QED
  BY <1>3, <1>4, <1>5, AskIs

\* The step to MQTT_ERROR_ACK_OF_UNKNOWN is never taken.
LEMMA StepKnown ==
  ASSUME "retry" \notin Features, Exchange, IInv, NoUnknownAck, [Next]_vars
  PROVE  NoUnknownAck'
<1>1. CASE error' \in Codes
  BY <1>1 DEF Codes, NoUnknownAck
<1>2. CASE error' = "ACK_OF_UNKNOWN" /\ RecvStep
  <2>1. error # "ACK_OF_UNKNOWN"
    BY DEF NoUnknownAck
  <2>2. ASSUME NEW q, NEW m, TryPack(q, error, m)
        PROVE  FALSE
    BY <1>2, <2>1, <2>2, PackError
  <2>3. ASSUME NEW t \in Answers \cup {"PUBACK", "PUBCOMP"}, RecvAck(t)
        PROVE  FALSE
    <3>1. Matches(mq, RequestOf(t), Head(toClient).pid) # {}
      BY <2>3, KnownAck DEF RecvAck
    <3> QED
      BY <1>2, <2>1, <2>3, <3>1 DEF RecvAck
  <2>4. ASSUME RecvPublish
        PROVE  FALSE
    <3>1. error' = error \/ \E m : TryPack(mq, error, m)
      BY <2>4 DEF RecvPublish
    <3> QED
      BY <1>2, <2>1, <2>2, <3>1
  <2>5. ASSUME NEW t \in {"PUBREC", "PUBREL"}, NEW req, NEW next, RecvStage(t, req, next),
               req = IF t = "PUBREC" THEN "PUBLISH" ELSE "PUBREC"
        PROVE  FALSE
    <3>1. Matches(mq, req, Head(toClient).pid) # {}
      BY <2>5, KnownAck DEF RecvStage
    <3>2. error' = error \/ \E q, m : TryPack(q, error, m)
      BY <2>5, <3>1 DEF RecvStage
    <3> QED
      BY <1>2, <2>1, <2>2, <3>2
  <2>6. CASE RecvNothing \/ RecvError
    BY <1>2, <2>1, <2>6 DEF RecvNothing, RecvError, cliVars
  <2>7. ~RecvStage("PUBREC", "PUBLISH", "PUBREL") /\ ~RecvStage("PUBREL", "PUBREC", "PUBCOMP")
    BY <2>5
  <2> QED
    BY <1>2, <2>3, <2>4, <2>6, <2>7 DEF RecvStep
<1> QED
  BY <1>1, <1>2, ErrorCodes

\* __mqtt_recv, mqtt_mq_find, mqtt_mq_clean: whatever is queued, cleaned away, sent in
\* part or lost with the connection, the answer to a request finds the request in the
\* queue; as long as nothing is sent twice.
THEOREM NoUnknownAckSafe ==
  ASSUME "timeout" \notin Features, "retry" \notin Features
  PROVE  Spec => []NoUnknownAck
<1>1. Init => IInv /\ Exchange /\ NoUnknownAck
  <2>1. Init => NoUnknownAck
    BY DEF Init, NoUnknownAck
  <2> QED
    BY <2>1, InitInv, InitExchange
<1>2. IInv /\ Exchange /\ NoUnknownAck /\ [Next]_vars => (IInv /\ Exchange /\ NoUnknownAck)'
  BY StepInv, StepExchange, StepKnown
<1> QED
  BY <1>1, <1>2, PTL DEF Spec

-----------------------------------------------------------------------------
(* What every step does to the queue.                                      *)

\* q is the queue with a message released, which awaited its answer or is a PUBREC that
\* the broker repeats its PUBREL for, or with the message at i sent.
Advanced(q) ==
  /\ q \in Seq(QMsgs) /\ Len(q) = Len(mq)
  /\ \A j \in 1 .. Len(mq) :
       /\ q[j].type = mq[j].type /\ q[j].pid = mq[j].pid /\ q[j].qos = mq[j].qos
       /\ \/ q[j] = mq[j]
          \/ q[j].state = "COMPLETE" /\ mq[j].state = "AWAITING_ACK"
          \/ "retry" \in Features /\ mq[j].type = "PUBREC"
          \/ SendWhole /\ j = i /\ q[j].state = SentState(mq[j])

\* A new message, with an id of its own or that of the exchange it belongs to.
Fits(m) ==
  /\ m \in Shaped /\ m.state = "UNSENT"
  /\ m.qos = 2 => "publish2" \in Api
  /\ m.type = "UNSUBSCRIBE" => user = "unsub"
  /\ m.type \in {"PUBLISH", "SUBSCRIBE"} => \A j \in 1 .. Len(mq) : mq[j].pid # m.pid
  /\ m.type = "PUBREL" =>
       \E j \in 1 .. Len(mq) : mq[j].type = "PUBLISH" /\ mq[j].qos = 2 /\ mq[j].pid = m.pid

Moves(q) == mq' = q \/ \E m, d : Fits(m) /\ Packed(q, mq', m, d)

\* A pack puts such a message behind the queue.
LEMMA PackMoves ==
  ASSUME NEW q \in Seq(QMsgs), NEW m, Fits(m), NEW err, TryPack(q, err, m)
  PROVE  Moves(q)
<1>1. m \in QMsgs
  BY DEF Fits, Shaped
<1> QED
  BY <1>1, PackIs DEF Moves

\* What is released awaited its answer.
LEMMA TakenAdvanced ==
  ASSUME Exchange, Types3, toClient # <<>>, NEW q, Taken(q)
  PROVE  /\ Advanced(q)
         /\ \A b \in Asks : toClient[1] \in Answering(b) =>
              \E j \in 1 .. Len(mq) : mq[j] \in Waits(b)
<1>1. mq \in Seq(QMsgs) /\ toBroker \in Seq(Packets) /\ toClient \in Seq(Arrivals)
  BY DEF Types3
<1>2. 1 \in 1 .. Len(toClient)
  <2>1. Len(toClient) \in Nat /\ Len(toClient) # 0
    BY <1>1, EmptySeq
  <2> QED
    BY <2>1
<1>3. ASSUME NEW type, NEW pid, NEW a \in 1 .. Len(mq), Released(mq, q, type, pid, a),
             mq[a].state = "AWAITING_ACK" \/ ("retry" \in Features /\ mq[a].type = "PUBREC")
      PROVE  Advanced(q)
  <2>1. /\ q \in Seq(QMsgs) /\ Len(q) = Len(mq)
        /\ \A j \in 1 .. Len(mq) :
             q[j] = IF j = a THEN [mq[j] EXCEPT !.state = "COMPLETE"] ELSE mq[j]
    BY <1>3 DEF Released
  <2>2. mq[a] \in QMsgs
    BY <1>1
  <2>3. /\ q[a].type = mq[a].type /\ q[a].pid = mq[a].pid /\ q[a].qos = mq[a].qos
        /\ q[a].state = "COMPLETE"
    BY <2>1, <2>2 DEF QMsgs
  <2>4. \A j \in 1 .. Len(mq) : j # a => q[j] = mq[j]
    BY <2>1
  <2> QED
    BY <1>3, <2>1, <2>3, <2>4 DEF Advanced
<1>4. ASSUME NEW b \in Asks, toClient[1] \in Answering(b)
      PROVE  \E a \in 1 .. Len(mq) :
               /\ mq[a] \in Waits(b) /\ mq[a].state = "AWAITING_ACK"
               /\ Released(mq, Release(mq, b.type, b.pid), b.type, b.pid, a)
  <2>1. Matches(mq, b.type, b.pid) # {}
    BY <1>1, <1>2, <1>4, AnswerFinds
  <2>2. PICK a \in 1 .. Len(mq) : Released(mq, Release(mq, b.type, b.pid), b.type, b.pid, a)
    BY <1>1, <2>1, ReleaseIs
  <2>3. mq[a] \in Waits(b)
    BY <1>1, <1>2, <1>4, <2>2, AnswerFinds
  <2> QED
    BY <2>2, <2>3 DEF Waits
<1>5. q = mq => Advanced(q)
  BY <1>1 DEF Advanced
<1>6. ASSUME NEW b \in Asks, toClient[1] \in Answering(b), q = Release(mq, b.type, b.pid)
      PROVE  Advanced(q)
  BY <1>3, <1>4, <1>6
<1>7. ASSUME "retry" \in Features, Matches(mq, "PUBREC", toClient[1].pid) # {},
             q = Release(mq, "PUBREC", toClient[1].pid)
      PROVE  Advanced(q)
  <2>1. PICK a \in 1 .. Len(mq) : Released(mq, q, "PUBREC", toClient[1].pid, a)
    BY <1>1, <1>7, ReleaseIs
  <2>2. mq[a].type = "PUBREC"
    BY <2>1 DEF Released, Matches
  <2> QED
    BY <1>3, <1>7, <2>1, <2>2
<1> QED
  BY <1>4, <1>5, <1>6, <1>7 DEF Taken

\* What is received.
LEMMA RecvMoves ==
  ASSUME Exchange, Types3, RecvStep
  PROVE  \E q : Advanced(q) /\ Moves(q)
<1>1. CASE RecvNothing \/ RecvError
  <2>1. mq' = mq
    BY <1>1 DEF RecvNothing, RecvError, cliVars
  <2> QED
    BY <2>1 DEF Advanced, Moves, Types3
<1>2. ASSUME NEW type, NEW q, Received(type), Taken(q), Staged(q)
      PROVE  Advanced(q) /\ Moves(q)
  <2>1. toClient # <<>>
    BY <1>2 DEF Received
  <2>2. Advanced(q) /\ q \in Seq(QMsgs)
    BY <1>2, <2>1, TakenAdvanced DEF Advanced
  <2>3. ASSUME NEW m, Reply(m)
        PROVE  Fits(m)
    <3>1. m.type \notin {"PUBLISH", "SUBSCRIBE", "UNSUBSCRIBE"} /\ m.qos # 2
      BY <2>3 DEF Reply, Shaped
    <3>2. m.type = "PUBREL" =>
            \E j \in 1 .. Len(mq) :
              mq[j].type = "PUBLISH" /\ mq[j].qos = 2 /\ mq[j].pid = m.pid
      <4> SUFFICES ASSUME m.type = "PUBREL"
                   PROVE  \E j \in 1 .. Len(mq) :
                            mq[j].type = "PUBLISH" /\ mq[j].qos = 2 /\ mq[j].pid = m.pid
        OBVIOUS
      <4>1. PICK b \in Asks :
              b.type = "PUBLISH" /\ b.qos = 2 /\ b.pid = m.pid /\ toClient[1] \in Answering(b)
        BY <2>3 DEF Reply
      <4>2. PICK j \in 1 .. Len(mq) : mq[j] \in Waits(b)
        BY <1>2, <2>1, <4>1, TakenAdvanced
      <4>3. mq[j] \in Shaped
        BY <4>2 DEF Waits
      <4> QED
        BY <4>1, <4>2, <4>3, WaitsAre
    <3> QED
      BY <2>3, <3>1, <3>2 DEF Fits, Reply
  <2> QED
    BY <1>2, <2>2, <2>3, PackMoves DEF Staged, Moves
<1> QED
  BY <1>1, <1>2, RecvIs

\* Every step but a new connection.
LEMMA QueueMoves ==
  ASSUME "timeout" \notin Features, Exchange, Types3, [Next]_vars
  PROVE  \/ \E q : Advanced(q) /\ Moves(q)
         \/ mqtt_reinit /\ "reconnect" \in Features
<1>1. Advanced(mq) /\ mq \in Seq(QMsgs)
  BY DEF Advanced, Types3
<1>2. mq' = mq => Moves(mq)
  BY DEF Moves
<1>3. ASSUME NEW m, Fits(m), NEW err, TryPack(mq, err, m)
      PROVE  Moves(mq)
  BY <1>1, <1>3, PackMoves
<1>4. ASSUME NEW type \in Requests \cup OneWay, NEW pid \in Ids,
             pid = NULL <=> type \in {"CONNECT", "PINGREQ", "DISCONNECT"},
             type \notin {"PUBLISH", "SUBSCRIBE", "PUBREL"}, type = "UNSUBSCRIBE" => user = "unsub",
             NEW err, TryPack(mq, err, QMsg(type, pid, 0))
      PROVE  Moves(mq)
  <2>1. PICK m \in Shaped : m = QMsg(type, pid, 0) /\ m.state = "UNSENT" /\ m.type = type
    BY <1>4, ShapedMsg
  <2>2. m.qos # 2
    BY <1>4, <2>1 DEF Shaped
  <2>3. Fits(m)
    BY <1>4, <2>1, <2>2 DEF Fits
  <2> QED
    BY <1>3, <1>4, <2>1, <2>3
<1>5. NULL \in Ids /\ {"CONNECT", "PINGREQ", "UNSUBSCRIBE"} \subseteq Requests \cup OneWay
  BY DEF Ids, Requests
<1>6. CASE mqtt_connect
  <2>1. TryPack(mq, "OK", QMsg("CONNECT", NULL, 0))
    BY <1>6 DEF mqtt_connect
  <2> QED
    BY <1>1, <1>4, <1>5, <2>1
<1>7. CASE ApiStep
  <2>1. ASSUME user = "unsub", TryPack(mq, error, QMsg("UNSUBSCRIBE", upid, 0))
        PROVE  Moves(mq)
    <3>1. upid \in Ids /\ upid # NULL
      BY <2>1 DEF Exchange, UserId, Types3, Control, Ids
    <3> QED
      BY <1>4, <1>5, <2>1, <3>1
  <2>2. ASSUME NEW m \in ApiMade, TryPack(mq, error, m), m.qos = 2 => "publish2" \in Api
        PROVE  Moves(mq)
    <3>1. /\ m \in Shaped /\ m.state = "UNSENT" /\ m.type # "UNSUBSCRIBE"
          /\ m.type \in Requests \ {"PINGREQ"} => \A j \in 1 .. Len(mq) : mq[j].pid # m.pid
      BY <1>1, ApiMadeShaped
    <3>2. m.type # "PUBREL"
      BY ApiMadeType
    <3>3. Fits(m)
      BY <2>2, <3>1, <3>2 DEF Fits, Requests
    <3> QED
      BY <1>3, <2>2, <3>3
  <2> QED
    BY <1>1, <1>2, <1>7, <2>1, <2>2, ApiSteps
<1>8. CASE FallQuiet \/ SyncStart \/ ReconnectFails \/ SyncEndLocked \/ UNCHANGED vars
           \/ BrokerReceive \/ \E m \in BMsgs : BrokerPublish(m) \/ BrokerRetry(m)
  <2>1. mq' = mq
    BY <1>8 DEF FallQuiet, SyncStart, ReconnectFails, SyncEndLocked, BrokerReceive, BrokerPublish,
                BrokerRetry, vars, cliVars
  <2> QED
    BY <1>1, <1>2, <2>1
<1>9. CASE SyncReconnects \/ SyncEnd
  <2>1. (mqtt_reinit /\ "reconnect" \in Features) \/ mq' = mq
    BY <1>9 DEF SyncReconnects, SyncEnd, NeedsReconnect, cliVars
  <2> QED
    BY <1>1, <1>2, <2>1
<1>10. CASE RecvStep
  BY <1>10, RecvMoves
<1>11. CASE SendWhole
  <2>1. i \in Nat \ {0}
    BY BoundsAssumption DEF Types3, Control
  <2>2. /\ i \in 1 .. Len(mq) /\ mq' \in Seq(QMsgs) /\ Len(mq') = Len(mq)
        /\ \A j \in 1 .. Len(mq) : j # i => mq'[j] = mq[j]
        /\ mq'[i] = [mq[i] EXCEPT !.state = SentState(mq[i]), !.late = FALSE]
    BY <1>1, <1>11, <2>1, SendWholeIs
  <2>3. mq[i] \in QMsgs
    BY <1>1, <2>2
  <2>4. /\ mq'[i].type = mq[i].type /\ mq'[i].pid = mq[i].pid /\ mq'[i].qos = mq[i].qos
        /\ mq'[i].state = SentState(mq[i])
    BY <2>2, <2>3 DEF QMsgs
  <2>5. Advanced(mq')
    BY <1>11, <2>2, <2>4 DEF Advanced
  <2> QED
    BY <2>5 DEF Moves
<1>12. CASE SendStart \/ SendSkip \/ SendError \/ \E n \in 0 .. ChunkLen - 1 : SendPart(n)
  <2>1. mq' = mq
    BY <1>12 DEF SendStart, SendSkip, SendError, SendPart, cliVars
  <2> QED
    BY <1>1, <1>2, <2>1
<1>13. CASE SendEnd
  <2>1. mq' = mq \/ TryPack(mq, error, QMsg("PINGREQ", NULL, 0))
    BY <1>13 DEF SendEnd
  <2> QED
    BY <1>1, <1>2, <1>4, <1>5, <2>1
<1> QED
  BY <1>6, <1>7, <1>8, <1>9, <1>10, <1>11, <1>12, <1>13, Steps DEF SendStep, Expire

-----------------------------------------------------------------------------
(* What is released was sent.                                              *)

\* The queue of a new connection.
LEMMA ReinitQueue ==
  ASSUME mqtt_reinit
  PROVE  \E p \in Pids :
           /\ Len(mq') = 2 /\ mq'[1] = QMsg("CONNECT", NULL, 0)
           /\ mq'[2] = QMsg("SUBSCRIBE", p, 0)
<1>1. PICK p \in Pids : mq' = <<QMsg("CONNECT", NULL, 0), QMsg("SUBSCRIBE", p, 0)>>
  BY DEF mqtt_reinit
<1>2. PICK m, n : m = QMsg("CONNECT", NULL, 0) /\ n = QMsg("SUBSCRIBE", p, 0)
  OBVIOUS
<1>3. mq' = <<m, n>>
  BY <1>1, <1>2
<1>4. Len(mq') = 2 /\ mq'[1] = m /\ mq'[2] = n
  BY <1>3
<1> QED
  BY <1>2, <1>4

\* The message that is sent whole is complete only if nothing answers it.
LEMMA SentReleases ==
  ASSUME Exchange, Types3, SendWhole
  PROVE  toBroker' # toBroker
<1>1. Offset(mq[i]) = send_offset
  BY SendsUnsent DEF SendWhole
<1>2. send_offset + (ChunkLen - send_offset) = ChunkLen
  BY BoundsAssumption DEF Types3, Control
<1>3. toBroker' = Append(toBroker, Bytes(mq[i]))
  BY <1>1, <1>2 DEF SendWhole, Write
<1>4. toBroker \in Seq(Packets)
  BY DEF Types3
<1>5. Len(toBroker') = Len(toBroker) + 1 /\ Len(toBroker) \in Nat
  BY <1>3, <1>4
<1> QED
  BY <1>5

\* The messages that a clean moves up are never taken for those they replace.
LEMMA StepReleased ==
  ASSUME "timeout" \notin Features, "retry" \notin Features, Exchange, Types3, [Next]_vars,
         NEW j \in DOMAIN mq \cap DOMAIN mq',
         mq[j].state = "UNSENT", mq'[j].state = "COMPLETE",
         mq'[j].type = mq[j].type, mq'[j].pid = mq[j].pid
  PROVE  SentState(mq[j]) = "COMPLETE" /\ toBroker' # toBroker
<1> DEFINE Goal == SentState(mq[j]) = "COMPLETE" /\ toBroker' # toBroker
<1> SUFFICES Goal
  OBVIOUS
<1>1. mq \in Seq(QMsgs) /\ j \in 1 .. Len(mq) /\ Len(mq) \in Nat
  BY DEF Types3
<1>2. ~mqtt_reinit
  <2> SUFFICES ASSUME mqtt_reinit
               PROVE  FALSE
    OBVIOUS
  <2>1. PICK p \in Pids : /\ Len(mq') = 2 /\ mq'[1] = QMsg("CONNECT", NULL, 0)
                          /\ mq'[2] = QMsg("SUBSCRIBE", p, 0)
    BY ReinitQueue
  <2>2. mq'[1].state = "UNSENT" /\ mq'[2].state = "UNSENT"
    BY <2>1 DEF QMsg
  <2>3. DOMAIN mq' = 1 .. 2
    <3>1. PICK m, n : mq' = <<m, n>>
      BY DEF mqtt_reinit
    <3> QED
      BY <3>1
  <2>4. j = 1 \/ j = 2
    BY <2>3
  <2> QED
    BY <2>2, <2>4
<1>3. PICK q : Advanced(q) /\ Moves(q)
  BY <1>2, QueueMoves
<1>4. ASSUME NEW k \in 1 .. Len(mq), q[k].state = "COMPLETE", mq[k].state = "UNSENT"
      PROVE  SendWhole /\ k = i /\ SentState(mq[k]) = "COMPLETE"
  BY <1>3, <1>4 DEF Advanced
<1>5. CASE q[j].state = "COMPLETE"
  BY <1>1, <1>4, <1>5, SentReleases
<1>6. CASE q[j].state # "COMPLETE"
  <2>1. PICK m, d : Fits(m) /\ Packed(q, mq', m, d)
    BY <1>3, <1>6 DEF Moves
  <2>2. PICK r : r = mq'
    OBVIOUS
  <2>3. /\ r \in Seq(QMsgs) /\ j \in 1 .. Len(r) /\ d \in 0 .. Len(q) /\ Len(q) = Len(mq)
        /\ \A k \in 1 .. d : q[k].state = "COMPLETE"
        /\ \A k \in 1 .. Len(q) - d : r[k] = q[k + d]
        /\ Len(r) = Len(q) - d \/ (Len(r) = Len(q) - d + 1 /\ r[Len(q) - d + 1] = m)
    BY <1>3, <2>1, <2>2 DEF Packed, Advanced
  <2>4. r[j] # m
    BY <2>1, <2>2 DEF Fits
  <2>5. j + d \in 1 .. Len(mq) /\ r[j] = q[j + d]
    BY <1>1, <2>3, <2>4
  <2>6. PICK k \in 1 .. Len(mq) : k = j + d
    BY <2>5
  <2>7. k # j
    BY <1>6, <2>2, <2>5, <2>6
  <2>8. j < k
    BY <1>1, <2>3, <2>6, <2>7
  <2>9. /\ q[k].state = "COMPLETE" /\ mq[k].type = mq[j].type /\ mq[k].pid = mq[j].pid
    BY <1>3, <2>2, <2>5, <2>6 DEF Advanced
  <2>10. mq[j] \in Shaped /\ mq[j].type \in Requests \cup OneWay
    BY <1>1 DEF Exchange, Orderly, Shaped
  <2>11. ~(mq[j].type \in Requests \ {"PINGREQ"})
    BY <1>1, <2>7, <2>9 DEF Exchange, Orderly, Single
  <2>12. ~OpenQos2(mq[j]) /\ mq[k].type \in Tracked \cup OneWay
    BY <2>9, <2>10, <2>11 DEF OpenQos2, Tracked, Requests
  <2>13. mq[k].state = "UNSENT"
    BY <1>1, <2>8, <2>12 DEF Exchange, Orderly, InTurn
  <2>14. SendWhole /\ k = i
    BY <1>4, <2>9, <2>13
  <2>15. sync = "send" /\ i <= Len(mq)
    BY <2>14 DEF SendWhole, Sending
  <2> QED
    BY <1>1, <2>8, <2>12, <2>14, <2>15 DEF Exchange, TurnSeen
<1> QED
  BY <1>5, <1>6

\* mqtt_mq_find, mqtt_mq_clean: however the queue is cleaned and filled, what is released
\* was sent before, and completely; an answer completes nothing that is still unsent.
THEOREM ReleasedWasSentSafe ==
  ASSUME "timeout" \notin Features, "retry" \notin Features
  PROVE  Spec => ReleasedWasSent
<1> DEFINE Step ==
      \A j \in DOMAIN mq \cap DOMAIN mq' :
        /\ mq[j].state = "UNSENT" /\ mq'[j].state = "COMPLETE"
        /\ mq'[j].type = mq[j].type /\ mq'[j].pid = mq[j].pid
        => SentState(mq[j]) = "COMPLETE" /\ toBroker' # toBroker
<1>1. Init => IInv /\ Exchange
  BY InitInv, InitExchange
<1>2. IInv /\ Exchange /\ [Next]_vars => (IInv /\ Exchange)'
  BY StepInv, StepExchange
<1>3. IInv /\ Exchange /\ [Next]_vars => [Step]_vars
  <2> SUFFICES ASSUME IInv, Exchange, [Next]_vars
               PROVE  Step
    OBVIOUS
  <2>1. Types3
    BY DEF IInv, QueueOK, Queues, Wire, Types3
  <2> QED
    BY <2>1, StepReleased
<1>4. Spec => [][Step]_vars
  BY <1>1, <1>2, <1>3, PTL DEF Spec
<1> QED
  BY <1>4 DEF ReleasedWasSent

-----------------------------------------------------------------------------
(* Packet ids.                                                             *)

\* A new message leaves the ids of the queue apart.
LEMMA PackedApart ==
  ASSUME Types3, Apart(mq), NEW q, Advanced(q), NEW m, Fits(m), m.type # "UNSUBSCRIBE",
         NEW r, NEW d, Packed(q, r, m, d)
  PROVE  Apart(r)
<1> DEFINE New(k) == k = Len(q) - d + 1 /\ r[k] = m
           Old(k) == /\ k + d \in 1 .. Len(mq) /\ r[k].type = mq[k + d].type
                     /\ r[k].pid = mq[k + d].pid /\ r[k].qos = mq[k + d].qos
<1>1. /\ Len(q) = Len(mq) /\ Len(mq) \in Nat /\ d \in 0 .. Len(q) /\ Len(r) \in Nat
      /\ \A k \in 1 .. Len(q) - d : r[k] = q[k + d]
      /\ Len(r) = Len(q) - d \/ (Len(r) = Len(q) - d + 1 /\ r[Len(q) - d + 1] = m)
  BY DEF Types3, Packed, Advanced
\* Every message of r is the new one, or one of the queue.
<1>2. ASSUME NEW k \in 1 .. Len(r)
      PROVE  New(k) \/ Old(k)
  <2>1. CASE k \in 1 .. Len(q) - d
    <3>1. k + d \in 1 .. Len(mq) /\ r[k] = q[k + d]
      BY <1>1, <2>1
    <3> QED
      BY <3>1 DEF Advanced
  <2>2. CASE k \notin 1 .. Len(q) - d
    BY <1>1, <2>2
  <2> QED
    BY <2>1, <2>2
<1>3. ASSUME NEW k \in 1 .. Len(r)
      PROVE  r[k].type # "UNSUBSCRIBE"
  BY <1>2 DEF Apart
<1>4. ASSUME NEW j \in 1 .. Len(r), NEW k \in 1 .. Len(r),
             r[j].type \in {"PUBLISH", "SUBSCRIBE"}, r[j].pid = r[k].pid, j # k
      PROVE  /\ r[k].type \notin {"PUBLISH", "SUBSCRIBE"}
             /\ r[k].type = "PUBREL" => r[j].type = "PUBLISH" /\ r[j].qos = 2
  <2>1. CASE New(j)
    <3>1. Old(k)
      BY <1>2, <1>4, <2>1
    <3>2. mq[k + d].pid # m.pid
      BY <1>4, <2>1, <3>1 DEF Fits
    <3> QED
      BY <1>4, <2>1, <3>1, <3>2
  <2>2. CASE Old(j) /\ New(k)
    <3>1. m.type \notin {"PUBLISH", "SUBSCRIBE"}
      BY <1>4, <2>2 DEF Fits
    <3>2. ASSUME m.type = "PUBREL"
          PROVE  r[j].type = "PUBLISH" /\ r[j].qos = 2
      <4>1. PICK b \in 1 .. Len(mq) :
              mq[b].type = "PUBLISH" /\ mq[b].qos = 2 /\ mq[b].pid = m.pid
        BY <3>2 DEF Fits
      <4>2. j + d = b
        BY <1>4, <2>2, <4>1 DEF Apart
      <4> QED
        BY <2>2, <4>1, <4>2
    <3> QED
      BY <2>2, <3>1, <3>2
  <2>3. CASE Old(j) /\ Old(k)
    <3>1. j + d # k + d
      BY <1>1, <1>4
    <3>2. /\ mq[j + d].type \in {"PUBLISH", "SUBSCRIBE"} /\ mq[j + d].pid = mq[k + d].pid
          /\ j + d \in 1 .. Len(mq) /\ k + d \in 1 .. Len(mq)
      BY <1>4, <2>3
    <3>3. /\ mq[k + d].type \notin {"PUBLISH", "SUBSCRIBE"}
          /\ mq[k + d].type = "PUBREL" => mq[j + d].type = "PUBLISH" /\ mq[j + d].qos = 2
      BY <3>1, <3>2 DEF Apart
    <3> QED
      BY <2>3, <3>3
  <2> QED
    BY <1>2, <2>1, <2>2, <2>3
<1> HIDE DEF New, Old
<1> QED
  BY <1>3, <1>4 DEF Apart

\* No thread is in mqtt_unsubscribe.
LEMMA StepUser ==
  ASSUME "unsubscribe" \notin Api, user # "unsub", [Next]_vars
  PROVE  user' # "unsub"
<1>1. CASE ApiStep
  BY <1>1, ApiSteps
<1>2. CASE \/ mqtt_connect \/ FallQuiet \/ SyncStart \/ SyncReconnects \/ ReconnectFails
           \/ SyncEnd \/ SyncEndLocked
  BY <1>2 DEF mqtt_connect, FallQuiet, SyncStart, SyncReconnects, ReconnectFails, SyncEnd,
              SyncEndLocked, userVars
<1>3. CASE RecvStep
  <2>1. ASSUME NEW type, Received(type)
        PROVE  UNCHANGED user
    BY <2>1 DEF Received, userVars
  <2>2. UNCHANGED user
    BY <1>3, <2>1 DEF RecvStep, RecvAck, RecvPublish, RecvStage, RecvNothing, RecvError, userVars
  <2> QED
    BY <2>2
<1>4. CASE SendStep
  BY <1>4 DEF SendStep, SendStart, SendSkip, SendWhole, SendPart, SendError, SendEnd, userVars
<1>5. CASE \/ (\E j \in DOMAIN mq : Expire(j)) \/ BrokerReceive \/ UNCHANGED vars
           \/ \E m \in BMsgs : BrokerPublish(m) \/ BrokerRetry(m)
  BY <1>5 DEF Expire, BrokerReceive, BrokerPublish, BrokerRetry, userVars, vars
<1> QED
  BY <1>1, <1>2, <1>3, <1>4, <1>5, Steps

\* Every step leaves the ids apart.
LEMMA StepApart ==
  ASSUME "timeout" \notin Features, Exchange, IInv, Apart(mq), user # "unsub", [Next]_vars
  PROVE  Apart(mq')
<1>1. Types3
  BY DEF IInv, QueueOK, Queues, Wire, Types3
<1>2. CASE mqtt_reinit
  <2>1. PICK p \in Pids : /\ Len(mq') = 2 /\ mq'[1] = QMsg("CONNECT", NULL, 0)
                          /\ mq'[2] = QMsg("SUBSCRIBE", p, 0)
    BY <1>2, ReinitQueue
  <2>2. PICK r : r = mq'
    OBVIOUS
  <2>3. /\ r[1].type = "CONNECT" /\ r[2].type = "SUBSCRIBE" /\ r[1].pid = NULL /\ r[2].pid = p
        /\ p # NULL
    BY <2>1, <2>2, IdAssumption DEF QMsg
  <2>4. Len(r) = 2
    BY <2>1, <2>2
  <2>5. \A j \in 1 .. Len(r) : j = 1 \/ j = 2
    BY <2>4
  <2> QED
    BY <2>2, <2>3, <2>5 DEF Apart
<1>3. ASSUME NEW q, Advanced(q), Moves(q)
      PROVE  Apart(mq')
  <2>1. Apart(q)
    BY <1>3 DEF Apart, Advanced
  <2>2. ASSUME NEW m, NEW d, Fits(m), Packed(q, mq', m, d)
        PROVE  Apart(mq')
    <3>1. m.type # "UNSUBSCRIBE"
      BY <2>2 DEF Fits
    <3> QED
      BY <1>1, <1>3, <2>2, <3>1, PackedApart
  <2> QED
    BY <1>3, <2>1, <2>2 DEF Moves
<1> QED
  BY <1>1, <1>2, <1>3, QueueMoves

\* __mqtt_next_pid: two requests of the queue never have the same packet id, whatever the
\* broker repeats; without mqtt_unsubscribe, whose id may be taken before it is queued.
THEOREM PidsUniqueSafe ==
  ASSUME "timeout" \notin Features, "unsubscribe" \notin Api
  PROVE  Spec => []PidsUnique
<1> DEFINE Ids1 == Apart(mq) /\ user # "unsub"
<1>1. Init => IInv /\ Exchange /\ Ids1
  <2>1. Init => Ids1
    BY DEF Init, Apart
  <2> QED
    BY <2>1, InitInv, InitExchange
<1>2. IInv /\ Exchange /\ Ids1 /\ [Next]_vars => (IInv /\ Exchange /\ Ids1)'
  BY StepInv, StepExchange, StepApart, StepUser
<1>3. IInv /\ Ids1 => PidsUnique
  <2>1. IInv => DOMAIN mq = 1 .. Len(mq)
    BY DEF IInv, QueueOK, Queues
  <2> QED
    BY <2>1 DEF PidsUnique, Uses, Apart
<1> QED
  BY <1>1, <1>2, <1>3, PTL DEF Spec

-----------------------------------------------------------------------------
(* The bytes on the wire.                                                  *)

\* Only the send loop writes, and moves the offset.
LEMMA WireOffset ==
  ASSUME [Next]_vars
  PROVE  \/ UNCHANGED <<send_offset, frame, garbled>>
         \/ "reconnect" \in Features /\ frame' = NULL /\ UNCHANGED <<send_offset, garbled>>
         \/ SendSkip \/ SendError \/ SendWhole \/ \E n \in 0 .. ChunkLen - 1 : SendPart(n)
<1>1. CASE ApiStep
  BY <1>1, ApiSteps DEF netVars
<1>2. CASE \/ mqtt_connect \/ FallQuiet \/ SyncStart \/ ReconnectFails \/ SyncEndLocked
           \/ SendStart \/ SendEnd \/ RecvNothing \/ RecvError
  BY <1>2 DEF mqtt_connect, FallQuiet, SyncStart, ReconnectFails, SyncEndLocked, SendStart, SendEnd,
              RecvNothing, RecvError, cliVars, netVars
<1>3. CASE SyncReconnects \/ SyncEnd
  BY <1>3 DEF SyncReconnects, SyncEnd, NeedsReconnect, mqtt_reinit, cliVars, netVars
<1>4. CASE RecvStep
  <2>1. ASSUME NEW type, Received(type)
        PROVE  UNCHANGED <<send_offset, frame, garbled>>
    BY <2>1 DEF Received
  <2> QED
    BY <1>2, <1>4, <2>1 DEF RecvStep, RecvAck, RecvPublish, RecvStage
<1>5. CASE \/ (\E j \in DOMAIN mq : Expire(j)) \/ BrokerReceive \/ UNCHANGED vars
           \/ \E m \in BMsgs : BrokerPublish(m) \/ BrokerRetry(m)
  BY <1>5 DEF Expire, BrokerReceive, BrokerPublish, BrokerRetry, cliVars, netVars, vars
<1> QED
  BY <1>1, <1>2, <1>3, <1>4, <1>5, Steps DEF SendStep

\* A socket that takes whole packets only.
Unbroken == ~garbled /\ frame = NULL /\ send_offset = 0

\* SendWhole writes all chunks of a packet or none, and SendPart writes no part.
LEMMA StepUnbroken ==
  ASSUME "partial" \notin Features, Unbroken, [Next]_vars
  PROVE  Unbroken'
<1>1. ChunkLen \in Nat \ {0} /\ \A m : Offset(m) = 0
  BY BoundsAssumption DEF Unbroken, Offset
<1>2. CASE SendSkip \/ SendError
  BY <1>1, <1>2 DEF SendSkip, SendError, netVars, Unbroken
<1>3. CASE SendWhole
  <2>1. Write(mq[i], 0, ChunkLen) /\ send_offset' = 0
    <3>1. Write(mq[i], Offset(mq[i]), ChunkLen - Offset(mq[i])) /\ send_offset' = 0
      BY <1>3 DEF SendWhole
    <3>2. ChunkLen - 0 = ChunkLen
      BY <1>1
    <3> QED
      BY <1>1, <3>1, <3>2
  <2>2. 0 + ChunkLen = ChunkLen /\ ChunkLen # 0
    BY <1>1
  <2> QED
    BY <2>1, <2>2 DEF Write, Unbroken
<1>4. ASSUME NEW n \in 0 .. ChunkLen - 1, SendPart(n)
      PROVE  Unbroken'
  <2>1. n = 0 /\ Write(mq[i], 0, 0) /\ send_offset' = 0 + 0
    BY <1>1, <1>4 DEF SendPart
  <2>2. ~(0 > 0) /\ 0 + 0 = 0
    OBVIOUS
  <2> QED
    BY <2>1, <2>2 DEF Write, Unbroken
<1> QED
  BY <1>2, <1>3, <1>4, WireOffset DEF Unbroken

\* The packet that is incomplete stays the first that is unsent.
LEMMA MovesFramed ==
  ASSUME "retry" \notin Features, Types3, Framed, ~SendWhole,
         UNCHANGED <<send_offset, frame, garbled>>, NEW q, Advanced(q), Moves(q)
  PROVE  Framed'
<1>1. CASE frame = NULL
  BY <1>1 DEF Framed
<1>2. CASE frame # NULL
  <2>1. PICK j \in 1 .. Len(mq) :
          FirstUnsent(j) /\ frame = [pkt |-> Bytes(mq[j]), off |-> send_offset]
    BY <1>2 DEF Framed
  <2>2. mq \in Seq(QMsgs) /\ Len(mq) \in Nat /\ q \in Seq(QMsgs) /\ Len(q) = Len(mq)
    BY DEF Types3, Advanced
  <2>3. /\ q[j] = mq[j] /\ q[j].state = "UNSENT"
        /\ \A k \in 1 .. j - 1 : q[k].state # "UNSENT"
    BY <2>1, <2>2 DEF Advanced, FirstUnsent
  <2>4. PICK r : r = mq'
    OBVIOUS
  <2>5. PICK a \in 1 .. Len(r) :
          r[a] = mq[j] /\ \A k \in 1 .. a - 1 : r[k].state # "UNSENT"
    <3>1. CASE r = q
      BY <2>2, <2>3, <3>1
    <3>2. ASSUME NEW m, NEW d, Packed(q, r, m, d)
          PROVE  \E a \in 1 .. Len(r) :
                   r[a] = mq[j] /\ \A k \in 1 .. a - 1 : r[k].state # "UNSENT"
      <4>1. /\ d \in 0 .. Len(q) /\ Len(r) \in Nat /\ Len(q) - d <= Len(r)
            /\ \A k \in 1 .. d : q[k].state = "COMPLETE"
            /\ \A k \in 1 .. Len(q) - d : r[k] = q[k + d]
        BY <2>2, <3>2 DEF Packed
      <4>2. j \notin 1 .. d
        BY <2>3, <4>1
      <4>3. j - d \in 1 .. Len(r) /\ j - d \in 1 .. Len(q) - d /\ (j - d) + d = j
        BY <2>2, <4>1, <4>2
      <4>4. r[j - d] = q[j]
        BY <4>1, <4>3
      <4>5. ASSUME NEW k \in 1 .. (j - d) - 1
            PROVE  r[k].state # "UNSENT"
        <5>1. k \in 1 .. Len(q) - d /\ k + d \in 1 .. j - 1
          BY <2>2, <4>1, <4>3
        <5> QED
          BY <2>3, <4>1, <5>1
      <4> QED
        BY <2>3, <4>3, <4>4, <4>5
    <3> QED
      BY <2>4, <3>1, <3>2 DEF Moves
  <2>6. r[a].state = "UNSENT"
    BY <2>3, <2>5
  <2>7. FirstUnsent(a)' /\ frame' = [pkt |-> Bytes(mq'[a]), off |-> send_offset']
    BY <2>1, <2>4, <2>5, <2>6 DEF FirstUnsent
  <2>8. ~garbled' /\ frame' # NULL /\ "partial" \in Features /\ a \in 1 .. Len(mq')
    BY <1>2, <2>4 DEF Framed
  <2> QED
    BY <2>7, <2>8 DEF Framed
<1> QED
  BY <1>1, <1>2

\* What the loop sends is the packet that is incomplete, or the wire is between two.
LEMMA SendsFramed ==
  ASSUME Exchange, Types3, Framed, NoQos2, Sending, MustSend(mq[i])
  PROVE  /\ FirstUnsent(i) /\ Offset(mq[i]) = send_offset
         /\ IF frame = NULL THEN send_offset = 0
            ELSE frame = [pkt |-> Bytes(mq[i]), off |-> send_offset]
<1>1. /\ i \in 1 .. Len(mq) /\ mq[i].state = "UNSENT" /\ Offset(mq[i]) = send_offset
      /\ Len(mq) \in Nat
  BY SendsUnsent DEF Types3
<1>2. ASSUME NEW k \in 1 .. i - 1
      PROVE  mq[k].state # "UNSENT"
  <2>1. k \in 1 .. Len(mq) /\ k < i
    BY <1>1
  <2>2. ~OpenQos2(mq[k])
    BY <2>1 DEF NoQos2, OpenQos2
  <2> QED
    BY <1>1, <2>1, <2>2 DEF Exchange, TurnSeen, Sending
<1>3. FirstUnsent(i)
  BY <1>1, <1>2 DEF FirstUnsent
<1>4. ASSUME NEW j \in 1 .. Len(mq), FirstUnsent(j)
      PROVE  j = i
  BY <1>1, <1>3, <1>4 DEF FirstUnsent
<1> QED
  BY <1>1, <1>3, <1>4 DEF Framed

\* A packet that was accepted in part is continued where it stopped.
LEMMA StepFramed ==
  ASSUME {"timeout", "retry", "reconnect"} \cap Features = {},
         Exchange, IInv, Framed, NoQos2, [Next]_vars
  PROVE  Framed'
<1>1. Types3 /\ send_offset \in 0 .. ChunkLen - 1 /\ ChunkLen \in Nat \ {0}
  BY BoundsAssumption DEF IInv, QueueOK, Queues, Wire, Types3, Control
<1>2. CASE SendWhole
  <2>1. /\ Sending /\ MustSend(mq[i]) /\ send_offset' = 0
        /\ Write(mq[i], Offset(mq[i]), ChunkLen - Offset(mq[i]))
    BY <1>2 DEF SendWhole
  <2>2. /\ Offset(mq[i]) = send_offset
        /\ IF frame = NULL THEN send_offset = 0
           ELSE frame = [pkt |-> Bytes(mq[i]), off |-> send_offset]
    BY <1>1, <2>1, SendsFramed
  <2>3. ChunkLen - send_offset # 0 /\ send_offset + (ChunkLen - send_offset) = ChunkLen
    BY <1>1
  <2>4. frame' = NULL
    BY <2>1, <2>2, <2>3 DEF Write
  <2>5. ~garbled'
    <3>1. IF frame = NULL THEN send_offset = 0
          ELSE frame.pkt = Bytes(mq[i]) /\ frame.off = send_offset
      BY <2>2
    <3> QED
      BY <2>1, <2>2, <3>1 DEF Write, Framed
  <2> QED
    BY <2>1, <2>4, <2>5 DEF Framed
<1>3. ASSUME NEW n \in 0 .. ChunkLen - 1, SendPart(n)
      PROVE  Framed'
  <2>1. /\ Sending /\ MustSend(mq[i]) /\ send_offset' = Offset(mq[i]) + n /\ UNCHANGED mq
        /\ Write(mq[i], Offset(mq[i]), n) /\ n < ChunkLen - Offset(mq[i])
        /\ "partial" \in Features \/ n = 0
    BY <1>3 DEF SendPart
  <2>2. /\ FirstUnsent(i) /\ Offset(mq[i]) = send_offset
        /\ IF frame = NULL THEN send_offset = 0
           ELSE frame = [pkt |-> Bytes(mq[i]), off |-> send_offset]
    BY <1>1, <2>1, SendsFramed
  <2>3. send_offset + n # ChunkLen
    BY <1>1, <2>1, <2>2
  <2>4. ~garbled'
    <3>1. IF frame = NULL THEN send_offset = 0
          ELSE frame.pkt = Bytes(mq[i]) /\ frame.off = send_offset
      BY <2>2
    <3> QED
      BY <2>1, <2>2, <3>1 DEF Write, Framed
  <2>5. CASE n = 0
    <3>1. frame' = frame /\ send_offset' = send_offset
      BY <1>1, <2>1, <2>2, <2>5 DEF Write
    <3> QED
      BY <2>1, <2>4, <3>1 DEF Framed, FirstUnsent
  <2>6. CASE n # 0
    <3>1. frame' = [pkt |-> Bytes(mq[i]), off |-> send_offset + n]
      BY <2>1, <2>2, <2>3, <2>6 DEF Write
    <3>2. "partial" \in Features /\ i \in 1 .. Len(mq)
      BY <2>1, <2>2, <2>6 DEF FirstUnsent
    <3>3. frame' # NULL
      <4>1. Bytes(mq[i]) \in Packets
        BY <3>2, BytesAre DEF Exchange, Orderly
      <4>2. send_offset + n \in 1 .. ChunkLen - 1
        BY <1>1, <2>1, <2>2, <2>6
      <4> QED
        BY <3>1, <4>1, <4>2, FrameAssumption
    <3>4. PICK j : j = i
      OBVIOUS
    <3>5. FirstUnsent(j)' /\ j \in 1 .. Len(mq')
      BY <2>1, <2>2, <3>4 DEF FirstUnsent
    <3>6. send_offset' = send_offset + n /\ mq' = mq
      BY <2>1, <2>2
    <3>7. frame' = [pkt |-> Bytes(mq'[j]), off |-> send_offset']
      BY <3>1, <3>4, <3>6, Zenon
    <3> QED
      BY <2>4, <3>2, <3>3, <3>5, <3>7 DEF Framed
  <2> QED
    BY <2>5, <2>6
<1>4. CASE SendSkip \/ SendError
  <2>1. /\ UNCHANGED <<mq, frame, garbled>> /\ send_offset' = Offset(mq[i]) /\ Sending
    BY <1>4 DEF SendSkip, SendError, netVars
  <2>2. i \in 1 .. Len(mq)
    <3>1. i \in Nat \ {0} /\ i <= Len(mq) /\ Len(mq) \in Nat
      BY <1>1, <2>1 DEF Types3, Control, Sending
    <3> QED
      BY <3>1
  <2>3. Offset(mq[i]) = send_offset
    BY <2>2 DEF Exchange, Orderly, Shaped, Offset, TimedOut
  <2> QED
    BY <2>1, <2>3 DEF Framed, FirstUnsent
<1>5. CASE UNCHANGED <<send_offset, frame, garbled>> /\ ~SendWhole
  <2>1. PICK q : Advanced(q) /\ Moves(q)
    BY <1>1, QueueMoves
  <2> QED
    BY <1>1, <1>5, <2>1, MovesFramed
<1> QED
  BY <1>2, <1>3, <1>4, <1>5, WireOffset

\* Without mqtt_publish with QoS 2 there is no such message.
LEMMA StepNoQos2 ==
  ASSUME "timeout" \notin Features, "publish2" \notin Api, Exchange, IInv, NoQos2, [Next]_vars
  PROVE  NoQos2'
<1>1. Types3
  BY DEF IInv, QueueOK, Queues, Wire, Types3
<1>2. CASE mqtt_reinit
  <2>1. PICK p \in Pids : /\ Len(mq') = 2 /\ mq'[1] = QMsg("CONNECT", NULL, 0)
                          /\ mq'[2] = QMsg("SUBSCRIBE", p, 0)
    BY <1>2, ReinitQueue
  <2>2. mq'[1].type = "CONNECT" /\ mq'[2].type = "SUBSCRIBE"
    BY <2>1 DEF QMsg
  <2>3. \A j \in 1 .. 2 : j = 1 \/ j = 2
    OBVIOUS
  <2> QED
    BY <2>1, <2>2, <2>3 DEF NoQos2
<1>3. ASSUME NEW q, Advanced(q), Moves(q)
      PROVE  NoQos2'
  <2>1. Len(q) = Len(mq) /\ \A j \in 1 .. Len(q) : ~(q[j].type = "PUBLISH" /\ q[j].qos = 2)
    BY <1>3 DEF NoQos2, Advanced
  <2>2. CASE mq' = q
    BY <2>1, <2>2 DEF NoQos2
  <2>3. ASSUME NEW m, NEW d, Fits(m), Packed(q, mq', m, d)
        PROVE  NoQos2'
    <3>1. PICK r : r = mq'
      OBVIOUS
    <3>2. /\ Len(q) \in Nat /\ Len(r) \in Nat /\ d \in 0 .. Len(q)
          /\ \A k \in 1 .. Len(q) - d : r[k] = q[k + d]
          /\ Len(r) = Len(q) - d \/ (Len(r) = Len(q) - d + 1 /\ r[Len(q) - d + 1] = m)
      BY <1>3, <2>3, <3>1 DEF Packed, Advanced
    <3>3. ASSUME NEW k \in 1 .. Len(r)
          PROVE  ~(r[k].type = "PUBLISH" /\ r[k].qos = 2)
      <4>1. CASE k \in 1 .. Len(q) - d
        <5>1. k + d \in 1 .. Len(q) /\ r[k] = q[k + d]
          BY <3>2, <4>1
        <5> QED
          BY <2>1, <5>1
      <4>2. CASE k \notin 1 .. Len(q) - d
        <5>1. r[k] = m
          BY <3>2, <4>2
        <5> QED
          BY <2>3, <5>1 DEF Fits
      <4> QED
        BY <4>1, <4>2
    <3> QED
      BY <3>1, <3>3 DEF NoQos2
  <2> QED
    BY <1>3, <2>2, <2>3 DEF Moves
<1> QED
  BY <1>1, <1>2, <1>3, QueueMoves

\* client->send_offset, __mqtt_send: what reaches the socket is a sequence of whole
\* packets.  Where the socket accepts parts of a packet, this takes a client that sends
\* nothing twice and in the order of its queue: no timeouts, no QoS 2, no reconnects.
THEOREM StreamFramedSafe ==
  ASSUME \/ "partial" \notin Features
         \/ /\ {"timeout", "retry", "reconnect"} \cap Features = {}
            /\ "publish2" \notin Api
  PROVE  Spec => []StreamFramed
<1>1. CASE "partial" \notin Features
  <2>1. Init => Unbroken
    BY DEF Init, Unbroken
  <2>2. Unbroken /\ [Next]_vars => Unbroken'
    BY <1>1, StepUnbroken
  <2>3. Unbroken => StreamFramed
    BY DEF Unbroken, StreamFramed
  <2> QED
    BY <2>1, <2>2, <2>3, PTL DEF Spec
<1>2. CASE {"timeout", "retry", "reconnect"} \cap Features = {} /\ "publish2" \notin Api
  <2>1. Init => IInv /\ Exchange /\ Framed /\ NoQos2
    <3>1. Init => Framed /\ NoQos2
      BY DEF Init, Framed, NoQos2
    <3> QED
      BY <3>1, InitInv, InitExchange
  <2>2. IInv /\ Exchange /\ Framed /\ NoQos2 /\ [Next]_vars
          => (IInv /\ Exchange /\ Framed /\ NoQos2)'
    BY <1>2, StepInv, StepExchange, StepFramed, StepNoQos2
  <2>3. Framed => StreamFramed
    BY DEF Framed, StreamFramed
  <2> QED
    BY <2>1, <2>2, <2>3, PTL DEF Spec
<1> QED
  BY <1>1, <1>2
=============================================================================
