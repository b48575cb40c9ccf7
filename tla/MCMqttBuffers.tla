--------------------------- MODULE MCMqttBuffers ----------------------------
(***************************************************************************)
(* An instance for TLC of the two buffers of an MQTT client: the send queue*)
(* (MqttQueue) and the receive buffer (MqttReceive), with the packers      *)
(* (MqttPackets) that fill the first.  The buffers share no memory and the *)
(* client's mutex serialises their calls, so their properties are about one*)
(* buffer at a time: one of them moves while the other stays empty.        *)
(***************************************************************************)
EXTENDS MqttQueue, MqttReceive, TLC

CONSTANTS Requests, MaxRoom

VARIABLE packed  \* the last request that was packed, and the result

allVars == <<vars, receiveVars, packed>>

Unpacked == [request |-> "none"]

t == <<7>>
u == <<8, 9>>

\* Strings of one and two bytes; every optional parameter given and not given.
MCConnects ==
  {[type |-> "CONNECT", client_id |-> c, will_topic |-> w, will_message |-> m,
    user_name |-> n, password |-> p, flags |-> f, keep_alive |-> 400] :
     c \in {<<>>, u}, w \in {Null, <<t>>}, m \in {Null, <<u>>},
     n \in {Null, <<u>>}, p \in {Null, <<t>>},
     f \in {{}, {CLEAN}, {0, CLEAN, WILL_RETAIN, 3}, {CLEAN, 3, 4, WILL}}}
MCRequests ==
  MCConnects
  \cup {[type |-> "PUBLISH", topic |-> x, pid |-> 300, message |-> m, flags |-> f] :
          x \in {t, u}, m \in {<<>>, u, [j \in 1 .. 62 |-> 5]},
          f \in SUBSET {RETAIN, 1, 2, DUP}}
  \cup {[type |-> "SUBSCRIBE", pid |-> 300, topics |-> s, max_qos |-> <<2, 1, 0>>] :
          s \in {<<t>>, <<u, t>>, <<t, u, t>>}}
  \cup {[type |-> "UNSUBSCRIBE", pid |-> 300, topics |-> s] :
          s \in {<<t>>, <<u, t>>, <<t, u, t>>}}
  \cup {[type |-> x, pid |-> 513] : x \in {"PUBACK", "PUBREC", "PUBREL", "PUBCOMP"}}
  \cup {[type |-> "PINGREQ"], [type |-> "DISCONNECT"]}

\* Packets of two to eleven bytes, with lengths of one and of two digits; the
\* receive buffer holds eight bytes.
MCResponses ==
  {[type |-> "CONNACK", session_present |-> 1, return_code |-> c] : c \in {0, 5}}
  \cup {[type |-> "PUBLISH", dup |-> 0, qos |-> 0, retain |-> 1, topic |-> t,
         pid |-> 0, message |-> m] : m \in {<<>>, <<5>>}}
  \cup {[type |-> "PUBLISH", dup |-> 1, qos |-> 2, retain |-> 0, topic |-> t,
         pid |-> 258, message |-> m] : m \in {<<>>, <<1, 2, 3>>}}
  \cup {[type |-> x, pid |-> 258] : x \in {"PUBREL", "UNSUBACK"}}
  \cup {[type |-> "SUBACK", pid |-> 258, return_codes |-> c] : c \in {<<1>>, <<128>>}}
  \cup {[type |-> "PINGRESP"]}

Fault(bytes, err) == [bytes |-> bytes, response |-> [type |-> "FAULTY", err |-> err]]
MCFaulty ==
  {Fault(<<0, 0>>, "CONTROL_FORBIDDEN_TYPE"),
   Fault(<<16 * Code("PUBREL"), 2, 1, 2>>, "CONTROL_INVALID_FLAGS"),
   Fault(<<16 * Code("PINGRESP"), 4, 4, 4, 0>>, "INVALID_REMAINING_LENGTH"),
   Fault(<<16 * Code("CONNACK"), 1, 0>>, "MALFORMED_RESPONSE"),
   Fault(<<16 * Code("CONNACK"), 2, 2, 0>>, "CONNACK_FORBIDDEN_FLAGS"),
   Fault(<<16 * Code("CONNACK"), 2, 1, 6>>, "CONNACK_FORBIDDEN_CODE"),
   Fault(<<16 * Code("SUBACK"), 2, 1, 2>>, "MALFORMED_RESPONSE"),
   Fault(<<16 * Code("UNSUBACK"), 3, 1, 2, 3>>, "MALFORMED_RESPONSE"),
   Fault(<<16 * Code("PINGREQ"), 0>>, "RESPONSE_INVALID_CONTROL_TYPE")}

IdSymmetry == Permutations(Ids)

QueueEmpty == hdr = <<>> /\ ~full /\ \A a \in DOMAIN mem : mem[a] = Junk
ReceiveEmpty ==
  due = <<>> /\ recv_buffer = <<>> /\ ~closed /\ ~receiving

\* A request is packed into a buffer of some size; then the next one can be.
Packs ==
  \/ /\ packed = Unpacked
     /\ \E r \in Requests, room \in 0 .. MaxRoom :
          packed' = [request |-> r, room |-> room, result |-> PackRequest(room, r)]
  \/ packed # Unpacked /\ packed' = Unpacked

MCInit == Init /\ ReceiveInit /\ packed = Unpacked
MCNext ==
  \/ ReceiveEmpty /\ packed = Unpacked /\ Next /\ UNCHANGED <<receiveVars, packed>>
  \/ QueueEmpty /\ packed = Unpacked /\ ReceiveNext /\ UNCHANGED <<vars, packed>>
  \/ QueueEmpty /\ ReceiveEmpty /\ Packs /\ UNCHANGED <<vars, receiveVars>>
MCSpec == MCInit /\ [][MCNext]_allVars

-----------------------------------------------------------------------------
(* Properties of the composition.                                          *)

\* The types of both buffers.
BuffersTypeOK == TypeOK /\ ReceiveTypeOK

\* The request breaks the rules of its packer: no clean session without a client
\* id, a will without a message, QoS 3, or as many topics as the maximum.
Invalid(r) ==
  \/ /\ r.type = "CONNECT"
     /\ \/ r.client_id = <<>> /\ CLEAN \notin r.flags
        \/ r.will_topic # Null /\ (r.will_message = Null \/ {3, 4} \subseteq r.flags)
  \/ r.type = "PUBLISH" /\ QOS_MASK \subseteq r.flags
  \/ r.type \in {"SUBSCRIBE", "UNSUBSCRIBE"} /\ Len(r.topics) >= MaxTopics

\* What MqttQueue relies on: a packer refuses a valid request exactly when it does
\* not fit into the room, and otherwise writes the bytes from which a server that
\* keeps to the standard reads this request, so that the length it computed before
\* it wrote them was right; an invalid request, or one too long for the remaining
\* length, is an error and not a full buffer.
PacksExactly ==
  packed # Unpacked =>
    LET r == packed.request
        x == packed.result
        bytes == RequestBytes(r)
        tooLong == Len(bytes) > 1 + LenDigits + LenBase ^ LenDigits - 1
    IN  /\ Invalid(r) => x.err \notin {"OK", "INVALID_REMAINING_LENGTH"}
        /\ ~Invalid(r) /\ tooLong /\ packed.room > 0 =>
             x.err = "INVALID_REMAINING_LENGTH"
        /\ ~Invalid(r) /\ ~tooLong =>
             /\ x.err = "OK"
             /\ x.rv = 0 <=> packed.room < Len(bytes)
             /\ x.rv > 0 => x.bytes = bytes /\ x.rv = Len(bytes)
=============================================================================
