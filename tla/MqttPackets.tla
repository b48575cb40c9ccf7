---------------------------- MODULE MqttPackets -----------------------------
(***************************************************************************)
(* The control packet codecs of MQTT-C (mqtt.c, "FIXED HEADER" to          *)
(* "UNSUBSCRIBE", "RESPONSE UNPACKING" and "EXTRA DETAILS").  A packet is  *)
(* a sequence of bytes; the base of the remaining length (128 in the code) *)
(* and its greatest number of digits (4) are constants, so that lengths of *)
(* more than one digit occur in small packets.  A string or a payload is a *)
(* short sequence of bytes that no codec looks into.  Flags are the set of *)
(* the numbers of the bits that are set.                                   *)
(***************************************************************************)
EXTENDS Naturals, Sequences, FiniteSets
LOCAL INSTANCE SequencesExt
LOCAL INSTANCE FiniteSetsExt

CONSTANTS
  LenBase,    \* values of one digit of the remaining length
  LenDigits,  \* digits of the greatest remaining length
  MaxTopics   \* MQTT_SUBSCRIBE_ and MQTT_UNSUBSCRIBE_REQUEST_MAX_NUM_TOPICS

ASSUME PacketsAssumption ==
  LenBase \in Nat \ {0, 1} /\ LenDigits \in Nat \ {0} /\ MaxTopics \in Nat

\* enum MQTTControlPacketType
ControlTypes ==
  [CONNECT |-> 1, CONNACK |-> 2, PUBLISH |-> 3, PUBACK |-> 4, PUBREC |-> 5,
   PUBREL |-> 6, PUBCOMP |-> 7, SUBSCRIBE |-> 8, SUBACK |-> 9,
   UNSUBSCRIBE |-> 10, UNSUBACK |-> 11, PINGREQ |-> 12, PINGRESP |-> 13,
   DISCONNECT |-> 14]
Code(type) == ControlTypes[type]

\* enum MQTTConnectFlags and enum MQTTPublishFlags, as bit numbers.
CLEAN == 1
WILL == 2
WILL_QOS == {3, 4}
WILL_RETAIN == 5
PASSWORD == 6
USER_NAME == 7
DUP == 3
QOS_MASK == {1, 2}
RETAIN == 0

Byte(bits) == MapThenSumSet(LAMBDA b : 2 ^ b, bits)

\* A string parameter that may be NULL is a sequence of at most one string.
Null == <<>>

-----------------------------------------------------------------------------
(* The fixed header.                                                       *)

\* mqtt_fixed_header_rules: the types that exist, and the flags a type needs
\* (only PUBLISH has flags of its own).
ControlTypeIsValid(type) == type \in 1 .. 14
RequiredFlags(type) ==
  IF type \in {Code("PUBREL"), Code("SUBSCRIBE"), Code("UNSUBSCRIBE")} THEN 2 ELSE 0

\* The first rule that a type and its flags break.
mqtt_fixed_header_rule_violation(type, flags) ==
  IF ~ControlTypeIsValid(type) THEN "CONTROL_FORBIDDEN_TYPE"
  ELSE IF type # Code("PUBLISH") /\ flags # RequiredFlags(type)
  THEN "CONTROL_INVALID_FLAGS" ELSE "OK"

\* What an (un)packer returns: an error, or the bytes consumed (0: too few).
Fails(err) == [err |-> err, rv |-> 0]
TooFew == [err |-> "OK", rv |-> 0]
\* The digits of the remaining length that have no continuation bit.
EndDigits(buf) ==
  {k \in 1 .. LenDigits : k < Len(buf) /\ buf[k + 1] < LenBase}

\* The remaining length, of which digit `last' is the end.
RemainingLength(buf, last) ==
  MapThenSumSet(LAMBDA k : (buf[k + 1] % LenBase) * LenBase ^ (k - 1), 1 .. last)

\* mqtt_unpack_fixed_header: type, flags and remaining length of the packet at
\* the start of buf; 0 as long as the header or what follows it is incomplete.
mqtt_unpack_fixed_header(buf) ==
  IF EndDigits(buf) = {}
  THEN IF Len(buf) > LenDigits THEN Fails("INVALID_REMAINING_LENGTH") ELSE TooFew
  ELSE LET last == Min(EndDigits(buf))
           type == buf[1] \div 16
           flags == buf[1] % 16
           remaining == RemainingLength(buf, last)
           violation == mqtt_fixed_header_rule_violation(type, flags)
       IN  IF violation # "OK" THEN Fails(violation)
           ELSE IF Len(buf) - 1 - last < remaining THEN TooFew
           ELSE [err |-> "OK", rv |-> 1 + last, type |-> type, flags |-> flags,
                 remaining |-> remaining]

\* The digits mqtt_pack_fixed_header writes: the low digit first, each but the
\* last with its continuation bit.
PackLength[n \in Nat] ==
  IF n < LenBase THEN <<n>>
  ELSE <<(n % LenBase) + LenBase>> \o PackLength[n \div LenBase]

\* mqtt_pack_fixed_header: the header's bytes, if they and the rest fit.
mqtt_pack_fixed_header(room, type, flags, remaining) ==
  LET violation == mqtt_fixed_header_rule_violation(type, flags)
      bytes == <<16 * type + flags>> \o PackLength[remaining]
  IN  IF violation # "OK" THEN Fails(violation)
      ELSE IF room > 0 /\ remaining >= LenBase ^ LenDigits
      THEN Fails("INVALID_REMAINING_LENGTH")
      ELSE IF room < Len(bytes) + remaining THEN TooFew
      ELSE [err |-> "OK", rv |-> Len(bytes), bytes |-> bytes]

\* A packer: the header, whose remaining length the packer has computed, and
\* what it then writes behind it.
Pack(room, type, flags, remaining, body) ==
  LET header == mqtt_pack_fixed_header(room, Code(type), flags, remaining)
  IN  IF header.rv = 0 THEN header
      ELSE LET bytes == header.bytes \o body
           IN  [err |-> "OK", rv |-> Len(bytes), bytes |-> bytes]

\* __mqtt_pack_uint16 and __mqtt_unpack_uint16: two bytes, the high one first.
pack_uint16(n) == <<n \div 256, n % 256>>
unpack_uint16(buf) == 256 * buf[1] + buf[2]

\* __mqtt_pack_str writes __mqtt_packed_cstrlen bytes.
packed_cstrlen(str) == 2 + Len(str)
pack_str(str) == pack_uint16(Len(str)) \o str

-----------------------------------------------------------------------------
(* Packers: r holds the parameters of the request, room is bufsz.          *)

\* The CONNECT flags: those the caller may set, those that follow from the
\* parameters, and no flags of a will when there is none.
ConnectFlags(r) ==
  (r.flags \cap
     ({CLEAN} \cup (IF r.will_topic = Null THEN {} ELSE WILL_QOS \cup {WILL_RETAIN})))
  \cup (IF r.will_topic = Null THEN {} ELSE {WILL})
  \cup (IF r.user_name = Null THEN {} ELSE {USER_NAME})
  \cup (IF r.password = Null THEN {} ELSE {PASSWORD})

\* An optional string, and the bytes it needs.
OptStr(opt) == IF opt = Null THEN <<>> ELSE pack_str(opt[1])
OptLen(opt) == IF opt = Null THEN 0 ELSE packed_cstrlen(opt[1])
\* Mistake: the length of the will message is not counted.
WillLen_NoMessage(r) == IF r.will_topic = Null THEN 0 ELSE OptLen(r.will_topic) + 2

\* The bytes of the will.
WillLen(r) ==
  IF r.will_topic = Null THEN 0
  ELSE OptLen(r.will_topic) + 2 + Len(r.will_message[1])

\* mqtt_pack_connection_request
mqtt_pack_connection_request(room, r) ==
  IF r.client_id = <<>> /\ CLEAN \notin r.flags
  THEN Fails("CLEAN_SESSION_IS_REQUIRED")
  ELSE IF r.will_topic # Null /\ r.will_message = Null
  THEN Fails("CONNECT_NULL_WILL_MESSAGE")
  ELSE IF r.will_topic # Null /\ WILL_QOS \subseteq r.flags
  THEN Fails("CONNECT_FORBIDDEN_WILL_QOS")
  ELSE Pack(room, "CONNECT", 0,
            10 + packed_cstrlen(r.client_id) + WillLen(r)
              + OptLen(r.user_name) + OptLen(r.password),
            pack_str(<<77, 81, 84, 84>>) \o <<4, Byte(ConnectFlags(r))>>
              \o pack_uint16(r.keep_alive) \o pack_str(r.client_id)
              \o (IF r.will_topic = Null THEN <<>>
                  ELSE pack_str(r.will_topic[1]) \o OptStr(r.will_message))
              \o OptStr(r.user_name) \o OptStr(r.password))

\* mqtt_pack_publish_request: the caller's DUP flag is never packed (it is set
\* in the queued bytes when the message is sent again).
mqtt_pack_publish_request(room, r) ==
  LET qos == r.flags \cap QOS_MASK
  IN  IF qos = QOS_MASK THEN Fails("PUBLISH_FORBIDDEN_QOS")
      ELSE Pack(room, "PUBLISH", Byte(r.flags \cap (QOS_MASK \cup {RETAIN})),
                packed_cstrlen(r.topic) + (IF qos = {} THEN 0 ELSE 2)
                  + Len(r.message),
                pack_str(r.topic)
                  \o (IF qos = {} THEN <<>> ELSE pack_uint16(r.pid)) \o r.message)

\* mqtt_pack_pubxxx_request: PUBACK, PUBREC, PUBREL and PUBCOMP.
mqtt_pack_pubxxx_request(room, r) ==
  Pack(room, r.type, IF r.type = "PUBREL" THEN 2 ELSE 0, 2, pack_uint16(r.pid))

\* mqtt_pack_subscribe_request: topics and the greatest QoS of each.
mqtt_pack_subscribe_request(room, r) ==
  IF Len(r.topics) >= MaxTopics THEN Fails("SUBSCRIBE_TOO_MANY_TOPICS")
  ELSE Pack(room, "SUBSCRIBE", 2,
            2 + MapThenSumSet(LAMBDA i : packed_cstrlen(r.topics[i]) + 1,
                              DOMAIN r.topics),
            pack_uint16(r.pid)
              \o FlattenSeq([i \in DOMAIN r.topics |->
                               pack_str(r.topics[i]) \o <<r.max_qos[i]>>]))

\* mqtt_pack_unsubscribe_request
mqtt_pack_unsubscribe_request(room, r) ==
  IF Len(r.topics) >= MaxTopics THEN Fails("UNSUBSCRIBE_TOO_MANY_TOPICS")
  ELSE Pack(room, "UNSUBSCRIBE", 2,
            2 + MapThenSumSet(LAMBDA i : packed_cstrlen(r.topics[i]), DOMAIN r.topics),
            pack_uint16(r.pid)
              \o FlattenSeq([i \in DOMAIN r.topics |-> pack_str(r.topics[i])]))

\* mqtt_pack_ping_request and mqtt_pack_disconnect
mqtt_pack_ping_request(room) == Pack(room, "PINGREQ", 0, 0, <<>>)
mqtt_pack_disconnect(room) == Pack(room, "DISCONNECT", 0, 0, <<>>)

\* The packer of a request.
PackRequest(room, r) ==
  CASE r.type = "CONNECT" -> mqtt_pack_connection_request(room, r)
    [] r.type = "PUBLISH" -> mqtt_pack_publish_request(room, r)
    [] r.type = "SUBSCRIBE" -> mqtt_pack_subscribe_request(room, r)
    [] r.type = "UNSUBSCRIBE" -> mqtt_pack_unsubscribe_request(room, r)
    [] r.type = "PINGREQ" -> mqtt_pack_ping_request(room)
    [] r.type = "DISCONNECT" -> mqtt_pack_disconnect(room)
    [] OTHER -> mqtt_pack_pubxxx_request(room, r)

-----------------------------------------------------------------------------
(* Unpackers: h is the unpacked fixed header, buf starts behind it and may *)
(* hold bytes of the packets that follow.                                  *)

\* A decoded response of n bytes.
Decoded(n, response) == [err |-> "OK", rv |-> n, response |-> response]

\* The session's flag and the return code.
mqtt_unpack_connack_response(h, buf) ==
  IF h.remaining # 2 THEN Fails("MALFORMED_RESPONSE")
  ELSE IF buf[1] \notin {0, 1} THEN Fails("CONNACK_FORBIDDEN_FLAGS")
  ELSE IF buf[2] > 5 THEN Fails("CONNACK_FORBIDDEN_CODE")
  ELSE Decoded(2, [type |-> "CONNACK", session_present |-> buf[1],
                   return_code |-> buf[2]])
\* The payload: what the topic and the packet id leave of the packet.
MessageSize(h, qos, topicSize) ==
  h.remaining - topicSize - (IF qos = 0 THEN 2 ELSE 4)

\* A legal packet of three bytes behind the header is refused as well (a topic
\* of one byte, QoS 0, no payload).
mqtt_unpack_publish_response(h, buf) ==
  LET qos == (h.flags \div 2) % 4
      topicSize == unpack_uint16(buf)
      at == 2 + topicSize + (IF qos = 0 THEN 0 ELSE 2)
      size == MessageSize(h, qos, topicSize)
  IN  IF h.remaining < 4 THEN Fails("MALFORMED_RESPONSE")
      ELSE Decoded(at + size,
             [type |-> "PUBLISH", dup |-> h.flags \div 8, qos |-> qos,
              retain |-> h.flags % 2, topic |-> SubSeq(buf, 3, 2 + topicSize),
              pid |-> IF qos = 0 THEN 0 ELSE unpack_uint16(SubSeq(buf, at - 1, at)),
              message |-> SubSeq(buf, at + 1, at + size)])

\* PUBACK, PUBREC, PUBREL and PUBCOMP carry a packet id.
mqtt_unpack_pubxxx_response(h, buf, type) ==
  IF h.remaining # 2 THEN Fails("MALFORMED_RESPONSE")
  ELSE Decoded(2, [type |-> type, pid |-> unpack_uint16(buf)])

\* A packet id and a return code for every topic.
mqtt_unpack_suback_response(h, buf) ==
  IF h.remaining < 3 THEN Fails("MALFORMED_RESPONSE")
  ELSE Decoded(h.remaining, [type |-> "SUBACK", pid |-> unpack_uint16(buf),
                             return_codes |-> SubSeq(buf, 3, h.remaining)])

\* A packet id.
mqtt_unpack_unsuback_response(h, buf) ==
  IF h.remaining # 2 THEN Fails("MALFORMED_RESPONSE")
  ELSE Decoded(2, [type |-> "UNSUBACK", pid |-> unpack_uint16(buf)])

\* The unpacker of a type; the types only a client sends are refused.
UnpackBody(h, buf) ==
  LET type == CHOOSE t \in DOMAIN ControlTypes : Code(t) = h.type
  IN  CASE type = "CONNACK" -> mqtt_unpack_connack_response(h, buf)
        [] type = "PUBLISH" -> mqtt_unpack_publish_response(h, buf)
        [] type \in {"PUBACK", "PUBREC", "PUBREL", "PUBCOMP"} ->
             mqtt_unpack_pubxxx_response(h, buf, type)
        [] type = "SUBACK" -> mqtt_unpack_suback_response(h, buf)
        [] type = "UNSUBACK" -> mqtt_unpack_unsuback_response(h, buf)
        [] type = "PINGRESP" -> Decoded(0, [type |-> "PINGRESP"])
        [] OTHER -> Fails("RESPONSE_INVALID_CONTROL_TYPE")

\* mqtt_unpack_response: an error; 0 when the packet is incomplete; else the
\* bytes of the whole packet and what they say.
mqtt_unpack_response(buf) ==
  LET h == mqtt_unpack_fixed_header(buf)
  IN  IF h.err # "OK" \/ h.rv = 0 THEN h
      ELSE LET body == UnpackBody(h, SubSeq(buf, h.rv + 1, Len(buf)))
           IN  IF body.err # "OK" THEN body
               ELSE Decoded(h.rv + body.rv, body.response)

-----------------------------------------------------------------------------
(* The other side of the wire: the MQTT 3.1.1 standard, on which the       *)
(* server relies.                                                          *)

\* A packet as the standard has it: first byte, length of what follows (base
\* LenBase, continuation bit on every digit but the last), and what follows.
Frame(type, flags, body) ==
  LET n == Len(body)
      digits == Min({k \in 1 .. LenDigits + 1 : n < LenBase ^ k})
  IN  <<16 * Code(type) + flags>>
      \o [k \in 1 .. digits |-> ((n \div LenBase ^ (k - 1)) % LenBase)
                                + (IF k < digits THEN LenBase ELSE 0)]
      \o body

\* Strings and numbers of the standard.
Num(n) == <<n \div 256, n % 256>>
Str(s) == Num(Len(s)) \o s
Opt(o) == IF o = Null THEN <<>> ELSE Str(o[1])

\* The bytes from which a server reads the request r.
RequestBytes(r) ==
  CASE r.type = "CONNECT" ->
         Frame("CONNECT", 0,
           Str(<<77, 81, 84, 84>>)
             \o <<4, Byte({b \in 1 .. 7 :
                    \/ b = CLEAN /\ b \in r.flags
                    \/ b = WILL /\ r.will_topic # Null
                    \/ b \in WILL_QOS \cup {WILL_RETAIN} /\ b \in r.flags
                         /\ r.will_topic # Null
                    \/ b = USER_NAME /\ r.user_name # Null
                    \/ b = PASSWORD /\ r.password # Null})>>
             \o Num(r.keep_alive) \o Str(r.client_id) \o Opt(r.will_topic)
             \o (IF r.will_topic = Null THEN <<>> ELSE Opt(r.will_message))
             \o Opt(r.user_name) \o Opt(r.password))
    [] r.type = "PUBLISH" ->
         Frame("PUBLISH", Byte(r.flags \ {DUP}),
           Str(r.topic) \o (IF r.flags \cap QOS_MASK = {} THEN <<>> ELSE Num(r.pid))
             \o r.message)
    [] r.type = "SUBSCRIBE" ->
         Frame("SUBSCRIBE", 2, Num(r.pid)
           \o FlattenSeq([i \in DOMAIN r.topics |-> Append(Str(r.topics[i]),
                                                          r.max_qos[i])]))
    [] r.type = "UNSUBSCRIBE" ->
         Frame("UNSUBSCRIBE", 2, Num(r.pid)
           \o FlattenSeq([i \in DOMAIN r.topics |-> Str(r.topics[i])]))
    [] r.type \in {"PINGREQ", "DISCONNECT"} -> Frame(r.type, 0, <<>>)
    [] OTHER -> Frame(r.type, IF r.type = "PUBREL" THEN 2 ELSE 0, Num(r.pid))

\* The bytes of a response p a server sends.
ResponseBytes(p) ==
  CASE p.type = "CONNACK" ->
         Frame("CONNACK", 0, <<p.session_present, p.return_code>>)
    [] p.type = "PUBLISH" ->
         Frame("PUBLISH", 8 * p.dup + 2 * p.qos + p.retain,
           Str(p.topic) \o (IF p.qos = 0 THEN <<>> ELSE Num(p.pid)) \o p.message)
    [] p.type = "SUBACK" -> Frame("SUBACK", 0, Num(p.pid) \o p.return_codes)
    [] p.type = "PINGRESP" -> Frame("PINGRESP", 0, <<>>)
    [] OTHER -> Frame(p.type, IF p.type = "PUBREL" THEN 2 ELSE 0, Num(p.pid))
=============================================================================
