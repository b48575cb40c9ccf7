---------------------------- MODULE MqttReceive -----------------------------
(***************************************************************************)
(* The receive buffer of MQTT-C: __mqtt_recv (mqtt.c) over                 *)
(* mqtt_pal_recvall (mqtt_pal.c).  TCP delivers the bytes of a server in   *)
(* order but in pieces of any size; every call reads as many as there are  *)
(* and fit, unpacks the packets that are complete, and leaves the rest at  *)
(* the start of the buffer for the next call.  What a response does to the *)
(* client is in MqttClient; here a response is handed over or refused.     *)
(***************************************************************************)
EXTENDS MqttPackets
LOCAL INSTANCE SequencesExt

CONSTANTS
  RecvSz,      \* recvbufsz
  Responses,   \* responses of a server that keeps to the standard
  Faulty,      \* [bytes, response : [type : {"FAULTY"}, err]]: what it must not send
  MaxPackets   \* packets of the server not handed over yet

ASSUME ReceiveAssumption == RecvSz \in Nat \ {0} /\ MaxPackets \in Nat

VARIABLES
  wire,          \* bytes in transit
  recv_buffer,   \* the bytes from mem_start to curr (curr_sz is what is left)
  receiving,     \* __mqtt_recv is between two turns of its loop
  client_error,  \* client->error, as far as receiving sets it
  closed,        \* the server has closed the connection
  due,           \* history: packets the server sent, not handed over yet
  inOrder        \* history: every response handed over was the one due

receiveVars == <<wire, recv_buffer, receiving, client_error, closed, due, inOrder>>

Packets == Faulty \cup {[bytes |-> ResponseBytes(p), response |-> p] : p \in Responses}
Errors == {"CONTROL_FORBIDDEN_TYPE", "CONTROL_INVALID_FLAGS", "MALFORMED_RESPONSE",
           "INVALID_REMAINING_LENGTH", "CONNACK_FORBIDDEN_FLAGS",
           "CONNACK_FORBIDDEN_CODE", "RESPONSE_INVALID_CONTROL_TYPE"}
Refusals == {"ACK_OF_UNKNOWN", "CONNECT_CLIENT_ID_REFUSED", "CONNECTION_REFUSED",
             "SUBSCRIBE_FAILED", "SEND_BUFFER_IS_FULL"}

ReceiveTypeOK ==
  /\ wire \in Seq(0 .. 255)
  /\ recv_buffer \in Seq(0 .. 255) /\ Len(recv_buffer) <= RecvSz
  /\ receiving \in BOOLEAN /\ closed \in BOOLEAN
  /\ client_error \in {"OK", "SOCKET_ERROR", "RECV_BUFFER_TOO_SMALL"}
                        \cup Errors \cup Refusals
  /\ due \in Seq(Packets) /\ Len(due) <= MaxPackets /\ inOrder \in BOOLEAN

\* A new connection: mqtt_init, or mqtt_reinit with an empty buffer.
ReceiveInit ==
  /\ wire = <<>> /\ recv_buffer = <<>> /\ receiving = FALSE
  /\ client_error = "OK" /\ closed = FALSE
  /\ due = <<>> /\ inOrder = TRUE

-----------------------------------------------------------------------------
(* The server.                                                             *)

\* The server sends a packet.
ServerSends(p) ==
  /\ ~closed /\ Len(due) < MaxPackets
  /\ wire' = wire \o p.bytes
  /\ due' = Append(due, p)
  /\ UNCHANGED <<recv_buffer, receiving, client_error, closed, inOrder>>

\* The connection ends; bytes in transit may be lost from some point on.
PeerCloses ==
  /\ ~closed /\ closed' = TRUE
  /\ \E n \in 0 .. Len(wire) : wire' = SubSeq(wire, 1, n)
  /\ UNCHANGED <<recv_buffer, receiving, client_error, due, inOrder>>

-----------------------------------------------------------------------------
(* __mqtt_recv: one turn of its loop.                                      *)

\* recv_buffer.curr_sz
RoomLeft == RecvSz - Len(recv_buffer)

\* mqtt_pal_recvall: k bytes, and what the buffer then holds.  It stops when the
\* buffer is full or nothing more has arrived; the end of the connection counts
\* only when no byte was read before it.
mqtt_pal_recvall(k) ==
  /\ k <= RoomLeft /\ k <= Len(wire)
  /\ ~(k = 0 /\ closed /\ wire = <<>>)
  /\ wire' = SubSeq(wire, k + 1, Len(wire))

Buffered(k) == recv_buffer \o SubSeq(wire, 1, k)

\* What the switch over the response may end with (the client's queue decides).
Outcomes(p) ==
  CASE p.type = "CONNACK" ->
         {"ACK_OF_UNKNOWN", IF p.return_code = 0 THEN "OK"
                            ELSE IF p.return_code = 2 THEN "CONNECT_CLIENT_ID_REFUSED"
                            ELSE "CONNECTION_REFUSED"}
    [] p.type = "PUBLISH" ->
         IF p.qos = 0 THEN {"OK"} ELSE {"OK", "SEND_BUFFER_IS_FULL"}
    [] p.type = "SUBACK" ->
         {"ACK_OF_UNKNOWN", IF p.return_codes[1] = 128 THEN "SUBSCRIBE_FAILED" ELSE "OK"}
    [] p.type \in {"PUBREC", "PUBREL"} ->
         {"OK", "ACK_OF_UNKNOWN", "SEND_BUFFER_IS_FULL"}
    [] OTHER -> {"OK", "ACK_OF_UNKNOWN"}

\* The connection is broken or ended.
RecvFails ==
  /\ client_error = "OK" /\ closed /\ wire = <<>>
  /\ client_error' = "SOCKET_ERROR" /\ receiving' = FALSE
  /\ UNCHANGED <<wire, recv_buffer, closed, due, inOrder>>

\* What was read cannot be unpacked.
UnpackFails(k) ==
  LET r == mqtt_unpack_response(Buffered(k))
  IN  /\ client_error = "OK" /\ mqtt_pal_recvall(k) /\ r.err # "OK"
      /\ recv_buffer' = Buffered(k)
      /\ client_error' = r.err /\ receiving' = FALSE
      /\ UNCHANGED <<closed, due, inOrder>>

\* Mistake: a full buffer is taken for a packet that is too large before it is
\* unpacked.
MoreNeeded_Early(k) ==
  /\ client_error = "OK" /\ mqtt_pal_recvall(k)
  /\ \/ mqtt_unpack_response(Buffered(k)) = TooFew
     \/ Len(Buffered(k)) = RecvSz
  /\ recv_buffer' = Buffered(k) /\ receiving' = FALSE
  /\ client_error' = IF Len(Buffered(k)) = RecvSz THEN "RECV_BUFFER_TOO_SMALL" ELSE "OK"
  /\ UNCHANGED <<closed, due, inOrder>>

\* The packet is incomplete: wait for the rest, unless it cannot fit.
MoreNeeded(k) ==
  /\ client_error = "OK" /\ mqtt_pal_recvall(k)
  /\ mqtt_unpack_response(Buffered(k)) = TooFew
  /\ recv_buffer' = Buffered(k) /\ receiving' = FALSE
  /\ client_error' = IF Len(Buffered(k)) = RecvSz THEN "RECV_BUFFER_TOO_SMALL" ELSE "OK"
  /\ UNCHANGED <<closed, due, inOrder>>

\* A response is complete: the client responds to it, and what follows it moves to
\* the start of the buffer.  The loop goes on unless there was an error.
HandOver(k) ==
  LET r == mqtt_unpack_response(Buffered(k))
  IN  /\ client_error = "OK" /\ mqtt_pal_recvall(k) /\ r.err = "OK" /\ r.rv > 0
      /\ inOrder' = (inOrder /\ due # <<>> /\ due[1].response = r.response)
      /\ due' = SubSeq(due, 2, Len(due))
      /\ client_error' \in Outcomes(r.response)
      /\ receiving' = (client_error' = "OK")
      /\ recv_buffer' = SubSeq(Buffered(k), r.rv + 1, Len(Buffered(k)))
      /\ UNCHANGED closed

\* mqtt_sync calls the reconnect callback: mqtt_reinit empties the buffer, and
\* the new socket has nothing of the old connection.
Reconnect ==
  /\ client_error # "OK"
  /\ wire' = <<>> /\ recv_buffer' = <<>> /\ client_error' = "OK" /\ closed' = FALSE
  /\ due' = <<>> /\ inOrder' = TRUE
  /\ UNCHANGED receiving

ReceiveNext ==
  \/ \E p \in Packets : ServerSends(p)
  \/ PeerCloses \/ RecvFails \/ Reconnect
  \/ \E k \in 0 .. RecvSz : UnpackFails(k) \/ MoreNeeded(k) \/ HandOver(k)

-----------------------------------------------------------------------------
(* Property.                                                               *)

\* The error with which the client must answer a packet it cannot take.
Refused(p) ==
  IF p.response.type = "FAULTY" THEN p.response.err
  ELSE IF p.response.type = "PUBLISH" /\ p.response.qos = 0
            /\ Len(p.response.topic) + Len(p.response.message) < 2
  THEN "MALFORMED_RESPONSE" ELSE "OK"

\* Whatever the pieces in which its bytes arrive, the responses handed over are
\* those the server sent, in that order; the buffer and the wire hold the bytes of
\* the others, from the start of a packet on; when a call ends well no complete
\* packet is left in the buffer; and a call that ends with an error blames the
\* right packet: one that is faulty, a PUBLISH of less than four bytes, or one
\* that is larger than the buffer.
DispatchesInOrder ==
  LET rest == FlattenSeq([j \in DOMAIN due |-> due[j].bytes])
  IN  /\ inOrder
      /\ IsPrefix(recv_buffer \o wire, rest)
      /\ ~closed => recv_buffer \o wire = rest
      /\ client_error = "OK" /\ ~receiving /\ due # <<>> =>
           Len(recv_buffer) < Len(due[1].bytes)
      /\ client_error \in Errors => client_error = Refused(due[1])
      /\ client_error = "RECV_BUFFER_TOO_SMALL" => Len(due[1].bytes) > RecvSz
=============================================================================
