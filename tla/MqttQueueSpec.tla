--------------------------- MODULE MqttQueueSpec ----------------------------
(***************************************************************************)
(* What MQTT-C's send queue promises: a first-in first-out sequence of     *)
(* messages that keep their bytes, are marked while they are sent and      *)
(* acknowledged, and leave the queue from its head and only when complete. *)
(***************************************************************************)
EXTENDS Naturals, Sequences

CONSTANTS Ids, Sizes   \* the messages, and the sizes they may have

VARIABLE msgs

States == {"UNSENT", "AWAITING_ACK", "COMPLETE"}

\* The bytes of message id, of size n.
Content(id, n) == [k \in 1 .. n |-> [id |-> id, k |-> k]]

\* Drop the first d messages, all of them complete.
Drop(d) == SubSeq(msgs, d + 1, Len(msgs))
Droppable(d) == \A j \in 1 .. d : msgs[j].state = "COMPLETE"

Init == msgs = <<>>

Enqueue(id, n) ==
  \E d \in 0 .. Len(msgs) :
    /\ Droppable(d)
    /\ msgs' = Append(Drop(d), [bytes |-> Content(id, n), state |-> "UNSENT"])

Clean == \E d \in 0 .. Len(msgs) : Droppable(d) /\ msgs' = Drop(d)

Mark(j, s) == msgs' = [msgs EXCEPT ![j].state = s]

Reset == msgs' = <<>>

Next ==
  \/ \E id \in Ids, n \in Sizes : Enqueue(id, n)
  \/ Clean
  \/ \E j \in DOMAIN msgs, s \in States : Mark(j, s)
  \/ Reset

Spec == Init /\ [][Next]_msgs
=============================================================================
