----------------------------- MODULE MqttQueue ------------------------------
(***************************************************************************)
(* struct mqtt_message_queue (mqtt.c, mqtt.h): one buffer that is filled   *)
(* from both ends.  The packed bytes grow upwards from mem_start, the      *)
(* array of message headers grows downwards from mem_end; mqtt_mq_clean    *)
(* moves both parts.  Addresses are offsets from mem_start, and a header's *)
(* fields are kept in the sequence hdr (index j is mqtt_mq_get(mq, j - 1)) *)
(* while its place in the buffer is HdrSz cells marked as Hdr.             *)
(***************************************************************************)
EXTENDS Naturals, Sequences

CONSTANTS
  BufSz,   \* sendbufsz
  HdrSz,   \* sizeof(struct mqtt_queued_message)
  Ids,     \* messages
  Sizes    \* bytes a packer may need for a message

ASSUME SizeAssumption ==
  BufSz \in Nat /\ HdrSz \in Nat \ {0} /\ Sizes \subseteq Nat \ {0}

VARIABLES
  mem,         \* the cells of the buffer
  curr,        \* where the next message is packed
  curr_sz,     \* bytes that may be packed there
  queue_tail,  \* address of the newest header
  hdr,         \* the headers, oldest message first
  full         \* client->error = MQTT_ERROR_SEND_BUFFER_IS_FULL

vars == <<mem, curr, curr_sz, queue_tail, hdr, full>>

Junk == [id |-> "junk", k |-> 0]
Hdr  == [id |-> "hdr", k |-> 0]
States == {"UNSENT", "AWAITING_ACK", "COMPLETE"}

Cells == [id : Ids, k : Nat] \cup {Junk, Hdr}

TypeOK ==
  /\ mem \in [0 .. BufSz - 1 -> Cells]
  /\ curr \in 0 .. BufSz /\ queue_tail \in 0 .. BufSz /\ curr_sz \in 0 .. BufSz
  /\ hdr \in Seq([start : 0 .. BufSz, size : Nat, state : States])
  /\ full \in BOOLEAN
\* Mistakes: a subtraction that may fall below zero; no room for the header.
mqtt_mq_currsz_Underflows(c, tail) == tail - HdrSz - c
mqtt_mq_currsz_NoHeader(c, tail) == IF c >= tail THEN 0 ELSE tail - c

\* mqtt_mq_currsz: leave room for the header of the next message.
mqtt_mq_currsz(c, tail) == IF c + HdrSz >= tail THEN 0 ELSE tail - HdrSz - c

\* mqtt_mq_init: an empty queue in a buffer m.  The queue is a value, so that
\* the operations that follow each other in one call can be composed.
mqtt_mq_init(m) ==
  [mem |-> m, curr |-> 0, curr_sz |-> mqtt_mq_currsz(0, BufSz),
   tail |-> BufSz, hdr |-> <<>>]

Queue == [mem |-> mem, curr |-> curr, curr_sz |-> curr_sz, tail |-> queue_tail,
          hdr |-> hdr]

Becomes(q) ==
  /\ mem' = q.mem /\ curr' = q.curr /\ curr_sz' = q.curr_sz
  /\ queue_tail' = q.tail /\ hdr' = q.hdr

Init ==
  LET q == mqtt_mq_init([a \in 0 .. BufSz - 1 |-> Junk])
  IN  /\ mem = q.mem /\ curr = q.curr /\ curr_sz = q.curr_sz
      /\ queue_tail = q.tail /\ hdr = q.hdr /\ full = FALSE

-----------------------------------------------------------------------------
\* A packer writes the n bytes of message id at curr.
PackBytes(q, id, n) ==
  [q EXCEPT !.mem = [a \in DOMAIN q.mem |->
     IF q.curr <= a /\ a < q.curr + n THEN [id |-> id, k |-> a - q.curr + 1]
     ELSE q.mem[a]]]
\* Mistake: curr is not moved behind the message.
mqtt_mq_register_KeepsCurr(q, n) ==
  LET tail == q.tail - HdrSz
  IN  [mem |-> [a \in DOMAIN q.mem |->
                  IF tail <= a /\ a < q.tail THEN Hdr ELSE q.mem[a]],
       curr |-> q.curr, curr_sz |-> mqtt_mq_currsz(q.curr, tail), tail |-> tail,
       hdr |-> Append(q.hdr, [start |-> q.curr, size |-> n,
                              state |-> "UNSENT"])]

\* mqtt_mq_register: a header below the tail, curr behind the message.
mqtt_mq_register(q, n) ==
  LET tail == q.tail - HdrSz
      c == q.curr + n
  IN  [mem |-> [a \in DOMAIN q.mem |->
                  IF tail <= a /\ a < q.tail THEN Hdr ELSE q.mem[a]],
       curr |-> c, curr_sz |-> mqtt_mq_currsz(c, tail), tail |-> tail,
       hdr |-> Append(q.hdr, [start |-> q.curr, size |-> n,
                              state |-> "UNSENT"])]
\* Mistake: everything from the first completed message on is kept.
NewHead_FirstComplete(h) ==
  IF \A j \in DOMAIN h : h[j].state # "COMPLETE" THEN 1
  ELSE CHOOSE j \in DOMAIN h : /\ h[j].state = "COMPLETE"
                               /\ \A k \in 1 .. j - 1 : h[k].state # "COMPLETE"

\* new_head: the first message that is not complete (0: there is none).
NewHead(h) ==
  IF \A j \in DOMAIN h : h[j].state = "COMPLETE" THEN 0
  ELSE CHOOSE j \in DOMAIN h : /\ h[j].state # "COMPLETE"
                               /\ \A k \in 1 .. j - 1 : h[k].state = "COMPLETE"

\* mqtt_mq_clean: everything is complete; nothing at the head is; or the bytes
\* from new_head on move to mem_start and its headers to mem_end.
mqtt_mq_clean(q) ==
  LET head == NewHead(q.hdr)
      removing == q.hdr[head].start
      n == q.curr - removing
      tail == q.tail + HdrSz * (head - 1)
      moved == [a \in DOMAIN q.mem |->
                  IF a < n THEN q.mem[a + removing] ELSE q.mem[a]]
  IN  CASE head = 0 -> mqtt_mq_init(q.mem)
        [] head = 1 -> q
        [] OTHER ->
             [mem |-> [a \in DOMAIN q.mem |->
                         IF a >= tail THEN Hdr ELSE moved[a]],
              curr |-> n, curr_sz |-> mqtt_mq_currsz(n, tail), tail |-> tail,
              hdr |-> [j \in 1 .. Len(q.hdr) - (head - 1) |->
                         [q.hdr[j + head - 1] EXCEPT !.start = @ - removing]]]

-----------------------------------------------------------------------------
\* MQTT_CLIENT_TRY_PACK: pack, or clean and pack, or set the error.  A packer
\* refuses (returns 0) exactly when the message does not fit into curr_sz.
TryPack(id, n) ==
  LET q == IF n <= curr_sz THEN Queue ELSE mqtt_mq_clean(Queue)
  IN  /\ ~full
      /\ IF n <= q.curr_sz
         THEN /\ Becomes(mqtt_mq_register(PackBytes(q, id, n), n))
              /\ full' = FALSE
         ELSE Becomes(q) /\ full' = TRUE

\* __mqtt_send and __mqtt_recv move a message on.
SetState(j, s) ==
  /\ \/ hdr[j].state = "UNSENT" /\ s \in {"AWAITING_ACK", "COMPLETE"}
     \/ hdr[j].state = "AWAITING_ACK" /\ s = "COMPLETE"
  /\ hdr' = [hdr EXCEPT ![j].state = s]
  /\ UNCHANGED <<mem, curr, curr_sz, queue_tail, full>>

\* mqtt_reinit starts over in the same buffer.
Reinit == Becomes(mqtt_mq_init(mem)) /\ full' = FALSE

Next ==
  \/ \E id \in Ids, n \in Sizes : TryPack(id, n)
  \/ \E j \in DOMAIN hdr, s \in States : SetState(j, s)
  \/ Reinit

Spec == Init /\ [][Next]_vars

-----------------------------------------------------------------------------
(* Properties.                                                             *)

\* The two ends never meet: the bytes lie below the headers, and as long as
\* curr_sz is positive, a message of that size and its header fit between them.
EndsApart ==
  /\ curr <= queue_tail
  /\ curr_sz > 0 => curr + curr_sz + HdrSz = queue_tail

\* Messages lie one behind the other from mem_start to curr, headers one below
\* the other from mem_end to queue_tail, and no byte has overwritten a header.
Contiguous ==
  /\ \A j \in DOMAIN hdr :
       hdr[j].start + hdr[j].size =
         IF j = Len(hdr) THEN curr ELSE hdr[j + 1].start
  /\ hdr # <<>> => hdr[1].start = 0
  /\ hdr = <<>> => curr = 0
  /\ queue_tail + HdrSz * Len(hdr) = BufSz
  /\ \A a \in queue_tail .. BufSz - 1 : mem[a] = Hdr

\* The refinement: read through its header, every message has the bytes that were
\* packed for it, whatever was packed, moved and removed since.
Msgs == [j \in 1 .. Len(hdr) |->
           [bytes |-> [k \in 1 .. hdr[j].size |-> mem[hdr[j].start + k - 1]],
            state |-> hdr[j].state]]

Abs == INSTANCE MqttQueueSpec WITH msgs <- Msgs

\* MqttQueue implements MqttQueueSpec.
KeepsMessages == Abs!Spec
=============================================================================
