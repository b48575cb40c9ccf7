-------------------------- MODULE MqttQueueProofs --------------------------
(***************************************************************************)
(* Machine-checked proofs about MqttQueue, for every size of the buffer,   *)
(* of a header and of the messages: the two ends of the buffer stay apart, *)
(* the messages stay where their headers say, and the queue implements     *)
(* MqttQueueSpec.                                                          *)
(***************************************************************************)
EXTENDS MqttQueue, Integers, SequenceTheorems, WellFoundedInduction, TLAPS

Headers == [start : 0 .. BufSz, size : Nat, state : States]
Buffers == [0 .. BufSz - 1 -> Cells]
QueueType ==
  [mem : Buffers, curr : 0 .. BufSz, curr_sz : 0 .. BufSz, tail : 0 .. BufSz,
   hdr : Seq(Headers)]

\* Where the message behind the j-th one starts.
EndOf(q, j) == IF j = Len(q.hdr) THEN q.curr ELSE q.hdr[j + 1].start

\* The bytes and the headers lie apart and the room between them is known.
Ends(q) ==
  /\ q.curr <= q.tail /\ q.curr_sz = mqtt_mq_currsz(q.curr, q.tail)
  /\ q.tail + HdrSz * Len(q.hdr) = BufSz
  /\ \A a \in q.tail .. BufSz - 1 : q.mem[a] = Hdr

\* Each message is followed by the next one.  Since the ends of two messages that
\* are not neighbours are compared when the first ones are dropped, the order is
\* stated for every two messages.
Laid(q) ==
  /\ \A j \in 1 .. Len(q.hdr) : q.hdr[j].start + q.hdr[j].size = EndOf(q, j)
  /\ \A j \in 1 .. Len(q.hdr) : q.hdr[j].start + q.hdr[j].size <= q.curr
  /\ \A i, j \in 1 .. Len(q.hdr) : i < j => q.hdr[i].start + q.hdr[i].size <= q.hdr[j].start
  /\ q.hdr # <<>> => q.hdr[1].start = 0
  /\ q.hdr = <<>> => q.curr = 0

Sound(q) == q \in QueueType /\ Ends(q) /\ Laid(q)

\* The messages of a queue, read through its headers (Msgs is this of Queue).
MsgsOf(q) ==
  [j \in 1 .. Len(q.hdr) |->
     [bytes |-> [k \in 1 .. q.hdr[j].size |-> q.mem[q.hdr[j].start + k - 1]],
      state |-> q.hdr[j].state]]

IndInv == Sound(Queue) /\ full \in BOOLEAN

\* A set of numbers that is not empty has a least one.
LEMMA Least ==
  ASSUME NEW T \in SUBSET Nat, T # {}
  PROVE  \E x \in T : \A y \in T : x <= y
<1>1. PICK x \in T : \A y \in T : ~ (<<y, x>> \in OpToRel(<, Nat))
  BY NatLessThanWellFounded, WFMin, Zenon
<1>2. ASSUME NEW y \in T
      PROVE  x <= y
  <2>1. ~(y < x)
    BY <1>1, Zenon DEF OpToRel
  <2> QED
    BY <2>1
<1> QED
  BY <1>2

\* new_head finds the first message that is not complete.
LEMMA NewHeadWorks ==
  ASSUME NEW h \in Seq(Headers)
  PROVE  /\ NewHead(h) \in 0 .. Len(h)
         /\ NewHead(h) = 0 => \A j \in 1 .. Len(h) : h[j].state = "COMPLETE"
         /\ NewHead(h) # 0 => \A j \in 1 .. NewHead(h) - 1 : h[j].state = "COMPLETE"
<1> DEFINE T == {j \in 1 .. Len(h) : h[j].state # "COMPLETE"}
<1>1. Len(h) \in Nat /\ DOMAIN h = 1 .. Len(h)
  BY LenProperties
<1>2. CASE T = {}
  <2>1. \A j \in 1 .. Len(h) : h[j].state = "COMPLETE"
    BY <1>2
  <2>2. NewHead(h) = 0
    BY <2>1, <1>1 DEF NewHead
  <2> QED
    BY <2>1, <2>2, <1>1
<1>3. CASE T # {}
  <2>1. T \in SUBSET Nat
    BY <1>1
  <2>2. PICK x \in T : \A y \in T : x <= y
    BY <1>3, <2>1, Least, Zenon
  <2>3. x \in 1 .. Len(h) /\ h[x].state # "COMPLETE"
    BY <2>2
  <2>4. \A k \in 1 .. x - 1 : h[k].state = "COMPLETE"
    BY <2>2, <2>3, <1>1
  <2> DEFINE N == CHOOSE j \in DOMAIN h : /\ h[j].state # "COMPLETE"
                                          /\ \A k \in 1 .. j - 1 : h[k].state = "COMPLETE"
  <2>5. NewHead(h) = N
    BY <2>3, <1>1 DEF NewHead
  <2>6. /\ N \in DOMAIN h /\ h[N].state # "COMPLETE"
        /\ \A k \in 1 .. N - 1 : h[k].state = "COMPLETE"
    BY <2>3, <2>4, <1>1
  <2> QED
    BY <2>5, <2>6, <1>1
<1> QED
  BY <1>2, <1>3

\* mqtt_mq_currsz never promises more than fits.
LEMMA RoomBounds ==
  ASSUME NEW c \in Nat, NEW t \in Nat, t <= BufSz
  PROVE  /\ mqtt_mq_currsz(c, t) \in 0 .. BufSz
         /\ mqtt_mq_currsz(c, t) > 0 => c + mqtt_mq_currsz(c, t) + HdrSz = t
  BY SizeAssumption DEF mqtt_mq_currsz

\* mqtt_mq_init makes a sound, empty queue of any buffer.
LEMMA InitSound ==
  ASSUME NEW m \in Buffers
  PROVE  Sound(mqtt_mq_init(m)) /\ MsgsOf(mqtt_mq_init(m)) = <<>>
<1> DEFINE q == mqtt_mq_init(m)
<1> USE SizeAssumption
<1>1. /\ q.mem = m /\ q.curr = 0 /\ q.tail = BufSz /\ q.hdr = <<>>
      /\ q.curr_sz = mqtt_mq_currsz(0, BufSz) /\ Len(q.hdr) = 0
  BY DEF mqtt_mq_init
<1>2. q \in QueueType
  BY RoomBounds DEF mqtt_mq_init, QueueType
<1>3. Ends(q) /\ Laid(q)
  BY <1>1 DEF Ends, Laid
<1>4. MsgsOf(q) = <<>>
  BY <1>1 DEF MsgsOf
<1> QED
  BY <1>2, <1>3, <1>4 DEF Sound

\* What a sound queue is made of.
LEMMA SoundParts ==
  ASSUME NEW q, Sound(q)
  PROVE  /\ q = [mem |-> q.mem, curr |-> q.curr, curr_sz |-> q.curr_sz, tail |-> q.tail,
                 hdr |-> q.hdr]
         /\ q.mem \in Buffers /\ DOMAIN q.mem = 0 .. BufSz - 1
         /\ q.curr \in 0 .. BufSz /\ q.curr_sz \in 0 .. BufSz /\ q.tail \in 0 .. BufSz
         /\ q.hdr \in Seq(Headers) /\ Len(q.hdr) \in Nat /\ DOMAIN q.hdr = 1 .. Len(q.hdr)
         /\ \A j \in 1 .. Len(q.hdr) :
              /\ q.hdr[j] \in Headers /\ q.hdr[j].start \in 0 .. BufSz
              /\ q.hdr[j].size \in Nat /\ q.hdr[j].state \in States
<1>1. /\ q = [mem |-> q.mem, curr |-> q.curr, curr_sz |-> q.curr_sz, tail |-> q.tail,
                 hdr |-> q.hdr]
      /\ q.mem \in Buffers
      /\ q.curr \in 0 .. BufSz /\ q.curr_sz \in 0 .. BufSz /\ q.tail \in 0 .. BufSz
      /\ q.hdr \in Seq(Headers)
  BY DEF Sound, QueueType
<1>2. Len(q.hdr) \in Nat /\ DOMAIN q.hdr = 1 .. Len(q.hdr)
  BY <1>1, LenProperties
<1>3. \A j \in 1 .. Len(q.hdr) : q.hdr[j] \in Headers
  BY <1>1, ElementOfSeq
<1> QED
  BY <1>1, <1>2, <1>3 DEF Headers, Buffers

\* Packing a message that fits and registering it keeps the queue sound and
\* appends the message with its bytes: the bytes are written above those of the
\* other messages and the header below the other headers.
LEMMA PackSound ==
  ASSUME NEW q, Sound(q), NEW id \in Ids, NEW n \in Sizes, n <= q.curr_sz
  PROVE  LET r == mqtt_mq_register(PackBytes(q, id, n), n)
         IN  /\ Sound(r)
             /\ MsgsOf(r) = Append(MsgsOf(q), [bytes |-> [k \in 1 .. n |-> [id |-> id, k |-> k]],
                                               state |-> "UNSENT"])
<1> DEFINE p == PackBytes(q, id, n)
           r == mqtt_mq_register(p, n)
           L == Len(q.hdr)
           t == q.tail - HdrSz
           x == [start |-> q.curr, size |-> n, state |-> "UNSENT"]
<1>1. /\ q.curr \in 0 .. BufSz /\ q.tail \in 0 .. BufSz /\ L \in Nat /\ BufSz \in Nat
      /\ HdrSz \in Nat /\ HdrSz > 0 /\ n \in Nat /\ n > 0
  BY SoundParts, SizeAssumption
<1>b. q.hdr \in Seq(Headers)
  BY SoundParts
<1>2. \A a \in 0 .. BufSz - 1 : q.mem[a] \in Cells
  BY SoundParts DEF Buffers
<1>3. \A j \in 1 .. L : /\ q.hdr[j] \in Headers /\ q.hdr[j].start \in Nat
                        /\ q.hdr[j].size \in Nat
  BY SoundParts
<1>4. /\ q.curr + n + HdrSz <= q.tail
      /\ t \in 0 .. BufSz /\ t + HdrSz = q.tail /\ t < q.tail /\ q.curr + n <= t
  <2>1. q.curr_sz \in Nat /\ (q.curr_sz > 0 => q.curr + q.curr_sz + HdrSz = q.tail)
    BY <1>1, SoundParts, RoomBounds DEF Sound, Ends
  <2>2. q.curr + q.curr_sz + HdrSz = q.tail /\ q.curr + n + HdrSz <= q.tail
    BY <2>1, <1>1
  <2>3. t + HdrSz = q.tail /\ t \in Int
    BY <1>1
  <2> HIDE DEF t
  <2> QED
    BY <2>2, <2>3, <1>1
<1>5. p.curr = q.curr /\ p.tail = q.tail /\ p.hdr = q.hdr
  BY DEF PackBytes, Sound, QueueType
<1>6. DOMAIN p.mem = 0 .. BufSz - 1
  BY SoundParts DEF PackBytes, Sound, QueueType
<1>7. \A a \in 0 .. BufSz - 1 :
        p.mem[a] = IF q.curr <= a /\ a < q.curr + n THEN [id |-> id, k |-> a - q.curr + 1]
                   ELSE q.mem[a]
  BY SoundParts DEF PackBytes, Sound, QueueType
<1>8. /\ r.curr = q.curr + n /\ r.tail = t /\ r.hdr = Append(q.hdr, x)
      /\ r.curr_sz = mqtt_mq_currsz(q.curr + n, t)
  BY <1>5 DEF mqtt_mq_register
<1>9. r.mem = [a \in 0 .. BufSz - 1 |-> IF t <= a /\ a < q.tail THEN Hdr ELSE p.mem[a]]
  BY <1>5, <1>6 DEF mqtt_mq_register
<1>10. r = [mem |-> r.mem, curr |-> r.curr, curr_sz |-> r.curr_sz, tail |-> r.tail,
            hdr |-> r.hdr]
  BY DEF mqtt_mq_register
<1>a. \A a \in 0 .. BufSz - 1 : r.mem[a] = IF t <= a /\ a < q.tail THEN Hdr ELSE p.mem[a]
  BY <1>9
<1> HIDE DEF p, r, t, L
<1>11. x \in Headers
  BY <1>1, <1>4 DEF Headers, States
<1> HIDE DEF x
<1>12. /\ r.hdr \in Seq(Headers) /\ Len(r.hdr) = L + 1 /\ r.hdr[L + 1] = x /\ r.hdr # <<>>
       /\ \A j \in 1 .. L : r.hdr[j] = q.hdr[j]
  <2> DEFINE y == Append(q.hdr, x)
  <2>1. /\ y \in Seq(Headers) /\ y # <<>> /\ Len(y) = L + 1
        /\ (\A j \in 1 .. L : y[j] = q.hdr[j]) /\ y[L + 1] = x
    BY <1>b, <1>11, AppendProperties DEF L
  <2> QED
    BY <2>1, <1>8
<1>13. x.start = q.curr /\ x.size = n /\ x.state = "UNSENT"
  BY DEF x
<1>14. r.mem \in Buffers
  <2>1. \A a \in 0 .. BufSz - 1 : p.mem[a] \in Cells
    <3> SUFFICES ASSUME NEW a \in 0 .. BufSz - 1 PROVE p.mem[a] \in Cells
      OBVIOUS
    <3>1. q.curr <= a => [id |-> id, k |-> a - q.curr + 1] \in Cells
      BY <1>1 DEF Cells
    <3> QED
      BY <1>2, <1>7, <3>1
  <2>2. Hdr \in Cells
    BY DEF Cells
  <2> QED
    BY <2>1, <2>2, <1>9 DEF Buffers
<1>15. \A a \in t .. BufSz - 1 : r.mem[a] = Hdr
  <2>1. \A a \in q.tail .. BufSz - 1 : q.mem[a] = Hdr
    BY DEF Sound, Ends
  <2> SUFFICES ASSUME NEW a \in t .. BufSz - 1 PROVE r.mem[a] = Hdr
    OBVIOUS
  <2>2. a \in 0 .. BufSz - 1 /\ a \in Int
    BY <1>4
  <2>3. r.mem[a] = IF t <= a /\ a < q.tail THEN Hdr ELSE p.mem[a]
    BY <1>a, <2>2
  <2>4. CASE a < q.tail
    BY <2>3, <2>4, <1>4
  <2>5. CASE ~(a < q.tail)
    <3>1. a \in q.tail .. BufSz - 1 /\ ~(a < q.curr + n)
      BY <2>2, <2>5, <1>1, <1>4
    <3>2. p.mem[a] = q.mem[a]
      BY <3>1, <2>2, <1>7
    <3> QED
      BY <3>1, <3>2, <2>1, <2>3, <2>5
  <2> QED
    BY <2>4, <2>5
<1>16. \A a \in 0 .. q.curr - 1 : r.mem[a] = q.mem[a]
  <2> SUFFICES ASSUME NEW a \in 0 .. q.curr - 1 PROVE r.mem[a] = q.mem[a]
    OBVIOUS
  <2>1. a \in 0 .. BufSz - 1 /\ ~(t <= a) /\ ~(q.curr <= a)
    BY <1>1, <1>4
  <2> QED
    BY <2>1, <1>7, <1>a
<1>17. \A a \in q.curr .. q.curr + n - 1 : r.mem[a] = [id |-> id, k |-> a - q.curr + 1]
  <2> SUFFICES ASSUME NEW a \in q.curr .. q.curr + n - 1
               PROVE  r.mem[a] = [id |-> id, k |-> a - q.curr + 1]
    OBVIOUS
  <2>1. a \in 0 .. BufSz - 1 /\ ~(t <= a) /\ q.curr <= a /\ a < q.curr + n
    BY <1>1, <1>4
  <2> QED
    BY <2>1, <1>7, <1>a
<1>18. r \in QueueType
  <2>1. r.curr \in 0 .. BufSz /\ r.tail \in 0 .. BufSz
    BY <1>1, <1>4, <1>8
  <2>2. r.curr_sz \in 0 .. BufSz
    <3>1. q.curr + n \in Nat /\ t \in Nat /\ t <= BufSz
      BY <1>1, <1>4
    <3> QED
      BY <3>1, <1>8, RoomBounds
  <2> QED
    BY <2>1, <2>2, <1>10, <1>12, <1>14 DEF QueueType
<1>19. Ends(r)
  <2>1. r.tail + HdrSz * Len(r.hdr) = BufSz
    <3>1. q.tail + HdrSz * L = BufSz
      BY DEF Sound, Ends, L
    <3>2. HdrSz * L \in Int /\ HdrSz * (L + 1) = HdrSz * L + HdrSz
      BY <1>1, SizeAssumption
    <3> QED
      BY <3>1, <3>2, <1>1, <1>4, <1>8, <1>12
  <2> QED
    BY <2>1, <1>4, <1>8, <1>15 DEF Ends
<1>20. Laid(r)
  <2> DEFINE e(j) == q.hdr[j].start + q.hdr[j].size
  <2>1. /\ \A j \in 1 .. L : e(j) = IF j = L THEN q.curr ELSE q.hdr[j + 1].start
        /\ \A j \in 1 .. L : e(j) <= q.curr
        /\ \A i, j \in 1 .. L : i < j => e(i) <= q.hdr[j].start
        /\ q.hdr # <<>> => q.hdr[1].start = 0
        /\ q.hdr = <<>> => q.curr = 0
    BY DEF Sound, Laid, EndOf, L
  <2>a. \A j \in 1 .. L + 1 : j \in 1 .. L \/ (j = L + 1 /\ ~(j \in 1 .. L))
    BY <1>1
  <2>b. \A j \in 1 .. L : e(j) \in Nat
    BY <1>3
  <2>2. \A j \in 1 .. L + 1 : r.hdr[j].start + r.hdr[j].size = EndOf(r, j)
    <3> SUFFICES ASSUME NEW j \in 1 .. L + 1 PROVE r.hdr[j].start + r.hdr[j].size = EndOf(r, j)
      OBVIOUS
    <3>1. CASE j = L + 1
      BY <3>1, <1>8, <1>12, <1>13 DEF EndOf
    <3>2. CASE j \in 1 .. L /\ j = L
      <4>1. j # L + 1 /\ j + 1 = L + 1 /\ r.hdr[j] = q.hdr[j] /\ r.hdr[j + 1].start = q.curr
        BY <3>2, <1>1, <1>12, <1>13
      <4>2. q.hdr[j].start + q.hdr[j].size = q.curr
        BY <3>2, <2>1
      <4> QED
        BY <4>1, <4>2, <1>12 DEF EndOf
    <3>3. CASE j \in 1 .. L /\ j # L
      <4>1. j + 1 \in 1 .. L /\ j # L + 1
        BY <3>3, <1>1
      <4> QED
        BY <4>1, <3>3, <2>1, <1>12 DEF EndOf
    <3> QED
      BY <3>1, <3>2, <3>3, <2>a
  <2>3. \A j \in 1 .. L + 1 : r.hdr[j].start + r.hdr[j].size <= r.curr
    <3> SUFFICES ASSUME NEW j \in 1 .. L + 1 PROVE r.hdr[j].start + r.hdr[j].size <= r.curr
      OBVIOUS
    <3>1. CASE j = L + 1
      BY <3>1, <1>1, <1>4, <1>8, <1>12, <1>13
    <3>2. CASE j \in 1 .. L
      <4>1. e(j) <= q.curr /\ e(j) \in Nat /\ r.hdr[j] = q.hdr[j]
        BY <3>2, <2>1, <2>b, <1>12
      <4> QED
        BY <4>1, <1>1, <1>4, <1>8
    <3> QED
      BY <3>1, <3>2, <2>a
  <2>4. \A i, j \in 1 .. L + 1 : i < j => r.hdr[i].start + r.hdr[i].size <= r.hdr[j].start
    <3> SUFFICES ASSUME NEW i \in 1 .. L + 1, NEW j \in 1 .. L + 1, i < j
                 PROVE  r.hdr[i].start + r.hdr[i].size <= r.hdr[j].start
      OBVIOUS
    <3>1. i \in 1 .. L /\ r.hdr[i] = q.hdr[i]
      BY <1>1, <1>12
    <3>2. CASE j = L + 1
      BY <3>1, <3>2, <2>1, <1>12, <1>13
    <3>3. CASE j \in 1 .. L
      BY <3>1, <3>3, <2>1, <1>12
    <3> QED
      BY <3>2, <3>3, <2>a
  <2>5. r.hdr[1].start = 0
    <3>1. CASE q.hdr = <<>>
      <4>1. L = 0
        BY <3>1 DEF L
      <4> QED
        BY <3>1, <4>1, <2>1, <1>12, <1>13
    <3>2. CASE q.hdr # <<>>
      <4>1. L # 0
        BY <3>2, <1>1, EmptySeq DEF L
      <4>2. 1 \in 1 .. L
        BY <4>1, <1>1
      <4> QED
        BY <4>2, <3>2, <2>1, <1>12
    <3> QED
      BY <3>1, <3>2
  <2> QED
    BY <2>2, <2>3, <2>4, <2>5, <1>12 DEF Laid
<1>21. MsgsOf(r) = Append(MsgsOf(q), [bytes |-> [k \in 1 .. n |-> [id |-> id, k |-> k]],
                                      state |-> "UNSENT"])
  <2> DEFINE y == [bytes |-> [k \in 1 .. n |-> [id |-> id, k |-> k]], state |-> "UNSENT"]
             M(s, j) == [bytes |-> [k \in 1 .. s.hdr[j].size |-> s.mem[s.hdr[j].start + k - 1]],
                         state |-> s.hdr[j].state]
  <2>1. \A j \in 1 .. L : M(r, j) = M(q, j)
    <3> SUFFICES ASSUME NEW j \in 1 .. L PROVE M(r, j) = M(q, j)
      OBVIOUS
    <3>1. q.hdr[j].start + q.hdr[j].size <= q.curr
      BY DEF Sound, Laid, L
    <3>2. \A k \in 1 .. q.hdr[j].size : q.hdr[j].start + k - 1 \in 0 .. q.curr - 1
      BY <3>1, <1>1, <1>3
    <3>3. \A k \in 1 .. q.hdr[j].size : r.mem[q.hdr[j].start + k - 1] = q.mem[q.hdr[j].start + k - 1]
      BY <3>2, <1>16
    <3>4. r.hdr[j] = q.hdr[j]
      BY <1>12
    <3> QED
      BY <3>3, <3>4
  <2>2. M(r, L + 1) = y
    <3>1. \A k \in 1 .. n : r.mem[q.curr + k - 1] = [id |-> id, k |-> k]
      <4> SUFFICES ASSUME NEW k \in 1 .. n PROVE r.mem[q.curr + k - 1] = [id |-> id, k |-> k]
        OBVIOUS
      <4>1. q.curr + k - 1 \in q.curr .. q.curr + n - 1 /\ (q.curr + k - 1) - q.curr + 1 = k
        BY <1>1, <1>4
      <4> QED
        BY <4>1, <1>17
    <3>2. /\ r.hdr[L + 1].start = q.curr /\ r.hdr[L + 1].size = n
          /\ r.hdr[L + 1].state = "UNSENT"
      BY <1>12, <1>13
    <3>3. [k \in 1 .. r.hdr[L + 1].size |-> r.mem[r.hdr[L + 1].start + k - 1]]
            = [k \in 1 .. n |-> [id |-> id, k |-> k]]
      BY <3>1, <3>2
    <3> QED
      BY <3>2, <3>3
  <2>3. MsgsOf(q) = [j \in 1 .. L |-> M(q, j)] /\ MsgsOf(r) = [j \in 1 .. L + 1 |-> M(r, j)]
    BY <1>12 DEF MsgsOf, L
  <2> HIDE DEF M, y
  <2>4. Append(MsgsOf(q), y) = [j \in 1 .. L + 1 |-> IF j = L + 1 THEN y ELSE M(q, j)]
    BY <2>3, <1>1
  <2>5. MsgsOf(r) = Append(MsgsOf(q), y)
    BY <2>1, <2>2, <2>3, <2>4, <1>1
  <2> QED
    BY <2>5 DEF y
<1> QED
  BY <1>18, <1>19, <1>20, <1>21 DEF Sound, r, p

\* Room for headers is additive.
LEMMA Times ==
  ASSUME NEW h \in Nat, NEW x \in Nat, NEW y \in Nat, y <= x
  PROVE  h * y \in Nat /\ h * (x - y) = h * x - h * y /\ h * (x - y) \in Nat
<1>1. \A z \in Nat : h * z \in Nat
  OBVIOUS
<1>2. x - y \in Nat
  OBVIOUS
<1>3. h * (x - y) = h * x - h * y
  OBVIOUS
<1> QED
  BY <1>1, <1>2, <1>3

\* mqtt_mq_clean keeps the queue sound and drops messages from its head, all of
\* them complete: the bytes of the others move down together, by less than the
\* distance to any header.
LEMMA CleanSound ==
  ASSUME NEW q, Sound(q)
  PROVE  LET r == mqtt_mq_clean(q)
         IN  /\ Sound(r)
             /\ \E d \in 0 .. Len(q.hdr) :
                  /\ \A j \in 1 .. d : q.hdr[j].state = "COMPLETE"
                  /\ MsgsOf(r) = SubSeq(MsgsOf(q), d + 1, Len(q.hdr))
<1> DEFINE r == mqtt_mq_clean(q)
           L == Len(q.hdr)
           head == NewHead(q.hdr)
           M(s, j) == [bytes |-> [k \in 1 .. s.hdr[j].size |-> s.mem[s.hdr[j].start + k - 1]],
                       state |-> s.hdr[j].state]
<1>1. /\ q.curr \in 0 .. BufSz /\ q.tail \in 0 .. BufSz /\ L \in Nat /\ BufSz \in Nat
      /\ HdrSz \in Nat /\ HdrSz > 0
  BY SoundParts, SizeAssumption
<1>2. q.mem \in Buffers /\ \A a \in 0 .. BufSz - 1 : q.mem[a] \in Cells
  BY SoundParts DEF Buffers
<1>3. \A j \in 1 .. L : /\ q.hdr[j] \in Headers /\ q.hdr[j].start \in Nat
                        /\ q.hdr[j].size \in Nat
  BY SoundParts
<1>4. /\ head \in 0 .. L
      /\ head = 0 => \A j \in 1 .. L : q.hdr[j].state = "COMPLETE"
      /\ head # 0 => \A j \in 1 .. head - 1 : q.hdr[j].state = "COMPLETE"
  BY SoundParts, NewHeadWorks
<1>5. MsgsOf(q) = [j \in 1 .. L |-> M(q, j)]
  BY DEF MsgsOf
<1>6. CASE head = 0
  <2>1. r = mqtt_mq_init(q.mem)
    BY <1>6 DEF mqtt_mq_clean
  <2>2. Sound(r) /\ MsgsOf(r) = <<>>
    BY <2>1, <1>2, InitSound
  <2>3. SubSeq(MsgsOf(q), L + 1, L) = <<>>
    BY <1>1, SubSeqEmpty
  <2> QED
    BY <2>2, <2>3, <1>1, <1>4, <1>6
<1>7. CASE head = 1
  <2>1. r = q
    BY <1>7 DEF mqtt_mq_clean
  <2> HIDE DEF M
  <2>2. SubSeq(MsgsOf(q), 1, L) = MsgsOf(q)
    BY <1>1, <1>5
  <2>3. 0 \in 0 .. L /\ \A j \in 1 .. 0 : q.hdr[j].state = "COMPLETE"
    BY <1>1
  <2> QED
    BY <2>1, <2>2, <2>3
<1>8. CASE head > 1
  <2> DEFINE d == head - 1
             off == q.hdr[head].start
             n == q.curr - off
             K == HdrSz * d
             t == q.tail + K
             moved(a) == IF a < n THEN q.mem[a + off] ELSE q.mem[a]
  <2>1. d \in 1 .. L - 1 /\ head \in 1 .. L /\ d \in Int /\ head = d + 1
    BY <1>1, <1>4, <1>8
  <2>2. r = [mem |-> [a \in 0 .. BufSz - 1 |-> IF a >= t THEN Hdr ELSE moved(a)],
             curr |-> n, curr_sz |-> mqtt_mq_currsz(n, t), tail |-> t,
             hdr |-> [j \in 1 .. L - d |-> [q.hdr[j + head - 1] EXCEPT !.start = @ - off]]]
    <3>1. head # 0 /\ head # 1 /\ DOMAIN q.mem = 0 .. BufSz - 1
      BY <1>8, <2>1, SoundParts
    <3>2. \A a \in 0 .. BufSz - 1 :
            (IF a >= t THEN Hdr
             ELSE [b \in 0 .. BufSz - 1 |-> IF b < n THEN q.mem[b + off] ELSE q.mem[b]][a])
            = IF a >= t THEN Hdr ELSE moved(a)
      OBVIOUS
    <3> HIDE DEF n, t, off, head
    <3> QED
      BY <3>1, <3>2 DEF mqtt_mq_clean, n, t, off, head
  <2>3. /\ r.curr = n /\ r.curr_sz = mqtt_mq_currsz(n, t) /\ r.tail = t
        /\ \A a \in 0 .. BufSz - 1 : r.mem[a] = IF a >= t THEN Hdr ELSE moved(a)
        /\ r.mem = [a \in 0 .. BufSz - 1 |-> r.mem[a]]
        /\ r = [mem |-> r.mem, curr |-> r.curr, curr_sz |-> r.curr_sz, tail |-> r.tail,
                hdr |-> r.hdr]
    BY <2>2
  <2>4. r.hdr = [j \in 1 .. L - d |-> [q.hdr[j + d] EXCEPT !.start = @ - off]]
    <3> HIDE DEF d, off, L, head
    <3>1. \A j \in 1 .. L - d : j + head - 1 = j + d
      BY <2>1, <1>1
    <3>2. r.hdr = [j \in 1 .. L - d |-> [q.hdr[j + head - 1] EXCEPT !.start = @ - off]]
      BY <2>2
    <3> QED
      BY <3>1, <3>2
  <2>5. K \in Nat /\ HdrSz * (L - d) = HdrSz * L - K /\ HdrSz * (L - d) \in Nat
    <3>1. d \in Nat /\ d <= L
      BY <2>1, <1>1
    <3>2. HdrSz \in Nat /\ L \in Nat
      BY <1>1
    <3> HIDE DEF d, L, head
    <3>3. /\ HdrSz * d \in Nat /\ HdrSz * (L - d) = HdrSz * L - HdrSz * d
          /\ HdrSz * (L - d) \in Nat
      BY <3>1, <3>2, Times
    <3> QED
      BY <3>3
  <2>6. q.tail + HdrSz * L = BufSz /\ q.curr <= q.tail /\ HdrSz * L \in Int
    BY <1>1 DEF Sound, Ends
  <2>7. off \in 0 .. q.curr
    <3>1. q.hdr[head].start + q.hdr[head].size <= q.curr
      BY <2>1 DEF Sound, Laid
    <3>2. off \in Nat /\ q.hdr[head].size \in Nat
      BY <2>1, <1>3
    <3> HIDE DEF head
    <3> QED
      BY <3>1, <3>2, <1>1
  <2> HIDE DEF r, L, head, d, off, K
  <2>8. /\ t \in 0 .. BufSz /\ n \in 0 .. q.curr /\ n <= t /\ n + off = q.curr
        /\ q.tail <= t /\ t + HdrSz * (L - d) = BufSz
    BY <2>5, <2>6, <2>7, <1>1
  <2> HIDE DEF n, t
  <2>9. \A a \in 0 .. n - 1 : r.mem[a] = q.mem[a + off]
    <3> SUFFICES ASSUME NEW a \in 0 .. n - 1 PROVE r.mem[a] = q.mem[a + off]
      OBVIOUS
    <3>1. a \in 0 .. BufSz - 1 /\ ~(a >= t) /\ a < n
      BY <2>8, <1>1
    <3> QED
      BY <3>1, <2>3
  <2>10. \A a \in t .. BufSz - 1 : r.mem[a] = Hdr
    <3> SUFFICES ASSUME NEW a \in t .. BufSz - 1 PROVE r.mem[a] = Hdr
      OBVIOUS
    <3>1. a \in 0 .. BufSz - 1 /\ a >= t
      BY <2>8, <1>1
    <3> QED
      BY <3>1, <2>3
  <2>11. r.mem \in Buffers
    <3>1. \A a \in 0 .. BufSz - 1 : r.mem[a] \in Cells
      <4> SUFFICES ASSUME NEW a \in 0 .. BufSz - 1 PROVE r.mem[a] \in Cells
        OBVIOUS
      <4>1. CASE a >= t
        BY <4>1, <2>3 DEF Cells
      <4>2. CASE a < n
        <5>1. a + off \in 0 .. BufSz - 1 /\ ~(a >= t)
          BY <4>2, <2>7, <2>8, <1>1
        <5> QED
          BY <4>2, <5>1, <2>3, <1>2
      <4>3. CASE ~(a >= t) /\ ~(a < n)
        BY <4>3, <2>3, <1>2
      <4> QED
        BY <4>1, <4>2, <4>3
    <3> QED
      BY <3>1, <2>3 DEF Buffers
  <2>12. \A j \in 1 .. L - d :
           /\ j + d \in 1 .. L /\ r.hdr[j].size = q.hdr[j + d].size
           /\ r.hdr[j].state = q.hdr[j + d].state
           /\ r.hdr[j].start = q.hdr[j + d].start - off
           /\ q.hdr[j + d].start >= off /\ q.hdr[j + d].start + q.hdr[j + d].size <= q.curr
           /\ r.hdr[j] \in Headers
    <3> SUFFICES ASSUME NEW j \in 1 .. L - d
                 PROVE  /\ j + d \in 1 .. L /\ r.hdr[j].size = q.hdr[j + d].size
                        /\ r.hdr[j].state = q.hdr[j + d].state
                        /\ r.hdr[j].start = q.hdr[j + d].start - off
                        /\ q.hdr[j + d].start >= off
                        /\ q.hdr[j + d].start + q.hdr[j + d].size <= q.curr
                        /\ r.hdr[j] \in Headers
      OBVIOUS
    <3>1. j + d \in 1 .. L /\ head \in 1 .. L /\ (j = 1 => j + d = head) /\ (j # 1 => head < j + d)
      BY <2>1, <1>1
    <3>2. q.hdr[j + d] \in Headers /\ q.hdr[j + d].start \in Nat /\ q.hdr[j + d].size \in Nat
      BY <3>1, <1>3
    <3>3. r.hdr[j] = [q.hdr[j + d] EXCEPT !.start = q.hdr[j + d].start - off]
      BY <2>4
    <3>4. /\ r.hdr[j].size = q.hdr[j + d].size /\ r.hdr[j].state = q.hdr[j + d].state
          /\ r.hdr[j].start = q.hdr[j + d].start - off
      BY <3>2, <3>3 DEF Headers
    <3>5. q.hdr[j + d].start + q.hdr[j + d].size <= q.curr
      BY <3>1 DEF Sound, Laid, L
    <3>6. q.hdr[j + d].start >= off
      <4>1. CASE j = 1
        BY <4>1, <3>1, <3>2 DEF off
      <4>2. CASE j # 1
        <5>1. q.hdr[head].start + q.hdr[head].size <= q.hdr[j + d].start
          BY <4>2, <3>1 DEF Sound, Laid, L
        <5>2. q.hdr[head].start \in Nat /\ q.hdr[head].size \in Nat
          BY <3>1, <1>3
        <5> QED
          BY <5>1, <5>2, <3>2 DEF off
      <4> QED
        BY <4>1, <4>2
    <3>7. q.hdr[j + d].start - off \in 0 .. BufSz
      BY <3>2, <3>5, <3>6, <2>7, <1>1
    <3>8. r.hdr[j] \in Headers
      BY <3>2, <3>3, <3>7 DEF Headers
    <3> QED
      BY <3>1, <3>4, <3>5, <3>6, <3>8
  <2>13. /\ L - d \in Nat /\ L - d > 0 /\ Len(r.hdr) = L - d /\ r.hdr # <<>>
         /\ r.hdr \in Seq(Headers)
    <3>1. L - d \in Nat /\ L - d > 0
      BY <2>1, <1>1
    <3>2. r.hdr \in [1 .. L - d -> Headers]
      BY <2>4, <2>12
    <3>3. r.hdr \in Seq(Headers)
      BY <3>1, <3>2, SeqDef
    <3>4. Len(r.hdr) = L - d
      BY <3>1, <3>2
    <3> QED
      BY <3>1, <3>3, <3>4
  <2>14. r \in QueueType
    <3>1. r.curr \in 0 .. BufSz /\ r.tail \in 0 .. BufSz
      BY <2>3, <2>8, <1>1
    <3>2. r.curr_sz \in 0 .. BufSz
      <4>1. n \in Nat /\ t \in Nat /\ t <= BufSz
        BY <2>8, <1>1
      <4> QED
        BY <4>1, <2>3, RoomBounds
    <3> QED
      BY <3>1, <3>2, <2>3, <2>11, <2>13 DEF QueueType
  <2>15. Ends(r)
    BY <2>3, <2>8, <2>10, <2>13 DEF Ends
  <2>16. Laid(r)
    <3>1. \A j \in 1 .. L - d : r.hdr[j].start + r.hdr[j].size = EndOf(r, j)
      <4> SUFFICES ASSUME NEW j \in 1 .. L - d
                   PROVE  r.hdr[j].start + r.hdr[j].size = EndOf(r, j)
        OBVIOUS
      <4>1. q.hdr[j + d].start + q.hdr[j + d].size
              = IF j + d = L THEN q.curr ELSE q.hdr[j + d + 1].start
        BY <2>12 DEF Sound, Laid, EndOf, L
      <4>2. q.hdr[j + d].start \in Nat /\ q.hdr[j + d].size \in Nat
        BY <2>12, <1>3
      <4>a. /\ r.hdr[j].start = q.hdr[j + d].start - off /\ r.hdr[j].size = q.hdr[j + d].size
            /\ r.curr = n
        BY <2>3, <2>12
      <4>3. CASE j = L - d
        <5>1. j + d = L
          BY <4>3, <2>1, <1>1
        <5>2. QED
          <6>1. EndOf(r, j) = n
            BY <4>3, <4>a, <2>13 DEF EndOf
          <6>2. q.hdr[j + d].start + q.hdr[j + d].size = q.curr
            BY <5>1, <4>1
          <6> QED
            BY <6>1, <6>2, <4>2, <4>a, <2>7, <2>8, <1>1
      <4>4. CASE j # L - d
        <5>1. j + d # L /\ j + 1 \in 1 .. L - d /\ (j + 1) + d = j + d + 1
          BY <4>4, <2>1, <1>1
        <5>2. r.hdr[j + 1].start = q.hdr[j + d + 1].start - off
          BY <5>1, <2>12
        <5>3. r.hdr[j].start + r.hdr[j].size = q.hdr[j + d + 1].start - off
          BY <5>1, <4>1, <4>2, <2>7, <2>12, <1>1
        <5> QED
          BY <5>2, <5>3, <4>4, <2>13 DEF EndOf
      <4> QED
        BY <4>3, <4>4
    <3>2. \A j \in 1 .. L - d : r.hdr[j].start + r.hdr[j].size <= r.curr
      <4> SUFFICES ASSUME NEW j \in 1 .. L - d PROVE r.hdr[j].start + r.hdr[j].size <= r.curr
        OBVIOUS
      <4>1. q.hdr[j + d].start \in Nat /\ q.hdr[j + d].size \in Nat
        BY <2>12, <1>3
      <4>2. /\ r.hdr[j].start = q.hdr[j + d].start - off /\ r.hdr[j].size = q.hdr[j + d].size
            /\ r.curr = n /\ q.hdr[j + d].start + q.hdr[j + d].size <= q.curr
        BY <2>3, <2>12
      <4> QED
        BY <4>1, <4>2, <2>7, <2>8, <1>1
    <3>3. \A i, j \in 1 .. L - d : i < j => r.hdr[i].start + r.hdr[i].size <= r.hdr[j].start
      <4> SUFFICES ASSUME NEW i \in 1 .. L - d, NEW j \in 1 .. L - d, i < j
                   PROVE  r.hdr[i].start + r.hdr[i].size <= r.hdr[j].start
        OBVIOUS
      <4>1. i + d < j + d
        BY <2>1, <1>1
      <4>2. q.hdr[i + d].start + q.hdr[i + d].size <= q.hdr[j + d].start
        BY <4>1, <2>12 DEF Sound, Laid, L
      <4>3. /\ q.hdr[i + d].start \in Nat /\ q.hdr[i + d].size \in Nat
            /\ q.hdr[j + d].start \in Nat
        BY <2>12, <1>3
      <4> QED
        BY <4>2, <4>3, <2>7, <2>12, <1>1
    <3>4. r.hdr[1].start = 0
      <4>1. 1 \in 1 .. L - d /\ 1 + d = head /\ head \in 1 .. L
        BY <2>1, <2>13
      <4>2. r.hdr[1].start = q.hdr[1 + d].start - off /\ q.hdr[head].start = off
        BY <4>1, <2>12 DEF off
      <4> QED
        BY <4>1, <4>2, <2>7, <1>1
    <3> QED
      BY <3>1, <3>2, <3>3, <3>4, <2>13 DEF Laid
  <2>17. MsgsOf(r) = SubSeq(MsgsOf(q), d + 1, L)
    <3>1. \A j \in 1 .. L - d : M(r, j) = M(q, j + d)
      <4> SUFFICES ASSUME NEW j \in 1 .. L - d PROVE M(r, j) = M(q, j + d)
        OBVIOUS
      <4> DEFINE z == q.hdr[j + d].size
                 s == q.hdr[j + d].start
      <4>1. z \in Nat /\ s \in Nat /\ s >= off /\ s + z <= q.curr
        BY <2>12, <1>3
      <4>2. r.hdr[j].size = z /\ r.hdr[j].start = s - off /\ r.hdr[j].state = q.hdr[j + d].state
        BY <2>12
      <4> HIDE DEF z, s
      <4>3. \A k \in 1 .. z : r.mem[s - off + k - 1] = q.mem[s + k - 1]
        <5> SUFFICES ASSUME NEW k \in 1 .. z PROVE r.mem[s - off + k - 1] = q.mem[s + k - 1]
          OBVIOUS
        <5>1. s - off + k - 1 \in 0 .. n - 1 /\ (s - off + k - 1) + off = s + k - 1
          BY <4>1, <2>7, <2>8, <1>1
        <5> QED
          BY <5>1, <2>9
      <4>4. [k \in 1 .. r.hdr[j].size |-> r.mem[r.hdr[j].start + k - 1]]
              = [k \in 1 .. z |-> q.mem[s + k - 1]]
        BY <4>2, <4>3
      <4> QED
        BY <4>2, <4>4 DEF z, s
    <3>2. MsgsOf(r) = [j \in 1 .. L - d |-> M(r, j)]
      BY <2>13 DEF MsgsOf
    <3> HIDE DEF M
    <3>3. SubSeq(MsgsOf(q), d + 1, L) = [j \in 1 .. L - d |-> M(q, j + d)]
      <4>1. SubSeq(MsgsOf(q), d + 1, L) = [j \in 1 .. L - (d + 1) + 1 |-> MsgsOf(q)[j + (d + 1) - 1]]
        BY <2>1, <1>1
      <4>2. \A j \in 1 .. L - d : j + (d + 1) - 1 = j + d /\ j + d \in 1 .. L
        BY <2>1, <1>1
      <4>3. L - (d + 1) + 1 = L - d
        BY <2>1, <1>1
      <4>4. \A j \in 1 .. L - d : MsgsOf(q)[j + (d + 1) - 1] = M(q, j + d)
        BY <4>2, <1>5
      <4> QED
        BY <4>1, <4>3, <4>4
    <3> QED
      BY <3>1, <3>2, <3>3
  <2>18. d \in 0 .. L /\ \A j \in 1 .. d : q.hdr[j].state = "COMPLETE"
    BY <2>1, <1>1, <1>4, <1>8 DEF d
  <2>19. Sound(r)
    BY <2>14, <2>15, <2>16 DEF Sound
  <2> QED
    BY <2>17, <2>18, <2>19 DEF r, L
<1> QED
  BY <1>4, <1>6, <1>7, <1>8, <1>1

\* Initially the queue is sound and empty.
LEMMA InitIndInv == Init => IndInv /\ Msgs = <<>>
<1> SUFFICES ASSUME Init PROVE IndInv /\ Msgs = <<>>
  OBVIOUS
<1> DEFINE m == [a \in 0 .. BufSz - 1 |-> Junk]
<1>1. m \in Buffers
  BY DEF Buffers, Cells
<1>2. Queue = mqtt_mq_init(m)
  BY DEF Init, Queue, mqtt_mq_init
<1>3. Sound(Queue) /\ MsgsOf(Queue) = <<>>
  BY <1>1, <1>2, InitSound
<1>4. Msgs = MsgsOf(Queue)
  BY DEF Msgs, MsgsOf, Queue
<1> QED
  BY <1>3, <1>4 DEF IndInv, Init

\* The state a handler leaves is the queue it computed.
LEMMA BecomesQueue ==
  ASSUME NEW r, Sound(r), Becomes(r)
  PROVE  Queue' = r /\ Msgs' = MsgsOf(r)
<1>1. Queue' = r
  BY SoundParts DEF Becomes, Queue
<1>2. Msgs' = MsgsOf(r)
  BY DEF Becomes, Msgs, MsgsOf
<1> QED
  BY <1>1, <1>2

\* Msgs reads the current queue.
LEMMA MsgsOfQueue == Msgs = MsgsOf(Queue) /\ Len(Msgs) = Len(Queue.hdr)
  BY DEF Msgs, MsgsOf, Queue

\* Trying to pack a message, with or without cleaning, keeps the queue sound; it
\* appends the message behind what is left, or leaves it out.
LEMMA TryPackStep ==
  ASSUME IndInv, NEW id \in Ids, NEW n \in Sizes, TryPack(id, n)
  PROVE  IndInv' /\ (Abs!Enqueue(id, n) \/ Abs!Clean)
<1> DEFINE q == IF n <= curr_sz THEN Queue ELSE mqtt_mq_clean(Queue)
           r == mqtt_mq_register(PackBytes(q, id, n), n)
           y == [bytes |-> [k \in 1 .. n |-> [id |-> id, k |-> k]], state |-> "UNSENT"]
<1>1. Sound(Queue)
  BY DEF IndInv
<1>2. /\ Sound(q)
      /\ \E d \in 0 .. Len(Msgs) :
           /\ \A j \in 1 .. d : Queue.hdr[j].state = "COMPLETE"
           /\ MsgsOf(q) = SubSeq(Msgs, d + 1, Len(Msgs))
  <2>1. CASE n <= curr_sz
    <3>1. q = Queue /\ Len(Msgs) \in Nat
      BY <2>1, <1>1, SoundParts, MsgsOfQueue
    <3>2. Msgs = SubSeq(Msgs, 1, Len(Msgs))
      BY <3>1 DEF Msgs
    <3> QED
      BY <3>1, <3>2, <1>1, MsgsOfQueue
  <2>2. CASE ~(n <= curr_sz)
    BY <2>2, <1>1, CleanSound, MsgsOfQueue
  <2> QED
    BY <2>1, <2>2
<1>3. PICK d \in 0 .. Len(Msgs) :
        /\ \A j \in 1 .. d : Queue.hdr[j].state = "COMPLETE"
        /\ MsgsOf(q) = SubSeq(Msgs, d + 1, Len(Msgs))
  BY <1>2
<1>4. Len(Msgs) \in Nat /\ \A j \in 1 .. Len(Msgs) : Msgs[j].state = Queue.hdr[j].state
  BY <1>1, SoundParts, MsgsOfQueue DEF MsgsOf
<1>5. Abs!Droppable(d) /\ MsgsOf(q) = Abs!Drop(d)
  BY <1>3, <1>4 DEF Abs!Droppable, Abs!Drop
<1>6. IF n <= q.curr_sz THEN Becomes(r) /\ full' = FALSE ELSE Becomes(q) /\ full' = TRUE
  BY DEF TryPack
<1> HIDE DEF q
<1>7. CASE n <= q.curr_sz
  <2>1. Sound(r) /\ MsgsOf(r) = Append(MsgsOf(q), y)
    BY <1>2, <1>7, PackSound
  <2> HIDE DEF r
  <2>2. Queue' = r /\ Msgs' = MsgsOf(r) /\ full' = FALSE
    BY <2>1, <1>6, <1>7, BecomesQueue
  <2>3. y = [bytes |-> Abs!Content(id, n), state |-> "UNSENT"]
    BY DEF Abs!Content
  <2> HIDE DEF y
  <2>4. Abs!Enqueue(id, n)
    BY <1>5, <2>1, <2>2, <2>3 DEF Abs!Enqueue
  <2> QED
    BY <2>1, <2>2, <2>4 DEF IndInv
<1>8. CASE ~(n <= q.curr_sz)
  <2>1. Queue' = q /\ Msgs' = MsgsOf(q) /\ full' = TRUE
    BY <1>2, <1>6, <1>8, BecomesQueue
  <2>2. Abs!Clean
    BY <1>5, <2>1 DEF Abs!Clean
  <2> QED
    BY <2>1, <2>2, <1>2 DEF IndInv
<1> QED
  BY <1>7, <1>8

\* Marking a message changes its header's state and no byte.
LEMMA SetStateStep ==
  ASSUME IndInv, NEW i \in DOMAIN hdr, NEW s \in States, SetState(i, s)
  PROVE  IndInv' /\ Abs!Mark(i, s)
<1> DEFINE q == Queue
           L == Len(hdr)
           x == [hdr[i] EXCEPT !.state = s]
<1>1. /\ q.hdr = hdr /\ q.mem = mem /\ q.curr = curr /\ q.curr_sz = curr_sz
      /\ q.tail = queue_tail /\ Sound(q)
  BY DEF IndInv, Queue
<1>2. /\ hdr \in Seq(Headers) /\ L \in Nat /\ i \in 1 .. L /\ DOMAIN hdr = 1 .. L
      /\ \A j \in 1 .. L : hdr[j] \in Headers
  BY <1>1, SoundParts
<1>3. /\ hdr' = [hdr EXCEPT ![i] = x] /\ full' = full
      /\ UNCHANGED <<mem, curr, curr_sz, queue_tail>>
  BY DEF SetState
<1>4. x \in Headers /\ x.start = hdr[i].start /\ x.size = hdr[i].size /\ x.state = s
  BY <1>2 DEF Headers
<1> HIDE DEF x
<1>5. /\ hdr' \in Seq(Headers) /\ Len(hdr') = L
      /\ \A j \in 1 .. L : hdr'[j] = IF j = i THEN x ELSE hdr[j]
  BY <1>2, <1>3, <1>4, ExceptSeq
<1>6. \A j \in 1 .. L : /\ hdr'[j].start = hdr[j].start /\ hdr'[j].size = hdr[j].size
                        /\ hdr'[j].state = IF j = i THEN s ELSE hdr[j].state
  BY <1>4, <1>5
<1>7. /\ Queue'.hdr = hdr' /\ Queue'.mem = mem /\ Queue'.curr = curr
      /\ Queue'.curr_sz = curr_sz /\ Queue'.tail = queue_tail
      /\ Queue' = [mem |-> mem, curr |-> curr, curr_sz |-> curr_sz, tail |-> queue_tail,
                   hdr |-> hdr']
  BY <1>3 DEF Queue
<1>8. Queue' \in QueueType
  BY <1>1, <1>5, <1>7, SoundParts DEF QueueType
<1>9. Ends(Queue')
  BY <1>1, <1>5, <1>7 DEF Sound, Ends
<1>10. Laid(Queue')
  <2>1. hdr # <<>> /\ hdr' # <<>> /\ 1 \in 1 .. L
    BY <1>2, <1>5
  <2>2. \A j \in 1 .. L : EndOf(Queue', j) = EndOf(q, j)
    <3> SUFFICES ASSUME NEW j \in 1 .. L PROVE EndOf(Queue', j) = EndOf(q, j)
      OBVIOUS
    <3>a. /\ Queue'.hdr = hdr' /\ Queue'.curr = curr /\ Len(hdr') = L
          /\ Queue.hdr = hdr /\ Queue.curr = curr
      BY <1>1, <1>5, <1>7
    <3>1. /\ EndOf(Queue', j) = IF j = L THEN curr ELSE hdr'[j + 1].start
          /\ EndOf(q, j) = IF j = L THEN curr ELSE hdr[j + 1].start
      BY <3>a DEF EndOf
    <3>b. L \in Nat
      BY <1>2
    <3> HIDE DEF L
    <3>2. j # L => j + 1 \in 1 .. L
      BY <3>b
    <3>3. j # L => hdr'[j + 1].start = hdr[j + 1].start
      BY <3>2, <1>6
    <3> QED
      BY <3>1, <3>3
  <2>3. /\ \A j \in 1 .. L : hdr[j].start + hdr[j].size = EndOf(q, j)
        /\ \A j \in 1 .. L : hdr[j].start + hdr[j].size <= curr
        /\ \A k, j \in 1 .. L : k < j => hdr[k].start + hdr[k].size <= hdr[j].start
        /\ hdr[1].start = 0
    BY <2>1, <1>1 DEF Sound, Laid
  <2>4. /\ \A j \in 1 .. L : hdr'[j].start + hdr'[j].size = EndOf(Queue', j)
        /\ \A j \in 1 .. L : hdr'[j].start + hdr'[j].size <= curr
        /\ \A k, j \in 1 .. L : k < j => hdr'[k].start + hdr'[k].size <= hdr'[j].start
        /\ hdr'[1].start = 0
    BY <2>1, <2>2, <2>3, <1>6
  <2> QED
    BY <2>1, <2>4, <1>5, <1>7 DEF Laid
<1>11. Abs!Mark(i, s)
  <2> DEFINE b(m, h) == [k \in 1 .. h.size |-> m[h.start + k - 1]]
  <2>1. Msgs = [j \in 1 .. L |-> [bytes |-> b(mem, hdr[j]), state |-> hdr[j].state]]
    BY DEF Msgs
  <2>2. Msgs' = [j \in 1 .. L |-> [bytes |-> b(mem, hdr'[j]), state |-> hdr'[j].state]]
    BY <1>3, <1>5 DEF Msgs
  <2>3. \A j \in 1 .. L : b(mem, hdr'[j]) = b(mem, hdr[j])
    BY <1>6
  <2> HIDE DEF b
  <2>4. Msgs' = [Msgs EXCEPT ![i].state = s]
    BY <2>1, <2>2, <2>3, <1>2, <1>6
  <2> QED
    BY <2>4 DEF Abs!Mark
<1> QED
  BY <1>1, <1>3, <1>8, <1>9, <1>10, <1>11 DEF IndInv, Sound

\* Every step keeps the queue sound and is a step of MqttQueueSpec.
LEMMA NextStep == IndInv /\ [Next]_vars => IndInv' /\ [Abs!Next]_Msgs
<1> SUFFICES ASSUME IndInv, [Next]_vars PROVE IndInv' /\ [Abs!Next]_Msgs
  OBVIOUS
<1>1. ASSUME NEW id \in Ids, NEW n \in Sizes, TryPack(id, n)
      PROVE  IndInv' /\ Abs!Next
  BY <1>1, TryPackStep DEF Abs!Next
<1>2. ASSUME NEW i \in DOMAIN hdr, NEW s \in States, SetState(i, s)
      PROVE  IndInv' /\ Abs!Next
  <2>1. IndInv' /\ Abs!Mark(i, s)
    BY <1>2, SetStateStep
  <2>2. i \in DOMAIN Msgs /\ s \in Abs!States
    BY <1>2, SoundParts DEF IndInv, Queue, Msgs, States, Abs!States
  <2> QED
    BY <2>1, <2>2 DEF Abs!Next
<1>3. CASE Reinit
  <2>1. mem \in Buffers
    BY SoundParts DEF IndInv, Queue
  <2>2. Sound(mqtt_mq_init(mem)) /\ MsgsOf(mqtt_mq_init(mem)) = <<>>
    BY <2>1, InitSound
  <2>3. Queue' = mqtt_mq_init(mem) /\ Msgs' = <<>> /\ full' = FALSE
    BY <1>3, <2>2, BecomesQueue DEF Reinit
  <2> QED
    BY <2>2, <2>3 DEF IndInv, Abs!Next, Abs!Reset
<1>4. CASE UNCHANGED vars
  <2>1. UNCHANGED <<Queue, Msgs, full>>
    BY <1>4 DEF vars, Queue, Msgs
  <2> QED
    BY <2>1 DEF IndInv
<1> QED
  BY <1>1, <1>2, <1>3, <1>4 DEF Next

\* The inductive invariant is stronger than what the run checks.
LEMMA IndInvImplies == IndInv => TypeOK /\ EndsApart /\ Contiguous
<1> SUFFICES ASSUME IndInv PROVE TypeOK /\ EndsApart /\ Contiguous
  OBVIOUS
<1>1. /\ Queue.hdr = hdr /\ Queue.mem = mem /\ Queue.curr = curr /\ Queue.curr_sz = curr_sz
      /\ Queue.tail = queue_tail /\ Sound(Queue) /\ full \in BOOLEAN
  BY DEF IndInv, Queue
<1>2. /\ mem \in Buffers /\ curr \in 0 .. BufSz /\ curr_sz \in 0 .. BufSz
      /\ queue_tail \in 0 .. BufSz /\ hdr \in Seq(Headers) /\ DOMAIN hdr = 1 .. Len(hdr)
  BY <1>1, SoundParts
<1>3. TypeOK
  BY <1>1, <1>2 DEF TypeOK, Buffers, Headers
<1>4. EndsApart
  <2>1. curr <= queue_tail /\ curr_sz = mqtt_mq_currsz(curr, queue_tail)
    BY <1>1 DEF Sound, Ends
  <2>2. curr \in Nat /\ queue_tail \in Nat /\ queue_tail <= BufSz
    BY <1>2, SizeAssumption
  <2> QED
    BY <2>1, <2>2, RoomBounds DEF EndsApart
<1>5. Contiguous
  BY <1>1, <1>2 DEF Sound, Ends, Laid, EndOf, Contiguous
<1> QED
  BY <1>3, <1>4, <1>5

\* The queue's fields stay within its buffer, whatever its size.
THEOREM TypeCorrect == Spec => []TypeOK
<1>1. IndInv => TypeOK
  BY IndInvImplies
<1>2. Init => IndInv
  BY InitIndInv
<1>3. IndInv /\ [Next]_vars => IndInv'
  BY NextStep
<1> QED
  BY <1>1, <1>2, <1>3, PTL DEF Spec

\* Bytes and headers never meet, and what mqtt_mq_currsz promises fits.
THEOREM EndsStayApart == Spec => []EndsApart
<1>1. IndInv => EndsApart
  BY IndInvImplies
<1>2. Init => IndInv
  BY InitIndInv
<1>3. IndInv /\ [Next]_vars => IndInv'
  BY NextStep
<1> QED
  BY <1>1, <1>2, <1>3, PTL DEF Spec

\* Messages and headers stay contiguous, also across mqtt_mq_clean.
THEOREM StaysContiguous == Spec => []Contiguous
<1>1. IndInv => Contiguous
  BY IndInvImplies
<1>2. Init => IndInv
  BY InitIndInv
<1>3. IndInv /\ [Next]_vars => IndInv'
  BY NextStep
<1> QED
  BY <1>1, <1>2, <1>3, PTL DEF Spec

\* The refinement: the queue keeps the bytes of every message it holds.
THEOREM Refinement == Spec => KeepsMessages
<1>1. Init => Abs!Init /\ IndInv
  BY InitIndInv DEF Abs!Init
<1>2. IndInv /\ [Next]_vars => IndInv' /\ [Abs!Next]_Msgs
  BY NextStep
<1> QED
  BY <1>1, <1>2, PTL DEF Spec, KeepsMessages, Abs!Spec
=============================================================================
