---------------------------- MODULE AxiDmaProofs ----------------------------
(***************************************************************************)
(* Machine-checked proofs about AxiDma, for every set of threads, channels *)
(* and transfers and every number of descriptors.  What is said of waiting *)
(* calls assumes OneUser.                                                  *)
(***************************************************************************)
EXTENDS AxiDma, Integers, SequenceTheorems, TLAPS

\* A thread's legs are those of its last call, and it is at one of them.
LegsKnown ==
  \A t \in Threads :
    \/ legs[t] = <<>> /\ pc[t] \in {"idle", "gone"} /\ result[t] = "none"
    \/ legs[t] \in Calls[t] /\ leg[t] \in 1 .. Len(legs[t])

Busy == {"prep", "submit", "start", "wait"}

\* What every call looks like: a read-write call waits for its second leg at most,
\* and on another channel; a video call never waits.
Shape(call) ==
  /\ call \in Seq(Legs) /\ DOMAIN call = 1 .. Len(call) /\ Len(call) \in {1, 2}
  /\ \A i \in 1 .. Len(call) : /\ call[i].ch \in Chans /\ call[i].wait \in BOOLEAN
                               /\ call[i].video \in BOOLEAN
  /\ call[1].video => Len(call) = 1 /\ ~call[1].wait
  /\ Len(call) = 2 => ~call[1].wait /\ call[1].ch # call[2].ch

\* A single leg has the shape, unless it is a video that waits.
LEMMA OneLeg ==
  ASSUME NEW x \in Legs, x.video => ~x.wait
  PROVE  Shape(<<x>>)
<1>1. x.ch \in Chans /\ x.wait \in BOOLEAN /\ x.video \in BOOLEAN
  BY DEF Legs
<1>2. /\ <<x>> \in Seq(Legs) /\ Len(<<x>>) = 1 /\ <<x>>[1] = x
      /\ DOMAIN <<x>> = 1 .. 1 /\ \A i \in 1 .. 1 : i = 1
  OBVIOUS
<1> QED
  BY <1>1, <1>2 DEF Shape

\* Of two legs, the first of which does not wait and is no video.
LEMMA TwoLegs ==
  ASSUME NEW x \in Legs, NEW y \in Legs, ~x.video, ~x.wait, x.ch # y.ch
  PROVE  Shape(<<x, y>>)
<1>1. /\ x.ch \in Chans /\ x.wait \in BOOLEAN /\ x.video \in BOOLEAN
      /\ y.ch \in Chans /\ y.wait \in BOOLEAN /\ y.video \in BOOLEAN
  BY DEF Legs
<1>2. /\ <<x, y>> \in Seq(Legs) /\ Len(<<x, y>>) = 2 /\ <<x, y>>[1] = x /\ <<x, y>>[2] = y
      /\ DOMAIN <<x, y>> = 1 .. 2 /\ \A i \in 1 .. 2 : i = 1 \/ i = 2
  OBVIOUS
<1> QED
  BY <1>1, <1>2 DEF Shape

\* The transfers of the code have this shape.
LEMMA CallShape ==
  ASSUME NEW t \in Threads, NEW call \in Calls[t]
  PROVE  Shape(call)
<1>1. CASE \E c \in Chans, w \in BOOLEAN :
             call \in {axidma_read_transfer(c, w), axidma_write_transfer(c, w),
                       axidma_video_transfer(c)}
  <2>1. PICK c \in Chans, w \in BOOLEAN :
          call \in {axidma_read_transfer(c, w), axidma_write_transfer(c, w),
                    axidma_video_transfer(c)}
    BY <1>1
  <2> DEFINE x == [ch |-> c, wait |-> w, video |-> FALSE]
             y == [ch |-> c, wait |-> FALSE, video |-> TRUE]
  <2>2. call = <<x>> \/ call = <<y>>
    BY <2>1 DEF axidma_read_transfer, axidma_write_transfer, axidma_video_transfer, Leg
  <2>3. x \in Legs /\ ~x.video /\ y \in Legs /\ ~y.wait
    BY DEF Legs
  <2> HIDE DEF x, y
  <2> QED
    BY <2>2, <2>3, OneLeg
<1>2. CASE \E tx, rx \in Chans, w \in BOOLEAN : tx # rx /\ call = axidma_rw_transfer(tx, rx, w)
  <2>1. PICK tx \in Chans, rx \in Chans, w \in BOOLEAN :
          tx # rx /\ call = axidma_rw_transfer(tx, rx, w)
    BY <1>2
  <2> DEFINE x == [ch |-> tx, wait |-> FALSE, video |-> FALSE]
             y == [ch |-> rx, wait |-> w, video |-> FALSE]
  <2>2. call = <<x, y>>
    BY <2>1 DEF axidma_rw_transfer, Leg
  <2>3. x \in Legs /\ ~x.video /\ ~x.wait /\ y \in Legs /\ x.ch # y.ch
    BY <2>1 DEF Legs
  <2> HIDE DEF x, y
  <2> QED
    BY <2>2, <2>3, TwoLegs
<1> QED
  BY <1>1, <1>2, CallsAssumption

\* A thread in a call is at a leg of it.
LEMMA AtLeg ==
  ASSUME TypeOK, LegsKnown, NEW t \in Threads, pc[t] \in Busy
  PROVE  /\ legs[t] \in Calls[t] /\ Shape(legs[t]) /\ legs[t] # <<>>
         /\ leg[t] \in {1, 2} /\ leg[t] \in 1 .. Len(legs[t]) /\ Len(legs[t]) \in {1, 2}
         /\ Ch(t) \in Chans /\ Wait(t) \in BOOLEAN
         /\ Last(t) \/ (leg[t] = 1 /\ Len(legs[t]) = 2)
<1>1. legs[t] \in Calls[t] /\ leg[t] \in 1 .. Len(legs[t])
  BY DEF LegsKnown, Busy
<1>2. Shape(legs[t])
  BY <1>1, CallShape
<1>3. Len(legs[t]) \in {1, 2} /\ legs[t] # <<>> /\ leg[t] \in {1, 2}
  BY <1>1, <1>2 DEF Shape
<1>4. Ch(t) \in Chans /\ Wait(t) \in BOOLEAN
  BY <1>1, <1>2 DEF Shape, Ch, Wait
<1>5. Last(t) \/ (leg[t] = 1 /\ Len(legs[t]) = 2)
  <2>1. CASE Len(legs[t]) = 1
    BY <1>1, <2>1 DEF Last
  <2>2. CASE Len(legs[t]) = 2
    BY <1>3, <2>2 DEF Last
  <2> QED
    BY <1>3, <2>1, <2>2
<1> QED
  BY <1>1, <1>2, <1>3, <1>4, <1>5

\* The error exit in any of the four places.
StopStep(t) ==
  /\ pc[t] \in {"prep", "submit", "wait"}
  /\ \E rc \in {"EBUSY", "ETIME"} : stop_dma(t, rc)

\* The steps, with the four places of the error exit as one.
LEMMA Steps ==
  ASSUME [Next]_vars
  PROVE  \/ \E t \in Threads : \E call \in Calls[t] : Call(t, call)
         \/ \E t \in Threads : \/ StopStep(t) \/ SetCallback(t) \/ Submit(t) \/ Start(t)
                               \/ WaitOk(t) \/ axidma_release(t)
         \/ \E t \in Threads, c \in Chans : axidma_stop_channel(t, c)
         \/ \E c \in Chans : EngineDone(c) \/ PickCallback(c) \/ axidma_dma_callback(c)
         \/ UNCHANGED vars
  BY DEF Next, ThreadStep, PrepFails, SubmitFails, WaitNotComplete, WaitTimeout, StopStep

\* The types of a thread's place.
ThreadType ==
  /\ pc \in [Threads -> {"idle", "prep", "submit", "start", "wait", "gone"}]
  /\ legs \in [Threads -> Seq(Legs)] /\ leg \in [Threads -> {1, 2}]
  /\ result \in [Threads -> {"none", "ok", "EBUSY", "ETIME"}]

\* After an error exit or the end of a call the thread is still at its leg.
LEMMA ReturnLegs ==
  ASSUME ThreadType, LegsKnown, NEW t \in Threads, pc[t] \in Busy,
         NEW rc \in {"ok", "EBUSY", "ETIME"}, Return(t, rc), UNCHANGED <<legs, leg>>
  PROVE  LegsKnown' /\ ThreadType'
<1>1. legs[t] \in Calls[t] /\ leg[t] \in 1 .. Len(legs[t])
  BY DEF LegsKnown, Busy
<1>2. \A u \in Threads : u # t => pc'[u] = pc[u] /\ result'[u] = result[u]
  BY DEF Return, ThreadType
<1>3. LegsKnown'
  <2> SUFFICES ASSUME NEW u \in Threads
               PROVE  \/ legs[u] = <<>> /\ pc'[u] \in {"idle", "gone"} /\ result'[u] = "none"
                      \/ legs[u] \in Calls[u] /\ leg[u] \in 1 .. Len(legs[u])
    BY DEF LegsKnown
  <2>1. CASE u = t
    BY <1>1, <2>1
  <2>2. CASE u # t
    BY <1>2, <2>2 DEF LegsKnown
  <2> QED
    BY <2>1, <2>2
<1> QED
  BY <1>3 DEF Return, ThreadType

\* So it is when it goes on within its call.
LEMMA MoveLegs ==
  ASSUME ThreadType, LegsKnown, NEW t \in Threads, pc[t] \in Busy,
         NEW p \in Busy, pc' = [pc EXCEPT ![t] = p],
         NEW i \in {1, 2}, i \in 1 .. Len(legs[t]), leg' = [leg EXCEPT ![t] = i],
         UNCHANGED <<legs, result>>
  PROVE  LegsKnown' /\ ThreadType'
<1>1. legs[t] \in Calls[t] /\ leg'[t] = i
  BY DEF LegsKnown, Busy, ThreadType
<1>2. \A u \in Threads : u # t => pc'[u] = pc[u] /\ leg'[u] = leg[u]
  BY DEF ThreadType
<1>3. LegsKnown'
  <2> SUFFICES ASSUME NEW u \in Threads
               PROVE  \/ legs[u] = <<>> /\ pc'[u] \in {"idle", "gone"} /\ result[u] = "none"
                      \/ legs[u] \in Calls[u] /\ leg'[u] \in 1 .. Len(legs[u])
    BY DEF LegsKnown
  <2>1. CASE u = t
    BY <1>1, <2>1
  <2>2. CASE u # t
    BY <1>2, <2>2 DEF LegsKnown
  <2> QED
    BY <2>1, <2>2
<1> QED
  BY <1>3 DEF ThreadType, Busy

\* NextLeg is one of the two.
LEMMA NextLegLegs ==
  ASSUME TypeOK, LegsKnown, NEW t \in Threads, pc[t] \in Busy, NextLeg(t), UNCHANGED legs
  PROVE  LegsKnown' /\ ThreadType'
<1>1. ThreadType
  BY DEF TypeOK, ThreadType
<1>2. CASE Last(t)
  BY <1>1, <1>2, ReturnLegs DEF NextLeg
<1>3. CASE ~Last(t)
  <2>1. leg[t] = 1 /\ Len(legs[t]) = 2
    BY <1>3, AtLeg
  <2>2. /\ pc' = [pc EXCEPT ![t] = "start"] /\ leg' = [leg EXCEPT ![t] = 2]
        /\ UNCHANGED <<legs, result>>
    BY <1>3, <2>1 DEF NextLeg
  <2>3. 2 \in 1 .. Len(legs[t]) /\ "start" \in Busy /\ 2 \in {1, 2}
    BY <2>1 DEF Busy
  <2> QED
    BY <1>1, <2>2, <2>3, MoveLegs
<1> QED
  BY <1>2, <1>3

\* Every step keeps each thread at a leg of its call.
LEMMA LegsStep == TypeOK /\ LegsKnown /\ [Next]_vars => LegsKnown' /\ ThreadType'
<1> SUFFICES ASSUME TypeOK, LegsKnown, [Next]_vars PROVE LegsKnown' /\ ThreadType'
  OBVIOUS
<1>0. ThreadType
  BY DEF TypeOK, ThreadType
<1>1. ASSUME NEW t \in Threads, NEW call \in Calls[t], Call(t, call)
      PROVE  LegsKnown' /\ ThreadType'
  <2>1. call \in Seq(Legs) /\ 1 \in 1 .. Len(call)
    BY CallShape DEF Shape
  <2>2. /\ legs' = [legs EXCEPT ![t] = call] /\ leg' = [leg EXCEPT ![t] = 1]
        /\ pc' = [pc EXCEPT ![t] = "prep"] /\ result' = [result EXCEPT ![t] = "none"]
    BY <1>1 DEF Call
  <2>3. ThreadType'
    BY <1>0, <2>1, <2>2 DEF ThreadType
  <2>4. ASSUME NEW u \in Threads
        PROVE  \/ legs'[u] = <<>> /\ pc'[u] \in {"idle", "gone"} /\ result'[u] = "none"
               \/ legs'[u] \in Calls[u] /\ leg'[u] \in 1 .. Len(legs'[u])
    <3>1. CASE u = t
      <4>1. legs'[u] = call /\ leg'[u] = 1
        BY <1>0, <2>2, <3>1 DEF ThreadType
      <4> QED
        BY <2>1, <3>1, <4>1
    <3>2. CASE u # t
      <4>1. legs'[u] = legs[u] /\ leg'[u] = leg[u] /\ pc'[u] = pc[u] /\ result'[u] = result[u]
        BY <1>0, <2>2, <3>2 DEF ThreadType
      <4> QED
        BY <4>1 DEF LegsKnown
    <3> QED
      BY <3>1, <3>2
  <2>5. LegsKnown'
    BY <2>4, Zenon DEF LegsKnown
  <2> QED
    BY <2>3, <2>5
<1>2. ASSUME NEW t \in Threads, StopStep(t)
      PROVE  LegsKnown' /\ ThreadType'
  BY <1>0, <1>2, ReturnLegs DEF StopStep, stop_dma, Busy
<1>3. ASSUME NEW t \in Threads, SetCallback(t)
      PROVE  LegsKnown' /\ ThreadType'
  <2>1. leg[t] \in {1, 2} /\ leg[t] \in 1 .. Len(legs[t]) /\ pc[t] \in Busy
    BY <1>3, AtLeg DEF SetCallback, Busy
  <2>2. /\ pc' = [pc EXCEPT ![t] = "submit"] /\ leg' = [leg EXCEPT ![t] = leg[t]]
        /\ UNCHANGED <<legs, result>>
    BY <1>0, <1>3 DEF SetCallback, ThreadType
  <2> QED
    BY <1>0, <2>1, <2>2, MoveLegs DEF Busy
<1>4. ASSUME NEW t \in Threads, Submit(t)
      PROVE  LegsKnown' /\ ThreadType'
  <2>1. /\ pc[t] \in Busy
        /\ Last(t) \/ (leg[t] = 1 /\ Len(legs[t]) = 2)
        /\ Len(legs[t]) \in {1, 2}
    BY <1>4, AtLeg DEF Submit, Busy
  <2>2. CASE Last(t)
    <3>1. /\ pc' = [pc EXCEPT ![t] = "start"] /\ leg' = [leg EXCEPT ![t] = 1]
          /\ UNCHANGED <<legs, result>>
      BY <1>4, <2>2 DEF Submit
    <3>2. 1 \in 1 .. Len(legs[t]) /\ "start" \in Busy /\ pc[t] \in Busy
      BY <2>1 DEF Busy
    <3> QED
      BY <1>0, <3>1, <3>2, MoveLegs
  <2>3. CASE ~Last(t)
    <3>1. leg[t] = 1 /\ Len(legs[t]) = 2 /\ pc[t] \in Busy
      BY <2>1, <2>3
    <3>2. /\ pc' = [pc EXCEPT ![t] = "prep"] /\ leg' = [leg EXCEPT ![t] = 2]
          /\ UNCHANGED <<legs, result>>
      BY <1>4, <2>3, <3>1 DEF Submit
    <3>3. 2 \in 1 .. Len(legs[t]) /\ "prep" \in Busy
      BY <3>1 DEF Busy
    <3> QED
      BY <1>0, <3>1, <3>2, <3>3, MoveLegs
  <2> QED
    BY <2>2, <2>3
<1>5. ASSUME NEW t \in Threads, Start(t)
      PROVE  LegsKnown' /\ ThreadType'
  <2>1. leg[t] \in {1, 2} /\ leg[t] \in 1 .. Len(legs[t]) /\ pc[t] \in Busy
    BY <1>5, AtLeg DEF Start, Busy
  <2>2. CASE Wait(t)
    <3>1. /\ pc' = [pc EXCEPT ![t] = "wait"] /\ leg' = [leg EXCEPT ![t] = leg[t]]
          /\ UNCHANGED <<legs, result>>
      BY <1>0, <1>5, <2>2 DEF Start, ThreadType
    <3> QED
      BY <1>0, <2>1, <3>1, MoveLegs DEF Busy
  <2>3. CASE ~Wait(t)
    BY <1>5, <2>1, <2>3, NextLegLegs DEF Start
  <2> QED
    BY <2>2, <2>3
<1>6. ASSUME NEW t \in Threads, WaitOk(t)
      PROVE  LegsKnown' /\ ThreadType'
  BY <1>6, NextLegLegs DEF WaitOk, Busy
<1>7. ASSUME NEW t \in Threads, NEW c \in Chans, axidma_stop_channel(t, c)
      PROVE  LegsKnown' /\ ThreadType'
  BY <1>0, <1>7 DEF axidma_stop_channel, thrVars, LegsKnown, ThreadType
<1>8. ASSUME NEW t \in Threads, axidma_release(t)
      PROVE  LegsKnown' /\ ThreadType'
  <2>1. pc' = [pc EXCEPT ![t] = "gone"] /\ UNCHANGED <<legs, leg, result>>
    BY <1>8 DEF axidma_release
  <2> QED
    BY <1>0, <2>1 DEF LegsKnown, ThreadType
<1>9. ASSUME NEW c \in Chans, EngineDone(c) \/ PickCallback(c) \/ axidma_dma_callback(c)
      PROVE  LegsKnown' /\ ThreadType'
  <2>1. UNCHANGED <<pc, legs, leg, result>>
    BY <1>9 DEF EngineDone, PickCallback, axidma_dma_callback, thrVars
  <2> QED
    BY <1>0, <2>1 DEF LegsKnown, ThreadType
<1>10. CASE UNCHANGED vars
  BY <1>0, <1>10 DEF vars, thrVars, LegsKnown, ThreadType
<1> QED
  BY <1>1, <1>2, <1>3, <1>4, <1>5, <1>6, <1>7, <1>8, <1>9, <1>10, Steps
-----------------------------------------------------------------------------
(* Types.                                                                  *)

\* The types of what a call and the engine leave on the channels.
QueueType ==
  /\ submitted \in [Chans -> Seq(Cookies)] /\ issued \in [Chans -> Seq(Cookies)]
  /\ finished \in [Chans -> Seq(Cookies)]

CountType ==
  /\ cookie \in [Threads -> [{1, 2} -> 0 .. MaxCookie]]
  /\ firing \in [Chans -> 0 .. MaxCookie]
  /\ lastCookie \in [Chans -> 0 .. MaxCookie] /\ lastDone \in [Chans -> 0 .. MaxCookie]
  /\ completed \in [Chans -> SUBSET Cookies]
  /\ stopped \in SUBSET Chans

CbType == cb \in [Chans -> CbData]
DoneType == done \in [Threads -> BOOLEAN]

\* TypeOK in parts.
LEMMA TypeParts == TypeOK <=> ThreadType /\ QueueType /\ CountType /\ CbType /\ DoneType
  BY DEF TypeOK, ThreadType, QueueType, CountType, CbType, DoneType

\* Terminating a channel keeps the types.
LEMMA TerminateType ==
  ASSUME QueueType, NEW c \in Chans, terminate_all(c)
  PROVE  QueueType'
<1>1. <<>> \in Seq(Cookies)
  OBVIOUS
<1> QED
  BY <1>1 DEF QueueType, terminate_all

\* Every step keeps the types.
LEMMA TypeStep == TypeOK /\ LegsKnown /\ [Next]_vars => TypeOK'
<1> SUFFICES ASSUME TypeOK, LegsKnown, [Next]_vars
             PROVE  QueueType' /\ CountType' /\ CbType' /\ DoneType'
  BY TypeParts, LegsStep DEF TypeOK, ThreadType, QueueType, CountType, CbType, DoneType
<1> DEFINE Goal == QueueType' /\ CountType' /\ CbType' /\ DoneType'
<1>0. QueueType /\ CountType /\ CbType /\ DoneType
  BY TypeParts
<1>1. ASSUME NEW t \in Threads, NEW call \in Calls[t], Call(t, call)
      PROVE  Goal
  <2>1. UNCHANGED <<done, chVars, completed, stopped>>
    BY <1>1 DEF Call
  <2>2. /\ cookie' = [cookie EXCEPT ![t] = [i \in {1, 2} |-> 0]]
        /\ [i \in {1, 2} |-> 0] \in [{1, 2} -> 0 .. MaxCookie]
    BY <1>1, MaxCookieAssumption DEF Call
  <2>3. CountType'
    BY <1>0, <2>1, <2>2 DEF CountType, chVars
  <2> QED
    BY <1>0, <2>1, <2>3 DEF chVars, QueueType, CbType, DoneType
<1>2. ASSUME NEW t \in Threads, StopStep(t)
      PROVE  Goal
  <2>1. /\ terminate_all(Ch(t)) /\ stopped' = stopped \cup {Ch(t)}
        /\ UNCHANGED <<cookie, done, cb, firing, lastCookie, lastDone, completed>>
    BY <1>2 DEF StopStep, stop_dma
  <2>2. Ch(t) \in Chans
    BY <1>2, AtLeg DEF StopStep, Busy
  <2>3. QueueType'
    BY <1>0, <2>1, <2>2, TerminateType
  <2>4. CountType'
    BY <1>0, <2>1, <2>2 DEF CountType
  <2> QED
    BY <1>0, <2>1, <2>3, <2>4 DEF CbType, DoneType
<1>3. ASSUME NEW t \in Threads, SetCallback(t)
      PROVE  Goal
  <2>1. Ch(t) \in Chans
    BY <1>3, AtLeg DEF SetCallback, Busy
  <2>2. CbType'
    BY <1>0, <1>3, <2>1 DEF CbType, CbData, SetCallback
  <2>3. done' = [done EXCEPT ![t] = FALSE] \/ done' = done
    BY <1>3 DEF SetCallback
  <2>4. DoneType'
    BY <1>0, <2>3, Zenon DEF DoneType
  <2>5. UNCHANGED <<cookie, submitted, issued, finished, firing, lastCookie, lastDone,
                    completed, stopped>>
    BY <1>3 DEF SetCallback
  <2> QED
    BY <1>0, <2>2, <2>4, <2>5 DEF QueueType, CountType
<1>4. ASSUME NEW t \in Threads, Submit(t)
      PROVE  Goal
  <2> DEFINE c == Ch(t)
             k == lastCookie[c] + 1
  <2>1. c \in Chans /\ leg[t] \in {1, 2}
    BY <1>4, AtLeg DEF Submit, Busy
  <2>2. k \in Cookies /\ k \in 0 .. MaxCookie
    <3>1. lastCookie[c] \in 0 .. MaxCookie /\ k <= MaxCookie
      BY <1>0, <1>4, <2>1 DEF Submit, CountType
    <3> QED
      BY <3>1, MaxCookieAssumption DEF Cookies
  <2>3. /\ lastCookie' = [lastCookie EXCEPT ![c] = k]
        /\ submitted' = [submitted EXCEPT ![c] = Append(submitted[c], k)]
        /\ cookie' = [cookie EXCEPT ![t] = [cookie[t] EXCEPT ![leg[t]] = k]]
        /\ UNCHANGED <<done, cb, issued, finished, firing, lastDone, completed, stopped>>
    BY <1>4 DEF Submit
  <2> HIDE DEF c, k
  <2>4. Append(submitted[c], k) \in Seq(Cookies)
    BY <1>0, <2>1, <2>2 DEF QueueType
  <2>5. QueueType'
    BY <1>0, <2>1, <2>3, <2>4 DEF QueueType
  <2>6. [cookie[t] EXCEPT ![leg[t]] = k] \in [{1, 2} -> 0 .. MaxCookie]
    BY <1>0, <2>1, <2>2 DEF CountType
  <2>7. CountType'
    BY <1>0, <2>1, <2>2, <2>3, <2>6 DEF CountType
  <2> QED
    BY <1>0, <2>3, <2>5, <2>7 DEF CbType, DoneType
<1>5. ASSUME NEW t \in Threads, Start(t)
      PROVE  Goal
  <2> DEFINE c == Ch(t)
  <2>1. c \in Chans
    BY <1>5, AtLeg DEF Start, Busy
  <2>2. /\ issued' = [issued EXCEPT ![c] = issued[c] \o submitted[c]]
        /\ submitted' = [submitted EXCEPT ![c] = <<>>]
        /\ UNCHANGED <<cookie, done, cb, finished, firing, lastCookie, lastDone,
                       completed, stopped>>
    BY <1>5 DEF Start
  <2> HIDE DEF c
  <2>3. issued[c] \o submitted[c] \in Seq(Cookies) /\ <<>> \in Seq(Cookies)
    BY <1>0, <2>1 DEF QueueType
  <2>4. QueueType'
    BY <1>0, <2>1, <2>2, <2>3 DEF QueueType
  <2> QED
    BY <1>0, <2>2, <2>4 DEF CountType, CbType, DoneType
<1>6. ASSUME NEW t \in Threads, WaitOk(t) \/ axidma_release(t)
      PROVE  Goal
  <2>1. UNCHANGED <<cookie, done, chVars, completed, stopped>>
    BY <1>6 DEF WaitOk, axidma_release
  <2> QED
    BY <1>0, <2>1 DEF chVars, QueueType, CountType, CbType, DoneType
<1>7. ASSUME NEW t \in Threads, NEW c \in Chans, axidma_stop_channel(t, c)
      PROVE  Goal
  <2>1. /\ terminate_all(c)
        /\ UNCHANGED <<cookie, done, cb, firing, lastCookie, lastDone, completed, stopped>>
    BY <1>7 DEF axidma_stop_channel, thrVars
  <2> QED
    BY <1>0, <2>1, TerminateType DEF CountType, CbType, DoneType
<1>8. ASSUME NEW c \in Chans, EngineDone(c)
      PROVE  Goal
  <2> DEFINE k == Head(issued[c])
  <2>1. /\ issued[c] # <<>>
        /\ issued' = [issued EXCEPT ![c] = Tail(issued[c])]
        /\ finished' = [finished EXCEPT ![c] = Append(finished[c], k)]
        /\ lastDone' = [lastDone EXCEPT ![c] = k]
        /\ completed' = [completed EXCEPT ![c] = completed[c] \cup {k}]
        /\ UNCHANGED <<cookie, done, cb, submitted, firing, lastCookie, stopped>>
    BY <1>8 DEF EngineDone, thrVars
  <2>2. k \in Cookies /\ Tail(issued[c]) \in Seq(Cookies)
    BY <1>0, <2>1, HeadTailProperties DEF QueueType
  <2>3. k \in 0 .. MaxCookie
    BY <2>2, MaxCookieAssumption DEF Cookies
  <2> HIDE DEF k
  <2>4. Append(finished[c], k) \in Seq(Cookies)
    BY <1>0, <2>2 DEF QueueType
  <2>5. QueueType'
    BY <1>0, <2>1, <2>2, <2>4 DEF QueueType
  <2>6. CountType'
    BY <1>0, <2>1, <2>2, <2>3 DEF CountType
  <2> QED
    BY <1>0, <2>1, <2>5, <2>6 DEF CbType, DoneType
<1>9. ASSUME NEW c \in Chans, PickCallback(c)
      PROVE  Goal
  <2> DEFINE k == Head(finished[c])
  <2>1. /\ finished[c] # <<>>
        /\ firing' = [firing EXCEPT ![c] = k]
        /\ finished' = [finished EXCEPT ![c] = Tail(finished[c])]
        /\ UNCHANGED <<cookie, done, cb, submitted, issued, lastCookie, lastDone,
                       completed, stopped>>
    BY <1>9 DEF PickCallback, thrVars
  <2>2. k \in Cookies /\ Tail(finished[c]) \in Seq(Cookies)
    BY <1>0, <2>1, HeadTailProperties DEF QueueType
  <2>3. k \in 0 .. MaxCookie
    BY <2>2, MaxCookieAssumption DEF Cookies
  <2> HIDE DEF k
  <2>4. QueueType'
    BY <1>0, <2>1, <2>2 DEF QueueType
  <2>5. CountType'
    BY <1>0, <2>1, <2>3 DEF CountType
  <2> QED
    BY <1>0, <2>1, <2>4, <2>5 DEF CbType, DoneType
<1>10. ASSUME NEW c \in Chans, axidma_dma_callback(c)
       PROVE  Goal
  <2>1. /\ firing' = [firing EXCEPT ![c] = 0]
        /\ UNCHANGED <<cookie, cb, submitted, issued, finished, lastCookie, lastDone,
                       completed, stopped>>
    BY <1>10 DEF axidma_dma_callback
  <2>2. done' = [done EXCEPT ![cb[c].comp] = TRUE] \/ done' = done
    BY <1>10 DEF axidma_dma_callback
  <2>3. DoneType'
    BY <1>0, <2>2, Zenon DEF DoneType
  <2>4. CountType'
    BY <1>0, <2>1, MaxCookieAssumption DEF CountType
  <2> QED
    BY <1>0, <2>1, <2>3, <2>4 DEF QueueType, CbType
<1>11. CASE UNCHANGED vars
  BY <1>0, <1>11 DEF vars, thrVars, chVars, QueueType, CountType, CbType, DoneType
<1> QED
  BY <1>1, <1>2, <1>3, <1>4, <1>5, <1>6, <1>7, <1>8, <1>9, <1>10, <1>11, Steps

\* Initially.
LEMMA InitType == Init => TypeOK /\ LegsKnown
<1> SUFFICES ASSUME Init PROVE TypeOK /\ LegsKnown
  OBVIOUS
<1>1. ThreadType /\ LegsKnown
  BY DEF Init, ThreadType, LegsKnown
<1>2. QueueType
  BY DEF Init, QueueType
<1>3. CountType
  BY MaxCookieAssumption DEF Init, CountType
<1>4. CbType
  BY DEF Init, CbType, CbData
<1>5. DoneType
  BY Zenon DEF Init, DoneType
<1> QED
  BY <1>1, <1>2, <1>3, <1>4, <1>5, TypeParts

\* THE TYPES: the variables of the transfers keep their types, whatever the threads,
\* channels and transfers are, in every interleaving of ioctls, engine and tasklet.
THEOREM TypeCorrect == Spec => []TypeOK
<1> DEFINE Inv == TypeOK /\ LegsKnown
<1>1. Init => Inv
  BY InitType
<1>2. Inv /\ [Next]_vars => Inv'
  BY TypeStep, LegsStep
<1>3. Inv => TypeOK
  OBVIOUS
<1> QED
  BY <1>1, <1>2, <1>3, PTL DEF Spec
-----------------------------------------------------------------------------
(* Descriptors and cookies.                                                *)

Elems(s) == {s[i] : i \in DOMAIN s}

\* Submitting: a list gets one more element.
LEMMA ElemsAppend ==
  ASSUME NEW S, NEW s \in Seq(S), NEW x \in S
  PROVE  Elems(Append(s, x)) = Elems(s) \cup {x}
<1>1. /\ DOMAIN s = 1 .. Len(s) /\ Len(s) \in Nat
      /\ DOMAIN Append(s, x) = 1 .. Len(s) + 1
      /\ \A i \in 1 .. Len(s) : Append(s, x)[i] = s[i]
      /\ Append(s, x)[Len(s) + 1] = x
  OBVIOUS
<1>2. \A i \in 1 .. Len(s) + 1 : i \in 1 .. Len(s) \/ i = Len(s) + 1
  BY <1>1
<1>3. \A i \in 1 .. Len(s) : i \in 1 .. Len(s) + 1
  BY <1>1
<1>4. Len(s) + 1 \in 1 .. Len(s) + 1
  BY <1>1
<1> QED
  BY <1>1, <1>2, <1>3, <1>4, Zenon DEF Elems

\* Starting: one list goes behind another.
LEMMA ElemsConcat ==
  ASSUME NEW S, NEW s \in Seq(S), NEW r \in Seq(S)
  PROVE  Elems(s \o r) = Elems(s) \cup Elems(r)
<1>1. /\ DOMAIN s = 1 .. Len(s) /\ DOMAIN r = 1 .. Len(r)
      /\ Len(s) \in Nat /\ Len(r) \in Nat
      /\ DOMAIN (s \o r) = 1 .. Len(s) + Len(r)
      /\ \A i \in 1 .. Len(s) : (s \o r)[i] = s[i]
      /\ \A i \in 1 .. Len(r) : (s \o r)[Len(s) + i] = r[i]
  OBVIOUS
<1>2. ASSUME NEW k \in Elems(s \o r)
      PROVE  k \in Elems(s) \cup Elems(r)
  <2>1. PICK i \in 1 .. Len(s) + Len(r) : k = (s \o r)[i]
    BY <1>1, <1>2 DEF Elems
  <2>2. CASE i \in 1 .. Len(s)
    BY <1>1, <2>1, <2>2 DEF Elems
  <2>3. CASE i \notin 1 .. Len(s)
    <3>1. i - Len(s) \in 1 .. Len(r) /\ i = Len(s) + (i - Len(s))
      BY <1>1, <2>3
    <3>2. (s \o r)[Len(s) + (i - Len(s))] = r[i - Len(s)]
      BY <1>1, <3>1
    <3> QED
      BY <1>1, <2>1, <3>1, <3>2 DEF Elems
  <2> QED
    BY <2>2, <2>3
<1>3. ASSUME NEW k \in Elems(s)
      PROVE  k \in Elems(s \o r)
  <2>1. PICK i \in 1 .. Len(s) : k = s[i]
    BY <1>1, <1>3 DEF Elems
  <2>2. i \in 1 .. Len(s) + Len(r) /\ k = (s \o r)[i]
    BY <1>1, <2>1
  <2> QED
    BY <1>1, <2>2 DEF Elems
<1>4. ASSUME NEW k \in Elems(r)
      PROVE  k \in Elems(s \o r)
  <2>1. PICK i \in 1 .. Len(r) : k = r[i]
    BY <1>1, <1>4 DEF Elems
  <2>2. Len(s) + i \in 1 .. Len(s) + Len(r) /\ k = (s \o r)[Len(s) + i]
    BY <1>1, <2>1
  <2> QED
    BY <1>1, <2>2 DEF Elems
<1> QED
  BY <1>2, <1>3, <1>4

\* Completing: the first element leaves.
LEMMA ElemsTail ==
  ASSUME NEW S, NEW s \in Seq(S), s # <<>>
  PROVE  Elems(Tail(s)) \subseteq Elems(s) /\ Head(s) \in Elems(s)
<1>1. /\ DOMAIN s = 1 .. Len(s) /\ Len(s) \in Nat /\ Len(s) # 0 /\ Head(s) = s[1]
      /\ DOMAIN Tail(s) = 1 .. Len(s) - 1
      /\ \A i \in 1 .. Len(s) - 1 : Tail(s)[i] = s[i + 1]
  BY HeadTailProperties, EmptySeq
<1>2. \A i \in 1 .. Len(s) - 1 : i + 1 \in 1 .. Len(s)
  BY <1>1
<1>3. 1 \in 1 .. Len(s)
  BY <1>1
<1>4. ASSUME NEW k \in Elems(Tail(s))
      PROVE  k \in Elems(s)
  <2>1. PICK i \in 1 .. Len(s) - 1 : k = Tail(s)[i]
    BY <1>1, <1>4 DEF Elems
  <2>2. i + 1 \in DOMAIN s /\ k = s[i + 1]
    BY <1>1, <1>2, <2>1
  <2> QED
    BY <2>2 DEF Elems
<1>5. Head(s) \in Elems(s)
  BY <1>1, <1>3 DEF Elems
<1> QED
  BY <1>4, <1>5

\* A step gives a channel at most the descriptor with the next cookie.
LEMMA PendingStep ==
  ASSUME TypeOK, LegsKnown, [Next]_vars, NEW d \in Chans
  PROVE  /\ lastCookie[d] \in Nat /\ lastCookie'[d] \in Nat
         /\ \/ lastCookie'[d] = lastCookie[d] /\ Pending(d)' \subseteq Pending(d)
            \/ /\ lastCookie'[d] = lastCookie[d] + 1
               /\ Pending(d)' \subseteq Pending(d) \cup {lastCookie[d] + 1}
<1> DEFINE Less == lastCookie'[d] = lastCookie[d] /\ Pending(d)' \subseteq Pending(d)
           More == /\ lastCookie'[d] = lastCookie[d] + 1
                   /\ Pending(d)' \subseteq Pending(d) \cup {lastCookie[d] + 1}
<1>0. /\ QueueType /\ CountType /\ TypeOK'
      /\ submitted[d] \in Seq(Cookies) /\ issued[d] \in Seq(Cookies)
  BY TypeParts, TypeStep DEF QueueType
<1>1. lastCookie[d] \in Nat /\ lastCookie'[d] \in Nat
  BY <1>0, MaxCookieAssumption DEF TypeOK
<1>2. /\ Pending(d) = Elems(submitted[d]) \cup Elems(issued[d])
      /\ Pending(d)' = Elems(submitted'[d]) \cup Elems(issued'[d])
  BY DEF Pending, Elems
<1>3. ASSUME UNCHANGED <<submitted, issued, lastCookie>>
      PROVE  Less
  BY <1>2, <1>3
<1>4. ASSUME NEW c \in Chans, terminate_all(c), UNCHANGED lastCookie
      PROVE  Less
  <2>1. /\ submitted'[d] = IF c = d THEN <<>> ELSE submitted[d]
        /\ issued'[d] = IF c = d THEN <<>> ELSE issued[d]
    BY <1>0, <1>4 DEF terminate_all, QueueType
  <2>2. Elems(<<>>) = {}
    BY DEF Elems
  <2> QED
    BY <1>2, <1>4, <2>1, <2>2
<1>5. ASSUME NEW t \in Threads, Submit(t)
      PROVE  Less \/ More
  <2> DEFINE c == Ch(t)
  <2>1. /\ lastCookie' = [lastCookie EXCEPT ![c] = lastCookie[c] + 1]
        /\ submitted' = [submitted EXCEPT ![c] = Append(submitted[c], lastCookie[c] + 1)]
        /\ issued' = issued /\ lastCookie[c] + 1 <= MaxCookie
    BY <1>5 DEF Submit
  <2>2. c \in Chans
    BY <1>5, AtLeg DEF Submit, Busy
  <2> HIDE DEF c
  <2>3. CASE c = d
    <3>1. lastCookie[d] + 1 \in Cookies
      BY <1>1, <2>1, <2>3, MaxCookieAssumption DEF Cookies
    <3>2. /\ lastCookie'[d] = lastCookie[d] + 1
          /\ submitted'[d] = Append(submitted[d], lastCookie[d] + 1)
      BY <1>0, <2>1, <2>3 DEF QueueType, CountType
    <3>3. Elems(submitted'[d]) = Elems(submitted[d]) \cup {lastCookie[d] + 1}
      BY <1>0, <3>1, <3>2, ElemsAppend
    <3> QED
      BY <1>2, <2>1, <3>2, <3>3
  <2>4. CASE c # d
    <3>1. lastCookie'[d] = lastCookie[d] /\ submitted'[d] = submitted[d]
      BY <1>0, <2>1, <2>4 DEF QueueType, CountType
    <3> QED
      BY <1>2, <2>1, <3>1
  <2> QED
    BY <2>3, <2>4
<1>6. ASSUME NEW t \in Threads, Start(t)
      PROVE  Less
  <2> DEFINE c == Ch(t)
  <2>1. /\ issued' = [issued EXCEPT ![c] = issued[c] \o submitted[c]]
        /\ submitted' = [submitted EXCEPT ![c] = <<>>]
        /\ lastCookie' = lastCookie
    BY <1>6 DEF Start
  <2> HIDE DEF c
  <2>2. CASE c = d
    <3>1. issued'[d] = issued[d] \o submitted[d] /\ submitted'[d] = <<>>
      BY <1>0, <2>1, <2>2 DEF QueueType
    <3>2. Elems(issued'[d]) = Elems(issued[d]) \cup Elems(submitted[d])
      BY <1>0, <3>1, ElemsConcat
    <3>3. Elems(<<>>) = {}
      BY DEF Elems
    <3> QED
      BY <1>2, <2>1, <3>1, <3>2, <3>3
  <2>3. CASE c # d
    <3>1. issued'[d] = issued[d] /\ submitted'[d] = submitted[d]
      BY <1>0, <2>1, <2>3 DEF QueueType
    <3> QED
      BY <1>2, <2>1, <3>1
  <2> QED
    BY <2>2, <2>3
<1>7. ASSUME NEW c \in Chans, EngineDone(c)
      PROVE  Less
  <2>1. /\ issued[c] # <<>> /\ issued' = [issued EXCEPT ![c] = Tail(issued[c])]
        /\ submitted' = submitted /\ lastCookie' = lastCookie
    BY <1>7 DEF EngineDone
  <2>2. CASE c = d
    <3>1. issued'[d] = Tail(issued[d])
      BY <1>0, <2>1, <2>2 DEF QueueType
    <3>2. Elems(issued'[d]) \subseteq Elems(issued[d])
      BY <1>0, <2>1, <2>2, <3>1, ElemsTail
    <3> QED
      BY <1>2, <2>1, <3>2
  <2>3. CASE c # d
    <3>1. issued'[d] = issued[d]
      BY <1>0, <2>1, <2>3 DEF QueueType
    <3> QED
      BY <1>2, <2>1, <3>1
  <2> QED
    BY <2>2, <2>3
<1>8. Less \/ More
  <2> HIDE DEF Less, More
  <2>1. ASSUME NEW t \in Threads, NEW call \in Calls[t], Call(t, call)
        PROVE  Less
    BY <1>3, <2>1 DEF Call, chVars
  <2>2. ASSUME NEW t \in Threads, StopStep(t)
        PROVE  Less
    <3>1. Ch(t) \in Chans
      BY <2>2, AtLeg DEF StopStep, Busy
    <3> QED
      BY <1>4, <2>2, <3>1 DEF StopStep, stop_dma
  <2>3. ASSUME NEW t \in Threads, SetCallback(t) \/ WaitOk(t) \/ axidma_release(t)
        PROVE  Less
    BY <1>3, <2>3 DEF SetCallback, WaitOk, axidma_release, chVars
  <2>4. ASSUME NEW t \in Threads, NEW c \in Chans, axidma_stop_channel(t, c)
        PROVE  Less
    BY <1>4, <2>4 DEF axidma_stop_channel
  <2>5. ASSUME NEW c \in Chans, PickCallback(c) \/ axidma_dma_callback(c)
        PROVE  Less
    BY <1>3, <2>5 DEF PickCallback, axidma_dma_callback
  <2>6. CASE UNCHANGED vars
    BY <1>3, <2>6 DEF vars, chVars
  <2> QED
    BY <1>5, <1>6, <1>7, <2>1, <2>2, <2>3, <2>4, <2>5, <2>6, Steps
<1> QED
  BY <1>1, <1>8

\* A step of the program is a step of at most one thread.
SameThread(u) ==
  /\ pc'[u] = pc[u] /\ legs'[u] = legs[u] /\ leg'[u] = leg[u]
  /\ cookie'[u] = cookie[u] /\ result'[u] = result[u]

OwnStep(u) ==
  \/ \E call \in Calls[u] : Call(u, call)
  \/ StopStep(u) \/ SetCallback(u) \/ Submit(u) \/ Start(u) \/ WaitOk(u) \/ axidma_release(u)

\* A thread moves by its own step, or stays where it is.
LEMMA OneMoves ==
  ASSUME TypeOK, [Next]_vars, NEW u \in Threads
  PROVE  SameThread(u) \/ OwnStep(u)
<1>0. ThreadType /\ CountType
  BY TypeParts
<1>1. ASSUME NEW t \in Threads, t # u, NEW call \in Calls[t], Call(t, call)
      PROVE  SameThread(u)
  BY <1>0, <1>1 DEF Call, SameThread, ThreadType, CountType
<1>2. ASSUME NEW t \in Threads, t # u, StopStep(t)
      PROVE  SameThread(u)
  BY <1>0, <1>2 DEF StopStep, stop_dma, Return, SameThread, ThreadType
<1>3. ASSUME NEW t \in Threads, t # u, SetCallback(t)
      PROVE  SameThread(u)
  BY <1>0, <1>3 DEF SetCallback, SameThread, ThreadType
<1>4. ASSUME NEW t \in Threads, t # u, Submit(t)
      PROVE  SameThread(u)
  <2>1. /\ legs' = legs /\ result' = result
        /\ \E x : cookie' = [cookie EXCEPT ![t] = x]
        /\ \E x : pc' = [pc EXCEPT ![t] = x]
        /\ \E x : leg' = [leg EXCEPT ![t] = x]
    BY <1>4 DEF Submit
  <2> QED
    BY <1>0, <1>4, <2>1 DEF SameThread, ThreadType, CountType
<1>5. ASSUME NEW t \in Threads, t # u, NextLeg(t), UNCHANGED <<legs, cookie>>
      PROVE  SameThread(u)
  <2>1. CASE Last(t)
    BY <1>0, <1>5, <2>1 DEF NextLeg, Return, SameThread, ThreadType
  <2>2. CASE ~Last(t)
    BY <1>0, <1>5, <2>2 DEF NextLeg, SameThread, ThreadType
  <2> QED
    BY <2>1, <2>2
<1>6. ASSUME NEW t \in Threads, t # u, Start(t)
      PROVE  SameThread(u)
  <2>1. CASE Wait(t)
    BY <1>0, <1>6, <2>1 DEF Start, SameThread, ThreadType
  <2>2. CASE ~Wait(t)
    BY <1>5, <1>6, <2>2 DEF Start
  <2> QED
    BY <2>1, <2>2
<1>7. ASSUME NEW t \in Threads, t # u, WaitOk(t)
      PROVE  SameThread(u)
  BY <1>5, <1>7 DEF WaitOk
<1>8. ASSUME NEW t \in Threads, t # u, axidma_release(t)
      PROVE  SameThread(u)
  BY <1>0, <1>8 DEF axidma_release, SameThread, ThreadType
<1>9. ASSUME NEW t \in Threads, NEW c \in Chans, axidma_stop_channel(t, c)
      PROVE  SameThread(u)
  BY <1>9 DEF axidma_stop_channel, thrVars, SameThread
<1>10. ASSUME NEW c \in Chans, EngineDone(c) \/ PickCallback(c) \/ axidma_dma_callback(c)
       PROVE  SameThread(u)
  BY <1>10 DEF EngineDone, PickCallback, axidma_dma_callback, thrVars, SameThread
<1>11. CASE UNCHANGED vars
  BY <1>11 DEF vars, thrVars, SameThread
<1>12. ASSUME NEW t \in Threads,
              \/ \E call \in Calls[t] : Call(t, call)
              \/ StopStep(t) \/ SetCallback(t) \/ Submit(t) \/ Start(t) \/ WaitOk(t)
              \/ axidma_release(t)
       PROVE  SameThread(u) \/ OwnStep(u)
  <2>1. CASE t = u
    BY <1>12, <2>1 DEF OwnStep
  <2>2. CASE t # u
    BY <1>1, <1>2, <1>3, <1>4, <1>6, <1>7, <1>8, <1>12, <2>2
  <2> QED
    BY <2>1, <2>2
<1> QED
  BY <1>9, <1>10, <1>11, <1>12, Steps
-----------------------------------------------------------------------------
(* A leg that failed leaves nothing behind.                                *)

\* Cookies that have been given out, and those a call has not got yet.
PendingKnown == \A c \in Chans : \A k \in Pending(c) : k <= lastCookie[c]

LegCookies ==
  \A t \in Threads : \A i \in 1 .. Len(legs[t]) :
    /\ cookie[t][i] <= lastCookie[legs[t][i].ch]
    /\ pc[t] \in {"prep", "submit"} /\ i >= leg[t] => cookie[t][i] = 0

Known == TypeOK /\ LegsKnown /\ PendingKnown /\ LegCookies

\* A known call has at most two legs.
LEMMA LegIndex ==
  ASSUME NEW t \in Threads, NEW call \in Calls[t], NEW i \in 1 .. Len(call)
  PROVE  i \in {1, 2} /\ i \in Nat /\ call[i].ch \in Chans
<1>1. Shape(call)
  BY CallShape
<1>2. Len(call) \in {1, 2}
  BY <1>1 DEF Shape
<1>3. i \in {1, 2} /\ i \in Nat
  <2>1. CASE Len(call) = 1
    BY <2>1
  <2>2. CASE Len(call) = 2
    BY <2>2
  <2> QED
    BY <1>2, <2>1, <2>2
<1> QED
  BY <1>1, <1>3 DEF Shape

\* A cookie is a number.
LEMMA CookieNat ==
  ASSUME NEW ck \in [Threads -> [{1, 2} -> 0 .. MaxCookie]],
         NEW t \in Threads, NEW i \in {1, 2}
  PROVE  ck[t][i] \in Nat
<1>1. ck[t] \in [{1, 2} -> 0 .. MaxCookie]
  OBVIOUS
<1>2. ck[t][i] \in 0 .. MaxCookie
  BY <1>1
<1> QED
  BY <1>2, MaxCookieAssumption

\* Each part is kept by every step.
LEMMA PendingKnownStep == Known /\ [Next]_vars => PendingKnown'
<1> SUFFICES ASSUME Known, [Next]_vars, NEW c \in Chans, NEW k \in Pending(c)'
             PROVE  k <= lastCookie'[c]
  BY DEF PendingKnown
<1>1. TypeOK /\ LegsKnown /\ TypeOK'
  BY TypeStep DEF Known
<1>2. k \in Cookies
  BY <1>1 DEF TypeOK, Pending
<1>3. k \in Nat
  BY <1>2, MaxCookieAssumption DEF Cookies
<1>4. /\ lastCookie[c] \in Nat /\ lastCookie'[c] \in Nat
      /\ \/ lastCookie'[c] = lastCookie[c] /\ k \in Pending(c)
         \/ lastCookie'[c] = lastCookie[c] + 1 /\ k \in Pending(c) \cup {lastCookie[c] + 1}
  BY <1>1, PendingStep
<1>5. k \in Pending(c) => k <= lastCookie[c]
  BY DEF Known, PendingKnown
<1> QED
  BY <1>3, <1>4, <1>5

\* Every step keeps that a submitted leg has a cookie its channel has given out.
LEMMA LegCookiesStep == Known /\ [Next]_vars => LegCookies'
<1> SUFFICES ASSUME Known, [Next]_vars, NEW t \in Threads, NEW i \in 1 .. Len(legs'[t])
             PROVE  /\ cookie'[t][i] <= lastCookie'[legs'[t][i].ch]
                    /\ pc'[t] \in {"prep", "submit"} /\ i >= leg'[t] => cookie'[t][i] = 0
  BY DEF LegCookies
<1> DEFINE Goal == /\ cookie'[t][i] <= lastCookie'[legs'[t][i].ch]
                   /\ pc'[t] \in {"prep", "submit"} /\ i >= leg'[t] => cookie'[t][i] = 0
<1>1. TypeOK /\ LegsKnown /\ TypeOK' /\ LegsKnown' /\ ThreadType /\ CountType
  BY TypeStep, LegsStep, TypeParts DEF Known
<1>2. legs'[t] \in Calls[t]
  <2>1. legs'[t] # <<>>
    OBVIOUS
  <2> QED
    BY <1>1, <2>1 DEF LegsKnown
<1>3. i \in {1, 2} /\ i \in Nat /\ legs'[t][i].ch \in Chans
  BY <1>2, LegIndex
<1> DEFINE d == legs'[t][i].ch
<1>4. /\ lastCookie[d] \in Nat /\ lastCookie'[d] \in Nat
      /\ lastCookie'[d] = lastCookie[d] \/ lastCookie'[d] = lastCookie[d] + 1
  BY <1>1, <1>3, PendingStep
<1>5. cookie[t][i] \in Nat /\ cookie'[t][i] \in Nat
  BY <1>1, <1>3, CookieNat, Zenon DEF TypeOK
<1>6. legs'[t] = legs[t] =>
        /\ cookie[t][i] <= lastCookie[d]
        /\ pc[t] \in {"prep", "submit"} /\ i >= leg[t] => cookie[t][i] = 0
  BY DEF Known, LegCookies
<1>7. ASSUME legs'[t] = legs[t], cookie'[t] = cookie[t],
             pc'[t] \in {"prep", "submit"} /\ i >= leg'[t]
               => pc[t] \in {"prep", "submit"} /\ i >= leg[t]
      PROVE  Goal
  <2>1. cookie'[t][i] <= lastCookie'[d]
    BY <1>4, <1>5, <1>6, <1>7
  <2> QED
    BY <1>6, <1>7, <2>1
<1> HIDE DEF d
<1>8. CASE SameThread(t)
  BY <1>7, <1>8 DEF SameThread
<1>9. ASSUME NEW call \in Calls[t], Call(t, call)
      PROVE  Goal
  <2>1. cookie'[t] = [j \in {1, 2} |-> 0]
    BY <1>1, <1>9 DEF Call, CountType
  <2>2. cookie'[t][i] = 0
    BY <1>3, <2>1
  <2> QED
    BY <1>4, <2>2 DEF d
<1>10. CASE StopStep(t) \/ axidma_release(t)
  <2>1. legs' = legs /\ cookie' = cookie
    BY <1>10 DEF StopStep, stop_dma, axidma_release
  <2>2. pc'[t] \in {"idle", "gone"}
    BY <1>1, <1>10 DEF StopStep, stop_dma, axidma_release, Return, ThreadType
  <2> QED
    BY <1>7, <2>1, <2>2
<1>11. CASE SetCallback(t)
  <2>1. legs' = legs /\ cookie' = cookie /\ leg' = leg /\ pc[t] = "prep"
    BY <1>11 DEF SetCallback
  <2> QED
    BY <1>7, <2>1
<1>12. CASE Start(t) \/ WaitOk(t)
  <2>1. legs' = legs /\ cookie' = cookie
    BY <1>12 DEF Start, WaitOk
  <2>2. NextLeg(t) => pc'[t] \in {"start", "idle"}
    BY <1>1 DEF NextLeg, Return, ThreadType
  <2>3. pc'[t] \notin {"prep", "submit"}
    BY <1>1, <1>12, <2>2 DEF Start, WaitOk, ThreadType
  <2> QED
    BY <1>7, <2>1, <2>3
<1>13. CASE Submit(t)
  <2> DEFINE k == lastCookie[Ch(t)] + 1
  <2>1. /\ pc[t] = "submit" /\ legs' = legs
        /\ lastCookie' = [lastCookie EXCEPT ![Ch(t)] = k]
        /\ cookie' = [cookie EXCEPT ![t] = [cookie[t] EXCEPT ![leg[t]] = k]]
        /\ pc' = [pc EXCEPT ![t] = IF Last(t) THEN "start" ELSE "prep"]
        /\ leg' = [leg EXCEPT ![t] = IF Last(t) THEN 1 ELSE leg[t] + 1]
    BY <1>13 DEF Submit
  <2>2. leg[t] \in {1, 2} /\ Ch(t) \in Chans
    BY <1>1, <2>1, AtLeg DEF Busy
  <2>3. /\ cookie'[t] = [cookie[t] EXCEPT ![leg[t]] = k]
        /\ lastCookie'[Ch(t)] = k
        /\ pc'[t] \in {"prep", "submit"} => leg'[t] = leg[t] + 1
    BY <1>1, <2>1, <2>2 DEF CountType, ThreadType
  <2>4. CASE i = leg[t]
    <3>1. d = Ch(t)
      BY <2>1, <2>4 DEF d, Ch
    <3>2. cookie'[t][i] = k
      BY <1>1, <1>3, <2>2, <2>3, <2>4 DEF CountType
    <3>3. cookie'[t][i] = lastCookie'[d]
      BY <2>3, <3>1, <3>2
    <3>4. ~(pc'[t] \in {"prep", "submit"} /\ i >= leg'[t])
      BY <2>2, <2>3, <2>4
    <3> QED
      BY <1>4, <3>3, <3>4 DEF d
  <2>5. CASE i # leg[t]
    <3>1. cookie'[t][i] = cookie[t][i]
      BY <1>1, <1>3, <2>2, <2>3, <2>5 DEF CountType
    <3>2. cookie'[t][i] <= lastCookie'[d]
      BY <1>4, <1>5, <1>6, <2>1, <3>1
    <3>3. ASSUME pc'[t] \in {"prep", "submit"}, i >= leg'[t]
          PROVE  cookie'[t][i] = 0
      <4>1. i >= leg[t]
        BY <1>3, <2>2, <2>3, <3>3
      <4> QED
        BY <1>6, <2>1, <3>1, <4>1
    <3> QED
      BY <3>2, <3>3 DEF d
  <2> QED
    BY <2>4, <2>5
<1> QED
  BY <1>1, <1>8, <1>9, <1>10, <1>11, <1>12, <1>13, OneMoves DEF OwnStep

\* FAILEDLEGLEAVESNOTHING is kept: a failed leg's channel was just terminated, and
\* no later descriptor has its cookie.
LEMMA FailedLegStep == Known /\ FailedLegLeavesNothing /\ [Next]_vars => FailedLegLeavesNothing'
<1> SUFFICES ASSUME Known, FailedLegLeavesNothing, [Next]_vars, NEW t \in Threads,
                    pc'[t] = "idle", result'[t] \in {"EBUSY", "ETIME"}
             PROVE  cookie'[t][leg'[t]] \notin Pending(Ch(t))'
  BY DEF FailedLegLeavesNothing, Ch
<1>1. TypeOK /\ LegsKnown /\ TypeOK' /\ LegsKnown' /\ ThreadType
  BY TypeStep, LegsStep, TypeParts DEF Known
<1>2. CASE SameThread(t)
  <2>1. /\ pc[t] = "idle" /\ result[t] \in {"EBUSY", "ETIME"} /\ legs'[t] = legs[t]
        /\ leg'[t] = leg[t] /\ cookie'[t][leg'[t]] = cookie[t][leg[t]]
    BY <1>2 DEF SameThread
  <2>2. legs[t] \in Calls[t] /\ leg[t] \in 1 .. Len(legs[t])
    BY <1>1, <2>1 DEF LegsKnown
  <2>3. leg[t] \in {1, 2} /\ legs[t][leg[t]].ch \in Chans
    BY <2>2, LegIndex
  <2>4. PICK d \in Chans : d = legs[t][leg[t]].ch
    BY <2>3
  <2>5. PICK k : k = cookie[t][leg[t]]
    OBVIOUS
  <2>6. k \in Nat /\ k <= lastCookie[d]
    <3>1. cookie \in [Threads -> [{1, 2} -> 0 .. MaxCookie]]
      BY <1>1 DEF TypeOK
    <3>2. k \in Nat
      BY <2>3, <2>5, <3>1, CookieNat, Zenon
    <3> QED
      BY <2>2, <2>4, <2>5, <3>2, Zenon DEF Known, LegCookies
  <2>7. k \notin Pending(d)
    BY <2>1, <2>4, <2>5 DEF FailedLegLeavesNothing, Ch
  <2>8. Ch(t)' = d
    BY <2>1, <2>4 DEF Ch
  <2>9. /\ lastCookie[d] \in Nat
        /\ Pending(d)' \subseteq Pending(d) \cup {lastCookie[d] + 1}
    BY <1>1, PendingStep
  <2>10. k # lastCookie[d] + 1
    BY <2>6, <2>9
  <2>11. k \notin Pending(d)'
    BY <2>7, <2>9, <2>10
  <2> QED
    BY <2>1, <2>5, <2>8, <2>11 DEF Pending
<1>3. CASE StopStep(t)
  <2>1. terminate_all(Ch(t)) /\ legs' = legs /\ leg' = leg
    BY <1>3 DEF StopStep, stop_dma
  <2>2. Ch(t) \in Chans
    BY <1>1, <1>3, AtLeg DEF StopStep, Busy
  <2>3. submitted'[Ch(t)] = <<>> /\ issued'[Ch(t)] = <<>>
    BY <1>1, <2>1, <2>2 DEF terminate_all, TypeOK
  <2>4. Ch(t)' = Ch(t)
    BY <2>1 DEF Ch
  <2> QED
    BY <2>3, <2>4 DEF Pending
<1>4. ASSUME NextLeg(t)
      PROVE  pc'[t] = "start" \/ result'[t] = "ok"
  BY <1>1, <1>4 DEF NextLeg, Return, ThreadType
<1>5. ~SetCallback(t) /\ ~Submit(t) /\ ~axidma_release(t)
  BY <1>1 DEF SetCallback, Submit, axidma_release, ThreadType
<1>6. ~Start(t) /\ ~WaitOk(t)
  BY <1>1, <1>4 DEF Start, WaitOk, ThreadType
<1>7. ~\E call \in Calls[t] : Call(t, call)
  BY <1>1 DEF Call, ThreadType
<1> QED
  BY <1>1, <1>2, <1>3, <1>5, <1>6, <1>7, OneMoves DEF OwnStep

\* Initially.
LEMMA InitKnown == Init => Known /\ FailedLegLeavesNothing
<1> SUFFICES ASSUME Init PROVE Known /\ FailedLegLeavesNothing
  OBVIOUS
<1>1. TypeOK /\ LegsKnown
  BY InitType
<1>2. PendingKnown
  BY DEF Init, PendingKnown, Pending
<1>3. LegCookies
  BY DEF Init, LegCookies
<1>4. FailedLegLeavesNothing
  BY DEF Init, FailedLegLeavesNothing
<1> QED
  BY <1>1, <1>2, <1>3, <1>4 DEF Known

\* NOTHING IS LEFT BEHIND: after a read, write, read-write or video call has returned an
\* error, the engine never again holds the descriptor of the leg that failed, whatever the
\* other threads submit on that channel (goto stop_dma of axidma_prep_transfer and
\* axidma_start_transfer).
THEOREM FailedLegSafe == Spec => []FailedLegLeavesNothing
<1> DEFINE Inv == Known /\ FailedLegLeavesNothing
<1>1. Init => Inv
  BY InitKnown
<1>2. Inv /\ [Next]_vars => Inv'
  BY TypeStep, LegsStep, PendingKnownStep, LegCookiesStep, FailedLegStep DEF Known
<1>3. Inv => FailedLegLeavesNothing
  OBVIOUS
<1> QED
  BY <1>1, <1>2, <1>3, PTL DEF Spec
-----------------------------------------------------------------------------
(* Waiting calls.                                                          *)

\* The leg of a call that waits is its last one.
LEMMA WaitsLast ==
  ASSUME NEW t \in Threads, NEW call \in Calls[t], NEW i \in 1 .. Len(call), call[i].wait
  PROVE  i = Len(call) /\ call[i].ch \in Waited(t) /\ ~call[1].video
<1>1. Shape(call)
  BY CallShape
<1>2. i = Len(call)
  <2>1. CASE Len(call) = 1
    BY <2>1
  <2>2. CASE Len(call) = 2
    BY <1>1, <2>2 DEF Shape
  <2> QED
    BY <1>1, <2>1, <2>2 DEF Shape
<1>3. call[i].ch \in Waited(t)
  BY <1>1 DEF Shape, Waited
<1>4. ~call[1].video
  BY <1>1, <1>2 DEF Shape
<1> QED
  BY <1>2, <1>3, <1>4

\* A channel waited on has one user.
LEMMA Owner ==
  ASSUME OneUser, NEW t \in Threads, NEW c \in Waited(t), NEW u \in Threads,
         NEW call \in Calls[u], NEW i \in 1 .. Len(call), call[i].ch = c
  PROVE  u = t /\ call[i].wait
<1>1. i \in DOMAIN call
  BY CallShape DEF Shape
<1> QED
  BY <1>1 DEF OneUser

\* The completion flag of a thread is touched by itself and by callbacks.
LEMMA DoneMoves ==
  ASSUME TypeOK, [Next]_vars, NEW t \in Threads
  PROVE  \/ done'[t] = done[t]
         \/ SetCallback(t)
         \/ \E d \in Chans : axidma_dma_callback(d) /\ cb[d].comp = t
<1>0. DoneType
  BY TypeParts
<1>1. ASSUME NEW u \in Threads, u # t, SetCallback(u)
      PROVE  done'[t] = done[t]
  <2>1. done' = [done EXCEPT ![u] = FALSE] \/ done' = done
    BY <1>1 DEF SetCallback
  <2> QED
    BY <1>0, <1>1, <2>1, Zenon DEF DoneType
<1>2. ASSUME NEW d \in Chans, axidma_dma_callback(d), cb[d].comp # t
      PROVE  done'[t] = done[t]
  <2>1. done' = [done EXCEPT ![cb[d].comp] = TRUE] \/ done' = done
    BY <1>2 DEF axidma_dma_callback
  <2> QED
    BY <1>0, <1>2, <2>1, Zenon DEF DoneType
<1>3. ASSUME NEW u \in Threads,
             \/ \E call \in Calls[u] : Call(u, call)
             \/ StopStep(u) \/ Submit(u) \/ Start(u) \/ WaitOk(u) \/ axidma_release(u)
             \/ \E c \in Chans : axidma_stop_channel(u, c)
      PROVE  done'[t] = done[t]
  BY <1>3 DEF Call, StopStep, stop_dma, Submit, Start, WaitOk, axidma_release,
              axidma_stop_channel, thrVars
<1>4. ASSUME NEW c \in Chans, EngineDone(c) \/ PickCallback(c)
      PROVE  done'[t] = done[t]
  BY <1>4 DEF EngineDone, PickCallback, thrVars
<1>5. CASE UNCHANGED vars
  BY <1>5 DEF vars, thrVars
<1> QED
  BY <1>1, <1>2, <1>3, <1>4, <1>5, Steps

\* Where a channel's cookies have been.
DoneMoved ==
  \A c \in Chans : /\ lastDone[c] # 0 => lastDone[c] \in completed[c]
                   /\ lastDone[c] <= lastCookie[c]

\* A thread that is about to wait, or waits, has the channel's last cookie.
WaitsForLast ==
  \A t \in Threads :
    /\ pc[t] = "wait" => Wait(t)
    /\ pc[t] \in {"start", "wait"} =>
         \A i \in 1 .. Len(legs[t]) : legs[t][i].wait =>
           cookie[t][i] = lastCookie[legs[t][i].ch] /\ cookie[t][i] # 0

\* A completion in the callback data belongs to a thread that waits on the channel.
CallbackOwned == \A c \in Chans : \A t \in Threads : cb[c].comp = t => c \in Waited(t)

\* DoneMoved is kept: the engine completes what it was given.
LEMMA DoneMovedStep == Known /\ DoneMoved /\ [Next]_vars => DoneMoved'
<1> SUFFICES ASSUME Known, DoneMoved, [Next]_vars, NEW c \in Chans
             PROVE  /\ lastDone'[c] # 0 => lastDone'[c] \in completed'[c]
                    /\ lastDone'[c] <= lastCookie'[c]
  BY DEF DoneMoved
<1> DEFINE Goal == /\ lastDone'[c] # 0 => lastDone'[c] \in completed'[c]
                   /\ lastDone'[c] <= lastCookie'[c]
<1>1. TypeOK /\ LegsKnown /\ QueueType /\ CountType /\ PendingKnown
  BY TypeParts DEF Known
<1>2. /\ lastCookie[c] \in Nat /\ lastCookie'[c] \in Nat
      /\ lastCookie'[c] = lastCookie[c] \/ lastCookie'[c] = lastCookie[c] + 1
  BY <1>1, PendingStep
<1>3. lastDone[c] \in Nat
  BY <1>1, MaxCookieAssumption DEF CountType
<1>4. lastDone[c] # 0 => lastDone[c] \in completed[c]
  BY DEF DoneMoved
<1>5. lastDone[c] <= lastCookie[c]
  BY DEF DoneMoved
<1>6. ASSUME lastDone'[c] = lastDone[c], completed'[c] = completed[c]
      PROVE  Goal
  BY <1>2, <1>3, <1>4, <1>5, <1>6
<1>7. ASSUME NEW d \in Chans, EngineDone(d)
      PROVE  Goal
  <2>1. /\ issued[d] # <<>> /\ lastDone' = [lastDone EXCEPT ![d] = Head(issued[d])]
        /\ completed' = [completed EXCEPT ![d] = completed[d] \cup {Head(issued[d])}]
        /\ lastCookie' = lastCookie
    BY <1>7 DEF EngineDone
  <2>2. CASE c = d
    <3>1. lastDone'[c] = Head(issued[c]) /\ Head(issued[c]) \in completed'[c]
      BY <1>1, <2>1, <2>2 DEF CountType
    <3>2. Head(issued[c]) \in Elems(issued[c])
      BY <1>1, <2>1, <2>2, ElemsTail DEF QueueType
    <3>3. Head(issued[c]) \in Pending(c)
      BY <3>2 DEF Pending, Elems
    <3> QED
      BY <1>1, <2>1, <3>1, <3>3 DEF PendingKnown
  <2>3. CASE c # d
    BY <1>1, <1>6, <2>1, <2>3 DEF CountType
  <2> QED
    BY <2>2, <2>3
<1>8. ASSUME UNCHANGED <<lastDone, completed>>
      PROVE  Goal
  BY <1>6, <1>8
<1> HIDE DEF Goal
<1>9. ASSUME NEW u \in Threads,
             \/ \E call \in Calls[u] : Call(u, call)
             \/ StopStep(u) \/ SetCallback(u) \/ Submit(u) \/ Start(u) \/ WaitOk(u)
             \/ axidma_release(u) \/ \E d \in Chans : axidma_stop_channel(u, d)
      PROVE  Goal
  BY <1>8, <1>9 DEF Call, StopStep, stop_dma, SetCallback, Submit, Start, WaitOk,
                    axidma_release, axidma_stop_channel, chVars
<1>10. ASSUME NEW d \in Chans, PickCallback(d) \/ axidma_dma_callback(d)
       PROVE  Goal
  BY <1>8, <1>10 DEF PickCallback, axidma_dma_callback
<1>11. ASSUME UNCHANGED vars
       PROVE  Goal
  BY <1>8, <1>11 DEF vars, chVars
<1>12. Goal
  BY <1>7, <1>9, <1>10, <1>11, Steps
<1> QED
  BY <1>12 DEF Goal

\* CallbackOwned is kept: SetCallback stores the caller's own completion.
LEMMA CallbackOwnedStep == Known /\ CallbackOwned /\ [Next]_vars => CallbackOwned'
<1> SUFFICES ASSUME Known, CallbackOwned, [Next]_vars, NEW c \in Chans, NEW t \in Threads,
                    cb'[c].comp = t
             PROVE  c \in Waited(t)
  BY DEF CallbackOwned
<1>1. TypeOK /\ LegsKnown /\ CbType
  BY TypeParts DEF Known
<1>2. ASSUME UNCHANGED cb
      PROVE  c \in Waited(t)
  BY <1>2 DEF CallbackOwned
<1>3. ASSUME NEW u \in Threads, SetCallback(u)
      PROVE  c \in Waited(t)
  <2>1. CASE c = Ch(u)
    <3>1. u = t /\ Wait(u)
      BY <1>1, <1>3, <2>1, NullAssumption DEF SetCallback, CbType
    <3>2. legs[u] \in Calls[u] /\ leg[u] \in 1 .. Len(legs[u])
      BY <1>1, <1>3, AtLeg DEF SetCallback, Busy
    <3> QED
      BY <2>1, <3>1, <3>2, WaitsLast DEF Ch, Wait
  <2>2. CASE c # Ch(u)
    <3>1. cb'[c] = cb[c]
      BY <1>1, <1>3, <2>2 DEF SetCallback, CbType
    <3> QED
      BY <3>1 DEF CallbackOwned
  <2> QED
    BY <2>1, <2>2
<1>4. ASSUME NEW u \in Threads,
             \/ \E call \in Calls[u] : Call(u, call)
             \/ StopStep(u) \/ Submit(u) \/ Start(u) \/ WaitOk(u)
             \/ axidma_release(u) \/ \E d \in Chans : axidma_stop_channel(u, d)
      PROVE  UNCHANGED cb
  BY <1>4 DEF Call, StopStep, stop_dma, Submit, Start, WaitOk,
              axidma_release, axidma_stop_channel, chVars
<1>5. ASSUME NEW d \in Chans, EngineDone(d) \/ PickCallback(d) \/ axidma_dma_callback(d)
      PROVE  UNCHANGED cb
  BY <1>5 DEF EngineDone, PickCallback, axidma_dma_callback
<1>6. CASE UNCHANGED vars
  BY <1>2, <1>6 DEF vars, chVars
<1> QED
  BY <1>2, <1>3, <1>4, <1>5, <1>6, Steps
\* WaitsForLast is kept, where a channel waited on has one user: nobody else takes a
\* later cookie, and the call's other leg is on another channel.
LEMMA WaitsForLastStep == OneUser /\ Known /\ WaitsForLast /\ [Next]_vars => WaitsForLast'
<1> SUFFICES ASSUME OneUser, Known, WaitsForLast, [Next]_vars, NEW t \in Threads
             PROVE  /\ pc'[t] = "wait" => Wait(t)'
                    /\ pc'[t] \in {"start", "wait"} =>
                         \A i \in 1 .. Len(legs'[t]) : legs'[t][i].wait =>
                           /\ cookie'[t][i] = lastCookie'[legs'[t][i].ch]
                           /\ cookie'[t][i] # 0
  BY DEF WaitsForLast
<1>1. TypeOK /\ LegsKnown /\ ThreadType /\ CountType
  BY TypeParts DEF Known
<1>2. pc'[t] = "wait" => Wait(t)'
  <2>1. SameThread(t) => Wait(t)' = Wait(t) /\ pc'[t] = pc[t]
    BY DEF SameThread, Wait
  <2>2. NextLeg(t) => pc'[t] # "wait"
    BY <1>1 DEF NextLeg, Return, ThreadType
  <2>3. StopStep(t) \/ SetCallback(t) \/ Submit(t) \/ WaitOk(t) \/ axidma_release(t)
        \/ (\E call \in Calls[t] : Call(t, call)) => pc'[t] # "wait"
    BY <1>1, <2>2 DEF Call, StopStep, stop_dma, Return, SetCallback, Submit, WaitOk,
                      axidma_release, ThreadType
  <2>4. Start(t) /\ pc'[t] = "wait" => Wait(t)'
    BY <2>2 DEF Start, Wait
  <2> QED
    BY <1>1, <2>1, <2>3, <2>4, OneMoves DEF OwnStep, WaitsForLast
<1>3. ASSUME pc'[t] \in {"start", "wait"}, NEW i \in 1 .. Len(legs'[t]), legs'[t][i].wait
      PROVE  cookie'[t][i] = lastCookie'[legs'[t][i].ch] /\ cookie'[t][i] # 0
  <2>1. CASE Submit(t)
    <3> DEFINE k == lastCookie[Ch(t)] + 1
    <3>1. /\ legs' = legs
          /\ lastCookie' = [lastCookie EXCEPT ![Ch(t)] = k]
          /\ cookie' = [cookie EXCEPT ![t] = [cookie[t] EXCEPT ![leg[t]] = k]]
          /\ pc' = [pc EXCEPT ![t] = IF Last(t) THEN "start" ELSE "prep"]
      BY <2>1 DEF Submit
    <3>2. leg[t] \in {1, 2} /\ Ch(t) \in Chans /\ legs[t] \in Calls[t]
      BY <1>1, <2>1, AtLeg DEF Submit, Busy
    <3>3. Last(t)
      BY <1>1, <1>3, <3>1 DEF ThreadType
    <3>4. i = leg[t]
      BY <1>3, <3>1, <3>2, <3>3, WaitsLast DEF Last
    <3>5. cookie'[t][i] = k /\ lastCookie'[Ch(t)] = k /\ legs'[t][i].ch = Ch(t)
      BY <1>1, <3>1, <3>2, <3>4 DEF CountType, Ch
    <3>6. k # 0
      BY <1>1, <3>2, MaxCookieAssumption DEF CountType
    <3> QED
      BY <3>5, <3>6
  <2>2. ASSUME ~Submit(t)
        PROVE  pc[t] \in {"start", "wait"} /\ legs'[t] = legs[t] /\ cookie'[t] = cookie[t]
    <3>1. CASE SameThread(t)
      BY <1>3, <3>1 DEF SameThread
    <3>2. CASE Start(t) \/ WaitOk(t)
      BY <3>2 DEF Start, WaitOk
    <3>3. ~StopStep(t) /\ ~SetCallback(t) /\ ~axidma_release(t)
          /\ ~\E call \in Calls[t] : Call(t, call)
      BY <1>1, <1>3 DEF Call, StopStep, stop_dma, Return, SetCallback, axidma_release,
                        ThreadType
    <3> QED
      BY <1>1, <2>2, <3>1, <3>2, <3>3, OneMoves DEF OwnStep
  <2>3. CASE ~Submit(t)
    <3>1. pc[t] \in {"start", "wait"} /\ legs'[t] = legs[t] /\ cookie'[t] = cookie[t]
      BY <2>2, <2>3
    <3>2. legs[t] \in Calls[t]
      BY <1>1, <3>1 DEF LegsKnown
    <3>3. PICK c \in Chans : c = legs[t][i].ch
      BY <1>3, <3>1, <3>2, LegIndex
    <3>4. cookie[t][i] = lastCookie[c] /\ cookie[t][i] # 0
      BY <1>3, <3>1, <3>3 DEF WaitsForLast
    <3>5. c \in Waited(t)
      BY <1>3, <3>1, <3>2, <3>3, WaitsLast
    <3>6. ASSUME NEW u \in Threads, Submit(u)
          PROVE  lastCookie'[c] = lastCookie[c]
      <4>1. u # t
        BY <2>3, <3>6
      <4>2. legs[u] \in Calls[u] /\ leg[u] \in 1 .. Len(legs[u])
        BY <1>1, <3>6, AtLeg DEF Submit, Busy
      <4>3. Ch(u) # c
        BY <3>5, <4>1, <4>2, Owner DEF Ch
      <4> QED
        BY <1>1, <3>6, <4>3 DEF Submit, CountType
    <3>7. ASSUME NEW u \in Threads,
                 \/ \E call \in Calls[u] : Call(u, call)
                 \/ StopStep(u) \/ SetCallback(u) \/ Start(u) \/ WaitOk(u)
                 \/ axidma_release(u) \/ \E d \in Chans : axidma_stop_channel(u, d)
          PROVE  lastCookie' = lastCookie
      BY <3>7 DEF Call, StopStep, stop_dma, SetCallback, Start, WaitOk,
                  axidma_release, axidma_stop_channel, chVars
    <3>8. ASSUME NEW d \in Chans, EngineDone(d) \/ PickCallback(d) \/ axidma_dma_callback(d)
          PROVE  lastCookie' = lastCookie
      BY <3>8 DEF EngineDone, PickCallback, axidma_dma_callback
    <3>9. UNCHANGED vars => lastCookie' = lastCookie
      BY DEF vars, chVars
    <3>10. lastCookie'[c] = lastCookie[c]
      BY <3>6, <3>7, <3>8, <3>9, Steps
    <3> QED
      BY <3>1, <3>3, <3>4, <3>10
  <2> QED
    BY <2>1, <2>3
<1> QED
  BY <1>2, <1>3

\* A thread in a call has no result yet.
NoResult == \A t \in Threads : pc[t] \in Busy => result[t] = "none"

\* Every step keeps that.
LEMMA NoResultStep == Known /\ NoResult /\ [Next]_vars => NoResult'
<1> SUFFICES ASSUME Known, NoResult, [Next]_vars, NEW t \in Threads, pc'[t] \in Busy
             PROVE  result'[t] = "none"
  BY DEF NoResult
<1>1. TypeOK /\ ThreadType
  BY TypeParts DEF Known
<1>2. CASE SameThread(t)
  BY <1>2 DEF SameThread, NoResult
<1>3. ASSUME NEW call \in Calls[t], Call(t, call)
      PROVE  result'[t] = "none"
  BY <1>1, <1>3 DEF Call, ThreadType
<1>4. CASE SetCallback(t) \/ Submit(t)
  BY <1>4 DEF SetCallback, Submit, NoResult, Busy
<1>5. CASE StopStep(t) \/ axidma_release(t)
  BY <1>1, <1>5 DEF StopStep, stop_dma, Return, axidma_release, ThreadType, Busy
<1>6. CASE Start(t) \/ WaitOk(t)
  <2>1. pc[t] \in Busy
    BY <1>6 DEF Start, WaitOk, Busy
  <2>2. result' = result \/ pc'[t] = "idle"
    BY <1>1, <1>6 DEF Start, WaitOk, NextLeg, Return, ThreadType
  <2> QED
    BY <2>1, <2>2 DEF NoResult, Busy
<1> QED
  BY <1>1, <1>2, <1>3, <1>4, <1>5, <1>6, OneMoves DEF OwnStep

\* WaitedLegsMoved is kept: the cookie waited for is the channel's last, so the last
\* completed cookie cannot be a later one.
LEMMA WaitedStep ==
  Known /\ DoneMoved /\ WaitsForLast /\ NoResult /\ WaitedLegsMoved /\ [Next]_vars => WaitedLegsMoved'
<1> SUFFICES ASSUME Known, DoneMoved, WaitsForLast, NoResult, WaitedLegsMoved, [Next]_vars,
                    NEW t \in Threads, result'[t] = "ok",
                    NEW i \in DOMAIN legs'[t], legs'[t][i].wait
             PROVE  cookie'[t][i] \in completed'[legs'[t][i].ch]
  BY DEF WaitedLegsMoved
<1>1. TypeOK /\ LegsKnown /\ ThreadType /\ CountType /\ TypeOK' /\ LegsKnown'
  BY TypeParts, TypeStep, LegsStep DEF Known
<1>2. legs'[t] \in Calls[t] /\ i \in 1 .. Len(legs'[t])
  <2>1. legs'[t] \in Calls[t]
    BY <1>1 DEF LegsKnown
  <2> QED
    BY <2>1, CallShape DEF Shape
<1>3. /\ i = Len(legs'[t]) /\ legs'[t][i].ch \in Chans /\ ~legs'[t][1].video
      /\ i \in {1, 2}
  BY <1>2, WaitsLast, LegIndex
<1>4. \A c \in Chans : completed[c] \subseteq completed'[c]
  <2>1. ASSUME NEW d \in Chans, EngineDone(d)
        PROVE  \A c \in Chans : completed[c] \subseteq completed'[c]
    <3>1. completed' = [completed EXCEPT ![d] = completed[d] \cup {Head(issued[d])}]
      BY <2>1 DEF EngineDone
    <3> QED
      BY <1>1, <3>1 DEF CountType
  <2>2. ASSUME NEW u \in Threads,
               \/ \E call \in Calls[u] : Call(u, call)
               \/ StopStep(u) \/ SetCallback(u) \/ Submit(u) \/ Start(u) \/ WaitOk(u)
               \/ axidma_release(u) \/ \E d \in Chans : axidma_stop_channel(u, d)
        PROVE  completed' = completed
    BY <2>2 DEF Call, StopStep, stop_dma, SetCallback, Submit, Start, WaitOk,
                axidma_release, axidma_stop_channel
  <2>3. ASSUME NEW d \in Chans, PickCallback(d) \/ axidma_dma_callback(d)
        PROVE  completed' = completed
    BY <2>3 DEF PickCallback, axidma_dma_callback
  <2>4. UNCHANGED vars => completed' = completed
    BY DEF vars
  <2> QED
    BY <2>1, <2>2, <2>3, <2>4, Steps
<1>5. ASSUME legs'[t] = legs[t], cookie'[t] = cookie[t],
             cookie[t][i] \in completed[legs[t][i].ch]
      PROVE  cookie'[t][i] \in completed'[legs'[t][i].ch]
  BY <1>3, <1>4, <1>5
<1>6. ASSUME legs'[t] = legs[t], cookie'[t] = cookie[t], result[t] = "ok"
      PROVE  cookie'[t][i] \in completed'[legs'[t][i].ch]
  BY <1>5, <1>6 DEF WaitedLegsMoved
<1>7. CASE SameThread(t)
  BY <1>6, <1>7 DEF SameThread
<1>8. CASE axidma_release(t)
  BY <1>6, <1>8 DEF axidma_release
<1>9. ~SetCallback(t) /\ ~Submit(t) /\ ~\E call \in Calls[t] : Call(t, call)
  BY <1>1 DEF SetCallback, Submit, Call, NoResult, Busy, ThreadType
<1>10. ~StopStep(t)
  BY <1>1, <1>3 DEF StopStep, stop_dma, Return, ThreadType
<1>11. ASSUME pc[t] \in Busy, NextLeg(t), legs' = legs, cookie' = cookie
       PROVE  Last(t) /\ i = leg[t] /\ Wait(t) /\ legs[t][i].ch = Ch(t)
  <2>1. result[t] = "none"
    BY <1>11 DEF NoResult
  <2>2. Last(t)
    BY <1>11, <2>1 DEF NextLeg
  <2>3. i = leg[t]
    BY <1>3, <1>11, <2>2 DEF Last
  <2> QED
    BY <1>11, <2>2, <2>3 DEF Wait, Ch
<1>12. CASE Start(t)
  <2>1. pc[t] \in Busy /\ legs' = legs /\ cookie' = cookie
    BY <1>12 DEF Start, Busy
  <2>2. ~Wait(t) /\ NextLeg(t)
    BY <1>12, <2>1 DEF Start, NoResult
  <2> QED
    BY <1>11, <2>1, <2>2
<1>13. CASE WaitOk(t)
  <2>1. /\ pc[t] = "wait" /\ is_tx_complete(t) /\ NextLeg(t)
        /\ legs' = legs /\ cookie' = cookie
    BY <1>13 DEF WaitOk
  <2>2. i = leg[t] /\ legs[t][i].ch = Ch(t)
    BY <1>11, <2>1 DEF Busy
  <2>3. PICK c \in Chans : c = Ch(t)
    BY <1>3, <2>1, <2>2
  <2>4. PICK k : k = cookie[t][i]
    OBVIOUS
  <2>5. k = lastCookie[c] /\ k # 0
    BY <1>2, <2>1, <2>2, <2>3, <2>4 DEF WaitsForLast
  <2>6. k <= lastDone[c]
    BY <2>1, <2>2, <2>3, <2>4 DEF is_tx_complete
  <2>7. lastDone[c] \in Nat /\ lastCookie[c] \in Nat
    BY <1>1, MaxCookieAssumption DEF CountType
  <2>8. lastDone[c] <= lastCookie[c] /\ (lastDone[c] # 0 => lastDone[c] \in completed[c])
    BY DEF DoneMoved
  <2>9. k \in completed[c]
    BY <2>5, <2>6, <2>7, <2>8
  <2> QED
    BY <1>5, <2>1, <2>2, <2>3, <2>4, <2>9
<1> QED
  BY <1>1, <1>7, <1>8, <1>9, <1>10, <1>12, <1>13, OneMoves DEF OwnStep

\* THE DATA WAS MOVED: where a channel waited on has one user (OneUser), a read or
\* read-write call that waited and returned success has moved the data of its own
\* descriptor, although axidma_start_transfer only knows that some callback of the channel
\* has run and that the engine is past its cookie.
THEOREM WaitedSafe == ASSUME OneUser PROVE Spec => []WaitedLegsMoved
<1> DEFINE Inv == Known /\ DoneMoved /\ WaitsForLast /\ NoResult /\ WaitedLegsMoved
<1>1. Init => Inv
  <2> SUFFICES ASSUME Init PROVE Inv
    OBVIOUS
  <2>1. DoneMoved
    BY DEF Init, DoneMoved
  <2>2. WaitsForLast /\ NoResult /\ WaitedLegsMoved
    BY DEF Init, WaitsForLast, NoResult, WaitedLegsMoved, Busy
  <2> QED
    BY <2>1, <2>2, InitKnown
<1>2. Inv /\ [Next]_vars => Inv'
  BY TypeStep, LegsStep, PendingKnownStep, LegCookiesStep, DoneMovedStep, WaitsForLastStep,
     NoResultStep, WaitedStep DEF Known
<1>3. Inv => WaitedLegsMoved
  OBVIOUS
<1> QED
  BY <1>1, <1>2, <1>3, PTL DEF Spec
-----------------------------------------------------------------------------
(* Completions that are gone.                                              *)

Fire(c) == IF firing[c] = 0 THEN 0 ELSE 1
Out(c) == Len(submitted[c]) + Len(issued[c]) + Len(finished[c]) + Fire(c)

\* Before an error exit, a channel that t waits on has at most one descriptor, and then t
\* is about to wait for it, with its completion still open.
AtMostOne ==
  \A t \in Threads : \A c \in Waited(t) \ stopped :
    /\ Out(c) <= 1
    /\ Out(c) > 0 => /\ pc[t] \in {"start", "wait"} /\ ~done[t]
                     /\ \E i \in 1 .. Len(legs[t]) : legs[t][i].ch = c /\ legs[t][i].wait
    /\ pc[t] = "submit" /\ Wait(t) => ~done[t]

\* Only a submit adds a descriptor, and a callback removes one.
LEMMA OutStep ==
  ASSUME TypeOK, LegsKnown, [Next]_vars, NEW c \in Chans
  PROVE  /\ Out(c) \in Nat /\ Out(c)' \in Nat
         /\ \/ Out(c)' <= Out(c)
            \/ \E u \in Threads : Submit(u) /\ Ch(u) = c /\ Out(c)' = Out(c) + 1
         /\ axidma_dma_callback(c) => Out(c)' < Out(c)
<1>0. TypeOK' /\ QueueType /\ QueueType' /\ CountType
  <2>1. TypeOK'
    BY TypeStep
  <2> QED
    BY <2>1, TypeParts DEF TypeOK, QueueType
<1>1. /\ submitted[c] \in Seq(Cookies) /\ issued[c] \in Seq(Cookies)
      /\ finished[c] \in Seq(Cookies)
      /\ submitted'[c] \in Seq(Cookies) /\ issued'[c] \in Seq(Cookies)
      /\ finished'[c] \in Seq(Cookies)
  BY <1>0 DEF QueueType
<1>2. PICK s \in Nat, i \in Nat, f \in Nat, s1 \in Nat, i1 \in Nat, f1 \in Nat :
        /\ s = Len(submitted[c]) /\ i = Len(issued[c]) /\ f = Len(finished[c])
        /\ s1 = Len(submitted'[c]) /\ i1 = Len(issued'[c]) /\ f1 = Len(finished'[c])
  <2>1. /\ Len(submitted[c]) \in Nat /\ Len(issued[c]) \in Nat /\ Len(finished[c]) \in Nat
        /\ Len(submitted'[c]) \in Nat /\ Len(issued'[c]) \in Nat
        /\ Len(finished'[c]) \in Nat
    BY <1>1
  <2> QED
    BY <2>1, Zenon
<1>3. PICK e \in {0, 1}, e1 \in {0, 1} :
        /\ e = 0 <=> firing[c] = 0
        /\ e1 = 0 <=> firing'[c] = 0
        /\ Out(c) = s + i + f + e /\ Out(c)' = s1 + i1 + f1 + e1
        /\ firing'[c] = firing[c] => e1 = e
  <2>1. /\ Fire(c) \in {0, 1} /\ Fire(c)' \in {0, 1}
        /\ Fire(c) = 0 <=> firing[c] = 0
        /\ Fire(c)' = 0 <=> firing'[c] = 0
    BY DEF Fire
  <2>2. /\ Out(c) = s + i + f + Fire(c)
        /\ Out(c)' = s1 + i1 + f1 + Fire(c)'
    BY <1>2 DEF Out
  <2> QED
    BY <2>1, <2>2
<1>4. Out(c) \in Nat /\ Out(c)' \in Nat
  BY <1>3
<1> DEFINE Fewer == Out(c)' <= Out(c)
           Grown == \E u \in Threads : Submit(u) /\ Ch(u) = c /\ Out(c)' = Out(c) + 1
<1>5. ASSUME submitted'[c] = submitted[c], issued'[c] = issued[c],
             finished'[c] = finished[c], firing'[c] = firing[c]
      PROVE  Fewer
  <2>1. s1 = s /\ i1 = i /\ f1 = f /\ e1 = e
    BY <1>2, <1>3, <1>5
  <2> QED
    BY <1>3, <2>1
<1>6. ASSUME NEW d \in Chans, terminate_all(d), firing' = firing
      PROVE  Fewer
  <2>1. CASE d = c
    <3>1. submitted'[c] = <<>> /\ issued'[c] = <<>> /\ finished'[c] = <<>>
      BY <1>0, <1>6, <2>1 DEF terminate_all, QueueType
    <3>2. Len(submitted'[c]) = 0 /\ Len(issued'[c]) = 0 /\ Len(finished'[c]) = 0
      BY <3>1
    <3>3. s1 = 0 /\ i1 = 0 /\ f1 = 0 /\ e1 = e
      BY <1>2, <1>3, <1>6, <3>2
    <3> QED
      BY <1>3, <3>3
  <2>2. CASE d # c
    BY <1>0, <1>5, <1>6, <2>2 DEF terminate_all, QueueType
  <2> QED
    BY <2>1, <2>2
<1>7. ASSUME NEW u \in Threads, Submit(u)
      PROVE  Fewer \/ Grown
  <2> DEFINE d == Ch(u)
             k == lastCookie[d] + 1
  <2>1. /\ submitted' = [submitted EXCEPT ![d] = Append(submitted[d], k)]
        /\ UNCHANGED <<issued, finished, firing>>
    BY <1>7 DEF Submit
  <2> HIDE DEF k
  <2>2. CASE d = c
    <3>1. submitted'[c] = Append(submitted[c], k)
      BY <1>0, <2>1, <2>2 DEF QueueType
    <3>2. Len(submitted'[c]) = Len(submitted[c]) + 1
      BY <1>1, <3>1
    <3>3. s1 = s + 1 /\ i1 = i /\ f1 = f /\ e1 = e
      BY <1>2, <1>3, <2>1, <3>2
    <3>4. Out(c)' = Out(c) + 1
      BY <1>3, <3>3
    <3> QED
      BY <1>7, <2>2, <3>4
  <2>3. CASE d # c
    BY <1>0, <1>5, <2>1, <2>3 DEF QueueType
  <2> QED
    BY <2>2, <2>3
<1>8. ASSUME NEW u \in Threads, Start(u)
      PROVE  Fewer
  <2> DEFINE d == Ch(u)
  <2>1. /\ issued' = [issued EXCEPT ![d] = issued[d] \o submitted[d]]
        /\ submitted' = [submitted EXCEPT ![d] = <<>>]
        /\ UNCHANGED <<finished, firing>>
    BY <1>8 DEF Start
  <2>2. CASE d = c
    <3>1. issued'[c] = issued[c] \o submitted[c] /\ submitted'[c] = <<>>
      BY <1>0, <2>1, <2>2 DEF QueueType
    <3>2. Len(issued'[c]) = Len(issued[c]) + Len(submitted[c]) /\ Len(submitted'[c]) = 0
      BY <1>1, <3>1
    <3>3. s1 = 0 /\ i1 = i + s /\ f1 = f /\ e1 = e
      BY <1>2, <1>3, <2>1, <3>2
    <3> QED
      BY <1>3, <3>3
  <2>3. CASE d # c
    BY <1>0, <1>5, <2>1, <2>3 DEF QueueType
  <2> QED
    BY <2>2, <2>3
<1>9. ASSUME NEW d \in Chans, EngineDone(d)
      PROVE  Fewer
  <2>1. /\ issued[d] # <<>> /\ issued' = [issued EXCEPT ![d] = Tail(issued[d])]
        /\ finished' = [finished EXCEPT ![d] = Append(finished[d], Head(issued[d]))]
        /\ UNCHANGED <<submitted, firing>>
    BY <1>9 DEF EngineDone
  <2>2. CASE d = c
    <3>1. /\ issued'[c] = Tail(issued[c])
          /\ finished'[c] = Append(finished[c], Head(issued[c])) /\ issued[c] # <<>>
      BY <1>0, <2>1, <2>2 DEF QueueType
    <3>2. Len(issued'[c]) = Len(issued[c]) - 1 /\ Head(issued[c]) \in Cookies
      BY <1>1, <3>1, HeadTailProperties
    <3>3. Len(finished'[c]) = Len(finished[c]) + 1
      BY <1>1, <3>1, <3>2
    <3>4. s1 = s /\ i1 = i - 1 /\ f1 = f + 1 /\ e1 = e
      BY <1>2, <1>3, <2>1, <3>2, <3>3
    <3> QED
      BY <1>3, <3>4
  <2>3. CASE d # c
    BY <1>0, <1>5, <2>1, <2>3 DEF QueueType
  <2> QED
    BY <2>2, <2>3
<1>10. ASSUME NEW d \in Chans, PickCallback(d)
       PROVE  Fewer
  <2>1. /\ finished[d] # <<>> /\ firing[d] = 0
        /\ firing' = [firing EXCEPT ![d] = Head(finished[d])]
        /\ finished' = [finished EXCEPT ![d] = Tail(finished[d])]
        /\ UNCHANGED <<submitted, issued>>
    BY <1>10 DEF PickCallback
  <2>2. CASE d = c
    <3>1. finished'[c] = Tail(finished[c]) /\ finished[c] # <<>> /\ firing[c] = 0
      BY <1>0, <2>1, <2>2 DEF QueueType
    <3>2. Len(finished'[c]) = Len(finished[c]) - 1
      BY <1>1, <3>1, HeadTailProperties
    <3>3. s1 = s /\ i1 = i /\ f1 = f - 1 /\ e = 0
      BY <1>2, <1>3, <2>1, <3>1, <3>2
    <3> QED
      BY <1>3, <3>3
  <2>3. CASE d # c
    BY <1>0, <1>5, <2>1, <2>3 DEF QueueType, CountType
  <2> QED
    BY <2>2, <2>3
<1>11. ASSUME NEW d \in Chans, axidma_dma_callback(d)
       PROVE  Fewer /\ (d = c => Out(c)' < Out(c))
  <2>1. /\ firing[d] # 0 /\ firing' = [firing EXCEPT ![d] = 0]
        /\ UNCHANGED <<submitted, issued, finished>>
    BY <1>11 DEF axidma_dma_callback
  <2>2. CASE d = c
    <3>1. firing[c] # 0 /\ firing'[c] = 0
      BY <1>0, <2>1, <2>2 DEF CountType
    <3>2. s1 = s /\ i1 = i /\ f1 = f /\ e = 1 /\ e1 = 0
      BY <1>2, <1>3, <2>1, <3>1
    <3> QED
      BY <1>3, <3>2
  <2>3. CASE d # c
    BY <1>0, <1>5, <2>1, <2>3 DEF CountType
  <2> QED
    BY <2>2, <2>3
<1>12. ASSUME UNCHANGED <<submitted, issued, finished, firing>>
       PROVE  Fewer
  BY <1>5, <1>12
<1> HIDE DEF Fewer, Grown
<1>13. Fewer \/ Grown
  <2>1. ASSUME NEW t \in Threads, NEW call \in Calls[t], Call(t, call)
        PROVE  Fewer
    BY <1>12, <2>1 DEF Call, chVars
  <2>2. ASSUME NEW t \in Threads, StopStep(t)
        PROVE  Fewer
    <3>1. Ch(t) \in Chans
      BY <2>2, AtLeg DEF StopStep, Busy
    <3> QED
      BY <1>6, <2>2, <3>1 DEF StopStep, stop_dma
  <2>3. ASSUME NEW t \in Threads, SetCallback(t) \/ WaitOk(t) \/ axidma_release(t)
        PROVE  Fewer
    BY <1>12, <2>3 DEF SetCallback, WaitOk, axidma_release, chVars
  <2>4. ASSUME NEW t \in Threads, NEW d \in Chans, axidma_stop_channel(t, d)
        PROVE  Fewer
    BY <1>6, <2>4 DEF axidma_stop_channel
  <2>5. ASSUME UNCHANGED vars
        PROVE  Fewer
    BY <1>12, <2>5 DEF vars, chVars
  <2> QED
    BY <1>7, <1>8, <1>9, <1>10, <1>11, <2>1, <2>2, <2>3, <2>4, <2>5, Steps
<1> QED
  BY <1>4, <1>11, <1>13 DEF Fewer, Grown
\* AtMostOne is kept, where a channel waited on has one user.
LEMMA AtMostOneStep ==
  OneUser /\ Known /\ WaitsForLast /\ CallbackOwned /\ AtMostOne /\ [Next]_vars => AtMostOne'
<1> SUFFICES ASSUME OneUser, Known, WaitsForLast, CallbackOwned, AtMostOne, [Next]_vars,
                    NEW t \in Threads, NEW c \in Waited(t), c \notin stopped'
             PROVE  /\ Out(c)' <= 1
                    /\ Out(c)' > 0 =>
                         /\ pc'[t] \in {"start", "wait"} /\ ~done'[t]
                         /\ \E i \in 1 .. Len(legs'[t]) : legs'[t][i].ch = c /\ legs'[t][i].wait
                    /\ pc'[t] = "submit" /\ Wait(t)' => ~done'[t]
  BY DEF AtMostOne, Waited
<1> DEFINE OnC == \E i \in 1 .. Len(legs[t]) : legs[t][i].ch = c /\ legs[t][i].wait
           OnC1 == \E i \in 1 .. Len(legs'[t]) : legs'[t][i].ch = c /\ legs'[t][i].wait
           Goal == /\ Out(c)' <= 1
                   /\ Out(c)' > 0 => pc'[t] \in {"start", "wait"} /\ ~done'[t] /\ OnC1
                   /\ pc'[t] = "submit" /\ Wait(t)' => ~done'[t]
<1>1. TypeOK /\ LegsKnown /\ ThreadType /\ CountType
  BY TypeParts DEF Known
<1>2. c \in Chans
  BY DEF Waited
<1>3. c \notin stopped
  <2>1. ASSUME NEW u \in Threads, StopStep(u)
        PROVE  stopped \subseteq stopped'
    BY <2>1 DEF StopStep, stop_dma
  <2>2. ASSUME NEW u \in Threads,
               \/ \E call \in Calls[u] : Call(u, call)
               \/ SetCallback(u) \/ Submit(u) \/ Start(u) \/ WaitOk(u)
               \/ axidma_release(u) \/ \E d \in Chans : axidma_stop_channel(u, d)
        PROVE  stopped' = stopped
    BY <2>2 DEF Call, SetCallback, Submit, Start, WaitOk, axidma_release,
                axidma_stop_channel
  <2>3. ASSUME NEW d \in Chans, EngineDone(d) \/ PickCallback(d) \/ axidma_dma_callback(d)
        PROVE  stopped' = stopped
    BY <2>3 DEF EngineDone, PickCallback, axidma_dma_callback
  <2>4. UNCHANGED vars => stopped' = stopped
    BY DEF vars
  <2> QED
    BY <2>1, <2>2, <2>3, <2>4, Steps
<1>4. /\ Out(c) <= 1
      /\ Out(c) > 0 => pc[t] \in {"start", "wait"} /\ ~done[t] /\ OnC
      /\ pc[t] = "submit" /\ Wait(t) => ~done[t]
  BY <1>3 DEF AtMostOne
<1>5. /\ Out(c) \in Nat /\ Out(c)' \in Nat
      /\ \/ Out(c)' <= Out(c)
         \/ \E u \in Threads : Submit(u) /\ Ch(u) = c /\ Out(c)' = Out(c) + 1
      /\ axidma_dma_callback(c) => Out(c)' < Out(c)
  BY <1>1, <1>2, OutStep
<1>6. ASSUME NEW u \in Threads, Submit(u), Ch(u) = c, Out(c)' = Out(c) + 1
      PROVE  Goal
  <2>1. legs[u] \in Calls[u] /\ leg[u] \in 1 .. Len(legs[u])
    BY <1>1, <1>6, AtLeg DEF Submit, Busy
  <2>2. u = t /\ legs[u][leg[u]].wait /\ legs[u][leg[u]].ch = c
    BY <1>6, <2>1, Owner DEF Ch
  <2>3. leg[u] = Len(legs[u])
    BY <2>1, <2>2, WaitsLast
  <2>4. /\ pc[t] = "submit" /\ pc' = [pc EXCEPT ![t] = IF Last(t) THEN "start" ELSE "prep"]
        /\ done' = done /\ legs' = legs
    BY <1>6, <2>2 DEF Submit
  <2>5. Last(t) /\ Wait(t)
    BY <2>2, <2>3 DEF Last, Wait
  <2>6. pc'[t] = "start" /\ ~done'[t]
    BY <1>1, <1>4, <2>4, <2>5 DEF ThreadType
  <2>7. OnC1
    BY <2>1, <2>2, <2>4
  <2>8. Out(c)' <= 1
    BY <1>4, <1>5, <1>6, <2>4
  <2> QED
    BY <2>6, <2>7, <2>8
<1>7. ASSUME Out(c)' <= Out(c)
      PROVE  Goal
  <2> DEFINE Zero == Out(c)' = 0 /\ ~(pc'[t] = "submit" /\ Wait(t)' /\ done'[t])
  <2>1. Zero => Goal
    BY <1>5
  <2>2. ASSUME Out(c) = 0, pc'[t] # "submit"
        PROVE  Zero
    BY <1>5, <1>7, <2>2
  <2>3. pc[t] \notin {"start", "wait"} => Out(c) = 0
    BY <1>4, <1>5
  <2>4. CASE SetCallback(t)
    <3>1. pc[t] = "prep" /\ legs' = legs /\ leg' = leg
          /\ (Wait(t) => done' = [done EXCEPT ![t] = FALSE])
      BY <2>4 DEF SetCallback
    <3>2. Out(c)' = 0
      BY <1>5, <1>7, <2>3, <3>1
    <3>3. Wait(t)' = Wait(t)
      BY <3>1 DEF Wait
    <3>4. done \in [Threads -> BOOLEAN]
      BY <1>1 DEF TypeOK
    <3>5. Wait(t) => ~done'[t]
      BY <3>1, <3>4, Zenon
    <3> QED
      BY <2>1, <3>2, <3>3, <3>5
  <2>5. ASSUME NEW d \in Chans, axidma_dma_callback(d), cb[d].comp = t
        PROVE  Goal
    <3>1. d \in Waited(t)
      BY <2>5 DEF CallbackOwned
    <3>2. d = c
      BY <3>1 DEF OneUser
    <3>3. Out(c)' < Out(c)
      BY <1>5, <2>5, <3>2
    <3>4. Out(c)' = 0 /\ Out(c) > 0
      BY <1>4, <1>5, <3>3
    <3>5. pc[t] \in {"start", "wait"} /\ pc' = pc
      BY <1>4, <2>5, <3>4 DEF axidma_dma_callback
    <3> QED
      BY <2>1, <3>4, <3>5
  <2>6. ASSUME done'[t] = done[t], ~SetCallback(t)
        PROVE  Goal
    <3>1. CASE SameThread(t)
      <4>1. pc'[t] = pc[t] /\ legs'[t] = legs[t] /\ Wait(t)' = Wait(t)
        BY <3>1 DEF SameThread, Wait
      <4>2. Out(c)' > 0 => Out(c) > 0
        BY <1>5, <1>7
      <4>3. Out(c)' <= 1
        BY <1>4, <1>5, <1>7
      <4> QED
        BY <1>4, <2>6, <4>1, <4>2, <4>3
    <3>2. ASSUME NEW call \in Calls[t], Call(t, call)
          PROVE  Zero
      BY <1>1, <2>2, <2>3, <3>2 DEF Call, ThreadType
    <3>3. CASE StopStep(t)
      <4>1. pc'[t] = "idle" /\ stopped' = stopped \cup {Ch(t)}
        BY <1>1, <3>3 DEF StopStep, stop_dma, Return, ThreadType
      <4>2. pc[t] # "wait"
        <5>1. SUFFICES ASSUME pc[t] = "wait" PROVE FALSE
          OBVIOUS
        <5>2. Wait(t) /\ legs[t] \in Calls[t] /\ leg[t] \in 1 .. Len(legs[t])
          BY <1>1, <5>1, AtLeg DEF WaitsForLast, Busy
        <5>3. Ch(t) \in Waited(t)
          BY <5>2, WaitsLast DEF Ch, Wait
        <5>4. Ch(t) = c
          BY <5>3 DEF OneUser
        <5> QED
          BY <4>1, <5>4
      <4>3. pc[t] \in {"prep", "submit"}
        BY <3>3, <4>2 DEF StopStep
      <4> QED
        BY <2>1, <2>2, <2>3, <4>1, <4>3
    <3>4. CASE Submit(t)
      <4>1. pc[t] = "submit" /\ pc'[t] # "submit"
        BY <1>1, <3>4 DEF Submit, ThreadType
      <4> QED
        BY <2>1, <2>2, <2>3, <4>1
    <3>5. ASSUME Out(c) > 0, pc[t] \in {"start", "wait"}, Last(t)
          PROVE  Wait(t)
      <4>1. legs[t] \in Calls[t] /\ leg[t] \in 1 .. Len(legs[t])
        BY <1>1, <3>5, AtLeg DEF Busy
      <4>2. PICK i \in 1 .. Len(legs[t]) : legs[t][i].ch = c /\ legs[t][i].wait
        BY <1>4, <3>5
      <4>3. i = Len(legs[t])
        BY <4>1, <4>2, WaitsLast
      <4> QED
        BY <3>5, <4>2, <4>3 DEF Last, Wait
    <3>6. CASE Start(t)
      <4>1. pc[t] = "start" /\ legs' = legs
        BY <3>6 DEF Start
      <4>2. pc'[t] \in {"start", "wait"} \/ (Last(t) /\ ~Wait(t) /\ pc'[t] = "idle")
        BY <1>1, <3>6 DEF Start, NextLeg, Return, ThreadType
      <4>3. CASE Out(c) = 0
        BY <2>1, <2>2, <4>2, <4>3
      <4>4. CASE Out(c) # 0
        <5>1. Out(c) > 0
          BY <1>5, <4>4
        <5>2. pc'[t] \in {"start", "wait"}
          BY <3>5, <4>1, <4>2, <5>1
        <5>3. ~done'[t] /\ OnC1
          BY <1>4, <2>6, <4>1, <5>1
        <5>4. Out(c)' <= 1
          BY <1>4, <1>5, <1>7
        <5> QED
          BY <5>2, <5>3, <5>4
      <4> QED
        BY <4>3, <4>4
    <3>7. CASE WaitOk(t)
      <4>1. done[t] /\ pc'[t] # "submit"
        BY <1>1, <3>7 DEF WaitOk, NextLeg, Return, ThreadType
      <4>2. Out(c) = 0
        BY <1>4, <1>5, <4>1
      <4> QED
        BY <2>1, <2>2, <4>1, <4>2
    <3>8. CASE axidma_release(t)
      <4>1. pc[t] = "idle" /\ pc'[t] = "gone"
        BY <1>1, <3>8 DEF axidma_release, ThreadType
      <4> QED
        BY <2>1, <2>2, <2>3, <4>1
    <3> HIDE DEF Zero, Goal
    <3> QED
      BY <1>1, <2>1, <2>6, <3>1, <3>2, <3>3, <3>4, <3>6, <3>7, <3>8, OneMoves DEF OwnStep
  <2> HIDE DEF Goal
  <2> QED
    BY <1>1, <2>4, <2>5, <2>6, DoneMoves
<1> HIDE DEF Goal
<1>8. Goal
  BY <1>5, <1>6, <1>7
<1> QED
  BY <1>8 DEF Goal

\* NO DEAD COMPLETION: where a channel waited on has one user (OneUser), the callback data
\* points into the stack of a call that has returned, while a callback of the channel is
\* still to come, only after an error exit has given up a wait on that channel.
THEOREM DeadCompletionSafe == ASSUME OneUser PROVE Spec => []DeadCompletionOnlyAfterStop
<1> DEFINE Inv == Known /\ WaitsForLast /\ CallbackOwned /\ AtMostOne
<1>1. Init => Inv
  <2> SUFFICES ASSUME Init PROVE Inv
    OBVIOUS
  <2>1. WaitsForLast /\ CallbackOwned
    BY NullAssumption DEF Init, WaitsForLast, CallbackOwned
  <2>2. ASSUME NEW c \in Chans
        PROVE  Out(c) = 0
    <3>1. Len(submitted[c]) = 0 /\ Len(issued[c]) = 0 /\ Len(finished[c]) = 0 /\ Fire(c) = 0
      BY DEF Init, Fire
    <3> QED
      BY <3>1 DEF Out
  <2>3. AtMostOne
    BY <2>2 DEF Init, AtMostOne, Waited
  <2> QED
    BY <2>1, <2>3, InitKnown
<1>2. Inv /\ [Next]_vars => Inv'
  BY TypeStep, LegsStep, PendingKnownStep, LegCookiesStep, WaitsForLastStep,
     CallbackOwnedStep, AtMostOneStep DEF Known
<1>3. Inv => DeadCompletionOnlyAfterStop
  <2> SUFFICES ASSUME Inv, NEW c \in Chans, NEW t \in Threads, cb[c].comp = t,
                      firing[c] # 0 \/ finished[c] # <<>> \/ Pending(c) # {}, c \notin stopped
               PROVE  CompLive(t, c)
    BY DEF DeadCompletionOnlyAfterStop
  <2>1. c \in Waited(t) \ stopped
    BY DEF CallbackOwned
  <2>2. QueueType
    BY TypeParts DEF Known
  <2>3. /\ submitted[c] \in Seq(Cookies) /\ issued[c] \in Seq(Cookies)
        /\ finished[c] \in Seq(Cookies)
    BY <2>2 DEF QueueType
  <2>4. submitted[c] # <<>> \/ issued[c] # <<>> \/ finished[c] # <<>> \/ firing[c] # 0
    BY DEF Pending
  <2>5. Out(c) > 0
    <3>1. PICK s \in Nat, i \in Nat, f \in Nat, e \in Nat :
            /\ s = Len(submitted[c]) /\ i = Len(issued[c]) /\ f = Len(finished[c])
            /\ e = Fire(c)
      <4>1. Len(submitted[c]) \in Nat /\ Len(issued[c]) \in Nat /\ Len(finished[c]) \in Nat
        BY <2>3
      <4>2. Fire(c) \in Nat
        BY DEF Fire
      <4> QED
        BY <4>1, <4>2, Zenon
    <3>2. s # 0 \/ i # 0 \/ f # 0 \/ e # 0
      BY <2>3, <2>4, <3>1, EmptySeq DEF Fire
    <3>3. Out(c) = s + i + f + e
      BY <3>1 DEF Out
    <3> QED
      BY <3>2, <3>3
  <2>6. /\ pc[t] \in {"start", "wait"}
        /\ \E i \in 1 .. Len(legs[t]) : legs[t][i].ch = c /\ legs[t][i].wait
    BY <2>1, <2>5 DEF AtMostOne
  <2> QED
    BY <2>6 DEF CompLive
<1> QED
  BY <1>1, <1>2, <1>3, PTL DEF Spec
=============================================================================
