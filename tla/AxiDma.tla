------------------------------- MODULE AxiDma -------------------------------
(***************************************************************************)
(* Transfers of the AXI DMA driver (axidma_dma.c): read, write, read-write *)
(* and video transfers and the stop call, as the ioctls of axidma_chrdev.c *)
(* start them, without any lock, from several threads.  The dmaengine of   *)
(* the kernel is external: a channel keeps descriptors submitted, issued   *)
(* and finished; a finished descriptor's callback runs later in a tasklet; *)
(* dmaengine_terminate_all drops every descriptor but does not wait for a  *)
(* callback that is already running.                                       *)
(*                                                                         *)
(* A call is a sequence of legs [ch, wait, video]: one leg for read, write *)
(* and video (never waiting); transmit (never waiting) and receive leg for *)
(* read-write.  All legs are prepared in order, then all are started in    *)
(* order.  A call that names an unknown channel or an address outside the  *)
(* DMA buffers returns before it has changed anything and is left out.     *)
(***************************************************************************)
EXTENDS Naturals, Sequences

CONSTANTS
  Threads,     \* threads with the device open
  Chans,       \* DMA channels
  Calls,       \* Calls[t]: the transfers thread t may ask for
  NULL,        \* no completion, no process
  MaxCookie    \* bound: descriptors submitted per channel

ASSUME MaxCookieAssumption == MaxCookie \in Nat
ASSUME NullAssumption == NULL \notin Threads

VARIABLES
  pc,          \* pc[t]: where thread t is in its ioctl
  legs,        \* legs[t]: the legs of its current or last call
  leg,         \* leg[t]: the leg it is at
  cookie,      \* cookie[t][i]: cookie of leg i (0: not submitted)
  done,        \* done[t]: its completion was completed
  result,      \* result[t]: what its last call returned
  cb,          \* cb[c]: the callback data of channel c
  submitted, issued, finished,   \* per channel: descriptors by cookie
  firing,      \* firing[c]: cookie whose callback the tasklet is about to run
  lastCookie, lastDone,          \* per channel: cookies given out, completed
  completed,   \* history: completed[c], cookies whose data was transferred
  stopped      \* history: channels an error exit (stop_dma) has terminated

thrVars == <<pc, legs, leg, cookie, done, result>>
chVars  == <<cb, submitted, issued, finished, firing, lastCookie, lastDone>>
vars    == <<thrVars, chVars, completed, stopped>>

Legs == [ch : Chans, wait : BOOLEAN, video : BOOLEAN]
Cookies == 1 .. MaxCookie
CbData == [comp : Threads \cup {NULL}, process : Threads \cup {NULL}]

TypeOK ==
  /\ pc \in [Threads -> {"idle", "prep", "submit", "start", "wait", "gone"}]
  /\ legs \in [Threads -> Seq(Legs)]
  /\ leg \in [Threads -> {1, 2}]
  /\ cookie \in [Threads -> [{1, 2} -> 0 .. MaxCookie]]
  /\ done \in [Threads -> BOOLEAN]
  /\ result \in [Threads -> {"none", "ok", "EBUSY", "ETIME"}]
  /\ cb \in [Chans -> CbData]
  /\ submitted \in [Chans -> Seq(Cookies)] /\ issued \in [Chans -> Seq(Cookies)]
  /\ finished \in [Chans -> Seq(Cookies)]
  /\ firing \in [Chans -> 0 .. MaxCookie]
  /\ lastCookie \in [Chans -> 0 .. MaxCookie] /\ lastDone \in [Chans -> 0 .. MaxCookie]
  /\ completed \in [Chans -> SUBSET Cookies]
  /\ stopped \in SUBSET Chans

\* After axidma_dma_init: channels requested, cb_data allocated.
Init ==
  /\ pc = [t \in Threads |-> "idle"] /\ legs = [t \in Threads |-> <<>>]
  /\ leg = [t \in Threads |-> 1] /\ cookie = [t \in Threads |-> [i \in {1, 2} |-> 0]]
  /\ done = [t \in Threads |-> FALSE] /\ result = [t \in Threads |-> "none"]
  /\ cb = [c \in Chans |-> [comp |-> NULL, process |-> NULL]]
  /\ submitted = [c \in Chans |-> <<>>] /\ issued = [c \in Chans |-> <<>>]
  /\ finished = [c \in Chans |-> <<>>] /\ firing = [c \in Chans |-> 0]
  /\ lastCookie = [c \in Chans |-> 0] /\ lastDone = [c \in Chans |-> 0]
  /\ completed = [c \in Chans |-> {}]
  /\ stopped = {}

Ch(t)   == legs[t][leg[t]].ch
Wait(t) == legs[t][leg[t]].wait
Last(t) == leg[t] = Len(legs[t])
-----------------------------------------------------------------------------
\* dmaengine_terminate_all: all descriptors of c are gone.
terminate_all(c) ==
  /\ submitted' = [submitted EXCEPT ![c] = <<>>]
  /\ issued' = [issued EXCEPT ![c] = <<>>]
  /\ finished' = [finished EXCEPT ![c] = <<>>]

\* The ioctl returns rc; axidma_video_transfer returns 0 whatever went wrong.
Return(t, rc) ==
  /\ pc' = [pc EXCEPT ![t] = "idle"]
  /\ result' = [result EXCEPT ![t] = IF legs[t][1].video THEN "ok" ELSE rc]

\* Mistake: return without dmaengine_terminate_all.
stop_dma_KeepsChannel(t, rc) ==
  /\ Return(t, rc)
  /\ UNCHANGED <<legs, leg, cookie, done, chVars, completed,
                 stopped>>

\* goto stop_dma in prep and start: terminate the channel, return an error.
stop_dma(t, rc) ==
  /\ terminate_all(Ch(t)) /\ Return(t, rc)
  /\ stopped' = stopped \cup {Ch(t)}
  /\ UNCHANGED <<legs, leg, cookie, done, cb, firing, lastCookie, lastDone,
                 completed>>
-----------------------------------------------------------------------------
(* The ioctl.                                                              *)

\* The legs of the four kinds of transfers.
Leg(c, wait) == [ch |-> c, wait |-> wait, video |-> FALSE]
axidma_read_transfer(rx, wait)   == <<Leg(rx, wait)>>
axidma_write_transfer(tx, wait)  == <<Leg(tx, wait)>>
axidma_rw_transfer(tx, rx, wait) == <<Leg(tx, FALSE), Leg(rx, wait)>>
axidma_video_transfer(c) == <<[ch |-> c, wait |-> FALSE, video |-> TRUE]>>

\* A thread asks for these transfers only; the two channels of a read-write
\* transfer differ, since their directions are checked.
ASSUME CallsAssumption ==
  \A t \in Threads : \A call \in Calls[t] :
    \/ \E c \in Chans, w \in BOOLEAN :
         call \in {axidma_read_transfer(c, w), axidma_write_transfer(c, w),
                  axidma_video_transfer(c)}
    \/ \E tx, rx \in Chans, w \in BOOLEAN :
         tx # rx /\ call = axidma_rw_transfer(tx, rx, w)

\* The ioctl has checked its arguments and calls a transfer function, which goes
\* on to its first axidma_prep_transfer.
Call(t, call) ==
  /\ pc[t] = "idle" /\ call \in Calls[t]
  /\ \A i \in 1 .. Len(call) : lastCookie[call[i].ch] < MaxCookie   \* bound
  /\ pc' = [pc EXCEPT ![t] = "prep"]
  /\ legs' = [legs EXCEPT ![t] = call] /\ leg' = [leg EXCEPT ![t] = 1]
  /\ cookie' = [cookie EXCEPT ![t] = [i \in {1, 2} |-> 0]]
  /\ result' = [result EXCEPT ![t] = "none"]
  /\ UNCHANGED <<done, chVars, completed, stopped>>

\* axidma_prep_transfer: no descriptor to be had from the engine.
PrepFails(t) ==
  /\ pc[t] = "prep"
  /\ stop_dma(t, "EBUSY")

\* axidma_prep_transfer: the channel's only callback data is (over)written.
SetCallback(t) ==
  /\ pc[t] = "prep"
  /\ cb' = [cb EXCEPT ![Ch(t)] = IF Wait(t) THEN [comp |-> t, process |-> NULL]
                                            ELSE [comp |-> NULL, process |-> t]]
  /\ done' = IF Wait(t) THEN [done EXCEPT ![t] = FALSE] ELSE done
  /\ pc' = [pc EXCEPT ![t] = "submit"]
  /\ UNCHANGED <<legs, leg, cookie, result, submitted, issued, finished, firing,
                 lastCookie, lastDone, completed, stopped>>

\* axidma_prep_transfer: dmaengine_submit hands out the next cookie.
Submit(t) ==
  LET c == Ch(t)
      k == lastCookie[c] + 1 IN
  /\ pc[t] = "submit" /\ k <= MaxCookie
  /\ lastCookie' = [lastCookie EXCEPT ![c] = k]
  /\ submitted' = [submitted EXCEPT ![c] = Append(@, k)]
  /\ cookie' = [cookie EXCEPT ![t][leg[t]] = k]
  /\ pc' = [pc EXCEPT ![t] = IF Last(t) THEN "start" ELSE "prep"]
  /\ leg' = [leg EXCEPT ![t] = IF Last(t) THEN 1 ELSE @ + 1]
  /\ UNCHANGED <<legs, done, result, cb, issued, finished, firing, lastDone,
                 completed, stopped>>

\* dmaengine_submit returns an error cookie.
SubmitFails(t) ==
  /\ pc[t] = "submit"
  /\ stop_dma(t, "EBUSY")

\* Mistake: the leg index moves on behind the last leg.
NextLeg_OneTooFar(t) ==
  /\ IF Last(t) THEN Return(t, "ok")
     ELSE pc' = [pc EXCEPT ![t] = "start"] /\ UNCHANGED result
  /\ leg' = [leg EXCEPT ![t] = @ + 1]

\* After a leg that does not wait or was waited for: the next leg, or return.
NextLeg(t) ==
  IF Last(t)
  THEN Return(t, "ok") /\ UNCHANGED leg
  ELSE /\ pc' = [pc EXCEPT ![t] = "start"] /\ leg' = [leg EXCEPT ![t] = @ + 1]
       /\ UNCHANGED result
\* Mistake: wait is ignored.
Start_NeverWaits(t) ==
  LET c == Ch(t) IN
  /\ pc[t] = "start"
  /\ issued' = [issued EXCEPT ![c] = @ \o submitted[c]]
  /\ submitted' = [submitted EXCEPT ![c] = <<>>]
  /\ NextLeg(t)
  /\ UNCHANGED <<legs, cookie, done, cb, finished, firing, lastCookie, lastDone,
                 completed, stopped>>

\* axidma_start_transfer: issue everything pending on the channel.
Start(t) ==
  LET c == Ch(t) IN
  /\ pc[t] = "start"
  /\ issued' = [issued EXCEPT ![c] = @ \o submitted[c]]
  /\ submitted' = [submitted EXCEPT ![c] = <<>>]
  /\ IF Wait(t)
     THEN pc' = [pc EXCEPT ![t] = "wait"] /\ UNCHANGED <<leg, result>>
     ELSE NextLeg(t)
  /\ UNCHANGED <<legs, cookie, done, cb, finished, firing, lastCookie, lastDone,
                 completed, stopped>>
\* Mistake: a completion is taken for the end of the caller's own transfer.
is_tx_complete_Always(t) == TRUE

\* dma_async_is_tx_complete: cookies complete in order, so every cookie up to
\* the last completed one counts as complete.
is_tx_complete(t) == cookie[t][leg[t]] <= lastDone[Ch(t)]

\* The wait ended with a completion and the transaction is complete.
WaitOk(t) ==
  /\ pc[t] = "wait" /\ done[t] /\ is_tx_complete(t)
  /\ NextLeg(t)
  /\ UNCHANGED <<legs, cookie, done, chVars, completed, stopped>>

\* The wait ended with a completion but the transaction is not complete.
WaitNotComplete(t) ==
  /\ pc[t] = "wait" /\ done[t] /\ ~is_tx_complete(t)
  /\ stop_dma(t, "EBUSY")
\* Mistake: wait_for_completion without a timeout.
WaitTimeout_Never(t) == FALSE

\* wait_for_completion_timeout ran out.
WaitTimeout(t) ==
  /\ pc[t] = "wait" /\ ~done[t]
  /\ stop_dma(t, "ETIME")

\* AXIDMA_STOP_DMA_CHANNEL.
axidma_stop_channel(t, c) ==
  /\ pc[t] = "idle" /\ (submitted[c] # <<>> \/ issued[c] # <<>> \/ finished[c] # <<>>)
  /\ terminate_all(c)
  /\ UNCHANGED <<thrVars, cb, firing, lastCookie, lastDone,
                 completed, stopped>>

\* The thread's process ends: axidma_release stops nothing.
axidma_release(t) ==
  /\ pc[t] = "idle" /\ pc' = [pc EXCEPT ![t] = "gone"]
  /\ UNCHANGED <<legs, leg, cookie, done, result, chVars,
                 completed, stopped>>
-----------------------------------------------------------------------------
(* The engine (external) and the driver's callback.                        *)

\* The hardware has finished the oldest issued descriptor.
EngineDone(c) ==
  /\ issued[c] # <<>>
  /\ LET k == Head(issued[c]) IN
       /\ issued' = [issued EXCEPT ![c] = Tail(@)]
       /\ finished' = [finished EXCEPT ![c] = Append(@, k)]
       /\ lastDone' = [lastDone EXCEPT ![c] = k]
       /\ completed' = [completed EXCEPT ![c] = @ \cup {k}]
  /\ UNCHANGED <<thrVars, cb, submitted, firing, lastCookie, stopped>>

\* The tasklet takes a finished descriptor off the list to run its callback.
PickCallback(c) ==
  /\ finished[c] # <<>> /\ firing[c] = 0
  /\ firing' = [firing EXCEPT ![c] = Head(finished[c])]
  /\ finished' = [finished EXCEPT ![c] = Tail(@)]
  /\ UNCHANGED <<thrVars, cb, submitted, issued, lastCookie, lastDone,
                 completed, stopped>>

\* The completion cb[c].comp lives on the stack of a call of t that waits on c.
CompLive(t, c) ==
  pc[t] \notin {"idle", "gone"} /\ \E i \in 1 .. Len(legs[t]) : (legs[t][i].ch = c /\ legs[t][i].wait)

\* axidma_dma_callback, with whatever the callback data says by now: complete the
\* wait, or signal the process (no state of the driver).
axidma_dma_callback(c) ==
  LET comp == cb[c].comp IN
  /\ firing[c] # 0 /\ firing' = [firing EXCEPT ![c] = 0]
  /\ done' = IF comp # NULL THEN [done EXCEPT ![comp] = TRUE] ELSE done
  /\ UNCHANGED <<pc, legs, leg, cookie, result, cb, submitted, issued, finished,
                 lastCookie, lastDone, completed, stopped>>
-----------------------------------------------------------------------------
ThreadStep(t) ==
  \/ PrepFails(t) \/ SetCallback(t) \/ Submit(t) \/ SubmitFails(t) \/ Start(t)
  \/ WaitOk(t) \/ WaitNotComplete(t) \/ WaitTimeout(t)

Next ==
  \/ \E t \in Threads : \E call \in Calls[t] : Call(t, call)
  \/ \E t \in Threads : ThreadStep(t) \/ axidma_release(t)
  \/ \E t \in Threads, c \in Chans : axidma_stop_channel(t, c)
  \/ \E c \in Chans : EngineDone(c) \/ PickCallback(c) \/ axidma_dma_callback(c)

Spec == Init /\ [][Next]_vars

\* A thread in the kernel goes on, a wait at the latest when it times out; a
\* tasklet that was started ends.  Nothing is assumed of the hardware.
Fairness ==
  /\ \A t \in Threads : WF_vars(ThreadStep(t))
  /\ \A c \in Chans : WF_vars(PickCallback(c)) /\ WF_vars(axidma_dma_callback(c))

FairSpec == Spec /\ Fairness
-----------------------------------------------------------------------------
(* Properties.                                                             *)

\* How the programs of this repository use the driver, and what the code relies on
\* when it keeps one callback data per channel: a channel that thread t waits on
\* serves t and its waits only, and t waits on no other.
Waited(t) == {c \in Chans : \E call \in Calls[t] : \E i \in DOMAIN call :
                               call[i].ch = c /\ call[i].wait}
OneUser ==
  \A t \in Threads : \A c \in Waited(t) :
    /\ \A d \in Waited(t) : d = c
    /\ \A u \in Threads : \A call \in Calls[u] : \A i \in DOMAIN call :
         call[i].ch = c => u = t /\ call[i].wait

Pending(c) == {submitted[c][i] : i \in DOMAIN submitted[c]} \cup
              {issued[c][i] : i \in DOMAIN issued[c]}

\* axidma_ioctl.h, "the call should wait for the transfer to complete": a leg
\* that waited and was not reported as failed has moved its own data, although
\* the completion may have been signalled for another descriptor.
WaitedLegsMoved ==
  \A t \in Threads : result[t] = "ok" =>
    \A i \in DOMAIN legs[t] :
      legs[t][i].wait => cookie[t][i] \in completed[legs[t][i].ch]

\* goto stop_dma: a call that returned an error has left no descriptor of the
\* leg that failed which could still read or write the caller's buffer.  (The
\* transmit leg of a read-write call whose receive leg failed may stay.)
FailedLegLeavesNothing ==
  \A t \in Threads :
    pc[t] = "idle" /\ result[t] \in {"EBUSY", "ETIME"} =>
      cookie[t][leg[t]] \notin Pending(Ch(t))

\* The callback data outlives the ioctl and points into its stack.  As long as
\* a channel serves one user and one kind of transfer (OneUser), a callback can meet a
\* dead completion only on a channel where an error exit once gave up a wait.
DeadCompletionOnlyAfterStop ==
  \A c \in Chans : \A t \in Threads :
    cb[c].comp = t /\ (firing[c] # 0 \/ finished[c] # <<>> \/ Pending(c) # {})
      => CompLive(t, c) \/ c \in stopped

\* The wait is bounded by AXIDMA_DMA_TIMEOUT: every ioctl returns, even when
\* the hardware never finishes.
EveryCallReturns ==
  \A t \in Threads : (pc[t] \notin {"idle", "gone"}) ~> (pc[t] \in {"idle", "gone"})
=============================================================================
