--------------------------- MODULE CaecoHandshake ---------------------------
(***************************************************************************)
(* The path of an accelerometer frame from the MQTT callback to the CAECO  *)
(* IP core and of the IP's "ready" interrupt back to the application:      *)
(*                                                                         *)
(*   broker -> publish_callback -> tx_buf -> AXI DMA -> CAECO IP           *)
(*                 ^                                       |               *)
(*                 caeco_rdy <- signal_caeco <- SIGURG <- caeco_irq        *)
(*                                                                         *)
(* Actors: the main thread and the MQTT daemon thread of                   *)
(* transfer-accelero-caeco.c, the open/release/interrupt side of caeco.c,  *)
(* one blocking axidma transfer, and (external) the IP and the DMA engine. *)
(* Instances of the application run one after the other: a new one is      *)
(* launched when the previous process is gone, whatever the IP is doing.   *)
(***************************************************************************)
EXTENDS Naturals, FiniteSets

CONSTANTS
  Apps,         \* instances of the application (the task of its main thread)
  Msgs,         \* payloads of PUBLISH messages
  NULL,         \* no task / nothing in the buffer
  FrameLen,     \* words per frame (330 in the code)
  MayFail,      \* may set-up steps and transfers fail, engine and IP stall?
  PromptReturn  \* timing assumption: the IP needs longer for a frame than the
                \* transfer that delivered it needs to return and be recorded

ASSUME FrameLenAssumption == FrameLen \in Nat \ {0}
ASSUME SwitchAssumption == MayFail \in BOOLEAN /\ PromptReturn \in BOOLEAN
ASSUME NullAssumption == NULL \notin Apps /\ NULL \notin Msgs

VARIABLES
  app,         \* the process now on the board, or NULL
  used,        \* instances launched so far
  main,        \* where the main thread is
  daemon,      \* where the client_refresher thread is
  run,         \* main's loop flag, cleared by signal_keyboard
  caeco_rdy,   \* the application believes that the IP takes a frame
  tx_buf,      \* the message whose samples fill the transmit buffer
  sigPending,  \* CAECO_SIGNAL pending for the main thread (at most once)
  us_task,     \* caeco.c: the task to signal
  chan,        \* DMA channel: "idle" or "busy"
  sent,        \* words of the current descriptor already streamed
  ip,          \* CAECO IP: "idle" (accepting words) or "busy" (classifying)
  ipWords,     \* words of the current frame accepted by the IP
  ipFrom,      \* messages these words came from
  irq,         \* interrupt line of the IP
  oops,        \* caeco_irq used a task_struct that was already freed
  clean        \* history: the IP was quiescent when app opened /dev/caeco

appVars == <<app, used, main, daemon, run, caeco_rdy, tx_buf, sigPending>>
drvVars == <<us_task, oops>>
dmaVars == <<chan, sent>>
ipVars  == <<ip, ipWords, ipFrom, irq>>
vars    == <<appVars, drvVars, dmaVars, ipVars, clean>>

MainPC   == {"none", "setup", "spin", "sleep", "exiting", "gone"}
DaemonPC == {"none", "sync", "filled", "wait", "return", "gone"}

\* The state predicate every variable satisfies: types of the program's data.
TypeOK ==
  /\ app \in Apps \cup {NULL} /\ used \in SUBSET Apps
  /\ main \in MainPC /\ daemon \in DaemonPC
  /\ run \in BOOLEAN /\ caeco_rdy \in BOOLEAN /\ sigPending \in BOOLEAN
  /\ tx_buf \in Msgs \cup {NULL}
  /\ us_task \in Apps \cup {NULL}
  /\ chan \in {"idle", "busy"} /\ sent \in 0 .. FrameLen
  /\ ip \in {"idle", "busy"} /\ ipWords \in 0 .. FrameLen
  /\ ipFrom \in SUBSET (Msgs \cup {NULL}) /\ irq \in BOOLEAN
  /\ oops \in BOOLEAN /\ clean \in BOOLEAN

\* Nothing of an earlier frame is left in the IP or on its interrupt line.
IpQuiet == ip = "idle" /\ ipWords = 0 /\ ~irq

\* After caeco_probe: the IP was started (CMD = 1) and nobody has opened it.
Init ==
  /\ app = NULL /\ used = {} /\ main = "none" /\ daemon = "none"
  /\ run = TRUE /\ caeco_rdy = TRUE /\ tx_buf = NULL /\ sigPending = FALSE
  /\ us_task = NULL /\ oops = FALSE
  /\ chan = "idle" /\ sent = 0
  /\ ip = "idle" /\ ipWords = 0 /\ ipFrom = {} /\ irq = FALSE
  /\ clean = FALSE

-----------------------------------------------------------------------------
(* caeco.c: the registered task.                                           *)
\* Mistake: the first task that was registered stays registered.
caeco_open_KeepsFirst(t) == us_task' = IF us_task = NULL THEN t ELSE us_task

\* caeco_open registers whoever opens the device, replacing an earlier task.
caeco_open(t) == us_task' = t

\* caeco_release runs in the thread that drops the last reference of the
\* file; it unregisters only the task that is registered.
caeco_release(current) == us_task' = IF current = us_task THEN NULL ELSE us_task

-----------------------------------------------------------------------------
(* The main thread.                                                        *)

\* A new process: fresh globals, signal handlers, open("/dev/caeco").  (An
\* open that fails ends the process before it has changed anything.)
OpenDevice(a) ==
  /\ app = NULL /\ a \notin used
  /\ app' = a /\ used' = used \cup {a}
  /\ main' = "setup" /\ daemon' = "none"
  /\ run' = TRUE /\ caeco_rdy' = TRUE /\ tx_buf' = NULL /\ sigPending' = FALSE
  /\ caeco_open(a)
  /\ clean' = IpQuiet
  /\ UNCHANGED <<oops, dmaVars, ipVars>>

\* axidma_init, axidma_malloc, the channel list, the socket, mqtt_connect or
\* pthread_create fails: return or exit_example without a daemon.
SetupFails ==
  /\ MayFail /\ main = "setup"
  /\ main' = "exiting"
  /\ UNCHANGED <<app, used, daemon, run, caeco_rdy, tx_buf, sigPending,
                 drvVars, dmaVars, ipVars, clean>>

\* DMA buffer, socket and client are ready; pthread_create, mqtt_subscribe.
StartDaemon ==
  /\ main = "setup"
  /\ main' = "spin" /\ daemon' = "sync"
  /\ UNCHANGED <<app, used, run, caeco_rdy, tx_buf, sigPending,
                 drvVars, dmaVars, ipVars, clean>>

\* SIGINT.
signal_keyboard ==
  /\ main \in {"setup", "spin", "sleep"} /\ run
  /\ run' = FALSE
  /\ UNCHANGED <<app, used, main, daemon, caeco_rdy, tx_buf, sigPending,
                 drvVars, dmaVars, ipVars, clean>>
\* Mistake: the handler does not set the flag.
signal_caeco_NoFlag ==
  /\ sigPending /\ main \notin {"none", "gone"}
  /\ sigPending' = FALSE
  /\ UNCHANGED <<app, used, main, daemon, run, caeco_rdy, tx_buf,
                 drvVars, dmaVars, ipVars, clean>>

\* CAECO_SIGNAL is directed at the main thread, which runs its handler.
signal_caeco ==
  /\ sigPending /\ main \notin {"none", "gone"}
  /\ sigPending' = FALSE /\ caeco_rdy' = TRUE
  /\ UNCHANGED <<app, used, main, daemon, run, tx_buf,
                 drvVars, dmaVars, ipVars, clean>>

\* while(run); ends.
LeaveSpin ==
  /\ main = "spin" /\ ~run
  /\ main' = "sleep"
  /\ UNCHANGED <<app, used, daemon, run, caeco_rdy, tx_buf, sigPending,
                 drvVars, dmaVars, ipVars, clean>>

\* After sleep(1): close the socket, pthread_cancel, exit().  The close(fd),
\* axidma_free and axidma_destroy that follow in main are never reached.
exit_example ==
  /\ main = "sleep"
  /\ main' = "exiting"
  /\ UNCHANGED <<app, used, daemon, run, caeco_rdy, tx_buf, sigPending,
                 drvVars, dmaVars, ipVars, clean>>

\* The kernel ends the main thread.  The descriptor table is shared with the
\* daemon: only the last thread to go closes /dev/caeco.
MainExits ==
  /\ main = "exiting"
  /\ IF daemon \in {"none", "gone"}
     THEN /\ caeco_release(app)
          /\ app' = NULL /\ main' = "none" /\ daemon' = "none"
     ELSE /\ main' = "gone"
          /\ UNCHANGED <<app, daemon, us_task>>
  /\ sigPending' = FALSE
  /\ UNCHANGED <<used, run, caeco_rdy, tx_buf, oops, dmaVars, ipVars, clean>>

\* The kernel ends the daemon thread once it is in user mode: a thread that
\* waits for a DMA completion is not interruptible.
DaemonExits ==
  /\ main \in {"exiting", "gone"} /\ daemon \in {"sync", "filled", "return"}
  /\ IF main = "gone"
     THEN /\ caeco_release(NULL)    \* current is the daemon, not the opener
          /\ app' = NULL /\ main' = "none" /\ daemon' = "none"
     ELSE /\ daemon' = "gone"
          /\ UNCHANGED <<app, main, us_task>>
  /\ UNCHANGED <<used, run, caeco_rdy, tx_buf, sigPending, oops,
                 dmaVars, ipVars, clean>>

-----------------------------------------------------------------------------
(* The daemon thread: client_refresher -> mqtt_sync -> publish_callback.   *)

\* A PUBLISH arrives; fill_tx_buffer converts it into the shared buffer.
FillBuffer(m) ==
  /\ daemon = "sync"
  /\ tx_buf' = m /\ daemon' = "filled"
  /\ UNCHANGED <<app, used, main, run, caeco_rdy, sigPending,
                 drvVars, dmaVars, ipVars, clean>>

\* if(caeco_rdy) is false: the frame is dropped.
SkipFrame ==
  /\ daemon = "filled" /\ ~caeco_rdy
  /\ daemon' = "sync"
  /\ UNCHANGED <<app, used, main, run, caeco_rdy, tx_buf, sigPending,
                 drvVars, dmaVars, ipVars, clean>>
\* Mistake: wait = false.
StartTransfer_NoWait ==
  /\ daemon = "filled" /\ caeco_rdy
  /\ chan' = "busy" /\ sent' = 0
  /\ daemon' = "return"
  /\ UNCHANGED <<app, used, main, run, caeco_rdy, tx_buf, sigPending,
                 drvVars, ipVars, clean>>

\* axidma_oneway_transfer(..., wait = true): the descriptor is issued and the
\* thread sleeps in the driver.
StartTransfer ==
  /\ daemon = "filled" /\ caeco_rdy
  /\ chan' = "busy" /\ sent' = 0
  /\ daemon' = "wait"
  /\ UNCHANGED <<app, used, main, run, caeco_rdy, tx_buf, sigPending,
                 drvVars, ipVars, clean>>

\* The ioctl is refused before anything reaches the engine.
TransferRejected ==
  /\ MayFail /\ daemon = "filled" /\ caeco_rdy
  /\ daemon' = "return"
  /\ UNCHANGED <<app, used, main, run, caeco_rdy, tx_buf, sigPending,
                 drvVars, dmaVars, ipVars, clean>>
\* Mistake: the flag stays set after a transfer.
ClearReady_KeepsFlag ==
  /\ daemon = "return"
  /\ daemon' = "sync"
  /\ UNCHANGED <<app, used, main, run, caeco_rdy, tx_buf, sigPending,
                 drvVars, dmaVars, ipVars, clean>>

\* Back in publish_callback, whatever the transfer returned.
ClearReady ==
  /\ daemon = "return"
  /\ caeco_rdy' = FALSE /\ daemon' = "sync"
  /\ UNCHANGED <<app, used, main, run, tx_buf, sigPending,
                 drvVars, dmaVars, ipVars, clean>>

-----------------------------------------------------------------------------
(* The AXI DMA engine and the IP (external), and the driver's waits.       *)
\* Mistake: a descriptor longer than a frame.
StreamWord_Overrun ==
  /\ chan = "busy" /\ sent <= FrameLen /\ ip = "idle"
  /\ sent' = sent + 1
  /\ ipWords' = ipWords + 1 /\ ipFrom' = ipFrom \cup {tx_buf}
  /\ ip' = IF ipWords + 1 = FrameLen THEN "busy" ELSE "idle"
  /\ UNCHANGED <<irq, chan, appVars, drvVars, clean>>

\* The engine reads one word of the buffer and the IP takes it; with the last
\* word of a frame the IP starts to classify.
StreamWord ==
  /\ chan = "busy" /\ sent < FrameLen /\ ip = "idle"
  /\ sent' = sent + 1
  /\ ipWords' = ipWords + 1 /\ ipFrom' = ipFrom \cup {tx_buf}
  /\ ip' = IF ipWords + 1 = FrameLen THEN "busy" ELSE "idle"
  /\ UNCHANGED <<irq, chan, appVars, drvVars, clean>>

\* axidma_dma_callback: the completion wakes the waiting thread.
DmaComplete ==
  /\ chan = "busy" /\ sent = FrameLen
  /\ chan' = "idle"
  /\ daemon' = IF daemon = "wait" THEN "return" ELSE daemon
  /\ UNCHANGED <<app, used, main, run, caeco_rdy, tx_buf, sigPending,
                 sent, drvVars, ipVars, clean>>
\* Mistakes: no dmaengine_terminate_all; a wait without a timeout.
DmaTimeout_KeepsChannel ==
  /\ MayFail /\ daemon = "wait"
  /\ daemon' = "return"
  /\ UNCHANGED <<app, used, main, run, caeco_rdy, tx_buf, sigPending,
                 dmaVars, drvVars, ipVars, clean>>
DmaTimeout_Never == FALSE

\* axidma_start_transfer: no completion in time or an error status; the
\* channel is stopped with dmaengine_terminate_all.
DmaTimeout ==
  /\ MayFail /\ daemon = "wait"
  /\ chan' = "idle" /\ daemon' = "return"
  /\ UNCHANGED <<app, used, main, run, caeco_rdy, tx_buf, sigPending,
                 sent, drvVars, ipVars, clean>>

\* The transfer that delivered the last word has not been recorded yet.
TransferReturning ==
  daemon = "return" \/ (daemon = "wait" /\ sent = FrameLen)

\* The IP has classified the frame, raises its interrupt and accepts again.
IpDone ==
  /\ ip = "busy" /\ (PromptReturn => ~TransferReturning)
  /\ ip' = "idle" /\ ipWords' = 0 /\ ipFrom' = {} /\ irq' = TRUE
  /\ UNCHANGED <<appVars, drvVars, dmaVars, clean>>

\* caeco_irq: read the result, signal the registered task.  A standard signal
\* that is already pending is not queued again; one to a main thread that has
\* exited is lost; us_task of a process that is gone is freed memory.
caeco_irq ==
  /\ irq /\ irq' = FALSE
  /\ sigPending' = (sigPending \/ (us_task # NULL /\ us_task = app /\ main # "gone"))
  /\ oops' = (us_task # NULL /\ us_task # app)
  /\ UNCHANGED <<app, used, main, daemon, run, caeco_rdy, tx_buf, us_task,
                 dmaVars, ip, ipWords, ipFrom, clean>>

-----------------------------------------------------------------------------
MainStep ==
  \/ SetupFails \/ StartDaemon \/ signal_caeco \/ LeaveSpin \/ exit_example
  \/ MainExits

DaemonStep ==
  \/ SkipFrame \/ StartTransfer \/ TransferRejected \/ ClearReady \/ DaemonExits

\* After a use of freed memory nothing more is claimed: the model stops.
Next ==
  /\ ~oops
  /\ \/ \E a \in Apps : OpenDevice(a)
     \/ \E m \in Msgs : FillBuffer(m)
     \/ signal_keyboard
     \/ MainStep
     \/ DaemonStep
     \/ StreamWord \/ DmaComplete \/ DmaTimeout
     \/ IpDone \/ caeco_irq

Spec == Init /\ [][Next]_vars

\* Threads and interrupts make progress; the broker keeps publishing.  Hardware
\* that may fail may also stall, and only the driver's timeout is certain;
\* otherwise engine and IP make progress.  Neither SIGINT nor the launch of an
\* instance is assumed.
Fairness ==
  /\ WF_vars(~oops /\ (StartDaemon \/ LeaveSpin \/ exit_example \/ MainExits))
  /\ WF_vars(~oops /\ signal_caeco)
  /\ WF_vars(~oops /\ DaemonStep) /\ WF_vars(~oops /\ DaemonExits)
  /\ WF_vars(~oops /\ \E m \in Msgs : FillBuffer(m))
  /\ WF_vars(~oops /\ caeco_irq)
  /\ MayFail => WF_vars(~oops /\ DmaTimeout)
  /\ ~MayFail => WF_vars(~oops /\ (StreamWord \/ DmaComplete))
                 /\ WF_vars(~oops /\ IpDone)

FairSpec == Spec /\ Fairness
-----------------------------------------------------------------------------
(* Properties.                                                             *)

\* A frame of this process is on its way: in the DMA, in the IP, or announced
\* by an interrupt or a signal that has not reached the application yet.
Outstanding ==
  {k \in {"dma", "ip", "irq", "signal"} :
     \/ k = "dma" /\ chan = "busy" /\ sent < FrameLen
     \/ k = "ip" /\ ip = "busy"
     \/ k = "irq" /\ irq
     \/ k = "signal" /\ sigPending}

\* The flag is TRUE and the next publish_callback will find it so: no transfer
\* under way will clear it first.
ReadySeen == caeco_rdy /\ daemon \in {"none", "sync", "filled"}

\* Handshake (caeco_rdy, signal_caeco, caeco_irq): an instance that found the
\* IP quiescent has at most one frame outstanding, and while one is, it does
\* not believe that the IP is ready: no frame is ever sent into a busy IP.
OneFrameOutstanding ==
  clean /\ app # NULL =>
    /\ \A j, k \in Outstanding : j = k
    /\ Outstanding # {} => ~ReadySeen

\* Blocking transfer (wait = true, terminate_all on a timeout): all words of
\* a frame in the IP come from one message, and while the engine still reads,
\* they come from the message in the buffer.
FrameFromOneMessage ==
  clean =>
    /\ \A m, n \in ipFrom : m = n
    /\ chan = "busy" /\ ipWords > 0 => ipFrom = {tx_buf}

\* No DMA outlives its caller: a process that is gone, or whose daemon is in
\* user mode, has no descriptor reading the (by then unmapped or reused)
\* transmit buffer.
NoStrayDma == chan = "busy" => daemon = "wait"

\* The driver signals the instance that is running: while its main thread is
\* in its loop, us_task is the task of that main thread and of no other.
SignalsReachMain == main \in {"setup", "spin", "sleep"} => us_task = app

\* Header of transfer-accelero-caeco.c ("Application to transfer Accelerometer-
\* data via AXIDMA to the CAECO-IP"): as long as it is not stopped and messages
\* arrive, it transfers again and again.
KeepsTransferring == <>[](main = "spin") => []<>(chan = "busy")

\* The exit path: after SIGINT the process ends, even when the daemon sits in
\* a DMA that never completes (the driver's wait is bounded).
SigintEndsProcess == (main = "spin" /\ ~run) ~> (app = NULL)
=============================================================================
