----------------------- MODULE CaecoHandshakeProofs -----------------------
(***************************************************************************)
(* Machine-checked proofs about CaecoHandshake, for every set of instances *)
(* and messages and every frame length.                                    *)
(***************************************************************************)
EXTENDS CaecoHandshake, TLAPS

\* Who is alive: the process ids and the program counters agree.
Lives ==
  /\ app = NULL => main = "none" /\ daemon = "none"
  /\ app # NULL => main # "none" /\ us_task = app
  /\ main = "setup" => daemon = "none"
  /\ app = NULL \/ main = "gone" => ~sigPending

\* A descriptor is with the engine exactly while the daemon sleeps on it.
Blocking == chan = "busy" <=> daemon = "wait"

\* How far the IP is with its frame.
Frame ==
  /\ ip = "busy" <=> ipWords = FrameLen
  /\ ipWords = 0 <=> ipFrom = {}

\* Words of the current descriptor are still to be streamed.
Streaming == chan = "busy" /\ sent < FrameLen

\* One token circulates: ready flag -> descriptor -> IP -> irq -> signal.
Token ==
  clean /\ app # NULL =>
    /\ irq \/ sigPending => ipWords = 0 /\ ~Streaming
    /\ ~(irq /\ sigPending)
    /\ ipWords > 0 \/ irq \/ sigPending \/ Streaming => ~ReadySeen
    /\ Streaming => ip = "idle" /\ ipWords = sent

\* The engine reads a buffer nobody writes.
Stable ==
  clean =>
    /\ \A m, n \in ipFrom : m = n
    /\ chan = "busy" /\ ipWords > 0 => ipFrom = {tx_buf}

IndInv == TypeOK /\ Lives /\ Blocking /\ Frame /\ Token /\ Stable

\* The inductive invariant implies what the runs check.
LEMMA IndInvImplies ==
  IndInv => /\ OneFrameOutstanding /\ FrameFromOneMessage
            /\ NoStrayDma /\ SignalsReachMain
<1> SUFFICES ASSUME IndInv
             PROVE  /\ OneFrameOutstanding /\ FrameFromOneMessage
                    /\ NoStrayDma /\ SignalsReachMain
  OBVIOUS
<1>1. OneFrameOutstanding
  BY FrameLenAssumption
  DEF IndInv, TypeOK, Frame, Token, Streaming, ReadySeen, OneFrameOutstanding, Outstanding
<1>2. FrameFromOneMessage
  BY DEF IndInv, Stable, FrameFromOneMessage
<1>3. NoStrayDma
  BY DEF IndInv, Blocking, NoStrayDma
<1>4. SignalsReachMain
  BY DEF IndInv, Lives, SignalsReachMain
<1> QED
  BY <1>1, <1>2, <1>3, <1>4

\* The inductive invariant holds initially.
LEMMA InitIndInv == Init => IndInv
<1> SUFFICES ASSUME Init PROVE IndInv
  OBVIOUS
<1>1. TypeOK
  <2>1. FrameLen \in Nat /\ 0 \in 0 .. FrameLen
    BY FrameLenAssumption
  <2> QED
    BY <2>1, Zenon DEF Init, TypeOK, MainPC, DaemonPC
<1>2. Lives /\ Blocking
  BY <1>1 DEF Init, TypeOK, Lives, Blocking
<1>3. Frame /\ Stable
  BY <1>1, FrameLenAssumption DEF Init, TypeOK, Frame, Stable
<1>4. Token
  BY <1>1 DEF Init, TypeOK, Token
<1> QED
  BY <1>1, <1>2, <1>3, <1>4 DEF IndInv

\* Every step preserves the inductive invariant.
LEMMA NextIndInv == IndInv /\ [Next]_vars => IndInv'
<1> SUFFICES ASSUME IndInv, [Next]_vars PROVE IndInv'
  OBVIOUS
<1> USE FrameLenAssumption, NullAssumption, SwitchAssumption
<1> USE DEF IndInv
<1>1. ASSUME NEW a \in Apps, OpenDevice(a) PROVE IndInv'
  <2> USE <1>1 DEF OpenDevice, caeco_open, IpQuiet, appVars, drvVars, dmaVars, ipVars
  <2>1. TypeOK'
    BY DEF TypeOK, MainPC, DaemonPC
  <2>2. Lives' /\ Blocking'
    BY <2>1 DEF TypeOK, Lives, Blocking
  <2>3. Frame' /\ Stable'
    BY <2>1 DEF TypeOK, Frame, Stable, Blocking, Lives
  <2>4. Token'
    BY <2>1 DEF TypeOK, Token, Streaming, ReadySeen, Lives, Blocking, Frame
  <2> QED
    BY <2>1, <2>2, <2>3, <2>4
<1>2. ASSUME NEW m \in Msgs, FillBuffer(m) PROVE IndInv'
  BY <1>2
  DEF FillBuffer, TypeOK, Lives, Blocking, Frame, Token, Stable, Streaming, ReadySeen,
      MainPC, DaemonPC, appVars, drvVars, dmaVars, ipVars
<1>3. CASE signal_keyboard
  <2> USE <1>3 DEF signal_keyboard, appVars, drvVars, dmaVars, ipVars
  <2>1. TypeOK'
    BY Zenon DEF TypeOK
  <2>2. Lives' /\ Blocking'
    BY <2>1 DEF TypeOK, Lives, Blocking
  <2>3. Frame' /\ Stable'
    BY <2>1 DEF TypeOK, Frame, Stable, Blocking, Lives
  <2>4. Token'
    BY <2>1 DEF TypeOK, Token, Streaming, ReadySeen, Lives, Blocking, Frame
  <2> QED
    BY <2>1, <2>2, <2>3, <2>4
<1>4. CASE SetupFails
  BY <1>4
  DEF SetupFails, TypeOK, Lives, Blocking, Frame, Token, Stable, Streaming, ReadySeen,
      MainPC, DaemonPC, appVars, drvVars, dmaVars, ipVars
<1>5. CASE StartDaemon
  BY <1>5
  DEF StartDaemon, TypeOK, Lives, Blocking, Frame, Token, Stable, Streaming, ReadySeen,
      MainPC, DaemonPC, appVars, drvVars, dmaVars, ipVars
<1>6. CASE signal_caeco
  <2> USE <1>6 DEF signal_caeco, appVars, drvVars, dmaVars, ipVars
  <2>1. TypeOK'
    BY Zenon DEF TypeOK
  <2>2. Lives' /\ Blocking'
    BY <2>1 DEF TypeOK, Lives, Blocking
  <2>3. Frame' /\ Stable'
    BY <2>1 DEF TypeOK, Frame, Stable, Blocking, Lives
  <2>4. Token'
    BY <2>1 DEF TypeOK, Token, Streaming, ReadySeen, Lives, Blocking, Frame
  <2> QED
    BY <2>1, <2>2, <2>3, <2>4
<1>7. CASE LeaveSpin
  BY <1>7
  DEF LeaveSpin, TypeOK, Lives, Blocking, Frame, Token, Stable, Streaming, ReadySeen,
      MainPC, DaemonPC, appVars, drvVars, dmaVars, ipVars
<1>8. CASE exit_example
  BY <1>8
  DEF exit_example, TypeOK, Lives, Blocking, Frame, Token, Stable, Streaming, ReadySeen,
      MainPC, DaemonPC, appVars, drvVars, dmaVars, ipVars
<1>9. CASE MainExits
  <2> USE <1>9 DEF MainExits, caeco_release, appVars, drvVars, dmaVars, ipVars
  <2>1. TypeOK'
    BY DEF TypeOK, MainPC, DaemonPC
  <2>2. Lives' /\ Blocking'
    BY <2>1 DEF TypeOK, Lives, Blocking
  <2>3. Frame' /\ Stable'
    BY <2>1 DEF TypeOK, Frame, Stable, Blocking, Lives
  <2>4. Token'
    BY <2>1 DEF TypeOK, Token, Streaming, ReadySeen, Lives, Blocking, Frame
  <2> QED
    BY <2>1, <2>2, <2>3, <2>4
<1>10. CASE SkipFrame
  BY <1>10
  DEF SkipFrame, TypeOK, Lives, Blocking, Frame, Token, Stable, Streaming, ReadySeen,
      MainPC, DaemonPC, appVars, drvVars, dmaVars, ipVars
<1>11. CASE StartTransfer
  BY <1>11
  DEF StartTransfer, TypeOK, Lives, Blocking, Frame, Token, Stable, Streaming, ReadySeen,
      MainPC, DaemonPC, appVars, drvVars, dmaVars, ipVars
<1>12. CASE TransferRejected
  BY <1>12
  DEF TransferRejected, TypeOK, Lives, Blocking, Frame, Token, Stable, Streaming, ReadySeen,
      MainPC, DaemonPC, appVars, drvVars, dmaVars, ipVars
<1>13. CASE ClearReady
  BY <1>13
  DEF ClearReady, TypeOK, Lives, Blocking, Frame, Token, Stable, Streaming, ReadySeen,
      MainPC, DaemonPC, appVars, drvVars, dmaVars, ipVars
<1>14. CASE DaemonExits
  BY <1>14
  DEF DaemonExits, caeco_release, TypeOK, Lives, Blocking, Frame, Token, Stable, Streaming, ReadySeen,
      MainPC, DaemonPC, appVars, drvVars, dmaVars, ipVars
<1>15. CASE StreamWord
  BY <1>15
  DEF StreamWord, TypeOK, Lives, Blocking, Frame, Token, Stable, Streaming, ReadySeen,
      MainPC, DaemonPC, appVars, drvVars, dmaVars, ipVars
<1>16. CASE DmaComplete
  BY <1>16
  DEF DmaComplete, TypeOK, Lives, Blocking, Frame, Token, Stable, Streaming, ReadySeen,
      MainPC, DaemonPC, appVars, drvVars, dmaVars, ipVars
<1>17. CASE DmaTimeout
  BY <1>17
  DEF DmaTimeout, TypeOK, Lives, Blocking, Frame, Token, Stable, Streaming, ReadySeen,
      MainPC, DaemonPC, appVars, drvVars, dmaVars, ipVars
<1>18. CASE IpDone
  BY <1>18
  DEF IpDone, TypeOK, Lives, Blocking, Frame, Token, Stable, Streaming, ReadySeen,
      MainPC, DaemonPC, appVars, drvVars, dmaVars, ipVars
<1>19. CASE caeco_irq
  <2> USE <1>19 DEF caeco_irq, appVars, drvVars, dmaVars, ipVars
  <2>1. TypeOK'
    BY Zenon DEF TypeOK
  <2>2. Lives' /\ Blocking'
    BY <2>1 DEF TypeOK, Lives, Blocking
  <2>3. Frame' /\ Stable'
    BY <2>1 DEF TypeOK, Frame, Stable, Blocking, Lives
  <2>4. Token'
    BY <2>1 DEF TypeOK, Token, Streaming, ReadySeen, Lives, Blocking, Frame
  <2> QED
    BY <2>1, <2>2, <2>3, <2>4
<1>20. CASE UNCHANGED vars
  BY <1>20 DEF vars, TypeOK, Lives, Blocking, Frame, Token, Stable, Streaming, ReadySeen,
      MainPC, DaemonPC, appVars, drvVars, dmaVars, ipVars
<1> QED
  BY <1>1, <1>2, <1>3, <1>4, <1>5, <1>6, <1>7, <1>8, <1>9, <1>10, <1>11, <1>12, <1>13, <1>14, <1>15, <1>16, <1>17, <1>18, <1>19, <1>20
  DEF Next, MainStep, DaemonStep

\* The driver and the application keep their data well-typed.
THEOREM TypeCorrect == Spec => []TypeOK
<1>1. IndInv => TypeOK
  BY DEF IndInv
<1> QED
  BY <1>1, InitIndInv, NextIndInv, PTL DEF Spec

\* At most one frame is outstanding, and then the flag is not believed: the
\* handshake of caeco_rdy, caeco_irq and signal_caeco.
THEOREM HandshakeSafe == Spec => []OneFrameOutstanding
  BY InitIndInv, NextIndInv, IndInvImplies, PTL DEF Spec

\* A frame in the IP stems from one message: the transfer blocks the thread
\* that would overwrite the buffer, and a transfer given up is terminated.
THEOREM FrameIntegrity == Spec => []FrameFromOneMessage
  BY InitIndInv, NextIndInv, IndInvImplies, PTL DEF Spec

\* No descriptor outlives the ioctl that issued it.
THEOREM DmaBounded == Spec => []NoStrayDma
  BY InitIndInv, NextIndInv, IndInvImplies, PTL DEF Spec

\* While main runs, the driver's us_task is its task.
THEOREM SignalTarget == Spec => []SignalsReachMain
  BY InitIndInv, NextIndInv, IndInvImplies, PTL DEF Spec
=============================================================================
