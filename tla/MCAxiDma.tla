------------------------------ MODULE MCAxiDma ------------------------------
(* Instances of AxiDma: which thread may ask for which transfers.          *)
EXTENDS AxiDma, TLC

CONSTANTS t1, t2, tx, rx

\* t1 waits on the receive channel, alone or coupled with a transmission; t2
\* streams video and sends buffers on the same transmit channel and never waits.
MixedCalls == (t1 :> {axidma_rw_transfer(tx, rx, TRUE), axidma_read_transfer(rx, TRUE)}) @@
              (t2 :> {axidma_video_transfer(tx), axidma_write_transfer(tx, FALSE)})

ASSUME OneUserHolds == OneUser
=============================================================================
