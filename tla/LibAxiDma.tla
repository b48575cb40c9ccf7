------------------------------ MODULE LibAxiDma ------------------------------
(***************************************************************************)
(* libaxidma, the user space library of the AXI DMA driver: one static     *)
(* handle per process, the signal handler for completions nobody waits     *)
(* for, and the transfers, which the DMA engine and the programmable logic *)
(* carry out.  The driver is seen from its ioctls; what it does inside is  *)
(* in AxiDma and AxiDmaDevice.  The use of memory that is not the process's*)
(* own and an assertion that fails end the behaviour; misuse says which.   *)
(***************************************************************************)
EXTENDS AxiDmaTree, SumKernel

CONSTANTS
  Trees,    \* device trees the driver was probed with
  Fabrics,  \* programmable logics: the core "sum" or a "loop", and the depth in words
            \* of the way from it to the receive channel
  MayFail   \* may open, mmap, malloc and the ioctls fail?

\* The driver was probed: axidma_of.c has accepted the tree.
ASSUME LibAssumption ==
  /\ \A t \in Trees :
       /\ t.names \in Nat /\ t.dmas \in Seq([id : Nat, arg : Nat, kids : Nat, compat : STRING])
       /\ axidma_of_num_channels(t) > 0 /\ axidma_of_parse_dma_nodes(t) = "ok"
  /\ Fabrics \subseteq [core : {"sum", "loop"}, depth : Nat \ {0}] /\ MayFail \in BOOLEAN

VARIABLES
  tree,     \* the device tree
  table,    \* the channels the driver reports, as parsed from it
  fabric,   \* the programmable logic of the board
  handle,   \* the process's struct axidma_dev
  sigs,     \* channel ids of the completion signals pending for the process
  ip,       \* sum_330: its locals
  outq,     \* results not yet received
  mm2s,     \* words submitted for transmission and not yet sent
  s2mm,     \* the reception: words wanted and got (want = 0: none)
  misuse    \* history: what the process did that is not defined

hwVars  == <<ip, outq, mm2s, s2mm>>
libVars == <<tree, table, fabric, handle, sigs, hwVars, misuse>>

Words == 0 .. Modulus - 1
Beats == [data : Words, last : BOOLEAN]
Faults == {"overrun", "channel_index", "abort_signal", "abort_channel",
           "callback_freed", "unset_frame"}

\* The handle of a new process (a zeroed static), and an idle receive channel.
NewHandle == [initialized |-> FALSE, arrays |-> "null", num |-> 0,
              len |-> [k \in DOMAIN Kinds |-> 0]]
NoReception == [want |-> 0, got |-> <<>>, done |-> FALSE]

LibTypeOK ==
  /\ tree \in Trees /\ table \in ChannelTables(tree) /\ fabric \in Fabrics
  /\ handle \in [initialized : BOOLEAN, arrays : {"null", "ok", "freed"}, num : Nat,
                 len : [DOMAIN Kinds -> Nat]]
  /\ ToSet(sigs) \subseteq ChannelIds(tree)
  /\ ip.cnt \in 0 .. N - 1 /\ ip.sum \in Words
  /\ Len(outq) <= fabric.depth /\ ToSet(outq) \subseteq Beats
  /\ ToSet(mm2s) \subseteq [data : Words, last : BOOLEAN, id : ChannelIds(tree), wait : BOOLEAN]
  /\ Len(s2mm.got) <= s2mm.want /\ ToSet(s2mm.got) \subseteq Words
  /\ misuse \subseteq Faults

LibInit ==
  /\ tree \in Trees /\ table \in ChannelTables(tree) /\ fabric \in Fabrics
  /\ handle = NewHandle /\ sigs = <<>>
  /\ ip = Fresh /\ outq = <<>> /\ mm2s = <<>> /\ s2mm = NoReception
  /\ misuse = {}

Tag(condition, fault) == IF condition THEN {fault} ELSE {}
-----------------------------------------------------------------------------
(* The handle.                                                             *)

\* Positions of the channels of a kind, in the order of the channel table.
OfKind(k) == {i \in DOMAIN table : table[i].kind = Kinds[k]}

\* categorize_channels: each kind's array is as long as the driver's counter says;
\* its len is counted on, from what an earlier use of the handle left there.
categorize_channels ==
  LET len  == [k \in DOMAIN Kinds |-> handle.len[k] + Cardinality(OfKind(k))]
      room == axidma_get_num_channels(tree)
  IN  /\ handle' = [initialized |-> TRUE, arrays |-> "ok", num |-> Len(table), len |-> len]
      /\ misuse' = misuse \cup Tag(\E k \in DOMAIN Kinds : len[k] > room[k], "overrun")

\* probe_channels fails in an ioctl or a malloc; categorize_channels may have freed
\* the arrays it had, whose pointers stay in the handle.
probe_fails ==
  /\ MayFail /\ UNCHANGED misuse
  /\ handle' \in {handle, [handle EXCEPT !.arrays = "freed"]}

\* axidma_init, on a handle that is not initialized.  It returns NULL with the file
\* closed, or the handle; setup_dma_callback asks for SIGRTMIN, which is not refused.
axidma_init(ok) ==
  /\ ~handle.initialized
  /\ IF ok THEN categorize_channels ELSE probe_fails
  /\ UNCHANGED <<tree, table, fabric, sigs, hwVars>>

\* axidma_destroy: lengths, num_channels and the signal handler stay as they are.
axidma_destroy ==
  /\ handle' = [handle EXCEPT !.initialized = FALSE, !.arrays = "freed"]
  /\ UNCHANGED <<tree, table, fabric, sigs, hwVars, misuse>>

\* find_channel, and what axidma_get_dma_tx and its siblings show first.
find_channel(id) == {i \in DOMAIN table : table[i].id = id}
FirstChannel(k) == table[CHOOSE i \in OfKind(k) : \A j \in OfKind(k) : i <= j].id

\* axidma_set_callback: the id is used as an index.
axidma_set_callback(id) ==
  /\ find_channel(id) # {}
  /\ misuse' = misuse \cup Tag(id >= handle.num, "channel_index")
  /\ UNCHANGED <<tree, table, fabric, handle, sigs, hwVars>>

\* axidma_callback, the handler of SIGRTMIN: the assertion, then channels[id].
axidma_callback ==
  /\ sigs # <<>> /\ sigs' = Tail(sigs)
  /\ misuse' = misuse \cup Tag(Head(sigs) >= handle.num, "abort_signal")
                      \cup Tag(Head(sigs) < handle.num /\ handle.arrays = "freed", "callback_freed")
  /\ UNCHANGED <<tree, table, fabric, handle, hwVars>>
-----------------------------------------------------------------------------
(* Transfers.                                                              *)

\* The transmit descriptor of a buffer, as the words it streams.
Descriptor(buf, id, wait) ==
  [i \in DOMAIN buf |-> [data |-> buf[i], last |-> i = Len(buf), id |-> id, wait |-> wait]]

Reception(words) == [want |-> words, got |-> <<>>, done |-> FALSE]

\* axidma_oneway_transfer: the ioctl submits buf, or words to receive, or fails; a
\* caller that waits comes back when the descriptor is complete or timed out.
axidma_oneway_transfer(id, buf, wait) ==
  /\ find_channel(id) # {}
  /\ mm2s' = mm2s \o Descriptor(buf, id, wait)
  /\ UNCHANGED <<tree, table, fabric, handle, sigs, ip, outq, s2mm, misuse>>

OnewayReceives(id, words) ==
  /\ find_channel(id) # {}
  /\ s2mm' = Reception(words)
  /\ UNCHANGED <<tree, table, fabric, handle, sigs, ip, outq, mm2s, misuse>>

\* The ioctl of a transfer returns before anything was submitted.
IoctlFails == MayFail /\ UNCHANGED libVars

\* The assertions of axidma_twoway_transfer.
Twoway(tx, rx) ==
  /\ \E i \in find_channel(tx) : table[i].kind.dir = "WRITE"
  /\ \E i \in find_channel(rx) : table[i].kind.dir = "READ"

\* axidma_twoway_transfer: the transmission is not waited for, so its completion is
\* signalled.  The reception may be refused when the transmission is under way.
axidma_twoway_transfer(tx, buf, rx, words, received) ==
  /\ Twoway(tx, rx)
  /\ received \/ MayFail
  /\ mm2s' = mm2s \o Descriptor(buf, tx, FALSE)
  /\ s2mm' = IF received THEN Reception(words) ELSE s2mm
  /\ UNCHANGED <<tree, table, fabric, handle, sigs, ip, outq, misuse>>

\* The words that another channel is to send, in their order (a recursive function
\* where SelectSeq would do, since what SelectSeq returns cannot be proved).
Others(words, id) ==
  LET kept[n \in 0 .. Len(words)] ==
        IF n = 0 THEN <<>>
        ELSE IF words[n].id = id THEN kept[n - 1] ELSE Append(kept[n - 1], words[n])
  IN  kept[Len(words)]

\* axidma_stop_transfer: what was not sent is dropped and not signalled.
axidma_stop_transfer(id) ==
  /\ find_channel(id) # {}
  /\ mm2s' = Others(mm2s, id)
  /\ UNCHANGED <<tree, table, fabric, handle, sigs, ip, outq, s2mm, misuse>>

\* What the programmable logic answers to the next word.
Answer ==
  IF fabric.core = "sum" THEN sum_330(ip, Head(mm2s))
  ELSE [ip |-> ip, out |-> <<[data |-> Head(mm2s).data, last |-> Head(mm2s).last]>>]

CanSend  == mm2s # <<>> /\ Len(outq) + Len(Answer.out) <= fabric.depth
CanFetch == outq # <<>> /\ s2mm.want > 0 /\ ~s2mm.done

\* A word goes out; the last one of a descriptor nobody waits for is signalled.
SendWord ==
  /\ CanSend
  /\ ip' = Answer.ip /\ outq' = outq \o Answer.out /\ mm2s' = Tail(mm2s)
  /\ sigs' = IF Head(mm2s).last /\ ~Head(mm2s).wait THEN Append(sigs, Head(mm2s).id) ELSE sigs
  /\ UNCHANGED <<tree, table, fabric, handle, s2mm, misuse>>

\* Mistake: the length of the buffer does not end the reception.
FetchWord_NoLength ==
  /\ CanFetch
  /\ outq' = Tail(outq)
  /\ s2mm' = [s2mm EXCEPT !.got = Append(@, Head(outq).data), !.done = Head(outq).last]
  /\ UNCHANGED <<tree, table, fabric, handle, sigs, ip, mm2s, misuse>>

\* A result is received; a full buffer or the last bit completes the reception.
FetchWord ==
  /\ CanFetch
  /\ outq' = Tail(outq)
  /\ s2mm' = [s2mm EXCEPT !.got = Append(@, Head(outq).data),
                          !.done = Head(outq).last \/ Len(s2mm.got) + 1 = s2mm.want]
  /\ UNCHANGED <<tree, table, fabric, handle, sigs, ip, mm2s, misuse>>

\* A wait times out only when the hardware has come to a halt.
Halted == ~CanSend /\ ~CanFetch

\* The driver's wait for a transmission or a reception ends; a timeout stops the
\* channel, which drops what was not sent but not what the core has taken.
SendEnds(ok) ==
  /\ IF ok THEN mm2s = <<>> ELSE mm2s # <<>> /\ Halted
  /\ mm2s' = <<>>
  /\ UNCHANGED <<tree, table, fabric, handle, sigs, ip, outq, s2mm, misuse>>

\* Mistake: the call does not wait for the reception.
ReceiveEnds_NoWait(ok) ==
  /\ IF ok THEN s2mm.want > 0 ELSE s2mm.want > 0 /\ ~s2mm.done /\ Halted
  /\ s2mm' = NoReception
  /\ UNCHANGED <<tree, table, fabric, handle, sigs, ip, outq, mm2s, misuse>>

\* The wait for a reception ends in the same ways.
ReceiveEnds(ok) ==
  /\ IF ok THEN s2mm.done ELSE s2mm.want > 0 /\ ~s2mm.done /\ Halted
  /\ s2mm' = NoReception
  /\ UNCHANGED <<tree, table, fabric, handle, sigs, ip, outq, mm2s, misuse>>

\* What a reception leaves in its buffer.
Received(buf) == s2mm.got \o SubSeq(buf, Len(s2mm.got) + 1, Len(buf))
=============================================================================
