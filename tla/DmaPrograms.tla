----------------------------- MODULE DmaPrograms -----------------------------
(***************************************************************************)
(* The programs that use libaxidma, one after the other on the same board: *)
(*   "bench"  axidma-benchmark: both directions, checked, then timed       *)
(*   "sum"    test-transfer-sum: the core's sums beside those in software  *)
(*   "caeco"  test-transfer-caeco: one frame into the logic                *)
(*   "oneway", "twoway": a caller of the helpers in axidma_transfer.c,     *)
(*            which nothing in the repository calls                        *)
(*   "client" any client that keeps to libaxidma.h: calls in any order,    *)
(*            transmissions it does not wait for, a second init            *)
(***************************************************************************)
EXTENDS LibAxiDma, Integers

CONSTANTS
  Programs,     \* which of the programs are run
  Launches,     \* bound: programs run one after the other
  TxWords,      \* words of test-transfer-sum's buffer (663 in the code)
  Samples,      \* values of the message's samples
  BenchSizes,   \* sizes the benchmark can be asked for; the largest is the default
  Rounds,       \* bound: transfers a benchmark times, rounds of test-transfer-sum (4)
  ClientCalls   \* bound: calls of a client

ASSUME ProgramAssumption ==
  /\ TxWords \in Nat \ {0} /\ Rounds \in Nat \ {0} /\ Launches \in Nat \ {0}
  /\ ClientCalls \in Nat /\ Samples \subseteq Words
  /\ BenchSizes \subseteq Nat \ {0} /\ \E n \in BenchSizes : \A m \in BenchSizes : m <= n
  /\ Programs \subseteq {"bench", "sum", "caeco", "oneway", "twoway", "client"}

VARIABLES
  prog,      \* the program that runs
  launched,  \* programs launched so far
  args,      \* the benchmark's command line
  pc,        \* where the program is
  round,     \* transfers done, or calls of a client
  rc,        \* its result: 0 or -1
  mapped,    \* which of the two buffers are mapped
  tx_buf, rx_buf,  \* their contents
  chans,     \* the transmit and the receive channel
  shown,     \* the results test-transfer-sum has just printed
  lost,      \* history: a transmission of this program failed
  stale      \* history: it was launched on logic that was not idle

procVars == <<pc, round, rc, mapped, tx_buf, rx_buf, chans, shown>>
runVars  == <<prog, launched, args, stale>>
vars == <<libVars, procVars, runVars, lost>>

NoChans == <<NoId, NoId>>
PCs == {"args", "init", "tx_buf", "rx_buf", "chans", "fill", "test", "tx", "tx_wait", "rx",
        "rx_wait", "both", "both_wait", "verify", "run", "free_rx", "free_tx", "destroy", "exit"}

DefaultSize == CHOOSE n \in BenchSizes : \A m \in BenchSizes : m <= n

\* ids is what follows -t and -r (NoId: not given), frames which of -f and -g are;
\* without -v those two only set the sizes.
CommandLines ==
  LET Ids == ChannelIds(tree) \cup {NoId}
  IN  {a \in [vdma : BOOLEAN, frames : SUBSET {"tx", "rx"}, ids : Ids \X Ids,
              tx_size : BenchSizes, rx_size : BenchSizes] : a.vdma \/ a.frames = {}}
NoArgs == [vdma |-> FALSE, frames |-> {}, ids |-> NoChans, tx_size |-> DefaultSize, rx_size |-> DefaultSize]

HasRx  == prog \in {"bench", "sum", "twoway"}
Helper == prog \in {"oneway", "twoway"}
TxSize == CASE prog = "bench" -> args.tx_size [] prog = "sum" -> TxWords [] OTHER -> N
RxSize == CASE prog = "bench" -> args.rx_size
            [] prog = "sum" -> (TxWords + N - 1) \div N [] OTHER -> N
TxKind == IF args.vdma THEN "vmm2s" ELSE "mm2s"
RxKind == IF args.vdma THEN "vs2mm" ELSE "s2mm"

TypeOK ==
  /\ LibTypeOK
  /\ prog \in Programs /\ launched \in 1 .. Launches /\ args \in CommandLines /\ pc \in PCs
  /\ round \in Nat /\ rc \in {0, -1} /\ mapped \subseteq {"tx", "rx"}
  /\ \A buf \in {tx_buf, rx_buf, shown} : ToSet(buf) \subseteq Words
  /\ chans \in (ChannelIds(tree) \cup {NoId}) \X (ChannelIds(tree) \cup {NoId})
  /\ lost \in BOOLEAN /\ stale \in BOOLEAN

\* main of program p is entered.
Starts(p, a) == IF p = "bench" THEN a \in CommandLines ELSE a = NoArgs
Entry(p) == IF p = "bench" THEN "args" ELSE "init"

Init ==
  /\ LibInit
  /\ prog \in Programs /\ launched = 1 /\ args \in CommandLines \cup {NoArgs} /\ Starts(prog, args)
  /\ pc = Entry(prog) /\ round = 0 /\ rc = 0 /\ mapped = {} /\ tx_buf = <<>> /\ rx_buf = <<>>
  /\ chans = NoChans /\ shown = <<>> /\ lost = FALSE /\ stale = FALSE

\* The next program: the kernel has unmapped and closed what the last one left; what
\* the hardware still does is not the new process's business.
Launch ==
  /\ pc = "exit" /\ launched < Launches /\ launched' = launched + 1
  /\ prog' \in Programs /\ args' \in CommandLines \cup {NoArgs} /\ Starts(prog', args')
  /\ pc' = Entry(prog') /\ round' = 0 /\ rc' = 0 /\ mapped' = {}
  /\ tx_buf' = <<>> /\ rx_buf' = <<>> /\ chans' = NoChans /\ shown' = <<>>
  /\ handle' = NewHandle /\ sigs' = <<>> /\ s2mm' = NoReception
  /\ mm2s' = [i \in DOMAIN mm2s |-> [mm2s[i] EXCEPT !.wait = TRUE]]
  /\ stale' = (ip # Fresh \/ outq # <<>> \/ mm2s # <<>>) /\ lost' = FALSE
  /\ UNCHANGED <<tree, table, fabric, ip, outq, misuse>>

\* From one place of a program to the next.
At(from) == pc = from
Goto(to) == pc' = to
Fails(to) == rc' = -1 /\ pc' = to
-----------------------------------------------------------------------------
(* Set-up.                                                                 *)

\* parse_args: channels and sizes are given in pairs, and -v wants -f and -g.
Refused == \/ (args.ids[1] = NoId) # (args.ids[2] = NoId)
           \/ (args.tx_size = DefaultSize) # (args.rx_size = DefaultSize)

\* The two flags that tell whether -f and -g were given are not initialised: without
\* them the command line is refused, or the program goes on with frames of -1 x -1.
parse_args ==
  /\ At("args")
  /\ LET unset == args.vdma /\ args.frames # {"tx", "rx"}
     IN  \/ ~Refused /\ Goto("init") /\ UNCHANGED rc
            /\ misuse' = misuse \cup Tag(unset, "unset_frame")
         \/ (Refused \/ unset) /\ Fails("exit") /\ UNCHANGED misuse
  /\ UNCHANGED <<tree, table, fabric, handle, sigs, hwVars, round, mapped, tx_buf, rx_buf,
                 chans, shown, runVars, lost>>

\* The call of axidma_init; without a handle the program ends.
OpenLibrary ==
  /\ At("init")
  /\ \/ axidma_init(TRUE) /\ UNCHANGED rc
        /\ Goto(CASE Helper -> "chans" [] prog = "client" -> "run" [] OTHER -> "tx_buf")
     \/ axidma_init(FALSE) /\ Fails("exit")
  /\ UNCHANGED <<round, mapped, tx_buf, rx_buf, chans, shown, runVars, lost>>

\* axidma_malloc of the transmit buffer.
MallocTx ==
  /\ At("tx_buf")
  /\ \/ /\ mapped' = mapped \cup {"tx"} /\ tx_buf' = [i \in 1 .. TxSize |-> 0] /\ UNCHANGED rc
        /\ Goto(CASE HasRx -> "rx_buf" [] prog = "oneway" -> "fill" [] OTHER -> "chans")
     \/ MayFail /\ Fails("destroy") /\ UNCHANGED <<mapped, tx_buf>>
  /\ UNCHANGED <<libVars, round, rx_buf, chans, shown, runVars, lost>>

\* Mistake: the helper's exit, taken by every program.
MallocRx_KeepsTx ==
  /\ At("rx_buf")
  /\ \/ /\ mapped' = mapped \cup {"rx"} /\ rx_buf' = [i \in 1 .. RxSize |-> 0] /\ UNCHANGED rc
        /\ Goto(IF Helper THEN "fill" ELSE "chans")
     \/ MayFail /\ Fails("destroy") /\ UNCHANGED <<mapped, rx_buf>>
  /\ UNCHANGED <<libVars, round, tx_buf, chans, shown, runVars, lost>>

\* axidma_malloc of the receive buffer; init_axidma_trans_twoway leaves the transmit
\* buffer mapped when it fails.
MallocRx ==
  /\ At("rx_buf")
  /\ \/ /\ mapped' = mapped \cup {"rx"} /\ rx_buf' = [i \in 1 .. RxSize |-> 0] /\ UNCHANGED rc
        /\ Goto(IF Helper THEN "fill" ELSE "chans")
     \/ MayFail /\ Fails(IF Helper THEN "destroy" ELSE "free_tx") /\ UNCHANGED <<mapped, rx_buf>>
  /\ UNCHANGED <<libVars, round, tx_buf, chans, shown, runVars, lost>>

\* The channels: those of the command line, or the first one of each direction.
\* init_axidma_trans_twoway does not destroy the handle without a receive channel.
PickChannels ==
  /\ At("chans")
  /\ \/ /\ handle.len[TxKind] < 1 /\ UNCHANGED chans
        /\ Fails(IF Helper THEN "destroy" ELSE IF HasRx THEN "free_rx" ELSE "free_tx")
     \/ /\ handle.len[TxKind] >= 1 /\ HasRx /\ handle.len[RxKind] < 1 /\ UNCHANGED chans
        /\ Fails(IF Helper THEN "exit" ELSE "free_rx")
     \/ /\ handle.len[TxKind] >= 1 /\ (HasRx => handle.len[RxKind] >= 1) /\ UNCHANGED rc
        /\ chans' = IF args.ids # NoChans THEN args.ids
                    ELSE <<FirstChannel(TxKind), IF HasRx THEN FirstChannel(RxKind) ELSE NoId>>
        /\ Goto(CASE Helper -> "tx_buf" [] prog = "bench" -> "test" [] OTHER -> "fill")
  /\ UNCHANGED <<libVars, round, mapped, tx_buf, rx_buf, shown, runVars, lost>>

\* fill_tx_buffer puts the samples into the transmit buffer.  fill_buffers fills the
\* receive buffer too, where buf[cnt++] = cnt may store either value of cnt.
FillBuffers ==
  /\ At("fill")
  /\ tx_buf' \in [1 .. TxSize -> Samples]
  /\ IF prog = "twoway"
     THEN \E late \in BOOLEAN : rx_buf' = [i \in 1 .. RxSize |-> (IF late THEN i ELSE i - 1) % Modulus]
     ELSE UNCHANGED rx_buf
  /\ Goto(IF prog = "twoway" THEN "both" ELSE "tx")
  /\ UNCHANGED <<libVars, round, rc, mapped, chans, shown, runVars, lost>>
-----------------------------------------------------------------------------
(* Transfers.                                                              *)

\* A transmission returns: test-transfer-sum goes on whatever the result, which the
\* one of the reception replaces; test-transfer-caeco returns without freeing.
SendReturned(ok) ==
  /\ lost' = (lost \/ ~ok) /\ rc' = IF ok THEN 0 ELSE -1
  /\ Goto(CASE prog = "sum" -> "rx" [] prog = "caeco" /\ ~ok -> "exit" [] OTHER -> "free_tx")

Send ==
  /\ At("tx")
  /\ \/ axidma_oneway_transfer(chans[1], tx_buf, TRUE) /\ Goto("tx_wait") /\ UNCHANGED <<rc, lost>>
     \/ IoctlFails /\ SendReturned(FALSE)
  /\ UNCHANGED <<round, mapped, tx_buf, rx_buf, chans, shown, runVars>>

SendWaits ==
  /\ At("tx_wait")
  /\ \E ok \in BOOLEAN : SendEnds(ok) /\ SendReturned(ok)
  /\ UNCHANGED <<round, mapped, tx_buf, rx_buf, chans, shown, runVars>>

\* The reception of test-transfer-sum, which returns without freeing if it fails.
Receive ==
  /\ At("rx")
  /\ \/ OnewayReceives(chans[2], RxSize) /\ Goto("rx_wait") /\ UNCHANGED rc
     \/ IoctlFails /\ Fails("exit")
  /\ UNCHANGED <<round, mapped, tx_buf, rx_buf, chans, shown, runVars, lost>>

\* Its results are printed beside those of calc_output.
ReceiveWaits ==
  /\ At("rx_wait") /\ rx_buf' = Received(rx_buf)
  /\ \/ /\ ReceiveEnds(TRUE) /\ rc' = 0
        /\ shown' = Received(rx_buf) /\ round' = round + 1
        /\ Goto(IF round + 1 < Rounds THEN "tx" ELSE "free_rx")
     \/ ReceiveEnds(FALSE) /\ Fails("exit") /\ UNCHANGED <<shown, round>>
  /\ UNCHANGED <<mapped, tx_buf, chans, runVars, lost>>

\* init_data: TEST_PATTERN, which differs from word to word.
TEST_PATTERN(i) == i % Modulus
init_data ==
  /\ At("test")
  /\ tx_buf' = [i \in 1 .. TxSize |-> TEST_PATTERN(i)]
  /\ rx_buf' = [i \in 1 .. RxSize |-> TEST_PATTERN(i + TxSize)]
  /\ Goto("both")
  /\ UNCHANGED <<libVars, round, rc, mapped, chans, shown, runVars, lost>>

\* single_transfer_test and time_dma: a failure ends the benchmark; the first
\* transfer is verified, the others are counted.
BothReturned(ok) ==
  /\ rc' = (IF ok THEN 0 ELSE -1) /\ lost' = (lost \/ ~ok) /\ round' = round + 1
  /\ Goto(IF prog = "twoway" \/ ~ok \/ round >= Rounds THEN "free_rx"
          ELSE IF round = 0 THEN "verify" ELSE "both")

Both ==
  /\ At("both")
  /\ \/ /\ axidma_twoway_transfer(chans[1], tx_buf, chans[2], RxSize, TRUE)
        /\ Goto("both_wait") /\ UNCHANGED <<rc, lost, round>>
     \/ axidma_twoway_transfer(chans[1], tx_buf, chans[2], RxSize, FALSE) /\ BothReturned(FALSE)
     \/ Twoway(chans[1], chans[2]) /\ IoctlFails /\ BothReturned(FALSE)
     \/ /\ ~Twoway(chans[1], chans[2]) /\ misuse' = misuse \cup {"abort_channel"}
        /\ UNCHANGED <<tree, table, fabric, handle, sigs, hwVars, pc, rc, lost, round>>
  /\ UNCHANGED <<mapped, tx_buf, rx_buf, chans, shown, runVars>>

BothWaits ==
  /\ At("both_wait") /\ rx_buf' = Received(rx_buf)
  /\ \E ok \in BOOLEAN : ReceiveEnds(ok) /\ BothReturned(ok)
  /\ UNCHANGED <<mapped, tx_buf, chans, shown, runVars>>

\* verify_data: nothing writes the transmit buffer; the receive buffer must differ
\* from its initial pattern somewhere.
verify_data ==
  /\ At("verify")
  /\ IF \A i \in DOMAIN rx_buf : rx_buf[i] = TEST_PATTERN(i + TxSize)
     THEN Fails("free_rx") ELSE Goto("both") /\ UNCHANGED rc
  /\ UNCHANGED <<libVars, round, mapped, tx_buf, rx_buf, chans, shown, runVars, lost>>
-----------------------------------------------------------------------------
(* A client's calls, and the end of the programs.                          *)

\* A client transmits single words; it may not wait, and may open the library again.
Client ==
  /\ At("run") /\ round < ClientCalls /\ round' = round + 1
  /\ \/ \E ok \in BOOLEAN : axidma_init(ok)
     \/ /\ handle.initialized
        /\ \E i \in DOMAIN table :
             /\ table[i].kind.dir = "WRITE"
             /\ \/ axidma_set_callback(table[i].id)
                \/ axidma_oneway_transfer(table[i].id, <<0>>, FALSE)
                \/ axidma_stop_transfer(table[i].id)
  /\ UNCHANGED <<pc, rc, mapped, tx_buf, rx_buf, chans, shown, runVars, lost>>

ClientCloses ==
  /\ At("run") /\ handle.initialized /\ axidma_destroy
  /\ UNCHANGED <<procVars, runVars, lost>>

ClientEnds ==
  /\ At("run") /\ ~handle.initialized /\ Goto("exit")
  /\ UNCHANGED <<libVars, round, rc, mapped, tx_buf, rx_buf, chans, shown, runVars, lost>>

\* axidma_free of the buffers, in the order the programs map them backwards.
axidma_free ==
  /\ \/ At("free_rx") /\ mapped' = mapped \ {"rx"} /\ Goto("free_tx")
     \/ At("free_tx") /\ mapped' = mapped \ {"tx"} /\ Goto("destroy")
  /\ UNCHANGED <<libVars, round, rc, tx_buf, rx_buf, chans, shown, runVars, lost>>

CloseLibrary ==
  /\ At("destroy") /\ axidma_destroy /\ Goto("exit")
  /\ UNCHANGED <<round, rc, mapped, tx_buf, rx_buf, chans, shown, runVars, lost>>

\* A pending signal is handled before the program's next step; main may have returned
\* when it comes, with the process not gone yet.
Signal == axidma_callback /\ UNCHANGED <<procVars, runVars, lost>>

Hardware == (SendWord \/ FetchWord) /\ UNCHANGED <<procVars, runVars, lost>>

\* No program is left, or what it does is no longer defined.
Ended == (pc = "exit" /\ launched = Launches) \/ misuse # {}

Program ==
  \/ parse_args \/ OpenLibrary \/ MallocTx \/ MallocRx \/ PickChannels \/ FillBuffers
  \/ Send \/ SendWaits \/ Receive \/ ReceiveWaits
  \/ init_data \/ Both \/ BothWaits \/ verify_data
  \/ Client \/ ClientCloses \/ ClientEnds
  \/ axidma_free \/ CloseLibrary

Next ==
  \/ misuse = {} /\ sigs = <<>> /\ Program
  \/ misuse = {} /\ (Signal \/ Hardware \/ Launch)
  \/ Ended /\ UNCHANGED vars

Spec == Init /\ [][Next]_vars
-----------------------------------------------------------------------------
(* Properties.                                                             *)

\* Every line test-transfer-sum prints for the hardware is the one it has printed for
\* the software, unless the logic was not idle when it was launched.  The result of the
\* transmission, which the program overwrites, is not needed for that: when words are
\* lost, too few sums come back and the reception fails.
HardwareMatchesSoftware ==
  prog = "sum" /\ fabric.core = "sum" /\ shown # <<>> /\ ~stale
    => shown = calc_output(tx_buf)

\* Nothing undefined and no failed assertion, except: the arrays overflow when the
\* library is initialised a second time, or where 'compatible' is missing; a channel
\* id is not below the number of channels; a command line names a channel that is not
\* there, or has -v without frames; a completion nobody waited for comes after
\* axidma_destroy.  The last cannot happen to a program that finds the logic idle, whose
\* transfers succeed and that receives as much as it transmits.
OnlyKnownFaults ==
  /\ "overrun" \in misuse => \/ prog = "client" /\ round > 0
                            \/ \E i \in DOMAIN tree.dmas : tree.dmas[i].compat = "missing"
  /\ misuse \cap {"channel_index", "abort_signal"} # {} => ~DenseIds(tree)
  /\ "abort_channel" \in misuse => args.ids # NoChans
  /\ "unset_frame" \in misuse => args.vdma
  /\ "callback_freed" \in misuse =>
       \/ prog = "client" \/ lost \/ stale
       \/ prog = "bench" /\ args.rx_size < args.tx_size

\* A buffer is unmapped only while it is mapped, the handle destroyed only once, and a
\* program ends with neither left, except: the test programs return at once when a
\* transfer fails, and init_axidma_trans_twoway when it finds no receive channel or
\* cannot map its second buffer.
ReleasesWhatItHas ==
  /\ pc = "free_rx" => mapped = {"tx", "rx"}
  /\ pc = "free_tx" => "tx" \in mapped /\ "rx" \notin mapped
  /\ pc = "destroy" => handle.initialized /\ (mapped # {} => prog = "twoway")
  /\ pc = "exit" /\ (mapped # {} \/ handle.initialized) =>
       rc = -1 /\ (prog \in {"sum", "caeco"} => chans # NoChans) /\ prog \in {"sum", "caeco", "twoway"}
=============================================================================
