---------------------------- MODULE AxiDmaDevice ----------------------------
(***************************************************************************)
(* The AXI DMA driver around its transfers: module, probe and remove       *)
(* (axi_dma.c, axidma_dma.c), the character device and the buffers of its  *)
(* processes (axidma_chrdev.c).  What a transfer does with its descriptor  *)
(* is in AxiDma; here a descriptor only names the memory it uses and the   *)
(* caller that waits for it.                                               *)
(*                                                                         *)
(* Each probe allocates a device structure, numbered 1, 2, ...: a file, a  *)
(* list and the global axidma_dev may outlive the structure they point to. *)
(* The use of such a pointer, and of other memory that is not the driver's,*)
(* is recorded in misuse and ends the behaviour: what follows is undefined.*)
(***************************************************************************)
EXTENDS AxiDmaTree, SequencesExt

CONSTANTS
  Procs,      \* processes that use /dev/axidma
  Trees,      \* device trees to probe with
  Space,      \* pages of a process that buffers can be mapped to: 0 .. Space - 1
  Features,   \* "external" buffers, "unbind" through sysfs, "fail"ing steps
  MaxBinds,   \* bound: probes
  MaxAllocs,  \* bound: buffers mapped or registered
  MaxPend     \* bound: descriptors outstanding at a time

ASSUME DeviceAssumption ==
  /\ \A t \in Trees : t.names \in Nat /\ t.dmas \in Seq([id : Nat, arg : Nat, kids : Nat, compat : STRING])
  /\ Space \in Nat \ {0} /\ MaxBinds \in Nat /\ MaxAllocs \in Nat /\ MaxPend \in Nat
  /\ Features \subseteq {"external", "unbind", "fail"}

VARIABLES
  tree,       \* the device tree
  mod,        \* the module: "out", "in" or "exiting"
  pc,         \* what the driver core does with the device, see PCs
  held,       \* resources held for the device that is probed or bound
  leaked,     \* resources a failed probe left behind
  reserved,   \* DMA channels requested from the dmaengine
  gen,        \* device structures allocated so far
  live,       \* those not freed
  axidma_dev, \* the global pointer of axidma_chrdev.c; 0: NULL
  own,        \* dmabuf_list of each structure, as indices of al
  ext,        \* external_dmabufs of each structure
  file,       \* private_data of each process's open file; 0: no file
  fd,         \* file descriptor of each process: "new", "open" or "closed"
  al,         \* all allocations made so far, see Allocations
  maps,       \* allocations with a mapping (VMA)
  pend,       \* descriptors the hardware may still work on
  waits,      \* the channel id a process waits for; NoId: none
  events,     \* history: what users and administrators did
  misuse      \* history: what the driver did to memory it does not own

devVars  == <<tree, mod, pc, held, leaked, reserved, gen, live, axidma_dev>>
bufVars  == <<own, ext, al, maps>>
procVars == <<file, fd, waits>>
histVars == <<events, misuse>>
vars == <<devVars, bufVars, procVars, pend, histVars>>

Gens      == 1 .. MaxBinds
Resources == {"dev", "channels", "cb_data", "region", "class", "device", "cdev"}
ProbePCs  == {"mask", "count", "channels", "cb_data", "parse", "request",
              "region", "class", "device", "cdev", "lists"}
RemovePCs == {"chrdev_exit", "dma_exit", "kfree"}
PCs == {"unbound", "bound", "oops"} \cup ProbePCs \cup RemovePCs

\* What an allocation holds: struct axidma_dma_allocation with its DMA memory,
\* struct axidma_external_allocation with its dma_buf, attachment and mapping.
OwnParts == {"struct", "coherent"}
ExtParts == {"struct", "get", "attach", "map"}
Allocations ==
  [kind : {"own", "ext"}, dev : Gens, proc : Procs, addr : 0 .. Space - 1,
   size : 1 .. Space, parts : SUBSET (OwnParts \cup ExtParts)]

Descriptors ==
  [buf : 1 .. MaxAllocs, off : 0 .. Space, len : 1 .. Space, proc : Procs,
   ch : Nat, wait : BOOLEAN]

TypeOK ==
  /\ tree \in Trees /\ mod \in {"out", "in", "exiting"} /\ pc \in PCs
  /\ held \subseteq Resources /\ leaked \subseteq Resources
  /\ reserved \in 0 .. Len(tree.dmas)
  /\ gen \in 0 .. MaxBinds /\ live \subseteq 1 .. gen /\ axidma_dev \in 0 .. gen
  /\ \A d \in Gens : ToSet(own[d]) \cup ToSet(ext[d]) \subseteq DOMAIN al
  /\ file \in [Procs -> 0 .. gen] /\ fd \in [Procs -> {"new", "open", "closed"}]
  /\ waits \in [Procs -> ChannelIds(tree) \cup {NoId}]
  /\ Len(al) <= MaxAllocs /\ ToSet(al) \subseteq Allocations /\ maps \subseteq DOMAIN al
  /\ pend \subseteq Descriptors

Init ==
  /\ tree \in Trees /\ mod = "out" /\ pc = "unbound" /\ held = {} /\ leaked = {}
  /\ reserved = 0 /\ gen = 0 /\ live = {} /\ axidma_dev = 0
  /\ own = [d \in Gens |-> <<>>] /\ ext = [d \in Gens |-> <<>>]
  /\ file = [p \in Procs |-> 0] /\ fd = [p \in Procs |-> "new"]
  /\ al = <<>> /\ maps = {} /\ pend = {} /\ waits = [p \in Procs |-> NoId]
  /\ events = {} /\ misuse = {}

\* May a step fail that the device tree does not decide?
Fails == "fail" \in Features
-----------------------------------------------------------------------------
(* Module load and unload (axi_dma.c).                                     *)

axidma_init ==
  /\ mod = "out" /\ gen < MaxBinds
  /\ mod' = "in"
  /\ UNCHANGED <<tree, pc, held, leaked, reserved, gen, live, axidma_dev, bufVars,
                 procVars, pend, histVars>>

\* rmmod: an open or mapped file pins the module (owner of axidma_fops).
axidma_exit ==
  /\ mod = "in" /\ \A p \in Procs : file[p] = 0
  /\ pc \in {"unbound", "bound"}
  /\ mod' = "exiting"
  /\ UNCHANGED <<tree, pc, held, leaked, reserved, gen, live, axidma_dev, bufVars,
                 procVars, pend, histVars>>

ExitReturns ==
  /\ mod = "exiting" /\ pc = "unbound"
  /\ mod' = "out"
  /\ UNCHANGED <<tree, pc, held, leaked, reserved, gen, live, axidma_dev, bufVars,
                 procVars, pend, histVars>>
-----------------------------------------------------------------------------
(* axidma_probe with axidma_dma_init and axidma_chrdev_init.               *)

\* A probe that gives up releases rel; axidma_dma_exit or release_channels
\* gives back all channels requested.
GiveUp(rel) ==
  /\ pc' = "unbound" /\ held' = {} /\ leaked' = leaked \cup (held \ rel)
  /\ live' = IF "dev" \in rel THEN live \ {gen} ELSE live

\* One step: with ok the resources got are held and the next step follows.
ProbeStep(at, ok, bad, got, next, rel) ==
  /\ pc = at /\ mod # "out"
  /\ \/ /\ ok /\ pc' = next /\ held' = held \cup got
        /\ UNCHANGED <<leaked, live>>
     \/ bad /\ GiveUp(rel)

\* The driver core matches the device; kmalloc of the device structure.
axidma_probe ==
  /\ mod = "in" /\ pc = "unbound" /\ gen < MaxBinds
  /\ \/ /\ pc' = "mask" /\ held' = {"dev"}
        /\ gen' = gen + 1 /\ live' = live \cup {gen + 1}
     \/ /\ Fails
        /\ UNCHANGED <<pc, held, gen, live>>
  /\ UNCHANGED <<tree, mod, leaked, reserved, axidma_dev, bufVars, procVars, pend,
                 events, misuse>>

probeRest == <<tree, mod, gen, bufVars, procVars, pend, events, misuse>>

\* axidma_dma_init: the coherent mask, then the number of channels.
ProbeMask ==
  /\ ProbeStep("mask", TRUE, Fails, {}, "count", {"dev"})
  /\ UNCHANGED <<probeRest, reserved, axidma_dev>>
ProbeCount ==
  LET n == axidma_of_num_channels(tree)
  IN  /\ ProbeStep("count", n > 0, n = 0, {}, "channels", {"dev"})
      /\ UNCHANGED <<probeRest, reserved, axidma_dev>>

\* The two arrays of axidma_dma_init.
ProbeChannels ==
  /\ ProbeStep("channels", TRUE, Fails, {"channels"}, "cb_data", {"dev"})
  /\ UNCHANGED <<probeRest, reserved, axidma_dev>>
ProbeCbData ==
  /\ ProbeStep("cb_data", TRUE, Fails, {"cb_data"}, "parse", {"channels", "dev"})
  /\ UNCHANGED <<probeRest, reserved, axidma_dev>>

\* Parsing the tree: a failure returns at once and leaves both arrays behind; a
\* channel node that is missing is dereferenced.
ProbeParse ==
  LET result == axidma_of_parse_dma_nodes(tree)
  IN  /\ \/ ProbeStep("parse", result = "ok", result = "error", {}, "request", {"dev"})
            /\ UNCHANGED misuse
         \/ /\ pc = "parse" /\ result = "oops"
            /\ pc' = "oops" /\ misuse' = misuse \cup {"null_child"}
            /\ UNCHANGED <<held, leaked, live>>
      /\ UNCHANGED <<tree, mod, gen, bufVars, procVars, pend, events, reserved, axidma_dev>>

\* Mistakes: the loop asks for one channel more; the loop of release_channels is not
\* there.
axidma_request_channels_OneMore ==
  /\ \/ /\ reserved' = reserved + 1
        /\ ProbeStep("request", TRUE, FALSE, {},
                     IF reserved = Len(tree.dmas) THEN "region" ELSE "request", {})
     \/ /\ reserved' = 0
        /\ ProbeStep("request", FALSE, Fails, {}, "region", {"cb_data", "channels", "dev"})
  /\ UNCHANGED <<probeRest, axidma_dev>>
axidma_request_channels_NoRelease ==
  /\ \/ /\ reserved' = reserved + 1
        /\ ProbeStep("request", TRUE, FALSE, {},
                     IF reserved + 1 = Len(tree.dmas) THEN "region" ELSE "request", {})
     \/ /\ reserved' = reserved
        /\ ProbeStep("request", FALSE, Fails, {}, "region", {"cb_data", "channels", "dev"})
  /\ UNCHANGED <<probeRest, axidma_dev>>

\* axidma_request_channels, one channel at a time; release_channels.
axidma_request_channels ==
  /\ \/ /\ reserved' = reserved + 1
        /\ ProbeStep("request", TRUE, FALSE, {},
                     IF reserved + 1 = Len(tree.dmas) THEN "region" ELSE "request", {})
     \/ /\ reserved' = 0
        /\ ProbeStep("request", FALSE, Fails, {}, "region", {"cb_data", "channels", "dev"})
  /\ UNCHANGED <<probeRest, axidma_dev>>

\* axidma_chrdev_init: the global pointer is set first and never taken back;
\* axidma_probe's destroy_dma_dev releases the channels.
ChrdevStep(at, got, next, rel) ==
  /\ ProbeStep(at, TRUE, Fails, got, next, rel \cup {"cb_data", "channels", "dev"})
  /\ reserved' = IF pc' = "unbound" THEN 0 ELSE reserved
  /\ axidma_dev' = gen
  /\ UNCHANGED probeRest

ProbeRegion == ChrdevStep("region", {"region"}, "class", {})
ProbeClass  == ChrdevStep("class", {"class"}, "device", {"region"})
ProbeDevice == ChrdevStep("device", {"device"}, "cdev", {"class", "region"})
\* From cdev_add on the device can be opened.
ProbeCdev   == ChrdevStep("cdev", {"cdev"}, "lists", {"device", "class", "region"})

\* INIT_LIST_HEAD of both lists, after cdev_add; dev_set_drvdata.
ProbeLists ==
  /\ pc = "lists" /\ pc' = "bound"
  /\ own' = [own EXCEPT ![gen] = <<>>] /\ ext' = [ext EXCEPT ![gen] = <<>>]
  /\ UNCHANGED <<tree, mod, held, leaked, reserved, gen, live, axidma_dev, al, maps,
                 procVars, pend, histVars>>
-----------------------------------------------------------------------------
(* axidma_remove.                                                          *)

\* unbind through sysfs, whoever has the device open, or the module's exit.
StartRemove ==
  /\ pc = "bound" /\ (mod = "exiting" \/ "unbind" \in Features)
  /\ pc' = "chrdev_exit"
  /\ events' = events \cup (IF \E p \in Procs : file[p] = gen THEN {"removed_open"} ELSE {})
  /\ UNCHANGED <<tree, mod, held, leaked, reserved, gen, live, axidma_dev, bufVars,
                 procVars, pend, misuse>>

axidma_chrdev_exit ==
  /\ pc = "chrdev_exit" /\ pc' = "dma_exit"
  /\ held' = held \ {"cdev", "device", "class", "region"}
  /\ events' = events \cup (IF \E p \in Procs : file[p] = gen THEN {"removed_open"} ELSE {})
  /\ UNCHANGED <<tree, mod, leaked, reserved, gen, live, axidma_dev, bufVars, procVars,
                 pend, misuse>>

\* axidma_dma_exit: dmaengine_terminate_all on every channel, then release.
axidma_dma_exit ==
  /\ pc = "dma_exit" /\ pc' = "kfree"
  /\ pend' = {}
  /\ reserved' = 0 /\ held' = held \ {"channels", "cb_data"}
  /\ UNCHANGED <<tree, mod, leaked, gen, live, axidma_dev, bufVars, procVars, histVars>>

\* kfree of the device structure; axidma_dev keeps pointing to it.
axidma_remove ==
  /\ pc = "kfree" /\ pc' = "unbound"
  /\ held' = held \ {"dev"} /\ live' = live \ {gen}
  /\ UNCHANGED <<tree, mod, leaked, reserved, gen, axidma_dev, bufVars, procVars, pend, histVars>>
-----------------------------------------------------------------------------
(* File operations: open, close, mmap and munmap.                          *)

\* The structure behind a file is freed, or its arrays are.
Gone(d)   == d \notin live \/ (d = gen /\ pc = "kfree")
\* The device can be opened, but its lists are not initialised.
Uninit(d) == d = gen /\ pc = "lists"
Tag(cond, what) == IF cond THEN {what} ELSE {}
Uses(d) == Tag(Gone(d), "removed_device") \cup Tag(Uninit(d), "uninit_lists")

\* A process that may make a call on its file.
Calls(p) == fd[p] = "open" /\ waits[p] = NoId

\* axidma_open: by root and with O_EXCL, which excludes nobody.
axidma_open(p) ==
  /\ mod = "in" /\ "cdev" \in held /\ fd[p] = "new"
  /\ fd' = [fd EXCEPT ![p] = "open"] /\ file' = [file EXCEPT ![p] = axidma_dev]
  /\ UNCHANGED <<devVars, bufVars, waits, pend, histVars>>

\* close: the file is released when its last mapping is gone too.
axidma_release(p) ==
  /\ Calls(p)
  /\ fd' = [fd EXCEPT ![p] = "closed"]
  /\ file' = IF \E i \in maps : al[i].proc = p THEN file ELSE [file EXCEPT ![p] = 0]
  /\ misuse' = misuse \cup Tag(Gone(file[p]), "removed_device")
  /\ UNCHANGED <<devVars, bufVars, waits, pend, events>>

\* Pages a .. a + n - 1 of p are in no buffer of p.
FreePages(p, a, n) ==
  /\ a + n <= Space
  /\ \A i \in DOMAIN al : al[i].proc = p /\ al[i].parts # {}
                          => al[i].addr + al[i].size <= a \/ a + n <= al[i].addr

\* The steps of a set-up up to the one that fails leave what they got, less what
\* the exit releases.
Upto(steps, fail) == {steps[k] : k \in {j \in DOMAIN steps : \A m \in 1 .. j : steps[m] # fail}}

MmapSteps == <<"struct", "coherent", "remap">>

\* The exits free_dma_region and free_vma_data of axidma_mmap.
MmapReleases(fail) ==
  CASE fail = "remap" -> {"coherent", "struct"} [] fail = "coherent" -> {"struct"} [] OTHER -> {}

\* A new allocation, if anything of it is left; onto the list when the set-up
\* succeeded.  list_add to a list that is not initialised is recorded.
Enter(p, rec, fail, list) ==
  LET kept == IF rec.parts = {} THEN al ELSE Append(al, rec)
  IN  /\ al' = kept
      /\ list' = IF fail = "none" THEN [list EXCEPT ![rec.dev] = <<Len(kept)>> \o @] ELSE list
      /\ misuse' = misuse \cup Tag(Gone(rec.dev), "removed_device")
                          \cup Tag(fail = "none" /\ Uninit(rec.dev), "uninit_lists")

axidma_mmap(p, a, n, fail) ==
  /\ Calls(p) /\ FreePages(p, a, n) /\ Len(al) < MaxAllocs
  /\ fail # "none" => Fails
  /\ Enter(p, [kind |-> "own", dev |-> file[p], proc |-> p, addr |-> a, size |-> n,
               parts |-> (Upto(MmapSteps, fail) \ {"remap"}) \ MmapReleases(fail)],
           fail, own)
  /\ maps' = IF fail = "none" THEN maps \cup {Len(al) + 1} ELSE maps
  /\ UNCHANGED <<devVars, ext, procVars, pend, events>>

\* Mistake: the allocation stays in the list.
axidma_vma_close_NoListDel(i) ==
  /\ i \in maps /\ waits[al[i].proc] = NoId
  /\ al' = [al EXCEPT ![i].parts = {}] /\ maps' = maps \ {i}
  /\ file' = file
  /\ UNCHANGED <<own, misuse, devVars, ext, fd, waits, pend, events>>

\* munmap or exit: axidma_vma_close frees the memory through the global device,
\* whether or not a descriptor still uses it.  The last mapping of a closed file
\* releases it.
axidma_vma_close(i) ==
  LET p == al[i].proc
  IN  /\ i \in maps /\ waits[p] = NoId
      /\ al' = [al EXCEPT ![i].parts = {}] /\ maps' = maps \ {i}
      /\ own' = [own EXCEPT ![al[i].dev] = RemoveFirst(@, i)]   \* list_del
      /\ file' = IF fd[p] = "closed" /\ \A j \in maps \ {i} : al[j].proc # p
                   THEN [file EXCEPT ![p] = 0] ELSE file
      /\ misuse' = misuse \cup Tag(Gone(axidma_dev) \/ Gone(al[i].dev), "removed_device")
      /\ UNCHANGED <<devVars, ext, fd, waits, pend, events>>
-----------------------------------------------------------------------------
(* Buffers of other drivers: AXIDMA_REGISTER_BUFFER and _UNREGISTER_BUFFER.  *)

GetSteps == <<"struct", "get", "attach", "map", "contiguous">>

\* The exits of axidma_get_external, from unmap_ext_dma down.
GetReleases(fail) ==
  CASE fail = "contiguous" -> {"map", "attach", "get", "struct"}
    [] fail = "map"        -> {"attach", "get", "struct"}
    [] fail = "attach"     -> {"get", "struct"}
    [] fail = "get"        -> {"struct"}
    [] OTHER               -> {}

\* The size is the caller's, that of the buffer is not looked at.
axidma_get_external(p, a, n, fail) ==
  /\ "external" \in Features
  /\ Calls(p) /\ FreePages(p, a, n) /\ Len(al) < MaxAllocs
  /\ fail # "none" => Fails
  /\ Enter(p, [kind |-> "ext", dev |-> file[p], proc |-> p, addr |-> a, size |-> n,
               parts |-> (Upto(GetSteps, fail) \ {"contiguous"}) \ GetReleases(fail)],
           fail, ext)
  /\ UNCHANGED <<devVars, own, maps, procVars, pend, events>>

\* The first element of a list that satisfies Test, 0 if none does, and the elements
\* looked at on the way.
FirstIn(list, Test(_)) ==
  LET k == SelectInSeq(list, Test) IN IF k = 0 THEN 0 ELSE list[k]
Walked(list, Test(_)) ==
  LET k == SelectInSeq(list, Test)
  IN  ToSet(IF k = 0 THEN list ELSE SubSeq(list, 1, k))

\* axidma_put_external: everything of the allocation is given back, but it stays in
\* the list; its end counts as inside.
axidma_put_external(p, a) ==
  LET d == file[p]
      Match(i) == al[i].addr <= a /\ a <= al[i].addr + al[i].size
      i == FirstIn(ext[d], Match)
  IN  /\ "external" \in Features /\ Calls(p)
      /\ al' = IF i = 0 THEN al ELSE [al EXCEPT ![i].parts = {}]
      /\ events' = events \cup Tag(i # 0, "put")
      /\ misuse' = misuse \cup Uses(d)
           \cup Tag(\E j \in Walked(ext[d], Match) : al[j].parts = {}, "stale_external")
           \cup Tag(/\ i # 0
                    /\ \E j \in ToSet(ext[d]) \ {i} :
                         /\ al[j].proc = p /\ al[j].parts # {}
                         /\ al[j].addr <= a /\ a < al[j].addr + al[j].size, "wrong_put")
      /\ UNCHANGED <<devVars, own, ext, maps, procVars, pend>>
-----------------------------------------------------------------------------
(* Transfers, as far as they use buffers and channels.                     *)

\* valid_dma_request
valid_dma_request(i, a, n) ==
  al[i].addr <= a /\ a + n <= al[i].addr + al[i].size

\* axidma_uservirt_to_dma: own buffers first, each list newest first; 0: none.
axidma_uservirt_to_dma(d, a, n) ==
  LET Match(i) == valid_dma_request(i, a, n)
  IN  IF FirstIn(own[d], Match) # 0 THEN FirstIn(own[d], Match) ELSE FirstIn(ext[d], Match)

\* What the look-up touches that it should not.
LookupMisuse(d, a, n) ==
  LET Match(i) == valid_dma_request(i, a, n)
  IN  Uses(d) \cup Tag(/\ FirstIn(own[d], Match) = 0
                       /\ \E j \in Walked(ext[d], Match) : al[j].parts = {}, "stale_external")

\* axidma_init_sg_entry: the address of the request as a descriptor, or -EFAULT.
axidma_init_sg_entry(p, ch, a, n, w) ==
  LET i == axidma_uservirt_to_dma(file[p], a, n)
  IN  IF i = 0 THEN {}
      ELSE {[buf |-> i, off |-> a - al[i].addr, len |-> n, proc |-> p, ch |-> ch, wait |-> w]}

\* axidma_get_chan, then cb_data[channel_id].
axidma_get_chan(ch) == ch \in ChannelIds(tree)
CbMisuse(ch) == Tag(ch >= Len(tree.dmas), "cb_index")

\* A read, write or video transfer: without a buffer the call ends; otherwise the
\* descriptor is submitted.
Transfer(p, ch, a, n, w) ==
  LET x == axidma_init_sg_entry(p, ch, a, n, w)
      tags == LookupMisuse(file[p], a, n)
  IN  /\ Calls(p) /\ axidma_get_chan(ch) /\ Cardinality(pend) < MaxPend
      /\ \/ /\ x = {} \/ tags # {}
            /\ misuse' = misuse \cup tags
            /\ UNCHANGED <<pend, waits>>
         \/ /\ x # {} /\ tags = {}
            /\ pend' = pend \cup x
            /\ waits' = IF w THEN [waits EXCEPT ![p] = ch] ELSE waits
            /\ misuse' = misuse \cup tags \cup CbMisuse(ch)
      /\ UNCHANGED <<devVars, bufVars, file, fd, events>>

\* The condition of axidma_video_transfer and axidma_stop_channel ("chan == NULL &&")
\* dereferences a channel that does not exist.
NullChannel(p) ==
  /\ Calls(p)
  /\ misuse' = misuse \cup {"null_channel"}
  /\ UNCHANGED <<devVars, bufVars, procVars, pend, events>>

\* The hardware finishes a descriptor and the callback wakes its caller.
Complete(x) ==
  /\ x \in pend
  /\ pend' = pend \ {x}
  /\ waits' = IF x.wait THEN [waits EXCEPT ![x.proc] = NoId] ELSE waits
  /\ UNCHANGED <<devVars, bufVars, file, fd, histVars>>

OnChannel(ch) == {x \in pend : x.ch = ch}

\* Mistake: return without stop_dma.
WaitTimesOut_NoStop(p) ==
  /\ waits[p] # NoId /\ pend' = pend
  /\ waits' = [waits EXCEPT ![p] = NoId] /\ misuse' = misuse
  /\ UNCHANGED <<devVars, bufVars, file, fd, events>>

\* axidma_start_transfer: the wait, which no signal interrupts, times out; stop_dma.
WaitTimesOut(p) ==
  /\ waits[p] # NoId
  /\ pend' = pend \ OnChannel(waits[p])
  /\ waits' = [waits EXCEPT ![p] = NoId]
  /\ misuse' = misuse \cup Tag(Gone(file[p]), "removed_device")
  /\ UNCHANGED <<devVars, bufVars, file, fd, events>>

\* axidma_stop_channel, also on a channel somebody else waits for.
axidma_stop_channel(p, ch) ==
  /\ Calls(p) /\ axidma_get_chan(ch)
  /\ pend' = pend \ OnChannel(ch)
  /\ misuse' = misuse \cup Tag(Gone(file[p]), "removed_device")
  /\ UNCHANGED <<devVars, bufVars, procVars, events>>

\* axidma_ioctl: a call of p on its file (the buffer calls are listed in Next).
axidma_ioctl(p) ==
  \/ \E ch \in ChannelIds(tree), a \in 0 .. Space - 1, n \in 1 .. Space, w \in BOOLEAN :
       Transfer(p, ch, a, n, w)
  \/ \E ch \in ChannelIds(tree) : axidma_stop_channel(p, ch)
  \/ NullChannel(p)

\* What follows the use of memory that is not the driver's is not modelled.
Defined == misuse \subseteq {"wrong_put"}

Steps ==
  \/ axidma_init \/ axidma_exit \/ ExitReturns
  \/ axidma_probe \/ ProbeMask \/ ProbeCount \/ ProbeChannels \/ ProbeCbData \/ ProbeParse
  \/ axidma_request_channels \/ ProbeRegion \/ ProbeClass \/ ProbeDevice \/ ProbeCdev \/ ProbeLists
  \/ StartRemove \/ axidma_chrdev_exit \/ axidma_dma_exit \/ axidma_remove
  \/ \E p \in Procs : axidma_open(p) \/ axidma_release(p) \/ axidma_ioctl(p) \/ WaitTimesOut(p)
  \/ \E p \in Procs, a \in 0 .. Space - 1, n \in 1 .. Space :
       \/ \E f \in ToSet(MmapSteps) \cup {"none"} : axidma_mmap(p, a, n, f)
       \/ \E f \in ToSet(GetSteps) \cup {"none"} : axidma_get_external(p, a, n, f)
  \/ \E p \in Procs, a \in 0 .. Space - 1 : axidma_put_external(p, a)
  \/ \E i \in maps : axidma_vma_close(i)
  \/ \E x \in pend : Complete(x)

Next == Defined /\ Steps

Spec == Init /\ [][Next]_vars
-----------------------------------------------------------------------------
(* Properties.                                                             *)

\* dmabuf_list, as mmap and vma_close leave it: a bound device lists exactly the
\* buffers that are mapped through it, newest first, and a buffer has its memory
\* and its structure as long as it is mapped and neither of them afterwards.  An
\* external buffer is attached completely or not at all, and never forgotten.
BuffersAccounted ==
  /\ \A d \in live :
       ~Uninit(d) => /\ ToSet(own[d]) = {i \in maps : al[i].dev = d}
                     /\ \A j, k \in DOMAIN own[d] : j < k => own[d][j] > own[d][k]
  /\ \A i \in DOMAIN al :
       \/ al[i].kind = "own" /\ al[i].parts = (IF i \in maps THEN OwnParts ELSE {})
       \/ /\ al[i].kind = "ext" /\ al[i].parts \in {ExtParts, {}}
          /\ i \in ToSet(ext[al[i].dev])

\* A descriptor stays inside the buffer the look-up found, and while a process waits
\* for a transfer of its own mapped buffer that memory is not freed: not by an
\* unmapping, a timeout, another process or the removal of the device.
DmaInsideLiveMemory ==
  \A x \in pend :
    LET b == al[x.buf]
    IN  /\ x.off + x.len <= b.size
        /\ x.wait /\ b.kind = "own" /\ b.proc = x.proc => b.parts = OwnParts

\* The driver uses memory it does not own only in these cases: the device was removed
\* while open; an external buffer was unregistered (it stays in the list, and its end
\* counts as inside); a channel id is not below the number of channels; two processes
\* use the same address; a process opens the device before its lists are initialised;
\* the tree asks for the second channel of a node that has one; a video transfer or a
\* stop names no channel.  A probe that failed and a remove leave nothing but the two
\* arrays when parsing failed.
OnlyKnownFaults ==
  /\ "removed_device" \in misuse => "removed_open" \in events
  /\ "stale_external" \in misuse => "put" \in events
  /\ "wrong_put" \in misuse =>
       \E i, j \in DOMAIN al : /\ i # j /\ al[i].kind = "ext"
                               /\ \/ al[i].proc # al[j].proc
                                  \/ al[j].addr = al[i].addr + al[i].size
  /\ "cb_index" \in misuse => ~DenseIds(tree)
  /\ "uninit_lists" \in misuse => pc = "lists"
  /\ "null_child" \in misuse => \E i \in DOMAIN tree.dmas : tree.dmas[i].kids = 1
  /\ pc = "unbound" => held = {} /\ reserved = 0
  /\ leaked \subseteq {"channels", "cb_data"} /\ (leaked # {} => axidma_of_parse_dma_nodes(tree) = "error")
=============================================================================
