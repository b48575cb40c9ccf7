---------------------------- MODULE CaecoDriver ----------------------------
(***************************************************************************)
(* Life cycle of the CAECO kernel module (caeco/caeco.c): module load and  *)
(* unload, the character device, and probe/remove of the platform device,  *)
(* with every failure exit of caeco_probe.  Opening /dev/caeco and the     *)
(* interrupt run between any two steps.  The kernel services it calls      *)
(* (memory regions, ioremap, request_irq, clocks) are external: here only  *)
(* who holds what.                                                         *)
(***************************************************************************)
EXTENDS Naturals, FiniteSets

CONSTANTS
  MaxBinds,   \* bound: how often the platform device is probed
  MaxOpens    \* bound: open files of /dev/caeco at a time

ASSUME BoundsAssumption == MaxBinds \in Nat /\ MaxOpens \in Nat

VARIABLES
  mod,        \* the module: "out", "in" or "exiting"
  chrdev,     \* chrdev, class and device node are registered
  opens,      \* open files of the device node; each pins the module
  drv,        \* the platform driver is registered
  pc,         \* what the driver core does with the device, see PCs
  held,       \* resources held for the device that is probed or bound
  leaked,     \* resources a failed probe left behind
  clkOn,      \* enable count this driver put on config_aclk
  started,    \* CMD = 1 was written: the IP takes data
  binds,      \* probes so far
  failed,     \* history: steps that failed so far
  misuse      \* history: resources released without being held

vars == <<mod, chrdev, opens, drv, pc, held, leaked, clkOn, started, binds, failed, misuse>>

Resources == {"lp", "drvdata", "region", "map", "irq"}
Steps == {"register_chrdev", "driver_register", "mem", "kmalloc", "region",
          "ioremap", "irq_resource", "request_irq", "clk_get", "clk_enable"}
ProbePCs  == {"kmalloc", "region", "ioremap", "irq", "clk"}
RemovePCs == {"free_irq", "iounmap", "release"}
PCs == {"unbound", "bound", "mem"} \cup ProbePCs \cup RemovePCs

TypeOK ==
  /\ mod \in {"out", "in", "exiting"}
  /\ chrdev \in BOOLEAN /\ drv \in BOOLEAN /\ started \in BOOLEAN
  /\ opens \in 0 .. MaxOpens
  /\ pc \in PCs /\ held \in SUBSET Resources /\ leaked \in SUBSET Resources
  /\ clkOn \in 0 .. MaxBinds /\ binds \in 0 .. MaxBinds
  /\ failed \in SUBSET Steps /\ misuse \in SUBSET (Resources \cup {"clk"})

Init ==
  /\ mod = "out" /\ chrdev = FALSE /\ opens = 0 /\ drv = FALSE
  /\ pc = "unbound" /\ held = {} /\ leaked = {} /\ clkOn = 0 /\ started = FALSE
  /\ binds = 0 /\ failed = {} /\ misuse = {}

modVars  == <<mod, chrdev, opens, drv>>
devVars  == <<pc, held, leaked, clkOn, started, binds, misuse>>

\* Release r: recorded as misuse when it is not held.
Missing(rs) == rs \ held
-----------------------------------------------------------------------------
(* Module load and unload.                                                 *)

\* caeco_chdev_init fails: caeco_init returns, nothing is registered.
ChdevInitFails ==
  /\ mod = "out" /\ ~chrdev
  /\ failed' = failed \cup {"register_chrdev"}
  /\ UNCHANGED <<modVars, devVars>>

\* caeco_chdev_init succeeds and platform_driver_register fails: insmod fails
\* and the character device is not taken back (its file operations are then
\* those of an unloaded module; a further insmod is not modelled).
RegisterFails ==
  /\ mod = "out" /\ ~chrdev
  /\ chrdev' = TRUE
  /\ failed' = failed \cup {"driver_register"}
  /\ UNCHANGED <<mod, opens, drv, devVars>>

\* caeco_init succeeds.
caeco_init ==
  /\ mod = "out" /\ ~chrdev
  /\ mod' = "in" /\ chrdev' = TRUE /\ drv' = TRUE
  /\ UNCHANGED <<opens, devVars, failed>>

\* caeco_exit, first part: the module is not in use, caeco_chdev_exit.
caeco_chdev_exit ==
  /\ mod = "in" /\ opens = 0 /\ pc \in {"unbound", "bound"}
  /\ mod' = "exiting" /\ chrdev' = FALSE
  /\ UNCHANGED <<opens, drv, devVars, failed>>

\* caeco_exit, second part: platform_driver_unregister, which removes a bound
\* device (see StartRemove) before it returns.
UnregisterDriver ==
  /\ mod = "exiting" /\ pc = "unbound"
  /\ mod' = "out" /\ drv' = FALSE
  /\ UNCHANGED <<chrdev, opens, devVars, failed>>

\* open and close of /dev/caeco (what caeco_open registers is in
\* CaecoHandshake).  THIS_MODULE as owner pins the module.
OpenFile ==
  /\ chrdev /\ mod = "in" /\ opens < MaxOpens
  /\ opens' = opens + 1
  /\ UNCHANGED <<mod, chrdev, drv, devVars, failed>>

CloseFile ==
  /\ opens > 0
  /\ opens' = opens - 1
  /\ UNCHANGED <<mod, chrdev, drv, devVars, failed>>
-----------------------------------------------------------------------------
(* caeco_probe, one action per call that can fail.                         *)

\* The driver core matches the device (at registration or bind).
StartProbe ==
  /\ mod = "in" /\ drv /\ pc = "unbound" /\ binds < MaxBinds
  /\ pc' = "mem" /\ binds' = binds + 1
  /\ UNCHANGED <<modVars, held, leaked, clkOn, started, failed, misuse>>

\* One step of the probe: with ok the resources got are held and the next
\* step follows; otherwise the probe releases rel and gives up.
ProbeStep(at, step, got, next, rel) ==
  /\ pc = at
  /\ \/ /\ pc' = next /\ held' = held \cup got
        /\ UNCHANGED <<failed, misuse, leaked>>
     \/ /\ pc' = "unbound" /\ held' = {} /\ leaked' = leaked \cup (held \ rel)
        /\ failed' = failed \cup {step} /\ misuse' = misuse \cup Missing(rel)
  /\ UNCHANGED <<modVars, clkOn, started, binds>>

\* platform_get_resource(IORESOURCE_MEM): fails with -ENODEV.
ProbeMem == ProbeStep("mem", "mem", {}, "kmalloc", {})
\* kmalloc and dev_set_drvdata: fails with -ENOMEM.
ProbeAlloc == ProbeStep("kmalloc", "kmalloc", {"lp", "drvdata"}, "region", {})
\* Mistake: return instead of goto error1.
ProbeRegion_Returns == ProbeStep("region", "region", {"region"}, "ioremap", {})

\* request_mem_region: error1.
ProbeRegion == ProbeStep("region", "region", {"region"}, "ioremap", {"lp", "drvdata"})
\* Mistake: the error exit unmaps as well.
ProbeIoremap_Unmaps ==
  ProbeStep("ioremap", "ioremap", {"map"}, "irq", {"map", "region", "lp", "drvdata"})

\* ioremap: error2.
ProbeIoremap == ProbeStep("ioremap", "ioremap", {"map"}, "irq", {"region", "lp", "drvdata"})
\* request_irq: error3, which starts with free_irq and leaves the mapping.
ProbeRequestIrq ==
  ProbeStep("irq", "request_irq", {"irq"}, "clk", {"irq", "region", "lp", "drvdata"})

\* No interrupt in the device tree: probe returns 0 without an interrupt,
\* without a clock and without starting the IP.
ProbeNoIrq ==
  /\ pc = "irq"
  /\ pc' = "bound" /\ failed' = failed \cup {"irq_resource"}
  /\ UNCHANGED <<modVars, held, leaked, clkOn, started, binds, misuse>>
\* Mistake: clk_prepare_enable followed by a second clk_enable.
caeco_clk_init_Twice ==
  \/ clkOn' = clkOn + 2 /\ UNCHANGED <<failed, misuse>>
  \/ failed' = failed \cup {"clk_get"} /\ UNCHANGED <<clkOn, misuse>>

\* caeco_clk_init, whose result the probe ignores: the clock is missing, is
\* enabled, or fails to enable (and is then disabled all the same).
caeco_clk_init ==
  \/ /\ clkOn' = clkOn + 1 /\ UNCHANGED <<failed, misuse>>
  \/ /\ failed' = failed \cup {"clk_get"} /\ UNCHANGED <<clkOn, misuse>>
  \/ /\ failed' = failed \cup {"clk_enable"} /\ misuse' = misuse \cup {"clk"}
     /\ UNCHANGED clkOn

\* The rest of the probe: clock, then caeco_start.
ProbeStart ==
  /\ pc = "clk" /\ caeco_clk_init
  /\ started' = TRUE /\ pc' = "bound"
  /\ UNCHANGED <<modVars, held, leaked, binds>>
-----------------------------------------------------------------------------
(* caeco_remove, in its order; the interrupt may fire between the steps.   *)

\* unbind through sysfs, or platform_driver_unregister.
StartRemove ==
  /\ pc = "bound" /\ pc' = "free_irq"
  /\ UNCHANGED <<modVars, held, leaked, clkOn, started, binds, failed, misuse>>

\* Release rs at one step of remove.
RemoveStep(at, rs, next) ==
  /\ pc = at /\ pc' = next
  /\ held' = held \ rs /\ misuse' = misuse \cup Missing(rs)
  /\ UNCHANGED <<modVars, leaked, clkOn, started, binds, failed>>
\* Mistakes: unmap while the handler is registered; wait for an IP that nobody
\* stops.
RemoveFreeIrq_UnmapsFirst == RemoveStep("free_irq", {"map"}, "iounmap")
RemoveFreeIrq_WaitsForIp == ~started /\ RemoveStep("free_irq", {"irq"}, "iounmap")

\* free_irq(lp->irq): also when probe never requested one.
RemoveFreeIrq == RemoveStep("free_irq", {"irq"}, "iounmap")
RemoveUnmap   == RemoveStep("iounmap", {"map"}, "release")
RemoveRelease == RemoveStep("release", {"region", "lp", "drvdata"}, "unbound")

Next ==
  \/ ChdevInitFails \/ RegisterFails \/ caeco_init
  \/ caeco_chdev_exit \/ UnregisterDriver \/ OpenFile \/ CloseFile
  \/ StartProbe \/ ProbeMem \/ ProbeAlloc \/ ProbeRegion \/ ProbeIoremap
  \/ ProbeRequestIrq \/ ProbeNoIrq \/ ProbeStart
  \/ StartRemove \/ RemoveFreeIrq \/ RemoveUnmap \/ RemoveRelease

Spec == Init /\ [][Next]_vars

\* The kernel carries every call it started to its end, and an unload that
\* was begun removes the device.
Fairness ==
  /\ WF_vars(ProbeMem \/ ProbeAlloc \/ ProbeRegion \/ ProbeIoremap
             \/ ProbeRequestIrq \/ ProbeNoIrq \/ ProbeStart)
  /\ WF_vars(RemoveFreeIrq \/ RemoveUnmap \/ RemoveRelease)
  /\ WF_vars(mod = "exiting" /\ (StartRemove \/ UnregisterDriver))

FairSpec == Spec /\ Fairness
-----------------------------------------------------------------------------
(* Properties.                                                             *)

\* caeco_irq reads the RESULT register through lp->base_addr at any moment
\* between request_irq and free_irq: whenever the handler can run, lp, the
\* region and the mapping exist.
HandlerBacked == "irq" \in held => {"lp", "region", "map"} \subseteq held

\* The failure exits of caeco_probe, caeco_clk_init and caeco_remove release
\* what they hold and nothing else, with two exceptions: free_irq when there
\* was no interrupt or request_irq failed, and the clock that failed to enable.
OnlyKnownMisuse ==
  /\ misuse \subseteq {"irq", "clk"}
  /\ "irq" \in misuse => failed \cap {"irq_resource", "request_irq"} # {}
  /\ "clk" \in misuse => "clk_enable" \in failed

\* No exit of probe and remove keeps anything but the mapping that error3
\* forgets, and only a failed platform_driver_register leaves the character
\* device without its module.
OnlyKnownResidue ==
  /\ pc = "unbound" => held = {}
  /\ leaked \subseteq {"map"} /\ (leaked # {} => "request_irq" \in failed)
  /\ chrdev /\ mod # "in" => "driver_register" \in failed

\* Unloading, once begun, ends, whatever the state of the device.
UnloadEnds == mod = "exiting" ~> mod = "out"
=============================================================================
