------------------------- MODULE CaecoDriverProofs -------------------------
(***************************************************************************)
(* Machine-checked proofs about CaecoDriver, for every bound of probes and *)
(* of open files.                                                          *)
(***************************************************************************)
EXTENDS CaecoDriver, TLAPS

\* What the probe has acquired when it is at a place, and what is left at each
\* place of remove.  A bound device lacks the interrupt only when the device tree
\* has none.
Memory == {"lp", "drvdata"}
HeldAt ==
  /\ pc \in {"unbound", "mem", "kmalloc"} => held = {}
  /\ pc = "region" => held = Memory
  /\ pc \in {"ioremap", "release"} => held = Memory \cup {"region"}
  /\ pc \in {"irq", "iounmap"} => held = Memory \cup {"region", "map"}
  /\ pc = "clk" => held = Memory \cup {"region", "map", "irq"}
  /\ pc \in {"bound", "free_irq"} =>
       \/ held = Memory \cup {"region", "map", "irq"}
       \/ held = Memory \cup {"region", "map"} /\ "irq_resource" \in failed

\* Each probe enables the clock at most once, and only at its end.
ClockCounted ==
  /\ clkOn <= binds
  /\ pc \in ProbePCs \cup {"mem"} => clkOn < binds

IndInv == TypeOK /\ HeldAt /\ ClockCounted /\ OnlyKnownMisuse /\ OnlyKnownResidue

\* The handler is backed, since what is held follows from the place.
LEMMA IndInvImplies == IndInv => HandlerBacked
  BY DEF IndInv, TypeOK, HeldAt, HandlerBacked, Memory, PCs, ProbePCs, RemovePCs

\* The inductive invariant holds initially.
LEMMA InitIndInv == Init => IndInv
<1> SUFFICES ASSUME Init PROVE IndInv
  OBVIOUS
<1> USE BoundsAssumption DEF Init
<1>1. TypeOK
  <2>1. opens \in 0 .. MaxOpens /\ clkOn \in 0 .. MaxBinds /\ binds \in 0 .. MaxBinds
    BY SMT
  <2>2. chrdev \in BOOLEAN /\ drv \in BOOLEAN /\ started \in BOOLEAN
    BY Zenon
  <2> QED
    BY <2>1, <2>2 DEF TypeOK, PCs
<1>2. HeldAt /\ ClockCounted
  BY SMT DEF HeldAt, ClockCounted, ProbePCs
<1>3. OnlyKnownMisuse /\ OnlyKnownResidue
  BY DEF OnlyKnownMisuse, OnlyKnownResidue
<1> QED
  BY <1>1, <1>2, <1>3 DEF IndInv

\* What a probe must hold to go on at a place, and what an exit may do: release
\* only what is held, keep nothing; the exit after request_irq is the exception.
Acquired(next, got) ==
  /\ next = "kmalloc" => got = {}
  /\ next = "region" => got = Memory
  /\ next = "ioremap" => got = Memory \cup {"region"}
  /\ next = "irq" => got = Memory \cup {"region", "map"}
  /\ next = "clk" => got = Memory \cup {"region", "map", "irq"}
Released(step, rel) ==
  /\ Missing(rel) \subseteq {"irq"} /\ (Missing(rel) # {} => step = "request_irq")
  /\ held \ rel \subseteq {"map"} /\ (held \ rel # {} => step = "request_irq")

\* A step of the probe that has acquired what is held goes on with more, or gives
\* up and leaves behind what the exit does not release.
LEMMA ProbeStepIndInv ==
  ASSUME IndInv, NEW at \in ProbePCs \cup {"mem"}, NEW step \in Steps,
         NEW got \in SUBSET Resources, NEW next \in ProbePCs,
         NEW rel \in SUBSET Resources,
         ProbeStep(at, step, got, next, rel),
         Acquired(next, held \cup got), Released(step, rel)
  PROVE  IndInv'
<1> USE BoundsAssumption DEF IndInv, ProbeStep, modVars, Acquired, Released
<1>1. TypeOK'
  BY DEF TypeOK, PCs, Missing
<1>2. HeldAt'
  BY DEF TypeOK, HeldAt, ProbePCs
<1>3. ClockCounted'
  BY DEF TypeOK, ClockCounted, ProbePCs
<1>4. OnlyKnownMisuse'
  BY DEF TypeOK, OnlyKnownMisuse
<1>5. OnlyKnownResidue'
  BY DEF TypeOK, OnlyKnownResidue, ProbePCs
<1> QED
  BY <1>1, <1>2, <1>3, <1>4, <1>5

\* So does a step of remove, unless it releases what is not there.
LEMMA RemoveStepIndInv ==
  ASSUME IndInv, NEW at \in RemovePCs, NEW rs \in SUBSET Resources,
         NEW next \in {"iounmap", "release", "unbound"},
         RemoveStep(at, rs, next),
         next = "iounmap" => held \ rs = Memory \cup {"region", "map"},
         next = "release" => held \ rs = Memory \cup {"region"},
         next = "unbound" => held \ rs = {},
         Missing(rs) \subseteq {"irq"}, Missing(rs) # {} => "irq_resource" \in failed
  PROVE  IndInv'
<1> USE BoundsAssumption DEF IndInv, RemoveStep, modVars
<1>1. TypeOK'
  BY DEF TypeOK, PCs, RemovePCs, Missing
<1>2. HeldAt' /\ ClockCounted'
  BY DEF TypeOK, HeldAt, ClockCounted, ProbePCs
<1>3. OnlyKnownMisuse' /\ OnlyKnownResidue'
  BY DEF TypeOK, OnlyKnownMisuse, OnlyKnownResidue
<1> QED
  BY <1>1, <1>2, <1>3

\* Every step preserves the inductive invariant.
LEMMA NextIndInv == IndInv /\ [Next]_vars => IndInv'
<1> SUFFICES ASSUME IndInv, [Next]_vars PROVE IndInv'
  OBVIOUS
<1> USE BoundsAssumption
<1>1. CASE ChdevInitFails \/ RegisterFails \/ caeco_init \/ caeco_chdev_exit \/ UnregisterDriver
  <2> USE <1>1 DEF IndInv, ChdevInitFails, RegisterFails, caeco_init, caeco_chdev_exit,
                   UnregisterDriver, modVars, devVars
  <2>1. TypeOK'
    <3>1. chrdev' \in BOOLEAN /\ drv' \in BOOLEAN /\ started' \in BOOLEAN
      BY Zenon DEF TypeOK
    <3>2. mod' \in {"out", "in", "exiting"} /\ failed' \in SUBSET Steps
      BY DEF TypeOK, Steps
    <3>3. UNCHANGED <<opens, pc, held, leaked, clkOn, binds, misuse>>
      BY Zenon
    <3> QED
      BY <3>1, <3>2, <3>3 DEF TypeOK
  <2>2. HeldAt' /\ ClockCounted'
    BY DEF TypeOK, HeldAt, ClockCounted
  <2>3. OnlyKnownMisuse'
    BY DEF TypeOK, OnlyKnownMisuse
  <2>4. chrdev' /\ mod' # "in" => "driver_register" \in failed'
    BY Zenon DEF TypeOK, OnlyKnownResidue
  <2>5. OnlyKnownResidue'
    BY <2>4 DEF TypeOK, OnlyKnownResidue
  <2> QED
    BY <2>1, <2>2, <2>3, <2>5
<1>2. CASE OpenFile \/ CloseFile
  <2> USE <1>2 DEF IndInv, OpenFile, CloseFile, devVars
  <2>1. opens' \in 0 .. MaxOpens
    BY DEF TypeOK
  <2>2. UNCHANGED <<mod, chrdev, drv, pc, held, leaked, clkOn, started, binds, failed, misuse>>
    BY Zenon
  <2> QED
    BY <2>1, <2>2 DEF TypeOK, HeldAt, ClockCounted, OnlyKnownMisuse, OnlyKnownResidue
<1>3. CASE StartProbe
  <2> USE <1>3 DEF IndInv, StartProbe, modVars
  <2>1. TypeOK'
    BY DEF TypeOK, PCs
  <2>2. HeldAt' /\ ClockCounted'
    BY DEF TypeOK, HeldAt, ClockCounted
  <2>3. OnlyKnownMisuse' /\ OnlyKnownResidue'
    BY DEF TypeOK, OnlyKnownMisuse, OnlyKnownResidue
  <2> QED
    BY <2>1, <2>2, <2>3
<1>4. CASE ProbeMem
  <2>1. pc = "mem" /\ held = {}
    BY <1>4 DEF ProbeMem, ProbeStep, IndInv, HeldAt
  <2>2. /\ Acquired("kmalloc", held \cup {})
        /\ Released("mem", {})
    BY <2>1 DEF Acquired, Released, Missing, Memory
  <2>3. /\ "mem" \in ProbePCs \cup {"mem"} /\ "kmalloc" \in ProbePCs /\ "mem" \in Steps
        /\ {} \in SUBSET Resources /\ {} \in SUBSET Resources
    BY DEF ProbePCs, Steps, Resources
  <2> QED
    BY <1>4, <2>2, <2>3, ProbeStepIndInv, Zenon DEF ProbeMem
<1>5. CASE ProbeAlloc
  <2>1. pc = "kmalloc" /\ held = {}
    BY <1>5 DEF ProbeAlloc, ProbeStep, IndInv, HeldAt
  <2>2. /\ Acquired("region", held \cup {"lp", "drvdata"})
        /\ Released("kmalloc", {})
    BY <2>1 DEF Acquired, Released, Missing, Memory
  <2>3. /\ "kmalloc" \in ProbePCs \cup {"mem"} /\ "region" \in ProbePCs /\ "kmalloc" \in Steps
        /\ {"lp", "drvdata"} \in SUBSET Resources /\ {} \in SUBSET Resources
    BY DEF ProbePCs, Steps, Resources
  <2> QED
    BY <1>5, <2>2, <2>3, ProbeStepIndInv, Zenon DEF ProbeAlloc
<1>6. CASE ProbeRegion
  <2>1. pc = "region" /\ held = Memory
    BY <1>6 DEF ProbeRegion, ProbeStep, IndInv, HeldAt
  <2>2. /\ Acquired("ioremap", held \cup {"region"})
        /\ Released("region", {"lp", "drvdata"})
    BY <2>1 DEF Acquired, Released, Missing, Memory
  <2>3. /\ "region" \in ProbePCs \cup {"mem"} /\ "ioremap" \in ProbePCs /\ "region" \in Steps
        /\ {"region"} \in SUBSET Resources /\ {"lp", "drvdata"} \in SUBSET Resources
    BY DEF ProbePCs, Steps, Resources
  <2> QED
    BY <1>6, <2>2, <2>3, ProbeStepIndInv, Zenon DEF ProbeRegion
<1>7. CASE ProbeIoremap
  <2>1. pc = "ioremap" /\ held = Memory \cup {"region"}
    BY <1>7 DEF ProbeIoremap, ProbeStep, IndInv, HeldAt
  <2>2. /\ Acquired("irq", held \cup {"map"})
        /\ Released("ioremap", {"region", "lp", "drvdata"})
    BY <2>1 DEF Acquired, Released, Missing, Memory
  <2>3. /\ "ioremap" \in ProbePCs \cup {"mem"} /\ "irq" \in ProbePCs /\ "ioremap" \in Steps
        /\ {"map"} \in SUBSET Resources /\ {"region", "lp", "drvdata"} \in SUBSET Resources
    BY DEF ProbePCs, Steps, Resources
  <2> QED
    BY <1>7, <2>2, <2>3, ProbeStepIndInv, Zenon DEF ProbeIoremap
<1>8. CASE ProbeRequestIrq
  <2>1. pc = "irq" /\ held = Memory \cup {"region", "map"}
    BY <1>8 DEF ProbeRequestIrq, ProbeStep, IndInv, HeldAt
  <2>2. /\ Acquired("clk", held \cup {"irq"})
        /\ Released("request_irq", {"irq", "region", "lp", "drvdata"})
    BY <2>1 DEF Acquired, Released, Missing, Memory
  <2>3. /\ "irq" \in ProbePCs \cup {"mem"} /\ "clk" \in ProbePCs /\ "request_irq" \in Steps
        /\ {"irq"} \in SUBSET Resources /\ {"irq", "region", "lp", "drvdata"} \in SUBSET Resources
    BY DEF ProbePCs, Steps, Resources
  <2> QED
    BY <1>8, <2>2, <2>3, ProbeStepIndInv, Zenon DEF ProbeRequestIrq
<1>9. CASE ProbeNoIrq
  <2> USE <1>9 DEF IndInv, ProbeNoIrq, modVars
  <2>1. TypeOK'
    BY DEF TypeOK, PCs, Steps
  <2>2. HeldAt' /\ ClockCounted'
    BY DEF TypeOK, HeldAt, ClockCounted, ProbePCs
  <2>3. OnlyKnownMisuse' /\ OnlyKnownResidue'
    BY DEF TypeOK, OnlyKnownMisuse, OnlyKnownResidue
  <2> QED
    BY <2>1, <2>2, <2>3
<1>10. CASE ProbeStart
  <2> USE <1>10 DEF IndInv, ProbeStart, caeco_clk_init, modVars
  <2>1. TypeOK'
    <3>1. clkOn' \in 0 .. MaxBinds
      BY DEF TypeOK, ClockCounted, ProbePCs
    <3>2. failed' \in SUBSET Steps /\ misuse' \in SUBSET (Resources \cup {"clk"})
      BY DEF TypeOK, Steps
    <3>3. pc' \in PCs /\ started' \in BOOLEAN
      BY DEF PCs
    <3>4. UNCHANGED <<mod, chrdev, opens, drv, held, leaked, binds>>
      OBVIOUS
    <3> QED
      BY <3>1, <3>2, <3>3, <3>4 DEF TypeOK
  <2>2. HeldAt' /\ ClockCounted'
    BY DEF TypeOK, HeldAt, ClockCounted, ProbePCs
  <2>3. OnlyKnownMisuse' /\ OnlyKnownResidue'
    BY DEF TypeOK, OnlyKnownMisuse, OnlyKnownResidue
  <2> QED
    BY <2>1, <2>2, <2>3
<1>11. CASE StartRemove
  BY <1>11 DEF IndInv, StartRemove, modVars, TypeOK, HeldAt, ClockCounted, OnlyKnownMisuse,
               OnlyKnownResidue, PCs, RemovePCs, ProbePCs
<1>12. CASE RemoveFreeIrq
  <2>1. /\ pc = "free_irq"
        /\ \/ held = Memory \cup {"region", "map", "irq"}
           \/ held = Memory \cup {"region", "map"} /\ "irq_resource" \in failed
    BY <1>12 DEF RemoveFreeIrq, RemoveStep, IndInv, HeldAt
  <2>2. {"irq"} \in SUBSET Resources
    BY DEF Resources
  <2> QED
    BY <1>12, <2>1, <2>2, RemoveStepIndInv DEF RemoveFreeIrq, RemovePCs, Missing, Memory
<1>13. CASE RemoveUnmap
  <2>1. pc = "iounmap" /\ held = Memory \cup {"region", "map"}
    BY <1>13 DEF RemoveUnmap, RemoveStep, IndInv, HeldAt
  <2>2. {"map"} \in SUBSET Resources
    BY DEF Resources
  <2> QED
    BY <1>13, <2>1, <2>2, RemoveStepIndInv DEF RemoveUnmap, RemovePCs, Missing, Memory
<1>14. CASE RemoveRelease
  <2>1. pc = "release" /\ held = Memory \cup {"region"}
    BY <1>14 DEF RemoveRelease, RemoveStep, IndInv, HeldAt
  <2>2. {"region", "lp", "drvdata"} \in SUBSET Resources
    BY DEF Resources
  <2> QED
    BY <1>14, <2>1, <2>2, RemoveStepIndInv DEF RemoveRelease, RemovePCs, Missing, Memory
<1>15. CASE UNCHANGED vars
  BY <1>15 DEF IndInv, vars, TypeOK, HeldAt, ClockCounted, OnlyKnownMisuse, OnlyKnownResidue
<1> QED
  BY <1>1, <1>2, <1>3, <1>4, <1>5, <1>6, <1>7, <1>8, <1>9, <1>10, <1>11, <1>12, <1>13,
     <1>14, <1>15
  DEF Next

\* The life cycle keeps its data well-typed; in particular the clock is enabled at
\* most once per probe.
THEOREM TypeCorrect == Spec => []TypeOK
<1>1. IndInv => TypeOK
  BY DEF IndInv
<1> QED
  BY <1>1, InitIndInv, NextIndInv, PTL DEF Spec

\* caeco_irq never runs without the mapping it reads.
THEOREM HandlerSafe == Spec => []HandlerBacked
  BY InitIndInv, NextIndInv, IndInvImplies, PTL DEF Spec

\* The exits of probe and remove release nothing that is not held, but the two
\* known cases.
THEOREM MisuseBounded == Spec => []OnlyKnownMisuse
<1>1. IndInv => OnlyKnownMisuse
  BY DEF IndInv
<1> QED
  BY <1>1, InitIndInv, NextIndInv, PTL DEF Spec

\* The exits of probe and remove leave nothing behind, but the mapping.
THEOREM ResidueBounded == Spec => []OnlyKnownResidue
<1>1. IndInv => OnlyKnownResidue
  BY DEF IndInv
<1> QED
  BY <1>1, InitIndInv, NextIndInv, PTL DEF Spec
=============================================================================
