----------------------------- MODULE AxiDmaTree -----------------------------
(***************************************************************************)
(* What the AXI DMA driver reads from the device tree (axidma_of.c): the   *)
(* number of channels, and for each entry of 'dmas' the channel id, type   *)
(* and direction.  A tree is a record                                      *)
(*   names : number of strings in 'dma-names' (0: missing or empty)        *)
(*   dmas  : the entries of 'dmas' (<<>>: missing or empty)                *)
(* and an entry is a record                                                *)
(*   arg   : first argument of the phandle (NoArg: none or unreadable)     *)
(*   kids  : number of child nodes of the DMA node                         *)
(*   id    : 'xlnx,device-id' of the child node (NoId: missing)            *)
(*   compat: its 'compatible' property                                     *)
(***************************************************************************)
EXTENDS Naturals, Sequences, FiniteSets

NoArg == 9
NoId  == 9

\* enum axidma_type and enum axidma_dir of a channel, from 'compatible'.
Kinds == [ mm2s |-> [type |-> "DMA",  dir |-> "WRITE"],
           s2mm |-> [type |-> "DMA",  dir |-> "READ"],
           vmm2s |-> [type |-> "VDMA", dir |-> "WRITE"],
           vs2mm |-> [type |-> "VDMA", dir |-> "READ"] ]

\* axidma_parse_compatible_property: a missing property is only logged, the
\* channel keeps the type and direction its uninitialised structure has.
axidma_parse_compatible_property(entry) ==
  IF entry.compat \in DOMAIN Kinds \cup {"missing"} THEN "ok" ELSE "error"

\* axidma_of_parse_channel: one or two channel nodes; the second one of a
\* single node is NULL, whose name is then printed.
axidma_of_parse_channel(entry) ==
  IF entry.kids \notin {1, 2} THEN "error"
  ELSE IF entry.arg = 1 /\ entry.kids = 1 THEN "oops"
  ELSE IF entry.id = NoId THEN "error"
  ELSE axidma_parse_compatible_property(entry)

\* axidma_of_num_channels; 0 stands for the negative results.
axidma_of_num_channels(tree) ==
  IF tree.names > 0 /\ tree.names = Len(tree.dmas) THEN tree.names ELSE 0

\* axidma_of_parse_dma_name: the index'th string of 'dma-names'.
axidma_of_parse_dma_name(tree, i) == IF i <= tree.names THEN "ok" ELSE "error"

\* One round of the loop of axidma_of_parse_dma_nodes.
ParseEntry(tree, i) ==
  IF tree.dmas[i].arg \notin {0, 1} THEN "error"
  ELSE IF axidma_of_parse_channel(tree.dmas[i]) # "ok"
         THEN axidma_of_parse_channel(tree.dmas[i])
         ELSE axidma_of_parse_dma_name(tree, i)

\* axidma_check_unique_ids: nothing says that ids are below the number of channels.
axidma_check_unique_ids(tree) ==
  \A i, j \in DOMAIN tree.dmas : tree.dmas[i].id = tree.dmas[j].id => i = j

\* axidma_of_parse_dma_nodes: the first entry that is not accepted ends the loop.
axidma_of_parse_dma_nodes(tree) ==
  LET bad == {i \in DOMAIN tree.dmas : ParseEntry(tree, i) # "ok"}
  IN  IF bad # {}
        THEN ParseEntry(tree, CHOOSE i \in bad : \A j \in bad : i <= j)
        ELSE IF axidma_check_unique_ids(tree) THEN "ok" ELSE "error"

\* The channel table dev->channels of an accepted tree; the kinds are what an
\* uninitialised structure holds where 'compatible' is missing.
ChannelTables(tree) ==
  LET kindsOf(e) == IF e.compat = "missing" THEN {Kinds[k] : k \in DOMAIN Kinds}
                    ELSE {Kinds[e.compat]}
  IN  {t \in [DOMAIN tree.dmas -> [id : {e.id : e \in {tree.dmas[i] : i \in DOMAIN tree.dmas}},
                                   kind : {Kinds[k] : k \in DOMAIN Kinds}]] :
         \A i \in DOMAIN tree.dmas : t[i].id = tree.dmas[i].id
                                     /\ t[i].kind \in kindsOf(tree.dmas[i])}

\* axidma_get_num_channels: the counters axidma_parse_compatible_property keeps,
\* one per kind.
axidma_get_num_channels(tree) ==
  [k \in DOMAIN Kinds |-> Cardinality({i \in DOMAIN tree.dmas : tree.dmas[i].compat = k})]

ChannelIds(tree) == {tree.dmas[i].id : i \in DOMAIN tree.dmas}

\* Every id indexes cb_data and the library's channel array within its bounds.
DenseIds(tree) == \A id \in ChannelIds(tree) : id < Len(tree.dmas)
=============================================================================
