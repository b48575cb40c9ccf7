--------------------------- MODULE MCDmaPrograms ---------------------------
\* Device trees for TLC: the board's, one without a receive channel, one whose ids
\* have a gap, one without 'compatible', and one with video channels.
EXTENDS DmaPrograms

Channel(id, compat) == [id |-> id, arg |-> 0, kids |-> 2, compat |-> compat]
Tree(dmas) == [names |-> Len(dmas), dmas |-> dmas]

Board  == Tree(<<Channel(0, "mm2s"), Channel(1, "s2mm")>>)
TxOnly == Tree(<<Channel(0, "mm2s")>>)
Gap    == Tree(<<Channel(0, "s2mm"), Channel(2, "mm2s")>>)
Unset  == Tree(<<Channel(0, "mm2s"), Channel(1, "missing")>>)
Video  == Tree(<<Channel(0, "vmm2s"), Channel(1, "vs2mm")>>)

\* The way back holds more results than a message has, or only one.
MCFabrics == {[core |-> "sum", depth |-> 4], [core |-> "sum", depth |-> 1],
              [core |-> "loop", depth |-> 4]}
MCTrees == {Board, TxOnly, Gap, Unset, Video}
=============================================================================
