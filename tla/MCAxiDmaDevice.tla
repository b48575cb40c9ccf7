--------------------------- MODULE MCAxiDmaDevice ---------------------------
\* Device trees for TLC: the one of the board (a transmit and a receive channel),
\* one whose ids have a gap, and one for each way a tree is turned down.
EXTENDS AxiDmaDevice, TLC

Entry(id, arg, kids, compat) == [id |-> id, arg |-> arg, kids |-> kids, compat |-> compat]
Tx == Entry(0, 0, 2, "mm2s")
Rx == Entry(1, 1, 2, "s2mm")

Board     == [names |-> 2, dmas |-> <<Tx, Rx>>]
Gap       == [names |-> 1, dmas |-> <<Entry(1, 0, 2, "mm2s")>>]
MissingDt == [names |-> 1, dmas |-> <<>>]
BadTrees ==
  {MissingDt} \cup {[names |-> 2, dmas |-> <<Tx, e>>] :
    e \in {Entry(0, 1, 2, "s2mm"), Entry(1, 2, 2, "s2mm"), Entry(1, 1, 1, "s2mm"),
           Entry(1, 1, 3, "s2mm"), Entry(NoId, 1, 2, "s2mm"), Entry(1, 1, 2, "other")}}

MCTrees == {Board, Gap} \cup BadTrees
ProcSymmetry == Permutations(Procs)
=============================================================================
