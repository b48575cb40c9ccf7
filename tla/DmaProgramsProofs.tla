------------------------- MODULE DmaProgramsProofs -------------------------
(***************************************************************************)
(* Machine-checked proofs about DmaPrograms, for all sizes of buffers,     *)
(* sums and words, every number of programs and rounds, all accepted       *)
(* device trees and every depth of the way back from the core: the types,  *)
(* what the programs release, and what they do that is not defined.        *)
(***************************************************************************)
EXTENDS DmaPrograms, SequenceTheorems, FiniteSetTheorems, WellFoundedInduction, TLAPS

-----------------------------------------------------------------------------
(* The inductive invariant.                                                *)

Ids == ChannelIds(tree)
Handles == [initialized : BOOLEAN, arrays : {"null", "ok", "freed"}, num : Nat,
            len : [DOMAIN Kinds -> Nat]]
Sent == [data : Words, last : BOOLEAN, id : Ids, wait : BOOLEAN]

\* The board, the handle and what the program keeps.
BoardOK ==
  tree \in Trees /\ table \in ChannelTables(tree) /\ fabric \in Fabrics
Stream ==
  /\ sigs \in Seq(Ids) /\ ip \in [cnt : 0 .. N - 1, sum : Words]
  /\ outq \in Seq(Beats) /\ Len(outq) <= fabric.depth /\ mm2s \in Seq(Sent)
\* A reception that is not complete has room for another word.
Room ==
  /\ s2mm \in [want : Nat, got : Seq(Words), done : BOOLEAN]
  /\ Len(s2mm.got) <= s2mm.want
  /\ s2mm.want > 0 /\ ~s2mm.done => Len(s2mm.got) < s2mm.want
Process ==
  /\ handle \in Handles /\ misuse \subseteq Faults
  /\ prog \in Programs /\ launched \in 1 .. Launches /\ pc \in PCs
  /\ args \in CommandLines /\ (prog # "bench" => args = NoArgs)
  /\ round \in Nat /\ rc \in {0, -1} /\ mapped \subseteq {"tx", "rx"}
  /\ chans \in (Ids \cup {NoId}) \X (Ids \cup {NoId})
  /\ lost \in BOOLEAN /\ stale \in BOOLEAN
Contents ==
  /\ tx_buf \in Seq(Words) /\ rx_buf \in Seq(Words) /\ shown \in Seq(Words)
  /\ "tx" \in mapped => Len(tx_buf) = TxSize
Types == BoardOK /\ Stream /\ Room /\ Process /\ Contents

\* Where each program can be.
Transfers == {"fill", "test", "tx", "tx_wait", "rx", "rx_wait", "both", "both_wait", "verify"}
SetUp == {"tx_buf", "rx_buf", "chans"}
Where ==
  /\ pc = "args" => prog = "bench"
  /\ pc = "run" => prog = "client"
  /\ prog = "client" => pc \in {"init", "run", "exit"}
  /\ pc \in {"rx_buf", "free_rx"} => HasRx
  /\ pc \in {"test", "verify"} => prog = "bench"
  /\ pc = "fill" => prog # "bench"
  /\ pc \in {"both", "both_wait"} => prog \in {"bench", "twoway"}
  /\ pc \in {"tx", "tx_wait"} => prog \notin {"bench", "twoway"}
  /\ pc \in {"rx", "rx_wait"} => prog = "sum"

\* What is mapped at each place.
BuffersAt == IF HasRx THEN {"tx", "rx"} ELSE {"tx"}
Maps ==
  /\ pc \in {"args", "init", "run", "tx_buf"} => mapped = {}
  /\ pc = "rx_buf" => mapped = {"tx"}
  /\ pc = "chans" => mapped = (IF Helper THEN {} ELSE BuffersAt)
  /\ pc \in Transfers => mapped = BuffersAt
  /\ pc = "free_rx" => mapped = {"tx", "rx"}
  /\ pc = "free_tx" => mapped = {"tx"}
  /\ pc = "destroy" => mapped = {} \/ (prog = "twoway" /\ rc = -1)
  /\ pc = "exit" /\ (mapped # {} \/ handle.initialized) =>
       rc = -1 /\ (prog \in {"sum", "caeco"} => chans # NoChans) /\ prog \in {"sum", "caeco", "twoway"}

\* The handle at each place, and how the library counted.
AllWaited == \A j \in DOMAIN mm2s : mm2s[j].wait
Opened ==
  /\ pc \in {"args", "init"} => handle = NewHandle /\ sigs = <<>> /\ AllWaited /\ round = 0
  /\ pc \notin {"args", "init", "run", "exit"} => handle.initialized
  /\ handle.initialized => handle.arrays = "ok"
  /\ handle.num = Len(table) \/ (~handle.initialized /\ sigs = <<>> /\ AllWaited)
  /\ \A k \in DOMAIN Kinds : handle.len[k] > 0 => OfKind(k) # {}

\* The channels once they are picked.
Sends(id) == \E i \in find_channel(id) : table[i].kind.dir = "WRITE"
Receives(id) == \E i \in find_channel(id) : table[i].kind.dir = "READ"
Picked ==
  pc \in Transfers \/ (Helper /\ pc \in {"tx_buf", "rx_buf"}) =>
    /\ chans # NoChans
    /\ args.ids = NoChans => Sends(chans[1]) /\ (HasRx => Receives(chans[2]))

\* The programs whose transmissions are all received.
Sure == ~lost /\ ~stale /\ prog # "client" /\ ~(prog = "bench" /\ args.rx_size < args.tx_size)
Both2 == prog \in {"bench", "twoway"}

\* What has not come back yet is not more than what is still expected, the last word is
\* the last one, and a reception that is complete has left nothing under way.
Flow ==
  /\ \A j \in DOMAIN mm2s : mm2s[j].last => j = Len(mm2s)
  /\ \A j \in DOMAIN outq : outq[j].last => j = Len(outq) /\ mm2s = <<>>
  /\ s2mm.want = RxSize /\ Len(s2mm.got) + Len(outq) + Len(mm2s) <= TxSize
  /\ s2mm.done => outq = <<>> /\ mm2s = <<>>
Quiet ==
  Sure => /\ ~Both2 => sigs = <<>> /\ AllWaited
          /\ Both2 /\ pc = "both_wait" => Flow
          /\ Both2 /\ pc # "both_wait" => mm2s = <<>> /\ outq = <<>>
          /\ handle.arrays = "freed" => sigs = <<>> /\ AllWaited

IndInv == Types /\ Where /\ Maps /\ Opened /\ Picked /\ Quiet /\ OnlyKnownFaults
-----------------------------------------------------------------------------
(* Lemmas about the operators.                                             *)

\* A set of numbers that is not empty has a least one.
LEMMA Least ==
  ASSUME NEW T \in SUBSET Nat, T # {}
  PROVE  \E x \in T : \A y \in T : x <= y
<1>1. PICK x \in T : \A y \in T : ~ (<<y, x>> \in OpToRel(<, Nat))
  BY NatLessThanWellFounded, WFMin, Zenon
<1>2. ASSUME NEW y \in T
      PROVE  x <= y
  <2>1. ~(y < x)
    BY <1>1, Zenon DEF OpToRel
  <2> QED
    BY <2>1
<1> QED
  BY <1>2

\* axidma_stop_transfer keeps words that were there, of the type they had.
LEMMA OthersWorks ==
  ASSUME NEW S, NEW s \in Seq(S), NEW id
  PROVE  /\ Others(s, id) \in Seq(S)
         /\ \A j \in DOMAIN Others(s, id) : \E k \in DOMAIN s : Others(s, id)[j] = s[k]
<1> DEFINE Step(f, n) == IF n = 0 THEN <<>>
                         ELSE IF s[n].id = id THEN f[n - 1] ELSE Append(f[n - 1], s[n])
           Good(f, m) == f = [n \in 0 .. m |-> Step(f, n)]
           kept == CHOOSE f : Good(f, Len(s))
           None == {m \in 0 .. Len(s) : ~ \E f : Good(f, m)}
           From(q) == q \in Seq(S) /\ \A j \in DOMAIN q : \E k \in DOMAIN s : q[j] = s[k]
           Bad == {m \in 0 .. Len(s) : ~From(kept[m])}
<1>1. Len(s) \in Nat /\ DOMAIN s = 1 .. Len(s) /\ \A k \in 1 .. Len(s) : s[k] \in S
  BY LenProperties, ElementOfSeq
<1>2. None = {}
  <2>1. SUFFICES ASSUME None # {} PROVE FALSE
    OBVIOUS
  <2>2. PICK m \in None : \A y \in None : m <= y
    <3>1. None \in SUBSET Nat
      BY <1>1
    <3> HIDE DEF None
    <3> QED
      BY <2>1, <3>1, Least, Zenon
  <2>3. m \in 0 .. Len(s) /\ ~ \E f : Good(f, m)
    BY <2>2
  <2>4. m # 0
    <3> DEFINE g == [n \in 0 .. 0 |-> <<>>]
    <3>1. Good(g, 0)
      OBVIOUS
    <3> QED
      BY <3>1, <2>3, Zenon
  <2>5. m - 1 \in 0 .. Len(s) /\ ~(m <= m - 1)
    BY <2>3, <2>4, <1>1
  <2>6. PICK f : Good(f, m - 1)
    <3> HIDE DEF Good
    <3> QED
      BY <2>2, <2>5
  <2> DEFINE g == [n \in 0 .. m |-> IF n < m THEN f[n] ELSE Step(f, m)]
  <2>7. ASSUME NEW n \in 0 .. m
        PROVE  g[n] = Step(g, n)
    <3>1. CASE n < m
      <4>1. n \in 0 .. m - 1 /\ g[n] = f[n]
        BY <3>1, <2>3
      <4>2. f[n] = Step(f, n)
        BY <2>6, <4>1
      <4>3. n # 0 => n - 1 \in 0 .. m /\ n - 1 < m /\ g[n - 1] = f[n - 1]
        BY <3>1, <2>3
      <4> QED
        BY <4>1, <4>2, <4>3
    <3>2. CASE n = m
      <4>1. g[n] = Step(f, m) /\ g[m - 1] = f[m - 1]
        BY <3>2, <2>3, <2>4
      <4> QED
        BY <4>1, <3>2
    <3> QED
      BY <3>1, <3>2, <2>3
  <2>8. Good(g, m)
    <3> DEFINE h == [n \in 0 .. m |-> Step(g, n)]
    <3>1. g = [n \in 0 .. m |-> g[n]]
      OBVIOUS
    <3> HIDE DEF g, Step
    <3>2. [n \in 0 .. m |-> g[n]] = [n \in 0 .. m |-> Step(g, n)]
      BY <2>7
    <3> QED
      BY <3>1, <3>2
  <2> HIDE DEF Good, g
  <2> QED
    BY <2>3, <2>8
<1>3. Good(kept, Len(s))
  <2> HIDE DEF Good
  <2>1. \E f : Good(f, Len(s))
    BY <1>1, <1>2
  <2> QED
    BY <2>1
<1>4. Others(s, id) = kept[Len(s)]
  BY DEF Others
<1>5. \A n \in 0 .. Len(s) : kept[n] = Step(kept, n)
  <2> HIDE DEF kept
  <2> QED
    BY <1>3
<1> HIDE DEF kept
<1>6. Bad = {}
  <2>1. SUFFICES ASSUME Bad # {} PROVE FALSE
    OBVIOUS
  <2>2. PICK m \in Bad : \A y \in Bad : m <= y
    <3>1. Bad \in SUBSET Nat
      BY <1>1
    <3> HIDE DEF Bad
    <3> QED
      BY <2>1, <3>1, Least, Zenon
  <2>3. m \in 0 .. Len(s) /\ ~From(kept[m])
    BY <2>2
  <2>4. m # 0
    <3>1. kept[0] = <<>>
      BY <1>5, <1>1
    <3>2. From(<<>>)
      OBVIOUS
    <3> QED
      BY <3>1, <3>2, <2>3
  <2>5. From(kept[m - 1])
    BY <2>2, <2>3, <2>4, <1>1
  <2>6. kept[m] \in {kept[m - 1], Append(kept[m - 1], s[m])}
    BY <1>5, <2>3, <2>4
  <2>7. m \in DOMAIN s /\ s[m] \in S
    BY <1>1, <2>3, <2>4
  <2>8. From(Append(kept[m - 1], s[m]))
    <3>1. PICK q : q = kept[m - 1]
      OBVIOUS
    <3>2. q \in Seq(S) /\ Append(q, s[m]) \in Seq(S)
      BY <2>5, <2>7, <3>1, AppendProperties
    <3>3. DOMAIN Append(q, s[m]) = 1 .. Len(q) + 1 /\ DOMAIN q = 1 .. Len(q) /\ Len(q) \in Nat
      BY <3>2, <2>7, AppendProperties, LenProperties
    <3>4. ASSUME NEW j \in 1 .. Len(q) + 1
          PROVE  \E k \in DOMAIN s : Append(q, s[m])[j] = s[k]
      <4>1. CASE j = Len(q) + 1
        <5>1. Append(q, s[m])[j] = s[m]
          BY <4>1, <3>2, <2>7, AppendProperties
        <5> QED
          BY <5>1, <2>7
      <4>2. CASE j # Len(q) + 1
        <5>1. j \in 1 .. Len(q) /\ Append(q, s[m])[j] = q[j]
          BY <4>2, <3>2, <3>3, <2>7, AppendProperties
        <5> QED
          BY <5>1, <3>1, <3>3, <2>5
      <4> QED
        BY <4>1, <4>2
    <3> QED
      BY <3>1, <3>2, <3>3, <3>4
  <2> HIDE DEF From
  <2> QED
    BY <2>3, <2>5, <2>6, <2>8
<1>7. From(kept[Len(s)])
  BY <1>6, <1>1
<1> QED
  BY <1>4, <1>7

\* What axidma_of_parse_dma_nodes has accepted: each channel has an id, and the kind its
\* 'compatible' says, if it says one.
LEMMA TreeFacts ==
  ASSUME NEW t \in Trees
  PROVE  /\ Len(t.dmas) \in Nat /\ DOMAIN t.dmas = 1 .. Len(t.dmas)
         /\ \A i \in 1 .. Len(t.dmas) :
              /\ t.dmas[i].id \in Nat /\ t.dmas[i].id # NoId
              /\ t.dmas[i].compat \in DOMAIN Kinds \cup {"missing"}
<1>1. /\ t.dmas \in Seq([id : Nat, arg : Nat, kids : Nat, compat : STRING])
      /\ axidma_of_parse_dma_nodes(t) = "ok"
  BY LibAssumption
<1>2. Len(t.dmas) \in Nat /\ DOMAIN t.dmas = 1 .. Len(t.dmas)
  BY <1>1, LenProperties
<1>3. \A i \in 1 .. Len(t.dmas) : t.dmas[i] \in [id : Nat, arg : Nat, kids : Nat, compat : STRING]
  BY <1>1, <1>2, ElementOfSeq
<1> DEFINE bad == {i \in DOMAIN t.dmas : ParseEntry(t, i) # "ok"}
           c == CHOOSE i \in bad : \A j \in bad : i <= j
<1>4. bad = {}
  <2>1. SUFFICES ASSUME bad # {} PROVE FALSE
    OBVIOUS
  <2>2. axidma_of_parse_dma_nodes(t) = ParseEntry(t, c)
    BY <2>1 DEF axidma_of_parse_dma_nodes
  <2>3. bad \in SUBSET Nat
    BY <1>2
  <2>4. \E i \in bad : \A j \in bad : i <= j
    <3> HIDE DEF bad
    <3> QED
      BY <2>1, <2>3, Least, Zenon
  <2>5. c \in bad
    <3> HIDE DEF bad
    <3> QED
      BY <2>4
  <2>6. ParseEntry(t, c) # "ok"
    <3> HIDE DEF c
    <3> QED
      BY <2>5
  <2> QED
    BY <1>1, <2>2, <2>6
<1>5. ASSUME NEW i \in 1 .. Len(t.dmas)
      PROVE  t.dmas[i].id # NoId /\ t.dmas[i].compat \in DOMAIN Kinds \cup {"missing"}
  <2>1. ParseEntry(t, i) = "ok"
    BY <1>2, <1>4
  <2>2. axidma_of_parse_channel(t.dmas[i]) = "ok"
    BY <2>1 DEF ParseEntry
  <2> QED
    BY <2>2 DEF axidma_of_parse_channel, axidma_parse_compatible_property
<1> QED
  BY <1>2, <1>3, <1>5

\* The channel table has the entries of the tree, in their order.
LEMMA TableFacts ==
  ASSUME NEW t \in Trees, NEW b \in ChannelTables(t)
  PROVE  /\ DOMAIN b = 1 .. Len(t.dmas) /\ Len(b) = Len(t.dmas) /\ Len(b) \in Nat
         /\ \A i \in 1 .. Len(t.dmas) :
              /\ b[i].id = t.dmas[i].id /\ b[i].id \in Nat /\ b[i].id # NoId
              /\ b[i].id \in ChannelIds(t)
              /\ t.dmas[i].compat # "missing" =>
                   t.dmas[i].compat \in DOMAIN Kinds /\ b[i].kind = Kinds[t.dmas[i].compat]
<1> DEFINE D == DOMAIN t.dmas
           E == [id : {e.id : e \in {t.dmas[i] : i \in D}}, kind : {Kinds[k] : k \in DOMAIN Kinds}]
<1>1. Len(t.dmas) \in Nat /\ D = 1 .. Len(t.dmas)
  BY TreeFacts
<1>2. b \in [D -> E]
  BY DEF ChannelTables
<1>3. \A i \in D : /\ b[i].id = t.dmas[i].id
                   /\ t.dmas[i].compat # "missing" => b[i].kind = Kinds[t.dmas[i].compat]
  BY DEF ChannelTables
<1>4. DOMAIN b = 1 .. Len(t.dmas) /\ Len(b) = Len(t.dmas)
  <2> HIDE DEF E
  <2>1. b \in [1 .. Len(t.dmas) -> E]
    BY <1>1, <1>2
  <2>2. b \in Seq(E)
    BY <2>1, <1>1, SeqDef
  <2> QED
    BY <2>1, <2>2, <1>1, LenProperties
<1>5. ASSUME NEW i \in 1 .. Len(t.dmas)
      PROVE  /\ b[i].id = t.dmas[i].id /\ b[i].id \in Nat /\ b[i].id # NoId
             /\ b[i].id \in ChannelIds(t)
             /\ t.dmas[i].compat # "missing" =>
                  t.dmas[i].compat \in DOMAIN Kinds /\ b[i].kind = Kinds[t.dmas[i].compat]
  <2>1. /\ t.dmas[i].id \in Nat /\ t.dmas[i].id # NoId
        /\ t.dmas[i].compat \in DOMAIN Kinds \cup {"missing"}
    BY TreeFacts
  <2>2. t.dmas[i].id \in ChannelIds(t)
    BY <1>1 DEF ChannelIds
  <2> QED
    BY <1>1, <1>3, <2>1, <2>2
<1> QED
  BY <1>1, <1>4, <1>5

\* The kinds differ.
LEMMA KindsDiffer ==
  ASSUME NEW k \in DOMAIN Kinds, NEW l \in DOMAIN Kinds, Kinds[k] = Kinds[l]
  PROVE  k = l
  BY DEF Kinds

\* A count is a number, and 0 for nothing only.
LEMMA CountWorks ==
  ASSUME NEW n \in Nat, NEW T \in SUBSET (1 .. n)
  PROVE  Cardinality(T) \in Nat /\ (Cardinality(T) > 0 => T # {})
<1>1. IsFiniteSet(1 .. n)
  BY FS_Interval
<1>2. IsFiniteSet(T)
  BY <1>1, FS_Subset
<1> QED
  BY <1>2, FS_CardinalityType, FS_EmptySet

\* The first channel of a kind is one, and has an id.
LEMMA FirstChannelWorks ==
  ASSUME NEW k \in DOMAIN Kinds, BoardOK, OfKind(k) # {}
  PROVE  /\ FirstChannel(k) # NoId /\ FirstChannel(k) \in Ids
         /\ \E i \in find_channel(FirstChannel(k)) : table[i].kind = Kinds[k]
<1>1. /\ DOMAIN table = 1 .. Len(tree.dmas) /\ Len(tree.dmas) \in Nat
      /\ \A i \in 1 .. Len(tree.dmas) : table[i].id # NoId /\ table[i].id \in ChannelIds(tree)
  BY TableFacts, TreeFacts DEF BoardOK
<1>2. OfKind(k) \in SUBSET Nat
  BY <1>1 DEF OfKind
<1>3. PICK T \in SUBSET Nat : T = OfKind(k)
  BY <1>2
<1>4. \E i \in T : \A j \in T : i <= j
  BY <1>3, Least, Zenon
<1> DEFINE c == CHOOSE i \in T : \A j \in T : i <= j
<1>5. c \in T
  BY <1>4
<1>6. FirstChannel(k) = table[c].id
  BY <1>3 DEF FirstChannel
<1>7. c \in DOMAIN table /\ table[c].kind = Kinds[k]
  <2> HIDE DEF c
  <2> QED
    BY <1>3, <1>5 DEF OfKind
<1> HIDE DEF c
<1> QED
  BY <1>1, <1>6, <1>7 DEF find_channel, Ids

\* The remainder of a division by the modulus is a word.
LEMMA WordsWrap ==
  /\ 0 \in Words
  /\ \A a \in Nat : a % Modulus \in Words
  BY KernelAssumption DEF Words

\* The words of a descriptor are typed.
LEMMA DescriptorWorks ==
  ASSUME NEW S, NEW b \in Seq(Words), NEW id \in S, NEW w \in BOOLEAN
  PROVE  Descriptor(b, id, w) \in Seq([data : Words, last : BOOLEAN, id : S, wait : BOOLEAN])
<1> DEFINE d == Descriptor(b, id, w)
           R == [data : Words, last : BOOLEAN, id : S, wait : BOOLEAN]
<1>1. Len(b) \in Nat /\ DOMAIN b = 1 .. Len(b) /\ \A j \in 1 .. Len(b) : b[j] \in Words
  BY LenProperties, ElementOfSeq
<1>2. d = [i \in 1 .. Len(b) |-> [data |-> b[i], last |-> i = Len(b), id |-> id, wait |-> w]]
  BY <1>1 DEF Descriptor
<1> DEFINE e(i) == [data |-> b[i], last |-> i = Len(b), id |-> id, wait |-> w]
<1>3. d \in [1 .. Len(b) -> R]
  <2>1. ASSUME NEW i \in 1 .. Len(b)
        PROVE  e(i) \in R
    <3>1. b[i] \in Words /\ (i = Len(b)) \in BOOLEAN
      BY <1>1
    <3> QED
      BY <3>1
  <2> HIDE DEF R, e
  <2> QED
    BY <1>2, <2>1 DEF e
<1> HIDE DEF d, R
<1>4. d \in Seq(R)
  BY <1>1, <1>3, SeqDef
<1> QED
  BY <1>4 DEF d, R

\* A descriptor has as many words as its buffer.
LEMMA DescriptorLength ==
  ASSUME NEW b \in Seq(Words), NEW id, NEW w \in BOOLEAN
  PROVE  Len(Descriptor(b, id, w)) = Len(b) /\ DOMAIN Descriptor(b, id, w) = 1 .. Len(b)
<1> DEFINE d == Descriptor(b, id, w)
           R == [data : Words, last : BOOLEAN, id : {id}, wait : BOOLEAN]
<1>1. Len(b) \in Nat /\ DOMAIN b = 1 .. Len(b)
  BY LenProperties
<1>2. DOMAIN d = 1 .. Len(b)
  BY <1>1 DEF Descriptor
<1>3. PICK S : S = {id}
  OBVIOUS
<1>4. d \in Seq([data : Words, last : BOOLEAN, id : S, wait : BOOLEAN])
  BY <1>3, DescriptorWorks
<1> HIDE DEF d
<1>5. PICK T : T = [data : Words, last : BOOLEAN, id : S, wait : BOOLEAN]
  OBVIOUS
<1>6. PICK q \in Seq(T) : q = d
  BY <1>4, <1>5
<1>7. Len(q) \in Nat /\ DOMAIN q = 1 .. Len(q)
  BY LenProperties
<1>8. Len(q) = Len(b)
  BY <1>1, <1>2, <1>6, <1>7
<1> QED
  BY <1>2, <1>6, <1>8 DEF d

\* All its words are waited for or none, and the last one ends it.
LEMMA DescriptorFields ==
  ASSUME NEW b \in Seq(Words), NEW id, NEW w \in BOOLEAN, NEW j \in 1 .. Len(b)
  PROVE  Descriptor(b, id, w)[j].wait = w /\ (Descriptor(b, id, w)[j].last => j = Len(b))
<1> DEFINE d == Descriptor(b, id, w)
           e(i) == [data |-> b[i], last |-> i = Len(b), id |-> id, wait |-> w]
<1>1. DOMAIN b = 1 .. Len(b)
  BY LenProperties
<1>2. d[j] = e(j)
  BY <1>1 DEF Descriptor
<1>3. e(j).wait = w
  OBVIOUS
<1>4. e(j).last = (j = Len(b))
  BY Zenon
<1> HIDE DEF d, e
<1> QED
  BY <1>2, <1>3, <1>4, Zenon DEF d

\* The core answers a word with at most one, which is a last one only if the word was.
LEMMA AnswerWorks ==
  ASSUME BoardOK, Stream, mm2s # <<>>
  PROVE  /\ Head(mm2s) \in Sent
         /\ Answer.ip \in [cnt : 0 .. N - 1, sum : Words]
         /\ Answer.out \in Seq(Beats) /\ Len(Answer.out) \in {0, 1}
         /\ Len(Answer.out) = 1 /\ Answer.out[1].last => Head(mm2s).last
<1>1. mm2s \in Seq(Sent) /\ ip \in [cnt : 0 .. N - 1, sum : Words]
  BY DEF Stream
<1>2. Head(mm2s) \in Sent
  BY <1>1, HeadTailProperties
<1>3. PICK h \in Sent : h = Head(mm2s)
  BY <1>2
<1>4. h.data \in Words /\ h.last \in BOOLEAN
  BY <1>3 DEF Sent
<1>5. fabric \in [core : {"sum", "loop"}, depth : Nat \ {0}]
  BY LibAssumption DEF BoardOK
<1>6. CASE fabric.core = "sum"
  <2> DEFINE sum == (ip.sum + h.data) % Modulus
  <2>1. sum \in Words
    <3>1. ip.sum + h.data \in Nat
      BY <1>1, <1>4, KernelAssumption DEF Words
    <3> QED
      BY <3>1, WordsWrap
  <2>2. Answer = sum_330(ip, h)
    BY <1>3, <1>6 DEF Answer
  <2> HIDE DEF sum
  <2>3. /\ Answer.ip = (IF h.last \/ ip.cnt + 1 = N THEN Fresh ELSE [cnt |-> ip.cnt + 1, sum |-> sum])
        /\ Answer.out = (IF h.last \/ ip.cnt + 1 = N
                         THEN <<[data |-> sum, last |-> h.last]>> ELSE <<>>)
    BY <2>2 DEF sum_330, sum
  <2>4. Answer.ip \in [cnt : 0 .. N - 1, sum : Words]
    <3>1. Fresh \in [cnt : 0 .. N - 1, sum : Words]
      BY KernelAssumption, WordsWrap DEF Fresh
    <3>2. ip.cnt + 1 # N => ip.cnt + 1 \in 0 .. N - 1
      BY <1>1, KernelAssumption
    <3>3. CASE h.last \/ ip.cnt + 1 = N
      BY <2>3, <3>1, <3>3, Zenon
    <3>4. CASE ~(h.last \/ ip.cnt + 1 = N)
      BY <2>1, <2>3, <3>2, <3>4
    <3> QED
      BY <3>3, <3>4
  <2>5. [data |-> sum, last |-> h.last] \in Beats
    BY <2>1, <1>4 DEF Beats
  <2>6. Answer.out \in Seq(Beats) /\ Len(Answer.out) \in {0, 1}
    BY <2>3, <2>5
  <2>7. Len(Answer.out) = 1 /\ Answer.out[1].last => h.last
    BY <2>3
  <2> QED
    BY <1>2, <1>3, <2>4, <2>6, <2>7
<1>7. CASE fabric.core # "sum"
  <2>1. Answer = [ip |-> ip, out |-> <<[data |-> h.data, last |-> h.last]>>]
    BY <1>3, <1>7 DEF Answer
  <2>2. [data |-> h.data, last |-> h.last] \in Beats
    BY <1>4 DEF Beats
  <2>3. Answer.out \in Seq(Beats) /\ Len(Answer.out) \in {0, 1}
    BY <2>1, <2>2
  <2>4. Len(Answer.out) = 1 /\ Answer.out[1].last => h.last
    BY <2>1
  <2> QED
    BY <1>1, <1>2, <1>3, <2>1, <2>3, <2>4
<1> QED
  BY <1>6, <1>7
-----------------------------------------------------------------------------
(* The board and the stream.                                               *)

\* The board stays what it is.
LEMMA BoardStays ==
  ASSUME Next
  PROVE  UNCHANGED <<tree, table, fabric>>
<1> USE DEF libVars, vars, hwVars, runVars, procVars
<1>1. CASE Program
  <2>1. CASE parse_args \/ MallocTx \/ MallocRx \/ PickChannels \/ FillBuffers
             \/ init_data \/ verify_data \/ ClientEnds \/ axidma_free
    BY <2>1 DEF parse_args, MallocTx, MallocRx, PickChannels, FillBuffers,
                init_data, verify_data, ClientEnds, axidma_free
  <2>2. CASE OpenLibrary \/ ClientCloses \/ CloseLibrary
    BY <2>2 DEF OpenLibrary, ClientCloses, CloseLibrary, axidma_init, axidma_destroy
  <2>3. CASE Send \/ SendWaits \/ Receive \/ ReceiveWaits
    BY <2>3 DEF Send, SendWaits, Receive, ReceiveWaits, axidma_oneway_transfer, IoctlFails,
                SendEnds, OnewayReceives, ReceiveEnds
  <2>4. CASE Both \/ BothWaits
    BY <2>4 DEF Both, BothWaits, axidma_twoway_transfer, IoctlFails, ReceiveEnds
  <2>5. CASE Client
    BY <2>5 DEF Client, axidma_init, axidma_set_callback, axidma_oneway_transfer,
                axidma_stop_transfer
  <2> QED
    BY <1>1, <2>1, <2>2, <2>3, <2>4, <2>5 DEF Program
<1>2. CASE Signal \/ Hardware \/ Launch
  BY <1>2 DEF Signal, Hardware, Launch, axidma_callback, SendWord, FetchWord
<1> QED
  BY <1>1, <1>2 DEF Next

\* A transmission's words join the stream.
Adds(b, id, w) == mm2s' = mm2s \o Descriptor(b, id, w) /\ UNCHANGED <<sigs, ip, outq>>

\* What a program does to the stream.
LEMMA StreamMoves ==
  ASSUME Program
  PROVE  \/ UNCHANGED <<sigs, ip, outq, mm2s>>
         \/ Send /\ find_channel(chans[1]) # {} /\ Adds(tx_buf, chans[1], TRUE)
         \/ Both /\ find_channel(chans[1]) # {} /\ Adds(tx_buf, chans[1], FALSE)
         \/ Client /\ \E i \in DOMAIN table : Adds(<< 0 >>, table[i].id, FALSE)
         \/ Client /\ \E i \in DOMAIN table :
              mm2s' = Others(mm2s, table[i].id) /\ UNCHANGED <<sigs, ip, outq>>
         \/ SendWaits /\ mm2s' = <<>> /\ UNCHANGED <<sigs, ip, outq>>
<1> USE DEF libVars, vars, hwVars, runVars, procVars
<1>1. CASE parse_args \/ MallocTx \/ MallocRx \/ PickChannels \/ FillBuffers
           \/ init_data \/ verify_data \/ ClientEnds \/ axidma_free
  BY <1>1 DEF parse_args, MallocTx, MallocRx, PickChannels, FillBuffers,
              init_data, verify_data, ClientEnds, axidma_free
<1>2. CASE OpenLibrary \/ ClientCloses \/ CloseLibrary
  BY <1>2 DEF OpenLibrary, ClientCloses, CloseLibrary, axidma_init, axidma_destroy
<1>3. CASE Receive \/ ReceiveWaits \/ BothWaits
  BY <1>3 DEF Receive, ReceiveWaits, BothWaits, IoctlFails, OnewayReceives, ReceiveEnds
<1>4. CASE Send
  BY <1>4 DEF Send, axidma_oneway_transfer, IoctlFails, Adds
<1>5. CASE SendWaits
  BY <1>5 DEF SendWaits, SendEnds
<1>6. CASE Both
  BY <1>6 DEF Both, axidma_twoway_transfer, Twoway, IoctlFails, Adds
<1>7. CASE Client
  <2>1. CASE \E ok \in BOOLEAN : axidma_init(ok)
    BY <2>1 DEF axidma_init
  <2>2. ASSUME NEW i \in DOMAIN table,
               \/ axidma_set_callback(table[i].id)
               \/ axidma_oneway_transfer(table[i].id, << 0 >>, FALSE)
               \/ axidma_stop_transfer(table[i].id)
        PROVE  \/ UNCHANGED <<sigs, ip, outq, mm2s>>
               \/ Adds(<< 0 >>, table[i].id, FALSE)
               \/ mm2s' = Others(mm2s, table[i].id) /\ UNCHANGED <<sigs, ip, outq>>
    BY <2>2 DEF axidma_set_callback, axidma_oneway_transfer, axidma_stop_transfer, Adds
  <2> QED
    BY <1>7, <2>1, <2>2 DEF Client
<1> QED
  BY <1>1, <1>2, <1>3, <1>4, <1>5, <1>6, <1>7 DEF Program

\* What the board is made of does not change either.
LEMMA BoardSets ==
  ASSUME Next
  PROVE  /\ Ids' = Ids /\ Sent' = Sent /\ CommandLines' = CommandLines
         /\ \A k \in DOMAIN Kinds : OfKind(k)' = OfKind(k)
<1>1. UNCHANGED <<tree, table, fabric>>
  BY BoardStays
<1> QED
  BY <1>1 DEF Ids, Sent, CommandLines, OfKind

\* The sizes of the buffers are numbers.
LEMMA Sizes ==
  ASSUME args \in CommandLines
  PROVE  TxSize \in Nat \ {0} /\ RxSize \in Nat
<1>1. args.tx_size \in Nat \ {0} /\ args.rx_size \in Nat \ {0}
  BY ProgramAssumption DEF CommandLines
<1>2. (TxWords + N - 1) \div N \in Nat
  BY ProgramAssumption, KernelAssumption
<1>3. N \in Nat \ {0} /\ TxWords \in Nat \ {0}
  BY ProgramAssumption, KernelAssumption
<1>4. TxSize \in {args.tx_size, TxWords, N}
  BY DEF TxSize
<1>5. RxSize \in {args.rx_size, (TxWords + N - 1) \div N, N}
  BY DEF RxSize
<1> QED
  BY <1>1, <1>2, <1>3, <1>4, <1>5

\* The names of the channels in the table are ids.
LEMMA TableIds ==
  ASSUME BoardOK
  PROVE  /\ \A i \in DOMAIN table : table[i].id \in Ids
         /\ \A id : find_channel(id) # {} => id \in Ids
<1>1. /\ DOMAIN table = 1 .. Len(tree.dmas)
      /\ \A i \in 1 .. Len(tree.dmas) : table[i].id \in ChannelIds(tree)
  BY TableFacts DEF BoardOK
<1> QED
  BY <1>1 DEF find_channel, Ids

\* A transmission keeps the words of the stream typed.
LEMMA AddsWorks ==
  ASSUME NEW S, NEW m \in Seq([data : Words, last : BOOLEAN, id : S, wait : BOOLEAN]),
         NEW b \in Seq(Words), NEW id \in S, NEW w \in BOOLEAN
  PROVE  m \o Descriptor(b, id, w) \in Seq([data : Words, last : BOOLEAN, id : S, wait : BOOLEAN])
<1> DEFINE R == [data : Words, last : BOOLEAN, id : S, wait : BOOLEAN]
<1>1. Descriptor(b, id, w) \in Seq(R)
  BY DescriptorWorks
<1> QED
  BY <1>1, ConcatProperties

\* The stream keeps its types, and the way back is not overfilled.
LEMMA StreamKept ==
  ASSUME BoardOK, Stream, tx_buf \in Seq(Words), Next
  PROVE  Stream'
<1>1. UNCHANGED <<tree, table, fabric>> /\ Ids' = Ids /\ Sent' = Sent
  BY BoardStays, BoardSets
<1>2. /\ sigs \in Seq(Ids) /\ ip \in [cnt : 0 .. N - 1, sum : Words]
      /\ outq \in Seq(Beats) /\ Len(outq) <= fabric.depth /\ mm2s \in Seq(Sent)
  BY DEF Stream
<1>3. fabric.depth \in Nat \ {0}
  BY LibAssumption DEF BoardOK
<1>4. CASE UNCHANGED <<sigs, ip, outq, mm2s>>
  BY <1>1, <1>2, <1>4 DEF Stream
<1>5. ASSUME UNCHANGED <<sigs, ip, outq>>, mm2s' \in Seq(Sent)
      PROVE  Stream'
  BY <1>1, <1>2, <1>5 DEF Stream
<1>6. ASSUME NEW b \in Seq(Words), NEW id \in Ids, NEW w \in BOOLEAN, Adds(b, id, w)
      PROVE  Stream'
  <2>1. mm2s \o Descriptor(b, id, w) \in Seq(Sent)
    BY <1>2, AddsWorks DEF Sent
  <2> QED
    BY <1>5, <1>6, <2>1 DEF Adds
<1>7. CASE Program
  <2>1. CASE Adds(tx_buf, chans[1], TRUE) /\ find_channel(chans[1]) # {}
    <3>1. chans[1] \in Ids
      BY <2>1, TableIds
    <3> QED
      BY <1>6, <2>1, <3>1
  <2>2. CASE Adds(tx_buf, chans[1], FALSE) /\ find_channel(chans[1]) # {}
    <3>1. chans[1] \in Ids
      BY <2>2, TableIds
    <3> QED
      BY <1>6, <2>2, <3>1
  <2>3. ASSUME NEW i \in DOMAIN table, Adds(<< 0 >>, table[i].id, FALSE)
        PROVE  Stream'
    <3>1. table[i].id \in Ids /\ << 0 >> \in Seq(Words)
      BY TableIds, WordsWrap
    <3> QED
      BY <1>6, <2>3, <3>1
  <2>4. ASSUME NEW i \in DOMAIN table,
               mm2s' = Others(mm2s, table[i].id) /\ UNCHANGED <<sigs, ip, outq>>
        PROVE  Stream'
    <3>1. Others(mm2s, table[i].id) \in Seq(Sent)
      BY <1>2, OthersWorks
    <3> QED
      BY <1>5, <2>4, <3>1
  <2>5. CASE mm2s' = <<>> /\ UNCHANGED <<sigs, ip, outq>>
    BY <1>5, <2>5
  <2> QED
    BY <1>4, <1>7, <2>1, <2>2, <2>3, <2>4, <2>5, StreamMoves
<1>8. CASE Signal
  <2>1. sigs # <<>> /\ sigs' = Tail(sigs) /\ UNCHANGED <<ip, outq, mm2s>>
    BY <1>8 DEF Signal, axidma_callback, hwVars
  <2>2. Tail(sigs) \in Seq(Ids)
    BY <1>2, <2>1, HeadTailProperties
  <2> QED
    BY <1>1, <1>2, <2>1, <2>2 DEF Stream
<1>9. CASE SendWord
  <2>1. /\ mm2s # <<>> /\ Len(outq) + Len(Answer.out) <= fabric.depth
        /\ ip' = Answer.ip /\ outq' = outq \o Answer.out /\ mm2s' = Tail(mm2s)
        /\ sigs' \in {sigs, Append(sigs, Head(mm2s).id)}
    BY <1>9 DEF SendWord, CanSend
  <2>2. /\ Head(mm2s) \in Sent /\ Answer.ip \in [cnt : 0 .. N - 1, sum : Words]
        /\ Answer.out \in Seq(Beats)
    BY <2>1, AnswerWorks
  <2>3. PICK out \in Seq(Beats) : out = Answer.out
    BY <2>2
  <2>4. outq \o out \in Seq(Beats) /\ Len(outq \o out) = Len(outq) + Len(out)
    BY <1>2, ConcatProperties
  <2>5. Tail(mm2s) \in Seq(Sent)
    BY <1>2, <2>1, HeadTailProperties
  <2>6. Head(mm2s).id \in Ids
    BY <2>2 DEF Sent
  <2>7. Append(sigs, Head(mm2s).id) \in Seq(Ids)
    BY <1>2, <2>6, AppendProperties
  <2> QED
    BY <1>1, <1>2, <2>1, <2>2, <2>3, <2>4, <2>5, <2>7 DEF Stream
<1>10. CASE FetchWord
  <2>1. outq # <<>> /\ outq' = Tail(outq) /\ UNCHANGED <<sigs, ip, mm2s>>
    BY <1>10 DEF FetchWord, CanFetch
  <2>2. Tail(outq) \in Seq(Beats) /\ Len(Tail(outq)) = Len(outq) - 1
    BY <1>2, <2>1, HeadTailProperties
  <2>3. Len(outq) \in Nat
    BY <1>2, LenProperties
  <2>4. Len(outq') <= fabric.depth
    BY <1>2, <1>3, <2>1, <2>2, <2>3
  <2> QED
    BY <1>1, <1>2, <2>1, <2>2, <2>4 DEF Stream
<1>11. CASE Launch
  <2>1. /\ sigs' = <<>> /\ UNCHANGED <<ip, outq>>
        /\ mm2s' = [i \in DOMAIN mm2s |-> [mm2s[i] EXCEPT !.wait = TRUE]]
    BY <1>11 DEF Launch
  <2>2. Len(mm2s) \in Nat /\ DOMAIN mm2s = 1 .. Len(mm2s) /\ \A i \in 1 .. Len(mm2s) : mm2s[i] \in Sent
    BY <1>2, LenProperties, ElementOfSeq
  <2>3. \A i \in 1 .. Len(mm2s) : [mm2s[i] EXCEPT !.wait = TRUE] \in Sent
    BY <2>2 DEF Sent
  <2>4. mm2s' \in [1 .. Len(mm2s) -> Sent]
    BY <2>1, <2>2, <2>3
  <2>5. mm2s' \in Seq(Sent)
    BY <2>2, <2>4, SeqDef
  <2> QED
    BY <1>1, <1>2, <2>1, <2>5 DEF Stream
<1>12. CASE UNCHANGED vars
  BY <1>4, <1>12 DEF vars, libVars, hwVars
<1> QED
  BY <1>7, <1>8, <1>9, <1>10, <1>11, <1>12 DEF Next, Hardware

\* What a program does to the reception.
LEMMA ReceptionMoves ==
  ASSUME Program
  PROVE  \/ s2mm' = s2mm
         \/ (Receive \/ Both) /\ s2mm' = Reception(RxSize)
         \/ (ReceiveWaits \/ BothWaits) /\ s2mm' = NoReception
<1> USE DEF libVars, vars, hwVars, runVars, procVars
<1>1. CASE parse_args \/ MallocTx \/ MallocRx \/ PickChannels \/ FillBuffers
           \/ init_data \/ verify_data \/ ClientEnds \/ axidma_free
  BY <1>1 DEF parse_args, MallocTx, MallocRx, PickChannels, FillBuffers,
              init_data, verify_data, ClientEnds, axidma_free
<1>2. CASE OpenLibrary \/ ClientCloses \/ CloseLibrary
  BY <1>2 DEF OpenLibrary, ClientCloses, CloseLibrary, axidma_init, axidma_destroy
<1>3. CASE ReceiveWaits \/ BothWaits
  BY <1>3 DEF ReceiveWaits, BothWaits, ReceiveEnds
<1>4. CASE Receive
  BY <1>4 DEF Receive, OnewayReceives, IoctlFails
<1>5. CASE Send \/ SendWaits
  BY <1>5 DEF Send, SendWaits, axidma_oneway_transfer, IoctlFails, SendEnds
<1>6. CASE Both
  BY <1>6 DEF Both, axidma_twoway_transfer, IoctlFails
<1>7. CASE Client
  BY <1>7 DEF Client, axidma_init, axidma_set_callback, axidma_oneway_transfer,
              axidma_stop_transfer
<1> QED
  BY <1>1, <1>2, <1>3, <1>4, <1>5, <1>6, <1>7 DEF Program

\* A reception never gets more words than its buffer holds.
LEMMA RoomKept ==
  ASSUME BoardOK, Stream, Room, args \in CommandLines, Next
  PROVE  Room'
<1>1. /\ s2mm \in [want : Nat, got : Seq(Words), done : BOOLEAN]
      /\ Len(s2mm.got) <= s2mm.want /\ Len(s2mm.got) \in Nat
      /\ s2mm.want > 0 /\ ~s2mm.done => Len(s2mm.got) < s2mm.want
  BY LenProperties DEF Room
<1>2. CASE s2mm' = s2mm
  BY <1>1, <1>2 DEF Room
<1>3. CASE s2mm' = NoReception
  BY <1>3 DEF Room, NoReception
<1>4. CASE s2mm' = Reception(RxSize)
  BY <1>4, Sizes DEF Room, Reception
<1>5. CASE FetchWord
  <2>1. /\ outq # <<>> /\ s2mm.want > 0 /\ ~s2mm.done
        /\ s2mm' = [s2mm EXCEPT !.got = Append(@, Head(outq).data),
                                !.done = Head(outq).last \/ Len(s2mm.got) + 1 = s2mm.want]
    BY <1>5 DEF FetchWord, CanFetch
  <2>2. Head(outq) \in Beats
    BY <2>1, HeadTailProperties DEF Stream
  <2>3. PICK h \in Beats : h = Head(outq)
    BY <2>2
  <2>4. h.data \in Words /\ h.last \in BOOLEAN
    BY DEF Beats
  <2>5. /\ Append(s2mm.got, h.data) \in Seq(Words)
        /\ Len(Append(s2mm.got, h.data)) = Len(s2mm.got) + 1
    BY <1>1, <2>4, AppendProperties
  <2> DEFINE done == h.last \/ Len(s2mm.got) + 1 = s2mm.want
  <2>6. done \in BOOLEAN
    BY <2>4
  <2>7. s2mm' = [want |-> s2mm.want, got |-> Append(s2mm.got, h.data), done |-> done]
    BY <1>1, <2>1, <2>3
  <2>8. ~done => Len(s2mm.got) + 1 # s2mm.want
    OBVIOUS
  <2> HIDE DEF done
  <2>9. s2mm' \in [want : Nat, got : Seq(Words), done : BOOLEAN]
    <3>1. PICK got \in Seq(Words) : got = Append(s2mm.got, h.data)
      BY <2>5
    <3>2. s2mm' = [want |-> s2mm.want, got |-> got, done |-> done]
      BY <2>7, <3>1
    <3> QED
      BY <1>1, <2>6, <3>2
  <2>10. Len(s2mm'.got) <= s2mm'.want
    BY <1>1, <2>1, <2>5, <2>7
  <2>11. s2mm'.want > 0 /\ ~s2mm'.done => Len(s2mm'.got) < s2mm'.want
    <3>1. s2mm'.done = done
      BY <2>7, Zenon
    <3>2. s2mm'.want = s2mm.want /\ Len(s2mm'.got) = Len(s2mm.got) + 1
      BY <2>5, <2>7
    <3>3. ~done => Len(s2mm.got) + 1 < s2mm.want
      BY <1>1, <2>1, <2>8
    <3> QED
      BY <3>1, <3>2, <3>3, Zenon
  <2> QED
    BY <2>9, <2>10, <2>11 DEF Room
<1>6. CASE Signal \/ SendWord \/ UNCHANGED vars
  BY <1>2, <1>6 DEF Signal, SendWord, axidma_callback, hwVars, vars, libVars
<1>7. CASE Launch
  BY <1>3, <1>7 DEF Launch
<1> QED
  BY <1>2, <1>3, <1>4, <1>5, <1>6, <1>7, ReceptionMoves DEF Next, Hardware
-----------------------------------------------------------------------------
(* The handle, the faults and the process.                                 *)

\* A program keeps its name and its command line while it runs.
LEMMA SameProgram ==
  ASSUME Program \/ Signal \/ Hardware
  PROVE  UNCHANGED runVars
<1> USE DEF runVars
<1>1. CASE Program
  BY <1>1 DEF Program, parse_args, OpenLibrary, MallocTx, MallocRx, PickChannels, FillBuffers,
     Send, SendWaits, Receive, ReceiveWaits, init_data, Both, BothWaits, verify_data, Client,
     ClientCloses, ClientEnds, axidma_free, CloseLibrary
<1> QED
  BY <1>1 DEF Signal, Hardware

\* axidma_destroy, on the handle.
Closes == handle' = [handle EXCEPT !.initialized = FALSE, !.arrays = "freed"]

\* What happens to the handle.
LEMMA HandleMoves ==
  ASSUME Program
  PROVE  \/ handle' = handle
         \/ (OpenLibrary \/ Client) /\ ~handle.initialized /\ (categorize_channels \/ probe_fails)
         \/ (ClientCloses \/ CloseLibrary) /\ Closes
<1> USE DEF libVars, vars, hwVars, runVars, procVars
<1>1. CASE parse_args \/ MallocTx \/ MallocRx \/ PickChannels \/ FillBuffers
           \/ init_data \/ verify_data \/ ClientEnds \/ axidma_free
  BY <1>1 DEF parse_args, MallocTx, MallocRx, PickChannels, FillBuffers,
              init_data, verify_data, ClientEnds, axidma_free
<1>2. CASE OpenLibrary
  BY <1>2 DEF OpenLibrary, axidma_init
<1>3. CASE ClientCloses \/ CloseLibrary
  BY <1>3 DEF ClientCloses, CloseLibrary, axidma_destroy, Closes
<1>4. CASE Send \/ SendWaits \/ Receive \/ ReceiveWaits
  BY <1>4 DEF Send, SendWaits, Receive, ReceiveWaits, axidma_oneway_transfer, IoctlFails,
              SendEnds, OnewayReceives, ReceiveEnds
<1>5. CASE Both \/ BothWaits
  BY <1>5 DEF Both, BothWaits, axidma_twoway_transfer, IoctlFails, ReceiveEnds
<1>6. CASE Client
  <2>1. CASE \E ok \in BOOLEAN : axidma_init(ok)
    BY <1>6, <2>1 DEF axidma_init
  <2>2. CASE \E i \in DOMAIN table :
               \/ axidma_set_callback(table[i].id)
               \/ axidma_oneway_transfer(table[i].id, << 0 >>, FALSE)
               \/ axidma_stop_transfer(table[i].id)
    BY <2>2 DEF axidma_set_callback, axidma_oneway_transfer, axidma_stop_transfer
  <2> QED
    BY <1>6, <2>1, <2>2 DEF Client
<1> QED
  BY <1>1, <1>2, <1>3, <1>4, <1>5, <1>6 DEF Program

\* What happens to the list of faults.
LEMMA FaultMoves ==
  ASSUME Next
  PROVE  \/ misuse' = misuse
         \/ parse_args /\ misuse' = misuse \cup Tag(args.vdma /\ args.frames # {"tx", "rx"}, "unset_frame")
         \/ (OpenLibrary \/ Client) /\ ~handle.initialized /\ categorize_channels
         \/ Client /\ handle.initialized /\ \E i \in DOMAIN table : axidma_set_callback(table[i].id)
         \/ Signal /\ axidma_callback
         \/ Both /\ ~Twoway(chans[1], chans[2]) /\ misuse' = misuse \cup {"abort_channel"}
<1> USE DEF libVars, vars, hwVars, runVars, procVars
<1>1. CASE parse_args
  BY <1>1 DEF parse_args
<1>2. CASE MallocTx \/ MallocRx \/ PickChannels \/ FillBuffers
           \/ init_data \/ verify_data \/ ClientEnds \/ axidma_free
  BY <1>2 DEF MallocTx, MallocRx, PickChannels, FillBuffers,
              init_data, verify_data, ClientEnds, axidma_free
<1>3. CASE OpenLibrary
  BY <1>3 DEF OpenLibrary, axidma_init, probe_fails
<1>4. CASE ClientCloses \/ CloseLibrary
  BY <1>4 DEF ClientCloses, CloseLibrary, axidma_destroy
<1>5. CASE Send \/ SendWaits \/ Receive \/ ReceiveWaits
  BY <1>5 DEF Send, SendWaits, Receive, ReceiveWaits, axidma_oneway_transfer, IoctlFails,
              SendEnds, OnewayReceives, ReceiveEnds
<1>6. CASE Both \/ BothWaits
  BY <1>6 DEF Both, BothWaits, axidma_twoway_transfer, IoctlFails, ReceiveEnds
<1>7. CASE Client
  <2>1. CASE \E ok \in BOOLEAN : axidma_init(ok)
    BY <1>7, <2>1 DEF axidma_init, probe_fails
  <2>2. CASE /\ handle.initialized
             /\ \E i \in DOMAIN table :
               \/ axidma_oneway_transfer(table[i].id, << 0 >>, FALSE)
               \/ axidma_stop_transfer(table[i].id)
    BY <2>2 DEF axidma_oneway_transfer, axidma_stop_transfer
  <2>3. CASE handle.initialized /\ \E i \in DOMAIN table : axidma_set_callback(table[i].id)
    BY <1>7, <2>3
  <2> QED
    BY <1>7, <2>1, <2>2, <2>3 DEF Client
<1>8. CASE Signal \/ Hardware \/ Launch \/ UNCHANGED vars
  BY <1>8 DEF Signal, Hardware, SendWord, FetchWord, Launch
<1> QED
  BY <1>1, <1>2, <1>3, <1>4, <1>5, <1>6, <1>7, <1>8 DEF Next, Program

\* The handle keeps its type, and the lengths of its arrays count what the table has.
LEMMA HandleKept ==
  ASSUME BoardOK, handle \in Handles, Next
  PROVE  handle' \in Handles
<1>1. Len(table) \in Nat /\ DOMAIN table = 1 .. Len(table)
  BY TableFacts DEF BoardOK
<1>2. CASE categorize_channels
  <2> DEFINE len == [k \in DOMAIN Kinds |-> handle.len[k] + Cardinality(OfKind(k))]
  <2>1. \A k \in DOMAIN Kinds : Cardinality(OfKind(k)) \in Nat
    <3>1. TAKE k \in DOMAIN Kinds
    <3>2. OfKind(k) \in SUBSET (1 .. Len(table))
      BY <1>1 DEF OfKind
    <3>3. PICK n \in Nat : n = Len(table)
      BY <1>1
    <3>4. PICK T \in SUBSET (1 .. n) : T = OfKind(k)
      BY <3>2, <3>3
    <3> QED
      BY <3>4, CountWorks
  <2>2. len \in [DOMAIN Kinds -> Nat]
    <3>1. \A k \in DOMAIN Kinds : handle.len[k] \in Nat
      BY DEF Handles
    <3> QED
      BY <2>1, <3>1
  <2>3. handle' = [initialized |-> TRUE, arrays |-> "ok", num |-> Len(table), len |-> len]
    BY <1>2 DEF categorize_channels
  <2> HIDE DEF len
  <2> QED
    BY <1>1, <2>2, <2>3 DEF Handles
<1>3. CASE probe_fails
  BY <1>3 DEF probe_fails, Handles
<1>4. CASE Closes
  BY <1>4 DEF Closes, Handles
<1>5. CASE Launch
  BY <1>5 DEF Launch, NewHandle, Handles
<1>6. CASE Signal \/ Hardware \/ UNCHANGED vars
  BY <1>6 DEF Signal, Hardware, SendWord, FetchWord, axidma_callback, vars, libVars
<1> QED
  BY <1>2, <1>3, <1>4, <1>5, <1>6, HandleMoves DEF Next

\* Every fault is one of the list.
LEMMA FaultsKept ==
  ASSUME misuse \subseteq Faults, Next
  PROVE  misuse' \subseteq Faults
  BY FaultMoves DEF Faults, Tag, categorize_channels, axidma_set_callback, axidma_callback

\* The command line without arguments is one.
LEMMA NoArgsWorks == NoArgs \in CommandLines
<1>1. DefaultSize \in BenchSizes
  BY ProgramAssumption DEF DefaultSize
<1> QED
  BY <1>1 DEF NoArgs, CommandLines, NoChans

\* The channels of the command line are channels of the board, or none.
LEMMA ArgsWork ==
  ASSUME args \in CommandLines
  PROVE  args.ids \in (Ids \cup {NoId}) \X (Ids \cup {NoId})
  BY DEF CommandLines, Ids

\* The channels picked: those of the command line, or the first ones, in the right
\* directions.
LEMMA PickWorks ==
  ASSUME BoardOK, Opened, handle \in Handles, args \in CommandLines, PickChannels, pc' \in Transfers \cup {"tx_buf"}
  PROVE  /\ chans' \in (Ids \cup {NoId}) \X (Ids \cup {NoId}) /\ chans' # NoChans
         /\ args.ids = NoChans => Sends(chans'[1]) /\ (HasRx => Receives(chans'[2]))
<1>1. /\ handle.len[TxKind] >= 1 /\ (HasRx => handle.len[RxKind] >= 1)
      /\ chans' = IF args.ids # NoChans THEN args.ids
                  ELSE <<FirstChannel(TxKind), IF HasRx THEN FirstChannel(RxKind) ELSE NoId>>
  <2>1. "destroy" \notin Transfers \cup {"tx_buf"} /\ "free_rx" \notin Transfers \cup {"tx_buf"}
        /\ "free_tx" \notin Transfers \cup {"tx_buf"} /\ "exit" \notin Transfers \cup {"tx_buf"}
    BY DEF Transfers
  <2> QED
    BY <2>1 DEF PickChannels, Fails
<1>2. /\ TxKind \in DOMAIN Kinds /\ Kinds[TxKind].dir = "WRITE"
      /\ RxKind \in DOMAIN Kinds /\ Kinds[RxKind].dir = "READ"
  BY DEF TxKind, RxKind, Kinds
<1>3. CASE args.ids # NoChans
  BY <1>1, <1>3, ArgsWork
<1>4. CASE args.ids = NoChans
  <2>1. PICK k \in DOMAIN Kinds, l \in DOMAIN Kinds : k = TxKind /\ l = RxKind
    BY <1>2
  <2>2. handle.len[k] > 0 /\ (HasRx => handle.len[l] > 0)
    <3>1. handle.len[k] \in Nat /\ handle.len[l] \in Nat
      BY DEF Handles
    <3> QED
      BY <1>1, <2>1, <3>1
  <2>3. OfKind(k) # {} /\ (HasRx => OfKind(l) # {})
    BY <2>2 DEF Opened
  <2>4. /\ FirstChannel(k) # NoId /\ FirstChannel(k) \in Ids
        /\ \E i \in find_channel(FirstChannel(k)) : table[i].kind = Kinds[k]
    BY <2>3, FirstChannelWorks
  <2>5. HasRx => /\ FirstChannel(l) \in Ids
                 /\ \E i \in find_channel(FirstChannel(l)) : table[i].kind = Kinds[l]
    BY <2>3, FirstChannelWorks
  <2>6. chans' = <<FirstChannel(k), IF HasRx THEN FirstChannel(l) ELSE NoId>>
    BY <1>1, <1>4, <2>1
  <2>7. chans' \in (Ids \cup {NoId}) \X (Ids \cup {NoId}) /\ chans' # NoChans
    BY <2>4, <2>5, <2>6 DEF NoChans
  <2>8. Sends(chans'[1])
    BY <1>2, <2>1, <2>4, <2>6 DEF Sends
  <2>9. HasRx => Receives(chans'[2])
    BY <1>2, <2>1, <2>5, <2>6 DEF Receives
  <2> QED
    BY <2>7, <2>8, <2>9
<1> QED
  BY <1>3, <1>4

\* The process's own variables keep their types.
LEMMA ProcessKept ==
  ASSUME BoardOK, Process, Opened, Next
  PROVE  Process'
<1>1. handle' \in Handles /\ misuse' \subseteq Faults
  BY HandleKept, FaultsKept DEF Process
<1>2. Ids' = Ids /\ CommandLines' = CommandLines
  BY BoardSets
<1> USE DEF Process
<1>3. ASSUME UNCHANGED <<prog, launched, args, stale>>, pc' \in PCs, round' \in Nat,
             rc' \in {0, -1}, mapped' \subseteq {"tx", "rx"},
             chans' \in (Ids \cup {NoId}) \X (Ids \cup {NoId}), lost' \in BOOLEAN
      PROVE  Process'
  BY <1>1, <1>2, <1>3
<1>4. CASE Program
  <2>1. UNCHANGED <<prog, launched, args, stale>>
    BY <1>4, SameProgram DEF runVars
  <2>2. CASE PickChannels
    <3>1. /\ pc' \in PCs /\ UNCHANGED <<round, mapped, lost>>
          /\ rc' \in {0, -1}
      BY <2>2 DEF PickChannels, Fails, Goto, PCs
    <3>2. CASE pc' \in Transfers \cup {"tx_buf"}
      BY <1>3, <2>1, <2>2, <3>1, <3>2, PickWorks
    <3>3. CASE chans' = chans
      BY <1>3, <2>1, <3>1, <3>3
    <3> QED
      BY <2>2, <3>2, <3>3 DEF PickChannels, Goto, Transfers
  <2>3. chans' = chans \/ PickChannels
    BY <1>4 DEF Program, parse_args, OpenLibrary, MallocTx, MallocRx, FillBuffers,
       Send, SendWaits, Receive, ReceiveWaits, init_data, Both, BothWaits, verify_data, Client,
       ClientCloses, ClientEnds, axidma_free, CloseLibrary, procVars
  <2> USE DEF Goto, Fails, PCs, At
  <2>4. CASE parse_args \/ OpenLibrary \/ MallocTx \/ MallocRx \/ FillBuffers \/ init_data
             \/ verify_data
    <3>1. /\ pc' \in PCs /\ round' = round /\ lost' = lost /\ chans' = chans
          /\ mapped' \in {mapped, mapped \cup {"tx"}, mapped \cup {"rx"}}
      BY <2>4 DEF parse_args, OpenLibrary, MallocTx, MallocRx, FillBuffers, init_data, verify_data
    <3>2. rc' \in {rc, -1}
      BY <2>4 DEF parse_args, OpenLibrary, MallocTx, MallocRx, FillBuffers, init_data, verify_data
    <3> QED
      BY <1>3, <2>1, <3>1, <3>2
  <2>5. CASE Send \/ SendWaits
    <3>1. /\ pc' \in PCs /\ UNCHANGED <<round, mapped, chans>> /\ rc' \in {rc, 0, -1}
      BY <2>5 DEF Send, SendWaits, SendReturned
    <3>2. lost' \in BOOLEAN
      BY <2>5 DEF Send, SendWaits, SendReturned
    <3> QED
      BY <1>3, <2>1, <3>1, <3>2
  <2>6. CASE Receive \/ ReceiveWaits
    <3>1. /\ pc' \in PCs /\ UNCHANGED <<mapped, chans, lost>> /\ rc' \in {rc, 0, -1}
          /\ round' \in {round, round + 1}
      BY <2>6 DEF Receive, ReceiveWaits
    <3> QED
      BY <1>3, <2>1, <3>1
  <2>7. CASE Both \/ BothWaits
    <3>1. /\ pc' \in PCs /\ UNCHANGED <<mapped, chans>> /\ rc' \in {rc, 0, -1}
          /\ round' \in {round, round + 1}
      BY <2>7 DEF Both, BothWaits, BothReturned
    <3>2. lost' \in BOOLEAN
      BY <2>7 DEF Both, BothWaits, BothReturned
    <3> QED
      BY <1>3, <2>1, <3>1, <3>2
  <2>8. CASE Client \/ ClientCloses \/ ClientEnds \/ CloseLibrary \/ axidma_free
    <3>1. /\ pc' \in PCs /\ UNCHANGED <<chans, lost, rc>> /\ round' \in {round, round + 1}
          /\ mapped' \subseteq mapped
      BY <2>8 DEF Client, ClientCloses, ClientEnds, CloseLibrary, axidma_free, procVars
    <3> QED
      BY <1>3, <2>1, <3>1
  <2> QED
    BY <1>4, <2>2, <2>4, <2>5, <2>6, <2>7, <2>8 DEF Program
<1>5. CASE Signal \/ Hardware \/ UNCHANGED vars
  <2>1. UNCHANGED <<procVars, runVars, lost>>
    BY <1>5 DEF Signal, Hardware, vars
  <2> QED
    BY <1>3, <2>1 DEF procVars, runVars
<1>6. CASE Launch
  <2>1. /\ launched' \in 1 .. Launches /\ prog' \in Programs /\ pc' \in PCs
    BY <1>6, ProgramAssumption DEF Launch, Entry, PCs
  <2>2. args' \in CommandLines /\ (prog' # "bench" => args' = NoArgs)
    <3>1. args' \in CommandLines \cup {NoArgs} /\ Starts(prog', args')
      BY <1>6 DEF Launch
    <3>2. NoArgs \in CommandLines
      BY NoArgsWorks
    <3> QED
      BY <3>1, <3>2 DEF Starts
  <2>3. /\ round' = 0 /\ rc' = 0 /\ mapped' = {} /\ lost' = FALSE /\ stale' \in BOOLEAN
        /\ chans' = <<NoId, NoId>>
    BY <1>6 DEF Launch, NoChans
  <2>4. NoArgs' = NoArgs
    BY DEF NoArgs, DefaultSize, NoChans
  <2> QED
    BY <1>1, <1>2, <2>1, <2>2, <2>3, <2>4
<1> QED
  BY <1>4, <1>5, <1>6 DEF Next
-----------------------------------------------------------------------------
(* The buffers.                                                            *)

\* A buffer of n words.
LEMMA BufferWorks ==
  ASSUME NEW n \in Nat, NEW b \in [1 .. n -> Words]
  PROVE  b \in Seq(Words) /\ Len(b) = n
<1>1. b \in Seq(Words)
  BY SeqDef
<1> QED
  BY <1>1, LenProperties

\* What a reception leaves in a buffer are words.
LEMMA ReceivedWorks ==
  ASSUME NEW g \in Seq(Words), NEW b \in Seq(Words)
  PROVE  g \o SubSeq(b, Len(g) + 1, Len(b)) \in Seq(Words)
<1>1. Len(g) \in Nat /\ Len(b) \in Nat
  BY LenProperties
<1>2. SubSeq(b, Len(g) + 1, Len(b)) \in Seq(Words)
  <2>1. CASE Len(g) + 1 <= Len(b) + 1
    BY <1>1, <2>1, SubSeqProperties
  <2>2. CASE ~(Len(g) + 1 <= Len(b) + 1)
    <3>1. SubSeq(b, Len(g) + 1, Len(b)) = <<>>
      BY <1>1, <2>2, SubSeqEmpty
    <3> QED
      BY <3>1
  <2> QED
    BY <2>1, <2>2
<1> QED
  BY <1>2, ConcatProperties

\* The buffers hold words, and the mapped transmit buffer is as large as it was asked for.
LEMMA ContentsKept ==
  ASSUME Room, Process, Contents, Next
  PROVE  Contents'
<1>1. TxSize \in Nat /\ RxSize \in Nat /\ N \in Nat
  BY Sizes, KernelAssumption DEF Process
<1>2. tx_buf \in Seq(Words) /\ rx_buf \in Seq(Words) /\ shown \in Seq(Words)
  BY DEF Contents
<1>3. s2mm.got \in Seq(Words)
  BY DEF Room
<1>4. Received(rx_buf) \in Seq(Words)
  <2>1. PICK g \in Seq(Words), b \in Seq(Words) : g = s2mm.got /\ b = rx_buf
    BY <1>2, <1>3
  <2>2. g \o SubSeq(b, Len(g) + 1, Len(b)) \in Seq(Words)
    BY ReceivedWorks
  <2> QED
    BY <2>1, <2>2 DEF Received
<1>5. CASE Program
  <2>1. TxSize' = TxSize /\ RxSize' = RxSize
    BY <1>5, SameProgram DEF runVars, TxSize, RxSize
  <2>2. CASE UNCHANGED <<tx_buf, rx_buf, shown>> /\ mapped' \in {mapped, mapped \ {"rx"}, mapped \ {"tx"}}
    BY <2>1, <2>2 DEF Contents
  <2>3. CASE parse_args \/ OpenLibrary \/ PickChannels \/ Send \/ SendWaits \/ Receive \/ Both
             \/ verify_data \/ Client \/ ClientCloses \/ ClientEnds \/ axidma_free \/ CloseLibrary
    <3>1. UNCHANGED <<tx_buf, rx_buf, shown>> /\ mapped' \in {mapped, mapped \ {"rx"}, mapped \ {"tx"}}
      BY <2>3 DEF parse_args, OpenLibrary, PickChannels, Send, SendWaits, Receive, Both,
         verify_data, Client, ClientCloses, ClientEnds, axidma_free, CloseLibrary, procVars
    <3> QED
      BY <2>2, <3>1
  <2>4. CASE MallocTx
    <3>1. CASE tx_buf' = [i \in 1 .. TxSize |-> 0]
      <4>1. tx_buf' \in [1 .. TxSize -> Words]
        BY <3>1, WordsWrap
      <4>2. tx_buf' \in Seq(Words) /\ Len(tx_buf') = TxSize
        BY <1>1, <4>1, BufferWorks
      <4> QED
        BY <1>2, <2>1, <2>4, <4>2 DEF MallocTx, Contents
    <3>2. CASE UNCHANGED <<mapped, tx_buf>>
      BY <2>2, <2>4, <3>2 DEF MallocTx
    <3> QED
      BY <2>4, <3>1, <3>2 DEF MallocTx
  <2>5. CASE MallocRx
    <3>1. CASE rx_buf' = [i \in 1 .. RxSize |-> 0] /\ mapped' = mapped \cup {"rx"}
      <4>1. rx_buf' \in [1 .. RxSize -> Words]
        BY <3>1, WordsWrap
      <4>2. rx_buf' \in Seq(Words)
        BY <1>1, <4>1, BufferWorks
      <4> QED
        BY <1>2, <2>1, <2>5, <3>1, <4>2 DEF MallocRx, Contents
    <3>2. CASE UNCHANGED <<mapped, rx_buf>>
      BY <2>2, <2>5, <3>2 DEF MallocRx
    <3> QED
      BY <2>5, <3>1, <3>2 DEF MallocRx
  <2>6. CASE FillBuffers
    <3>1. tx_buf' \in Seq(Words) /\ Len(tx_buf') = TxSize
      <4>1. tx_buf' \in [1 .. TxSize -> Words]
        BY <2>6, ProgramAssumption DEF FillBuffers
      <4> QED
        BY <1>1, <4>1, BufferWorks
    <3>2. rx_buf' \in Seq(Words)
      <4>1. CASE rx_buf' = rx_buf
        BY <1>2, <4>1
      <4>2. ASSUME NEW late \in BOOLEAN,
                   rx_buf' = [i \in 1 .. RxSize |-> (IF late THEN i ELSE i - 1) % Modulus]
            PROVE  rx_buf' \in Seq(Words)
        <5>1. \A i \in 1 .. RxSize : (IF late THEN i ELSE i - 1) \in Nat
          BY <1>1
        <5>2. \A i \in 1 .. RxSize : (IF late THEN i ELSE i - 1) % Modulus \in Words
          BY <5>1, WordsWrap
        <5>3. rx_buf' \in [1 .. RxSize -> Words]
          BY <4>2, <5>2
        <5> QED
          BY <1>1, <5>3, BufferWorks
      <4> QED
        BY <2>6, <4>1, <4>2 DEF FillBuffers
    <3> QED
      BY <1>2, <2>1, <2>6, <3>1, <3>2 DEF FillBuffers, Contents
  <2>7. CASE init_data
    <3>1. tx_buf' \in Seq(Words) /\ Len(tx_buf') = TxSize
      <4>1. \A i \in 1 .. TxSize : TEST_PATTERN(i) \in Words
        BY <1>1, WordsWrap DEF TEST_PATTERN
      <4>2. tx_buf' \in [1 .. TxSize -> Words]
        BY <2>7, <4>1 DEF init_data
      <4> QED
        BY <1>1, <4>2, BufferWorks
    <3>2. rx_buf' \in Seq(Words)
      <4>1. \A i \in 1 .. RxSize : TEST_PATTERN(i + TxSize) \in Words
        BY <1>1, WordsWrap DEF TEST_PATTERN
      <4>2. rx_buf' \in [1 .. RxSize -> Words]
        BY <2>7, <4>1 DEF init_data
      <4> QED
        BY <1>1, <4>2, BufferWorks
    <3> QED
      BY <1>2, <2>1, <2>7, <3>1, <3>2 DEF init_data, Contents
  <2>8. CASE ReceiveWaits \/ BothWaits
    <3>1. rx_buf' = Received(rx_buf) /\ shown' \in {shown, Received(rx_buf)}
          /\ UNCHANGED <<mapped, tx_buf>>
      BY <2>8 DEF ReceiveWaits, BothWaits
    <3> QED
      BY <1>2, <1>4, <2>1, <3>1 DEF Contents
  <2> QED
    BY <1>5, <2>3, <2>4, <2>5, <2>6, <2>7, <2>8 DEF Program
<1>6. CASE Signal \/ Hardware \/ UNCHANGED vars
  <2>1. UNCHANGED <<procVars, runVars>>
    BY <1>6 DEF Signal, Hardware, vars
  <2>2. TxSize' = TxSize
    BY <2>1 DEF runVars, TxSize
  <2> QED
    BY <2>1, <2>2 DEF procVars, Contents
<1>7. CASE Launch
  BY <1>7 DEF Launch, Contents
<1> QED
  BY <1>5, <1>6, <1>7 DEF Next

-----------------------------------------------------------------------------
(* Where the programs are and what they hold.                              *)

\* Each program keeps to its own places.
LEMMA WhereKept ==
  ASSUME Where, Next
  PROVE  Where'
<1> USE DEF Where, HasRx
<1>1. CASE Program
  <2>1. prog' = prog
    BY <1>1, SameProgram DEF runVars
  <2> USE DEF Goto, Fails, At, Helper, procVars
  <2>2. CASE parse_args \/ OpenLibrary \/ MallocTx \/ MallocRx
    BY <2>1, <2>2 DEF parse_args, OpenLibrary, MallocTx, MallocRx
  <2>3. CASE PickChannels \/ FillBuffers \/ init_data \/ verify_data
    BY <2>1, <2>3 DEF PickChannels, FillBuffers, init_data, verify_data
  <2>4. CASE Send \/ SendWaits \/ Receive \/ ReceiveWaits
    BY <2>1, <2>4 DEF Send, SendWaits, Receive, ReceiveWaits, SendReturned
  <2>5. CASE Both \/ BothWaits
    <3>1. prog \in {"bench", "twoway"}
      BY <2>5 DEF Both, BothWaits
    <3>2. pc' \in {"both", "both_wait", "verify", "free_rx"} /\ (pc' = "verify" => prog # "twoway")
      BY <2>5 DEF Both, BothWaits, BothReturned
    <3> QED
      BY <2>1, <3>1, <3>2
  <2>6. CASE Client \/ ClientCloses \/ ClientEnds \/ axidma_free \/ CloseLibrary
    BY <2>1, <2>6 DEF Client, ClientCloses, ClientEnds, axidma_free, CloseLibrary
  <2> QED
    BY <1>1, <2>2, <2>3, <2>4, <2>5, <2>6 DEF Program
<1>2. CASE Signal \/ Hardware \/ UNCHANGED vars
  BY <1>2 DEF Signal, Hardware, vars, procVars, runVars
<1>3. CASE Launch
  BY <1>3 DEF Launch, Entry
<1> QED
  BY <1>1, <1>2, <1>3 DEF Next

\* Each place has the buffers mapped that its exits unmap.  A program that returns with
\* something left is one of the listed three, and it reports the failure.
LEMMA MapsKept ==
  ASSUME BoardOK, Process, Where, Maps, Opened, Picked, Next
  PROVE  Maps'
<1> USE DEF Where, Maps, HasRx, Helper, BuffersAt, Transfers
<1>1. CASE Program
  <2>1. prog' = prog /\ HasRx' = HasRx /\ BuffersAt' = BuffersAt /\ Helper' = Helper
    BY <1>1, SameProgram DEF runVars
  <2>2. ASSUME handle' = handle, chans' = chans \/ pc' # "exit",
               pc' = pc, mapped' = mapped, rc' = rc
        PROVE  Maps'
    BY <2>1, <2>2
  <2> USE DEF Goto, Fails, At
  <2>3. CASE parse_args
    <3>1. handle = NewHandle /\ handle' = handle /\ mapped' = mapped /\ mapped = {}
          /\ pc' \in {"init", "exit"}
      BY <2>3 DEF parse_args, Opened
    <3> QED
      BY <2>1, <3>1 DEF NewHandle
  <2>4. CASE OpenLibrary
    <3>1. handle = NewHandle /\ mapped' = mapped /\ mapped = {}
      BY <2>4 DEF OpenLibrary, Opened
    <3>2. CASE pc' = "exit"
      <4>1. probe_fails
        BY <2>4, <3>2 DEF OpenLibrary, axidma_init
      <4>2. ~handle'.initialized
        BY <3>1, <4>1 DEF probe_fails, NewHandle
      <4> QED
        BY <2>1, <3>1, <3>2, <4>2
    <3>3. CASE pc' # "exit"
      <4>1. pc' = (IF Helper THEN "chans" ELSE IF prog = "client" THEN "run" ELSE "tx_buf")
        BY <2>4, <3>3 DEF OpenLibrary
      <4> QED
        BY <2>1, <3>1, <4>1
    <3> QED
      BY <3>2, <3>3
  <2>5. CASE MallocTx
    BY <2>1, <2>5 DEF MallocTx
  <2>6. CASE MallocRx
    BY <2>1, <2>6 DEF MallocRx
  <2>7. CASE PickChannels
    <3>1. mapped' = mapped /\ mapped = (IF Helper THEN {} ELSE BuffersAt)
      BY <2>7 DEF PickChannels
    <3>2. CASE pc' = "exit"
      <4>1. rc' = -1 /\ Helper /\ HasRx
        BY <2>7, <3>2 DEF PickChannels
      <4> QED
        BY <2>1, <3>1, <3>2, <4>1
    <3>3. CASE pc' # "exit"
      <4>1. pc' \in (IF Helper THEN {"destroy", "tx_buf"}
                     ELSE IF HasRx THEN {"free_rx", "test", "fill"} ELSE {"free_tx", "test", "fill"})
        BY <2>7, <3>3 DEF PickChannels
      <4> QED
        BY <2>1, <3>1, <4>1
    <3> QED
      BY <3>2, <3>3
  <2>8. CASE FillBuffers \/ init_data \/ verify_data
    <3>1. pc \in Transfers /\ mapped' = mapped /\ pc' \in {"both", "tx", "free_rx"}
          /\ (pc' = "free_rx" => HasRx)
      BY <2>8 DEF FillBuffers, init_data, verify_data
    <3> QED
      BY <2>1, <3>1
  <2>9. CASE Send \/ SendWaits
    <3>1. pc \in Transfers /\ mapped' = mapped /\ chans' = chans
      BY <2>9 DEF Send, SendWaits
    <3>2. pc \in {"tx", "tx_wait"} /\ prog \notin {"bench", "twoway"}
      BY <2>9 DEF Send, SendWaits
    <3>3. CASE pc' = "tx_wait"
      BY <2>1, <3>1, <3>3
    <3>4. ASSUME NEW ok \in BOOLEAN, SendReturned(ok)
          PROVE  Maps'
      <4>1. chans # NoChans
        BY <3>1 DEF Picked
      <4>2. pc' = (IF prog = "sum" THEN "rx" ELSE IF prog = "caeco" /\ ~ok THEN "exit" ELSE "free_tx")
            /\ rc' = (IF ok THEN 0 ELSE -1)
        BY <3>4 DEF SendReturned
      <4>3. mapped = (IF prog = "sum" THEN {"tx", "rx"} ELSE {"tx"})
        BY <3>1, <3>2
      <4> QED
        BY <2>1, <3>1, <3>2, <4>1, <4>2, <4>3
    <3> QED
      BY <2>9, <3>3, <3>4 DEF Send, SendWaits
  <2>10. CASE Receive \/ ReceiveWaits
    <3>1. pc \in Transfers /\ mapped' = mapped /\ chans' = chans /\ prog = "sum"
      BY <2>10 DEF Receive, ReceiveWaits
    <3>2. chans # NoChans /\ mapped = {"tx", "rx"}
      BY <3>1 DEF Picked
    <3>3. pc' \in {"tx", "rx_wait", "free_rx"} \/ (pc' = "exit" /\ rc' = -1)
      BY <2>10 DEF Receive, ReceiveWaits
    <3> QED
      BY <2>1, <3>1, <3>2, <3>3
  <2>11. CASE Both \/ BothWaits
    <3>1. pc \in Transfers /\ mapped' = mapped /\ prog \in {"bench", "twoway"}
      BY <2>11 DEF Both, BothWaits
    <3>2. pc' \in {"both", "both_wait", "verify", "free_rx"}
      BY <2>11 DEF Both, BothWaits, BothReturned
    <3> QED
      BY <2>1, <3>1, <3>2
  <2>12. CASE Client \/ ClientCloses \/ ClientEnds
    <3>1. pc = "run" /\ mapped' = mapped /\ pc' \in {"run", "exit"} /\ (pc' = "exit" => ~handle.initialized)
      BY <2>12 DEF Client, ClientCloses, ClientEnds, procVars
    <3>2. pc' = "exit" => handle' = handle
      BY <2>12 DEF Client, ClientCloses, ClientEnds, procVars, libVars
    <3> QED
      BY <2>1, <3>1, <3>2
  <2>13. CASE axidma_free
    BY <2>1, <2>13 DEF axidma_free
  <2>14. CASE CloseLibrary
    <3>1. /\ pc = "destroy" /\ pc' = "exit" /\ mapped' = mapped /\ rc' = rc
          /\ Closes
      BY <2>14 DEF CloseLibrary, axidma_destroy, Closes
    <3>2. handle'.initialized = FALSE
      BY <3>1 DEF Closes, Process, Handles
    <3> QED
      BY <2>1, <3>1, <3>2
  <2> QED
    BY <1>1, <2>3, <2>4, <2>5, <2>6, <2>7, <2>8, <2>9, <2>10, <2>11, <2>12, <2>13, <2>14
       DEF Program
<1>2. CASE Signal \/ Hardware \/ UNCHANGED vars
  <2>1. UNCHANGED <<procVars, runVars, handle>>
    BY <1>2 DEF Signal, Hardware, vars, libVars, axidma_callback, SendWord, FetchWord
  <2> QED
    BY <2>1 DEF procVars, runVars
<1>3. CASE Launch
  BY <1>3 DEF Launch, Entry
<1> QED
  BY <1>1, <1>2, <1>3 DEF Next

\* The channels are picked before the first transfer, and not changed then.
LEMMA PickedKept ==
  ASSUME BoardOK, Process, Where, Opened, Picked, Next
  PROVE  Picked'
<1>1. UNCHANGED <<tree, table, fabric>>
  BY BoardStays
<1> DEFINE P(c) == c # NoChans /\ (args.ids = NoChans => Sends(c[1]) /\ (HasRx => Receives(c[2])))
           At1 == pc \in Transfers \/ (Helper /\ pc \in {"tx_buf", "rx_buf"})
<1>2. ASSUME UNCHANGED <<prog, args>>
      PROVE  /\ \A id : Sends(id)' = Sends(id) /\ Receives(id)' = Receives(id)
             /\ HasRx' = HasRx /\ Helper' = Helper
  BY <1>1, <1>2 DEF Sends, Receives, find_channel, HasRx, Helper
<1>3. ASSUME UNCHANGED <<prog, args, chans>>, P(chans)
      PROVE  Picked'
  BY <1>2, <1>3 DEF Picked, Sends, Receives, HasRx, NoChans
<1> USE DEF Goto, Fails, At, Transfers
<1>4. CASE Program
  <2>1. UNCHANGED <<prog, args>>
    BY <1>4, SameProgram DEF runVars
  <2>2. CASE PickChannels
    <3>1. CASE pc' \in Transfers \cup {"tx_buf"}
      <4>1. P(chans')
        BY <2>2, <3>1, PickWorks DEF Process
      <4> QED
        BY <1>2, <2>1, <4>1 DEF Picked
    <3>2. CASE pc' \notin Transfers \cup {"tx_buf"}
      <4>1. pc' # "rx_buf"
        BY <2>2 DEF PickChannels
      <4> QED
        BY <3>2, <4>1 DEF Picked
    <3> QED
      BY <3>1, <3>2
  <2>3. CASE parse_args \/ OpenLibrary \/ Client \/ ClientCloses \/ ClientEnds \/ axidma_free
             \/ CloseLibrary
    <3>1. pc' \in {"init", "exit", "chans", "run", "tx_buf", "free_tx", "destroy"}
          /\ (pc' = "tx_buf" => ~Helper)
      BY <2>3 DEF parse_args, OpenLibrary, Client, ClientCloses, ClientEnds, axidma_free,
                  CloseLibrary, procVars
    <3> QED
      BY <1>2, <2>1, <3>1 DEF Picked
  <2>4. CASE MallocTx \/ MallocRx
    <3>1. CASE Helper
      <4>1. P(chans) /\ chans' = chans
        BY <2>4, <3>1 DEF Picked, MallocTx, MallocRx
      <4> QED
        BY <1>3, <2>1, <4>1
    <3>2. CASE ~Helper
      <4>1. pc' \notin Transfers
        BY <2>4, <3>2 DEF MallocTx, MallocRx, Helper
      <4> QED
        BY <1>2, <2>1, <3>2, <4>1 DEF Picked
    <3> QED
      BY <3>1, <3>2
  <2>5. CASE FillBuffers \/ init_data \/ verify_data \/ Send \/ SendWaits \/ Receive
             \/ ReceiveWaits \/ Both \/ BothWaits
    <3>1. pc \in Transfers /\ chans' = chans
      BY <2>5 DEF FillBuffers, init_data, verify_data, Send, SendWaits, Receive, ReceiveWaits,
                  Both, BothWaits
    <3>2. P(chans)
      BY <3>1 DEF Picked
    <3> QED
      BY <1>3, <2>1, <3>1, <3>2
  <2> QED
    BY <1>4, <2>2, <2>3, <2>4, <2>5 DEF Program
<1>5. CASE Signal \/ Hardware \/ UNCHANGED vars
  <2>1. UNCHANGED <<prog, args, pc, chans>>
    BY <1>5 DEF Signal, Hardware, vars, procVars, runVars
  <2>2. \/ P(chans)
        \/ ~At1
    BY DEF Picked
  <2>3. CASE P(chans)
    BY <1>3, <2>1, <2>3
  <2>4. CASE ~At1
    BY <1>2, <2>1, <2>4 DEF Picked
  <2> QED
    BY <2>2, <2>3, <2>4
<1>6. CASE Launch
  BY <1>6 DEF Launch, Entry, Picked
<1> QED
  BY <1>4, <1>5, <1>6 DEF Next

\* A word that is waited for is not signalled, and the words behind it stay.
LEMMA WaitedSent ==
  ASSUME Stream, AllWaited, SendWord
  PROVE  AllWaited' /\ sigs' = sigs
<1>1. mm2s \in Seq(Sent) /\ mm2s # <<>> /\ mm2s' = Tail(mm2s)
  BY DEF Stream, SendWord, CanSend
<1>2. PICK m \in Seq(Sent) : m = mm2s
  BY <1>1
<1>3. /\ Len(m) \in Nat /\ DOMAIN m = 1 .. Len(m) /\ Len(m) # 0
      /\ Tail(m) \in Seq(Sent) /\ Len(Tail(m)) = Len(m) - 1
      /\ \A j \in 1 .. Len(Tail(m)) : Tail(m)[j] = m[j + 1]
  BY <1>1, <1>2, LenProperties, EmptySeq, HeadTailProperties
<1>4. DOMAIN Tail(m) = 1 .. Len(m) - 1
  BY <1>3, LenProperties
<1>5. AllWaited'
  BY <1>1, <1>2, <1>3, <1>4 DEF AllWaited
<1>6. Head(mm2s).wait
  <2>1. Head(m) = m[1] /\ 1 \in DOMAIN m
    BY <1>3
  <2> QED
    BY <1>2, <2>1 DEF AllWaited
<1>7. sigs' = sigs
  BY <1>6 DEF SendWord
<1> QED
  BY <1>5, <1>7

\* A transmission that is waited for adds such words.
LEMMA WaitedAdds ==
  ASSUME Stream, AllWaited, NEW b \in Seq(Words), NEW id \in Ids, Adds(b, id, TRUE)
  PROVE  AllWaited'
<1>1. PICK m \in Seq(Sent) : m = mm2s
  BY DEF Stream
<1>2. PICK e : e = Descriptor(b, id, TRUE)
  OBVIOUS
<1>3. /\ e \in Seq(Sent) /\ Len(e) = Len(b) /\ Len(b) \in Nat
      /\ \A j \in 1 .. Len(b) : e[j].wait
  <2>1. Len(e) = Len(b) /\ Len(b) \in Nat
    BY <1>2, DescriptorLength, LenProperties
  <2>2. \A j \in 1 .. Len(b) : e[j].wait = TRUE
    BY <1>2, DescriptorFields
  <2>3. e \in Seq(Sent)
    BY <1>2, DescriptorWorks DEF Sent
  <2> QED
    BY <2>1, <2>2, <2>3
<1> HIDE <1>2
<1>0. e \in Seq(Sent) /\ m \in Seq(Sent)
  BY <1>3
<1>4. /\ Len(m) \in Nat /\ DOMAIN m = 1 .. Len(m) /\ m \o e \in Seq(Sent)
      /\ Len(m \o e) = Len(m) + Len(e)
      /\ \A j \in 1 .. Len(m) + Len(e) :
           (m \o e)[j] = IF j <= Len(m) THEN m[j] ELSE e[j - Len(m)]
  <2>1. PICK R : R = Sent
    OBVIOUS
  <2>2. m \in Seq(R) /\ e \in Seq(R)
    BY <2>1, <1>0
  <2>3. /\ m \o e \in Seq(R) /\ Len(m \o e) = Len(m) + Len(e)
        /\ \A j \in 1 .. Len(m) + Len(e) :
             (m \o e)[j] = IF j <= Len(m) THEN m[j] ELSE e[j - Len(m)]
    BY <2>2, ConcatProperties, Zenon
  <2>4. Len(m) \in Nat /\ DOMAIN m = 1 .. Len(m)
    BY <2>2, LenProperties
  <2> QED
    BY <2>1, <2>3, <2>4
<1>5. DOMAIN (m \o e) = 1 .. Len(m) + Len(e)
  BY <1>4, LenProperties
<1>6. ASSUME NEW j \in 1 .. Len(m) + Len(e)
      PROVE  (m \o e)[j].wait
  <2>1. CASE j <= Len(m)
    <3>1. j \in DOMAIN m /\ (m \o e)[j] = m[j]
      BY <1>4, <2>1
    <3> QED
      BY <1>1, <3>1 DEF AllWaited
  <2>2. CASE ~(j <= Len(m))
    <3>1. j - Len(m) \in 1 .. Len(b)
      <4>1. Len(m) \in Nat /\ Len(b) \in Nat /\ Len(e) = Len(b)
        BY <1>3, <1>4
      <4> QED
        BY <2>2, <4>1
    <3>2. (m \o e)[j] = e[j - Len(m)]
      BY <1>4, <2>2
    <3> QED
      BY <1>3, <3>1, <3>2
  <2> QED
    BY <2>1, <2>2
<1>7. mm2s' = m \o e
  BY <1>1, <1>2 DEF Adds
<1> QED
  BY <1>5, <1>6, <1>7 DEF AllWaited

\* What the next program finds under way is not its own.
LEMMA WaitedLaunch ==
  ASSUME Stream, Launch
  PROVE  AllWaited'
<1>1. PICK m \in Seq(Sent) : m = mm2s
  BY DEF Stream
<1>2. DOMAIN m = 1 .. Len(m) /\ \A j \in 1 .. Len(m) : m[j] \in Sent
  BY LenProperties, ElementOfSeq
<1>3. mm2s' = [i \in DOMAIN m |-> [m[i] EXCEPT !.wait = TRUE]]
  BY <1>1 DEF Launch
<1>4. \A j \in DOMAIN m : [m[j] EXCEPT !.wait = TRUE].wait = TRUE
  BY <1>2 DEF Sent
<1> QED
  BY <1>3, <1>4 DEF AllWaited

\* A program that does not transmit without waiting, and does not signal.
LEMMA WaitedProgram ==
  ASSUME BoardOK, Stream, tx_buf \in Seq(Words), AllWaited, sigs = <<>>, Program, ~Both, ~Client
  PROVE  AllWaited' /\ sigs' = <<>>
<1>1. CASE UNCHANGED <<sigs, ip, outq, mm2s>>
  BY <1>1 DEF AllWaited
<1>2. CASE find_channel(chans[1]) # {} /\ Adds(tx_buf, chans[1], TRUE)
  <2>1. chans[1] \in Ids
    BY <1>2, TableIds
  <2> QED
    BY <1>2, <2>1, WaitedAdds DEF Adds
<1>3. CASE mm2s' = <<>> /\ UNCHANGED <<sigs, ip, outq>>
  BY <1>3 DEF AllWaited
<1> QED
  BY <1>1, <1>2, <1>3, StreamMoves

\* Opening the library counts its channels.
LEMMA Counts ==
  ASSUME BoardOK, handle \in Handles, Opened, categorize_channels
  PROVE  /\ handle'.initialized = TRUE /\ handle'.arrays = "ok" /\ handle'.num = Len(table)
         /\ \A k \in DOMAIN Kinds : handle'.len[k] > 0 => OfKind(k) # {}
<1>1. PICK n \in Nat : n = Len(table) /\ DOMAIN table = 1 .. n
  BY TableFacts DEF BoardOK
<1>2. ASSUME NEW k \in DOMAIN Kinds, handle'.len[k] > 0
      PROVE  OfKind(k) # {}
  <2>1. PICK T \in SUBSET (1 .. n) : T = OfKind(k)
    BY <1>1 DEF OfKind
  <2>2. handle'.len[k] = handle.len[k] + Cardinality(OfKind(k))
    BY DEF categorize_channels
  <2>3. Cardinality(T) \in Nat /\ (Cardinality(T) > 0 => T # {}) /\ handle.len[k] \in Nat
    BY CountWorks DEF Handles
  <2>4. handle.len[k] > 0 => OfKind(k) # {}
    BY DEF Opened
  <2> QED
    BY <1>2, <2>1, <2>2, <2>3, <2>4
<1> QED
  BY <1>2 DEF categorize_channels

\* The handle is what the place of the program says, and counts the board's channels when
\* a completion may be signalled.
LEMMA OpenedKept ==
  ASSUME BoardOK, Stream, Process, tx_buf \in Seq(Words), Where, Opened, Next
  PROVE  Opened'
<1>1. UNCHANGED <<tree, table, fabric>> /\ \A k \in DOMAIN Kinds : OfKind(k)' = OfKind(k)
  BY BoardStays, BoardSets
<1> DEFINE Early == {"args", "init"}
           Closed == {"args", "init", "run", "exit"}
           Idle == sigs = <<>> /\ AllWaited
<1>2. handle \in Handles
  BY DEF Process
<1>3. ASSUME handle' = handle, pc' \notin Early, pc' \notin Closed => pc \notin Closed,
             handle.num # Len(table) => Idle'
      PROVE  Opened'
  BY <1>1, <1>3 DEF Opened
<1>4. CASE Program
  <2>1. CASE parse_args
    <3>1. /\ handle' = handle /\ handle = NewHandle /\ UNCHANGED <<sigs, mm2s, round>>
          /\ pc' \in {"init", "exit"} /\ Idle /\ round = 0
      BY <2>1 DEF parse_args, hwVars, Goto, Fails, At, Opened
    <3>2. Idle'
      BY <3>1 DEF AllWaited
    <3> QED
      BY <1>1, <3>1, <3>2 DEF Opened, NewHandle
  <2>2. CASE OpenLibrary \/ Client
    <3>1. CASE ~handle.initialized /\ categorize_channels
      <4>1. /\ handle'.initialized = TRUE /\ handle'.arrays = "ok" /\ handle'.num = Len(table)
            /\ \A k \in DOMAIN Kinds : handle'.len[k] > 0 => OfKind(k) # {}
        BY <1>2, <3>1, Counts
      <4>2. pc' \notin Early
        BY <2>2 DEF OpenLibrary, Client, Goto, Fails, At
      <4> QED
        BY <1>1, <4>1, <4>2 DEF Opened
    <3>2. CASE ~handle.initialized /\ probe_fails
      <4>1. /\ UNCHANGED <<sigs, mm2s>> /\ pc' \in {"run", "exit"}
        <5>1. CASE OpenLibrary
          <6>1. UNCHANGED <<sigs, mm2s>>
            BY <5>1 DEF OpenLibrary, axidma_init, hwVars
          <6>2. pc' \in {"chans", "run", "tx_buf", "exit"}
            BY <5>1 DEF OpenLibrary, Goto, Fails
          <6>3. CASE axidma_init(FALSE) /\ Fails("exit")
            BY <6>1, <6>3 DEF Fails
          <6>4. CASE axidma_init(TRUE)
            <7>1. handle'.initialized = TRUE
              BY <6>4 DEF axidma_init, categorize_channels
            <7>2. handle'.initialized = FALSE
              BY <1>2, <3>2 DEF probe_fails, Handles
            <7> QED
              BY <7>1, <7>2
          <6> QED
            BY <5>1, <6>3, <6>4 DEF OpenLibrary
        <5>2. CASE Client
          BY <3>2, <5>2 DEF Client, axidma_init, hwVars, At
        <5> QED
          BY <2>2, <5>1, <5>2
      <4>2. /\ handle'.initialized = FALSE /\ handle'.num = handle.num /\ handle'.len = handle.len
        BY <1>2, <3>2 DEF probe_fails, Handles
      <4>3. Idle => Idle'
        BY <4>1 DEF AllWaited
      <4> QED
        BY <1>1, <3>2, <4>1, <4>2, <4>3 DEF Opened
    <3>3. CASE Client
      <4>1. CASE handle.initialized
        <5>1. handle' = handle /\ pc' = pc /\ pc = "run"
          BY <3>3, <4>1 DEF Client, At, axidma_init, axidma_set_callback, axidma_oneway_transfer,
                            axidma_stop_transfer
        <5>2. handle.num = Len(table)
          BY <4>1 DEF Opened
        <5> QED
          BY <1>3, <5>1, <5>2
      <4>2. ASSUME NEW ok \in BOOLEAN, axidma_init(ok)
            PROVE  Opened'
        <5>1. ~handle.initialized /\ (categorize_channels \/ probe_fails)
          BY <4>2 DEF axidma_init
        <5> QED
          BY <3>1, <3>2, <5>1
      <4> QED
        BY <3>3, <4>1, <4>2 DEF Client
    <3>4. CASE OpenLibrary
      <4>1. ~handle.initialized /\ (categorize_channels \/ probe_fails)
        BY <3>4 DEF OpenLibrary, axidma_init
      <4> QED
        BY <3>1, <3>2, <4>1
    <3> QED
      BY <2>2, <3>3, <3>4
  <2>3. CASE ClientCloses \/ CloseLibrary
    <3>1. handle.initialized /\ pc' \in {"run", "exit"} /\ Closes
      BY <2>3 DEF ClientCloses, CloseLibrary, axidma_destroy, Closes, Opened, At, Goto, procVars
    <3>2. handle.num = Len(table)
      BY <3>1 DEF Opened
    <3>3. /\ handle'.initialized = FALSE /\ handle'.num = handle.num /\ handle'.len = handle.len
      BY <1>2, <3>1 DEF Closes, Handles
    <3> QED
      BY <1>1, <3>1, <3>2, <3>3 DEF Opened
  <2>4. CASE MallocTx \/ MallocRx \/ PickChannels \/ FillBuffers \/ Send \/ SendWaits \/ Receive
             \/ ReceiveWaits \/ init_data \/ Both \/ BothWaits \/ verify_data \/ axidma_free
    <3>1. pc \notin Closed /\ pc' \notin Early
      BY <2>4 DEF MallocTx, MallocRx, PickChannels, FillBuffers, Send, SendWaits, SendReturned,
         Receive, ReceiveWaits, init_data, Both, BothWaits, BothReturned, verify_data, axidma_free,
         At, Goto, Fails
    <3>2. handle.initialized
      BY <3>1 DEF Opened
    <3>3. handle.num = Len(table)
      BY <3>2 DEF Opened
    <3>4. handle' = handle
      <4>1. pc # "init" /\ pc # "run" /\ (pc = "destroy" => FALSE)
        BY <2>4 DEF MallocTx, MallocRx, PickChannels, FillBuffers, Send, SendWaits, Receive,
           ReceiveWaits, init_data, Both, BothWaits, verify_data, axidma_free, At
      <4> QED
        BY <1>4, <4>1, HandleMoves DEF OpenLibrary, Client, ClientCloses, CloseLibrary, At
    <3> QED
      BY <1>3, <3>1, <3>3, <3>4
  <2>5. CASE ClientEnds
    <3>1. handle' = handle /\ UNCHANGED <<sigs, mm2s>> /\ pc' = "exit"
      BY <2>5 DEF ClientEnds, libVars, hwVars, Goto
    <3>2. handle.num # Len(table) => Idle'
      BY <3>1 DEF Opened, AllWaited
    <3> QED
      BY <1>3, <3>1, <3>2
  <2> QED
    BY <1>4, <2>1, <2>2, <2>3, <2>4, <2>5 DEF Program
<1>5. CASE Signal \/ Hardware \/ UNCHANGED vars
  <2>1. UNCHANGED <<pc, round, handle>>
    BY <1>5 DEF Signal, Hardware, vars, procVars, libVars, axidma_callback, SendWord, FetchWord
  <2>2. Idle => Idle'
    <3>1. CASE Signal
      BY <3>1 DEF Signal, axidma_callback
    <3>2. CASE SendWord
      BY <3>2, WaitedSent
    <3>3. CASE FetchWord \/ UNCHANGED vars
      BY <3>3 DEF FetchWord, vars, libVars, hwVars, AllWaited
    <3> QED
      BY <1>5, <3>1, <3>2, <3>3 DEF Hardware
  <2> HIDE DEF Idle
  <2> QED
    BY <1>1, <2>1, <2>2 DEF Opened, Idle
<1>6. CASE Launch
  <2>1. handle' = NewHandle /\ sigs' = <<>> /\ round' = 0 /\ pc' \in Early
    BY <1>6 DEF Launch, Entry
  <2>2. AllWaited'
    BY <1>6, WaitedLaunch
  <2> QED
    BY <1>1, <2>1, <2>2 DEF Opened, NewHandle
<1> QED
  BY <1>4, <1>5, <1>6 DEF Next

\* A transmission that has room for its answer sends one word: only the last word of the
\* stream ends it, and only its answer is the last one.
LEMMA SendsOne ==
  ASSUME NEW S, NEW T, NEW m, NEW q, NEW o, m \in Seq(S), m # <<>>, q \in Seq(T), o \in Seq(T),
         Len(o) \in {0, 1}, \A j \in DOMAIN m : m[j].last => j = Len(m),
         \A j \in DOMAIN q : ~q[j].last, Len(o) = 1 /\ o[1].last => m[1].last
  PROVE  /\ \A j \in DOMAIN Tail(m) : Tail(m)[j].last => j = Len(Tail(m))
         /\ \A j \in DOMAIN (q \o o) : (q \o o)[j].last => j = Len(q \o o) /\ Tail(m) = <<>>
<1>1. /\ Len(m) \in Nat /\ DOMAIN m = 1 .. Len(m) /\ Len(m) # 0
      /\ Tail(m) \in Seq(S) /\ Len(Tail(m)) = Len(m) - 1
      /\ \A j \in 1 .. Len(Tail(m)) : Tail(m)[j] = m[j + 1]
  BY LenProperties, EmptySeq, HeadTailProperties
<1>2. DOMAIN Tail(m) = 1 .. Len(m) - 1
  BY <1>1, LenProperties
<1>3. /\ Len(q) \in Nat /\ DOMAIN q = 1 .. Len(q) /\ Len(o) \in Nat
      /\ q \o o \in Seq(T) /\ Len(q \o o) = Len(q) + Len(o)
  BY LenProperties, ConcatProperties
<1>4. \A j \in 1 .. Len(q) + Len(o) : (q \o o)[j] = IF j <= Len(q) THEN q[j] ELSE o[j - Len(q)]
  BY ConcatProperties
<1>5. DOMAIN (q \o o) = 1 .. Len(q) + Len(o)
  BY <1>3, LenProperties
<1>6. ASSUME NEW j \in DOMAIN Tail(m), Tail(m)[j].last
      PROVE  j = Len(Tail(m))
  <2>1. j \in 1 .. Len(m) - 1 /\ Tail(m)[j] = m[j + 1]
    BY <1>1, <1>2
  <2>2. j + 1 \in DOMAIN m
    BY <1>1, <2>1
  <2>3. j + 1 = Len(m)
    BY <1>6, <2>1, <2>2
  <2> QED
    BY <1>1, <2>1, <2>3
<1>7. ASSUME NEW j \in DOMAIN (q \o o), (q \o o)[j].last
      PROVE  j = Len(q \o o) /\ Tail(m) = <<>>
  <2>1. j \in 1 .. Len(q) + Len(o)
    BY <1>5
  <2>2. ~(j <= Len(q))
    <3>1. SUFFICES ASSUME j <= Len(q) PROVE FALSE
      OBVIOUS
    <3>2. j \in DOMAIN q /\ (q \o o)[j] = q[j]
      BY <1>3, <1>4, <2>1, <3>1
    <3> QED
      BY <1>7, <3>2
  <2>3. Len(o) = 1 /\ j = Len(q) + 1
    <3>1. PICK n \in Nat, l \in {0, 1} : n = Len(q) /\ l = Len(o)
      BY <1>3
    <3>2. j \in 1 .. n + l /\ ~(j <= n)
      BY <2>1, <2>2, <3>1
    <3>3. l = 1 /\ j = n + 1
      BY <3>2
    <3> QED
      BY <3>1, <3>3
  <2>4. j - Len(q) = 1
    BY <1>3, <2>3
  <2>5. (q \o o)[j] = o[1]
    BY <1>4, <2>1, <2>2, <2>4
  <2>6. m[1].last
    BY <1>7, <2>3, <2>5
  <2>7. 1 \in DOMAIN m
    BY <1>1
  <2>8. Len(m) = 1
    BY <2>6, <2>7
  <2>9. Tail(m) = <<>>
    <3>1. Len(Tail(m)) = 0
      BY <1>1, <2>8
    <3> QED
      BY <1>1, <3>1, EmptySeq
  <2> QED
    BY <1>3, <2>3, <2>9
<1> QED
  BY <1>1, <1>3, <1>6, <1>7

\* A word of a transmission goes out.
LEMMA FlowSent ==
  ASSUME BoardOK, Stream, Room, Flow, args \in CommandLines, SendWord, UNCHANGED <<prog, args>>
  PROVE  Flow'
<1>1. /\ mm2s # <<>> /\ mm2s' = Tail(mm2s) /\ outq' = outq \o Answer.out /\ s2mm' = s2mm
  BY DEF SendWord, CanSend
<1>2. TxSize' = TxSize /\ RxSize' = RxSize
  BY DEF TxSize, RxSize
<1>3. PICK m \in Seq(Sent) : m = mm2s
  BY DEF Stream
<1>4. PICK q \in Seq(Beats) : q = outq
  BY DEF Stream
<1>5. /\ Answer.out \in Seq(Beats) /\ Len(Answer.out) \in {0, 1}
      /\ Len(Answer.out) = 1 /\ Answer.out[1].last => Head(mm2s).last
  BY <1>1, AnswerWorks
<1>6. PICK o \in Seq(Beats) : o = Answer.out
  BY <1>5
<1>7. Head(m) = m[1]
  BY HeadTailProperties
<1>8. /\ Len(o) \in {0, 1} /\ m # <<>> /\ \A j \in DOMAIN m : m[j].last => j = Len(m)
      /\ \A j \in DOMAIN q : ~q[j].last
  BY <1>1, <1>3, <1>4, <1>5, <1>6 DEF Flow
<1>9. Len(o) = 1 /\ o[1].last => m[1].last
  BY <1>3, <1>5, <1>6, <1>7
<1>10. PICK R, B : R = Sent /\ B = Beats
  OBVIOUS
<1>11. m \in Seq(R) /\ q \in Seq(B) /\ o \in Seq(B)
  BY <1>10
<1>12. /\ \A j \in DOMAIN Tail(m) : Tail(m)[j].last => j = Len(Tail(m))
       /\ \A j \in DOMAIN (q \o o) : (q \o o)[j].last => j = Len(q \o o) /\ Tail(m) = <<>>
  BY <1>8, <1>9, <1>11, SendsOne, Zenon
<1>13. Len(m) \in Nat /\ Len(q) \in Nat /\ Len(s2mm.got) \in Nat /\ TxSize \in Nat
  BY Sizes, LenProperties DEF Room
<1>14. Len(s2mm.got) + Len(q) + Len(m) <= TxSize /\ s2mm.want = RxSize /\ ~s2mm.done
  BY <1>1, <1>3, <1>4 DEF Flow
<1>15. Len(s2mm.got) + Len(q \o o) + Len(Tail(m)) <= TxSize
  <2>1. m # <<>>
    BY <1>8
  <2>2. Len(Tail(m)) = Len(m) - 1 /\ Len(q \o o) = Len(q) + Len(o)
    BY <2>1, <1>11, HeadTailProperties, ConcatProperties
  <2>3. PICK n \in Nat, k \in Nat, g \in Nat, t \in Nat :
          n = Len(m) /\ k = Len(q) /\ g = Len(s2mm.got) /\ t = TxSize
    BY <1>13
  <2>4. PICK l \in {0, 1} : l = Len(o)
    BY <1>8
  <2>5. g + k + n <= t
    BY <1>14, <2>3
  <2>6. g + (k + l) + (n - 1) <= t
    BY <2>5
  <2> QED
    BY <2>2, <2>3, <2>4, <2>6
<1> HIDE DEF TxSize, RxSize
<1>16. mm2s' = Tail(m) /\ outq' = q \o o
  BY <1>1, <1>3, <1>4, <1>6
<1> QED
  BY <1>1, <1>2, <1>12, <1>14, <1>15, <1>16 DEF Flow

\* A result of it is received.
LEMMA FlowFetched ==
  ASSUME Stream, Room, Flow, args \in CommandLines, TxSize <= RxSize, FetchWord,
         UNCHANGED <<prog, args>>
  PROVE  Flow'
<1>1. /\ outq # <<>> /\ ~s2mm.done /\ outq' = Tail(outq) /\ mm2s' = mm2s
      /\ s2mm' = [s2mm EXCEPT !.got = Append(@, Head(outq).data),
                              !.done = Head(outq).last \/ Len(s2mm.got) + 1 = s2mm.want]
  BY DEF FetchWord, CanFetch
<1>2. TxSize' = TxSize /\ RxSize' = RxSize
  BY DEF TxSize, RxSize
<1>3. PICK q \in Seq(Beats) : q = outq
  BY DEF Stream
<1>4. /\ Len(q) \in Nat /\ DOMAIN q = 1 .. Len(q) /\ Len(q) # 0 /\ Head(q) = q[1] /\ Head(q) \in Beats
      /\ Tail(q) \in Seq(Beats) /\ Len(Tail(q)) = Len(q) - 1
      /\ \A j \in 1 .. Len(Tail(q)) : Tail(q)[j] = q[j + 1]
  BY <1>1, <1>3, LenProperties, EmptySeq, HeadTailProperties
<1>5. DOMAIN Tail(q) = 1 .. Len(q) - 1
  BY <1>4, LenProperties
<1>6. PICK m \in Seq(Sent) : m = mm2s
  BY DEF Stream
<1>7. Len(m) \in Nat /\ (Len(m) = 0 => m = <<>>)
  BY LenProperties, EmptySeq
<1>8. /\ s2mm.got \in Seq(Words) /\ s2mm \in [want : Nat, got : Seq(Words), done : BOOLEAN]
  BY DEF Room
<1>9. PICK h \in Beats, g \in Seq(Words) : h = Head(q) /\ g = s2mm.got
  BY <1>4, <1>8
<1>10. h.data \in Words /\ h.last \in BOOLEAN
  BY DEF Beats
<1>11. Len(g) \in Nat /\ Len(Append(g, h.data)) = Len(g) + 1
  BY <1>10, LenProperties, AppendProperties
<1>12. TxSize \in Nat /\ RxSize \in Nat
  BY Sizes
<1> HIDE DEF TxSize, RxSize
<1>13. /\ \A j \in DOMAIN q : q[j].last => j = Len(q) /\ m = <<>>
       /\ s2mm.want = RxSize /\ Len(g) + Len(q) + Len(m) <= TxSize
  BY <1>3, <1>6, <1>9 DEF Flow
<1>14. \A j \in DOMAIN m : m[j].last => j = Len(m)
  BY <1>6 DEF Flow
<1>15. ASSUME NEW j \in DOMAIN Tail(q), Tail(q)[j].last
       PROVE  j = Len(Tail(q)) /\ m = <<>>
  <2>1. j + 1 \in DOMAIN q /\ Tail(q)[j] = q[j + 1] /\ j \in Nat
    BY <1>4, <1>5
  <2>2. j + 1 = Len(q) /\ m = <<>>
    BY <1>13, <1>15, <2>1
  <2>3. Len(Tail(q)) = Len(q) - 1
    BY <1>4
  <2> QED
    BY <2>1, <2>2, <2>3
<1>16. s2mm'.got = Append(g, h.data) /\ s2mm'.want = RxSize
  BY <1>1, <1>3, <1>8, <1>9, <1>13
<1>17. s2mm'.done = (h.last \/ Len(g) + 1 = RxSize)
  BY <1>1, <1>3, <1>8, <1>9, <1>13
<1>18. h.last \/ Len(g) + 1 = RxSize => Tail(q) = <<>> /\ m = <<>>
  <2>1. CASE h.last
    <3>1. 1 \in DOMAIN q /\ q[1].last
      BY <1>4, <1>9, <2>1
    <3>2. 1 = Len(q) /\ m = <<>>
      BY <1>13, <3>1
    <3>3. Len(Tail(q)) = 0
      <4>1. Len(Tail(q)) = Len(q) - 1
        BY <1>4
      <4> QED
        BY <3>2, <4>1
    <3> QED
      BY <1>4, <3>2, <3>3, EmptySeq
  <2>2. CASE Len(g) + 1 = RxSize
    <3>1. Len(q) + Len(m) <= 1
      BY <1>4, <1>7, <1>11, <1>12, <1>13, <2>2
    <3>2. Len(Tail(q)) = 0 /\ Len(m) = 0
      BY <1>4, <1>7, <3>1
    <3> QED
      BY <1>4, <1>7, <3>2, EmptySeq
  <2> QED
    BY <2>1, <2>2
<1>19. Len(Append(g, h.data)) + Len(Tail(q)) + Len(m) <= TxSize
  BY <1>4, <1>7, <1>11, <1>12, <1>13
<1>20. outq' = Tail(q) /\ mm2s' = m
  BY <1>1, <1>3, <1>6
<1>21. s2mm'.done => Tail(q) = <<>> /\ m = <<>>
  BY <1>17, <1>18, Zenon
<1> QED
  BY <1>2, <1>14, <1>15, <1>16, <1>19, <1>20, <1>21 DEF Flow

\* A transfer in both directions starts with the whole buffer to send.
LEMMA FlowStarts ==
  ASSUME args \in CommandLines, tx_buf \in Seq(Words), Len(tx_buf) = TxSize,
         mm2s = <<>>, outq = <<>>, NEW id \in Ids, Adds(tx_buf, id, FALSE),
         s2mm' = Reception(RxSize), UNCHANGED <<prog, args>>
  PROVE  Flow'
<1>1. TxSize' = TxSize /\ RxSize' = RxSize /\ TxSize \in Nat
  BY Sizes DEF TxSize, RxSize
<1>2. PICK b \in Seq(Words), w \in BOOLEAN : b = tx_buf /\ w = FALSE
  OBVIOUS
<1>3. PICK c : c = Descriptor(b, id, w)
  OBVIOUS
<1>4. c \in Seq([data : Words, last : BOOLEAN, id : Ids, wait : BOOLEAN])
  BY <1>3, DescriptorWorks
<1>5. PICK R : R = [data : Words, last : BOOLEAN, id : Ids, wait : BOOLEAN]
  OBVIOUS
<1>6. c \in Seq(R)
  BY <1>4, <1>5
<1>7. <<>> \o c = c
  BY <1>6, ConcatEmptySeq
<1>8. mm2s' = c /\ outq' = <<>>
  BY <1>2, <1>3, <1>7 DEF Adds
<1>9. Len(c) = Len(b) /\ DOMAIN c = 1 .. Len(b)
  BY <1>3, DescriptorLength
<1>10. \A j \in 1 .. Len(b) : c[j].last => j = Len(b)
  BY <1>3, DescriptorFields
<1>11. s2mm'.want = RxSize /\ s2mm'.got = <<>> /\ s2mm'.done = FALSE
  BY DEF Reception
<1>12. Len(<<>>) + Len(<<>>) + Len(c) <= TxSize
  <2>1. PICK t \in Nat : t = TxSize
    BY <1>1
  <2>2. Len(c) = t
    BY <1>2, <1>9, <2>1
  <2>3. 0 + 0 + t <= t
    OBVIOUS
  <2>4. Len(<<>>) = 0
    OBVIOUS
  <2> QED
    BY <2>1, <2>2, <2>3, <2>4
<1>13. \A j \in DOMAIN outq' : FALSE
  BY <1>8
<1> HIDE DEF TxSize, RxSize
<1> QED
  BY <1>1, <1>8, <1>9, <1>10, <1>11, <1>12, <1>13 DEF Flow

\* A program that is sure to receive what it transmits has room for it.
LEMMA SureRoom ==
  ASSUME args \in CommandLines, Sure, Both2
  PROVE  TxSize <= RxSize
<1>1. args.tx_size \in Nat /\ args.rx_size \in Nat /\ N \in Nat
  BY ProgramAssumption, KernelAssumption DEF CommandLines
<1>2. CASE prog = "bench"
  BY <1>1, <1>2 DEF TxSize, RxSize, Sure
<1>3. CASE prog = "twoway"
  BY <1>1, <1>3 DEF TxSize, RxSize
<1> QED
  BY <1>2, <1>3 DEF Both2

\* What a step of a program with transfers in both directions leaves under way.
LEMMA BothKept ==
  ASSUME BoardOK, Stream, Process, Contents, Where, Maps, Quiet, Sure, Both2, Program, ~lost'
  PROVE  /\ pc' = "both_wait" => Flow'
         /\ pc' # "both_wait" => mm2s' = <<>> /\ outq' = <<>>
<1> USE DEF At, Goto, Fails
<1>1. UNCHANGED <<prog, args>> /\ args \in CommandLines
  BY SameProgram DEF runVars, Process
<1>2. /\ pc = "both_wait" => Flow
      /\ pc # "both_wait" => mm2s = <<>> /\ outq = <<>>
  BY DEF Quiet
<1>3. CASE Both
  <2>1. pc = "both" /\ mm2s = <<>> /\ outq = <<>>
    BY <1>2, <1>3 DEF Both
  <2>2. CASE axidma_twoway_transfer(chans[1], tx_buf, chans[2], RxSize, TRUE) /\ pc' = "both_wait"
    <3>1. chans[1] \in Ids
      <4>1. find_channel(chans[1]) # {}
        BY <2>2 DEF axidma_twoway_transfer, Twoway
      <4> QED
        BY <4>1, TableIds
    <3>2. Adds(tx_buf, chans[1], FALSE) /\ s2mm' = Reception(RxSize)
      BY <2>2 DEF axidma_twoway_transfer, Adds
    <3>3. tx_buf \in Seq(Words) /\ Len(tx_buf) = TxSize
      <4>1. "tx" \in mapped
        BY <2>1 DEF Maps, Transfers, BuffersAt
      <4> QED
        BY <4>1 DEF Contents
    <3>4. Flow'
      BY <1>1, <2>1, <3>1, <3>2, <3>3, FlowStarts
    <3> QED
      BY <2>2, <3>4
  <2>3. CASE pc' = pc /\ UNCHANGED hwVars
    BY <2>1, <2>3 DEF hwVars
  <2>4. CASE BothReturned(FALSE)
    BY <2>4 DEF BothReturned
  <2> QED
    BY <1>3, <2>2, <2>3, <2>4 DEF Both
<1>4. CASE BothWaits
  <2>1. pc = "both_wait" /\ Flow
    BY <1>2, <1>4 DEF BothWaits
  <2>2. PICK ok \in BOOLEAN : ReceiveEnds(ok) /\ BothReturned(ok)
    BY <1>4 DEF BothWaits
  <2>3. ok
    BY <2>2 DEF BothReturned
  <2>4. s2mm.done /\ UNCHANGED <<outq, mm2s>>
    BY <2>2, <2>3 DEF ReceiveEnds
  <2>5. mm2s' = <<>> /\ outq' = <<>>
    BY <2>1, <2>4 DEF Flow
  <2>6. pc' # "both_wait"
    BY <2>2 DEF BothReturned
  <2> QED
    BY <2>5, <2>6
<1>5. CASE ~Both /\ ~BothWaits
  <2>1. ~Send /\ ~SendWaits /\ ~Client
    BY DEF Send, SendWaits, Client, Where, Both2
  <2>2. UNCHANGED <<outq, mm2s>>
    BY <1>5, <2>1, StreamMoves
  <2>3. pc # "both_wait" /\ pc' # "both_wait"
    BY <1>5, <2>1 DEF Program, parse_args, OpenLibrary, MallocTx, MallocRx, PickChannels, FillBuffers,
       Receive, ReceiveWaits, init_data, verify_data, ClientCloses, ClientEnds, axidma_free,
       CloseLibrary, Where, Both2, procVars
  <2> QED
    BY <1>2, <2>2, <2>3
<1> QED
  BY <1>3, <1>4, <1>5

\* Once the handle is destroyed nothing is left to be signalled.
LEMMA FreedKept ==
  ASSUME BoardOK, Stream, Process, tx_buf \in Seq(Words), Where, Opened, Quiet, Sure, Program,
         sigs = <<>>, handle'.arrays = "freed"
  PROVE  sigs' = <<>> /\ AllWaited'
<1>1. ~Client /\ ~ClientCloses
  BY DEF Client, ClientCloses, At, Where, Sure
<1>2. CASE handle' = handle
  <2>1. handle.arrays = "freed" /\ AllWaited
    BY <1>2 DEF Quiet
  <2>2. ~Both
    BY <2>1 DEF Opened, Both, At
  <2> QED
    BY <1>1, <2>1, <2>2, WaitedProgram
<1>3. CASE OpenLibrary
  <2>1. AllWaited /\ ~Both
    BY <1>3 DEF OpenLibrary, Both, At, Opened
  <2> QED
    BY <1>1, <2>1, WaitedProgram
<1>4. CASE CloseLibrary
  <2>1. pc = "destroy" /\ ~Both
    BY <1>4 DEF CloseLibrary, Both, At
  <2>2. AllWaited
    <3>1. CASE Both2
      <4>1. mm2s = <<>>
        BY <2>1, <3>1 DEF Quiet
      <4> QED
        BY <4>1 DEF AllWaited
    <3> QED
      BY <3>1 DEF Quiet
  <2> QED
    BY <1>1, <2>1, <2>2, WaitedProgram
<1> QED
  BY <1>1, <1>2, <1>3, <1>4, HandleMoves

\* Nothing of a program's transmissions is left to be signalled when its transfers
\* succeed and it receives as much as it transmits.
LEMMA QuietKept ==
  ASSUME Types, Where, Maps, Opened, Quiet, Next
  PROVE  Quiet'
<1> USE DEF Types
<1>1. args \in CommandLines
  BY DEF Process
<1>2. CASE Program /\ sigs = <<>> /\ Sure'
  <2>1. UNCHANGED runVars
    BY <1>2, SameProgram
  <2>2. lost => lost'
    BY <1>2 DEF Program, parse_args, OpenLibrary, MallocTx, MallocRx, PickChannels, FillBuffers,
       Send, SendWaits, SendReturned, Receive, ReceiveWaits, init_data, Both, BothWaits, BothReturned,
       verify_data, Client, ClientCloses, ClientEnds, axidma_free, CloseLibrary
  <2>3. Sure /\ ~lost' /\ Both2' = Both2
    BY <1>2, <2>1, <2>2 DEF Sure, runVars, Both2
  <2>4. CASE Both2
    <3>1. /\ pc' = "both_wait" => Flow'
          /\ pc' # "both_wait" => mm2s' = <<>> /\ outq' = <<>>
      BY <1>2, <2>3, <2>4, BothKept
    <3>2. handle'.arrays = "freed" => sigs' = <<>> /\ AllWaited'
      BY <1>2, <2>3, FreedKept DEF Contents
    <3> QED
      BY <2>3, <2>4, <3>1, <3>2 DEF Quiet
  <2>5. CASE ~Both2
    <3>1. AllWaited
      BY <2>3, <2>5 DEF Quiet
    <3>2. ~Both /\ ~Client
      BY <2>3, <2>5 DEF Both, Client, At, Where, Both2, Sure
    <3>3. AllWaited' /\ sigs' = <<>>
      BY <1>2, <3>1, <3>2, WaitedProgram DEF Contents
    <3> QED
      BY <2>3, <2>5, <3>3 DEF Quiet
  <2> QED
    BY <2>4, <2>5
<1>3. CASE Signal \/ Hardware \/ UNCHANGED vars
  <2>1. UNCHANGED <<procVars, runVars, lost, handle>>
    BY <1>3 DEF Signal, Hardware, vars, libVars, axidma_callback, SendWord, FetchWord
  <2>2. Sure' = Sure /\ Both2' = Both2 /\ pc' = pc /\ handle' = handle /\ UNCHANGED <<prog, args>>
    BY <2>1 DEF Sure, Both2, procVars, runVars
  <2>3. SUFFICES ASSUME Sure PROVE Quiet'
    BY <2>2 DEF Quiet
  <2>4. CASE Signal
    <3>1. sigs # <<>> /\ UNCHANGED hwVars
      BY <2>4 DEF Signal, axidma_callback
    <3>2. Flow' = Flow /\ mm2s' = mm2s /\ outq' = outq
      BY <2>2, <3>1 DEF Flow, TxSize, RxSize, hwVars
    <3> QED
      BY <2>2, <2>3, <3>1, <3>2 DEF Quiet
  <2>5. CASE SendWord
    <3>1. mm2s # <<>>
      BY <2>5 DEF SendWord, CanSend
    <3>2. CASE Both2
      <4>1. pc = "both_wait" /\ Flow
        BY <2>3, <3>1, <3>2 DEF Quiet
      <4>2. Flow'
        BY <1>1, <2>2, <2>5, <4>1, FlowSent
      <4>3. handle.arrays # "freed"
        BY <4>1 DEF Opened
      <4> QED
        BY <2>2, <3>2, <4>1, <4>2, <4>3 DEF Quiet
    <3>3. CASE ~Both2
      <4>1. sigs = <<>> /\ AllWaited
        BY <2>3, <3>3 DEF Quiet
      <4>2. sigs' = <<>> /\ AllWaited'
        BY <2>5, <4>1, WaitedSent
      <4> QED
        BY <2>2, <3>3, <4>2 DEF Quiet
    <3> QED
      BY <3>2, <3>3
  <2>6. CASE FetchWord
    <3>1. outq # <<>> /\ UNCHANGED <<sigs, mm2s>>
      BY <2>6 DEF FetchWord, CanFetch
    <3>2. AllWaited' = AllWaited
      BY <3>1 DEF AllWaited
    <3>3. CASE Both2
      <4>1. pc = "both_wait" /\ Flow
        BY <2>3, <3>1, <3>3 DEF Quiet
      <4>2. TxSize <= RxSize
        BY <1>1, <2>3, <3>3, SureRoom
      <4>3. Flow'
        BY <1>1, <2>2, <2>6, <4>1, <4>2, FlowFetched
      <4> QED
        BY <2>2, <2>3, <3>1, <3>2, <3>3, <4>1, <4>3 DEF Quiet
    <3>4. CASE ~Both2
      BY <2>2, <2>3, <3>1, <3>2, <3>4 DEF Quiet
    <3> QED
      BY <3>3, <3>4
  <2>7. CASE UNCHANGED vars
    <3>1. UNCHANGED <<sigs, mm2s, outq, s2mm>>
      BY <2>7 DEF vars, libVars, hwVars
    <3>2. Flow' = Flow /\ AllWaited' = AllWaited
      BY <2>2, <3>1 DEF Flow, TxSize, RxSize, AllWaited
    <3> QED
      BY <2>2, <2>3, <3>1, <3>2 DEF Quiet
  <2> QED
    BY <1>3, <2>4, <2>5, <2>6, <2>7 DEF Hardware
<1>4. CASE Launch
  <2>1. SUFFICES ASSUME Sure' PROVE Quiet'
    BY DEF Quiet
  <2>2. outq = <<>> /\ mm2s = <<>>
    BY <1>4, <2>1 DEF Launch, Sure
  <2>3. mm2s' = <<>> /\ outq' = <<>> /\ sigs' = <<>> /\ pc' # "both_wait"
    BY <1>4, <2>2 DEF Launch, Entry
  <2>4. AllWaited'
    BY <1>4, WaitedLaunch
  <2> QED
    BY <2>3, <2>4 DEF Quiet
<1>5. ~Sure' => Quiet'
  BY DEF Quiet
<1> QED
  BY <1>2, <1>3, <1>4, <1>5 DEF Next

\* The driver counts as many channels of a kind as the library, where each 'compatible'
\* is there.
LEMMA CountsAgree ==
  ASSUME BoardOK, NEW k \in DOMAIN Kinds, \A i \in DOMAIN tree.dmas : tree.dmas[i].compat # "missing"
  PROVE  Cardinality(OfKind(k)) = axidma_get_num_channels(tree)[k]
<1> DEFINE counted == {i \in DOMAIN tree.dmas : tree.dmas[i].compat = k}
<1>1. /\ DOMAIN table = DOMAIN tree.dmas
      /\ \A i \in DOMAIN tree.dmas : /\ tree.dmas[i].compat \in DOMAIN Kinds
                                   /\ table[i].kind = Kinds[tree.dmas[i].compat]
  <2>1. /\ DOMAIN tree.dmas = 1 .. Len(tree.dmas) /\ DOMAIN table = 1 .. Len(tree.dmas)
        /\ \A i \in 1 .. Len(tree.dmas) :
             tree.dmas[i].compat # "missing" =>
               tree.dmas[i].compat \in DOMAIN Kinds /\ table[i].kind = Kinds[tree.dmas[i].compat]
    BY TreeFacts, TableFacts DEF BoardOK
  <2> QED
    BY <2>1
<1>2. ASSUME NEW i \in DOMAIN tree.dmas
      PROVE  table[i].kind = Kinds[k] <=> tree.dmas[i].compat = k
  <2>1. PICK l \in DOMAIN Kinds : l = tree.dmas[i].compat /\ table[i].kind = Kinds[l]
    BY <1>1
  <2>2. Kinds[l] = Kinds[k] => l = k
    BY KindsDiffer
  <2> QED
    BY <2>1, <2>2
<1>3. OfKind(k) = counted
  BY <1>1, <1>2 DEF OfKind
<1>4. axidma_get_num_channels(tree)[k] = Cardinality(counted)
  BY DEF axidma_get_num_channels
<1> QED
  BY <1>3, <1>4

\* The arrays of the handle overflow only when they are filled a second time, or where a
\* 'compatible' is missing.
LEMMA OverrunKnown ==
  ASSUME BoardOK, Process, Opened, categorize_channels, misuse = {}, pc = "init",
         "overrun" \in misuse'
  PROVE  \E i \in DOMAIN tree.dmas : tree.dmas[i].compat = "missing"
<1>1. SUFFICES ASSUME \A i \in DOMAIN tree.dmas : tree.dmas[i].compat # "missing"
      PROVE  FALSE
  OBVIOUS
<1> DEFINE len == [k \in DOMAIN Kinds |-> handle.len[k] + Cardinality(OfKind(k))]
           room == axidma_get_num_channels(tree)
<1>2. PICK k \in DOMAIN Kinds : len[k] > room[k]
  <2>1. misuse' = misuse \cup Tag(\E k \in DOMAIN Kinds : len[k] > room[k], "overrun")
    BY DEF categorize_channels
  <2> HIDE DEF len, room
  <2> QED
    BY <2>1 DEF Tag
<1>3. handle.len[k] = 0
  BY DEF Opened, NewHandle
<1>4. PICK n : n = Cardinality(OfKind(k)) /\ n = room[k]
  BY <1>1, CountsAgree
<1>5. n \in Nat
  <2>1. PICK t \in Nat : DOMAIN table = 1 .. t
    BY TableFacts DEF BoardOK
  <2>2. PICK T \in SUBSET (1 .. t) : T = OfKind(k)
    BY <2>1 DEF OfKind
  <2>3. Cardinality(T) \in Nat
    BY CountWorks
  <2> QED
    BY <1>4, <2>2, <2>3
<1>6. len[k] = 0 + n
  BY <1>3, <1>4
<1> HIDE DEF len, room
<1> QED
  BY <1>2, <1>4, <1>5, <1>6

\* An id that is not below the number of channels.
LEMMA NotDense ==
  ASSUME BoardOK, NEW id \in Ids, id >= Len(table)
  PROVE  ~DenseIds(tree)
<1>1. Len(table) = Len(tree.dmas) /\ Len(table) \in Nat
  BY TableFacts DEF BoardOK
<1>2. id \in Nat
  <2>1. \A i \in DOMAIN tree.dmas : tree.dmas[i].id \in Nat
    BY TreeFacts DEF BoardOK
  <2> QED
    BY <2>1 DEF Ids, ChannelIds
<1>3. ~(id < Len(tree.dmas))
  BY <1>1, <1>2
<1> QED
  BY <1>3 DEF DenseIds, Ids

\* What is not defined happens only where it is known to.
LEMMA FaultsBoundKept ==
  ASSUME Types, Where, Opened, Picked, Quiet, OnlyKnownFaults, Next
  PROVE  OnlyKnownFaults'
<1> USE DEF Types
<1>1. CASE misuse' = misuse
  <2>1. CASE misuse = {}
    BY <1>1, <2>1 DEF OnlyKnownFaults
  <2>2. CASE misuse # {}
    <3>1. UNCHANGED vars
      BY <2>2 DEF Next
    <3> QED
      BY <3>1 DEF OnlyKnownFaults, vars, libVars, procVars, runVars
  <2> QED
    BY <2>1, <2>2
<1>2. CASE misuse' # misuse
  <2>1. misuse = {} /\ (Program \/ Signal \/ Hardware \/ Launch)
    BY <1>2 DEF Next, vars, libVars
  <2>2. UNCHANGED <<tree, table, fabric>>
    BY BoardStays
  <2>3. ASSUME Program \/ Signal \/ Hardware
        PROVE  UNCHANGED <<prog, args, stale>>
    BY <2>3, SameProgram DEF runVars
  <2>4. CASE parse_args /\ misuse' = misuse \cup Tag(args.vdma /\ args.frames # {"tx", "rx"}, "unset_frame")
    <3>1. misuse' \subseteq {"unset_frame"} /\ args.vdma /\ args' = args
      BY <1>2, <2>1, <2>3, <2>4 DEF Tag, Program
    <3> QED
      BY <3>1 DEF OnlyKnownFaults
  <2>5. CASE (OpenLibrary \/ Client) /\ categorize_channels
    <3>1. misuse' \subseteq {"overrun"} /\ "overrun" \in misuse'
      BY <1>2, <2>1, <2>5 DEF categorize_channels, Tag
    <3>2. CASE OpenLibrary
      <4>1. \E i \in DOMAIN tree.dmas : tree.dmas[i].compat = "missing"
        BY <2>1, <2>5, <3>1, <3>2, OverrunKnown DEF OpenLibrary, At
      <4> QED
        BY <2>2, <3>1, <4>1 DEF OnlyKnownFaults
    <3>3. CASE Client
      <4>1. prog = "client" /\ round' = round + 1 /\ round \in Nat /\ prog' = prog
        BY <2>3, <3>3 DEF Client, At, Where, Process, Program
      <4>2. prog' = "client" /\ round' > 0
        BY <4>1
      <4> QED
        BY <3>1, <4>2 DEF OnlyKnownFaults
    <3> QED
      BY <2>5, <3>2, <3>3
  <2>6. CASE Client /\ handle.initialized /\ \E i \in DOMAIN table : axidma_set_callback(table[i].id)
    <3>1. PICK i \in DOMAIN table : axidma_set_callback(table[i].id)
      BY <2>6
    <3>2. misuse' \subseteq {"channel_index"} /\ table[i].id >= handle.num
      BY <1>2, <2>1, <3>1 DEF axidma_set_callback, Tag
    <3>3. handle.num = Len(table)
      BY <2>6 DEF Opened
    <3>4. ~DenseIds(tree)
      BY <3>2, <3>3, TableIds, NotDense
    <3> QED
      BY <2>2, <3>2, <3>4 DEF OnlyKnownFaults
  <2>7. CASE Signal /\ axidma_callback
    <3>1. /\ sigs # <<>>
          /\ misuse' = Tag(Head(sigs) >= handle.num, "abort_signal")
                       \cup Tag(Head(sigs) < handle.num /\ handle.arrays = "freed", "callback_freed")
      BY <2>1, <2>7 DEF axidma_callback
    <3>2. misuse' \subseteq {"abort_signal", "callback_freed"}
      BY <3>1 DEF Tag
    <3>3. ASSUME "abort_signal" \in misuse'
          PROVE  ~DenseIds(tree')
      <4>1. Head(sigs) >= handle.num
        BY <3>1, <3>3 DEF Tag
      <4>2. handle.num = Len(table)
        BY <3>1 DEF Opened
      <4>3. Head(sigs) \in Ids
        BY <3>1, HeadTailProperties DEF Stream
      <4> QED
        BY <2>2, <4>1, <4>2, <4>3, NotDense
    <3>4. ASSUME "callback_freed" \in misuse'
          PROVE  \/ prog' = "client" \/ lost' \/ stale'
                 \/ prog' = "bench" /\ args'.rx_size < args'.tx_size
      <4>1. handle.arrays = "freed"
        BY <3>1, <3>4 DEF Tag
      <4>2. ~Sure
        BY <3>1, <4>1 DEF Quiet
      <4>3. UNCHANGED <<prog, args, stale, lost>>
        BY <2>3, <2>7 DEF Signal
      <4> QED
        BY <4>2, <4>3 DEF Sure
    <3> QED
      BY <3>2, <3>3, <3>4 DEF OnlyKnownFaults
  <2>8. CASE Both /\ ~Twoway(chans[1], chans[2]) /\ misuse' = misuse \cup {"abort_channel"}
    <3>1. misuse' = {"abort_channel"} /\ pc = "both" /\ args' = args
      BY <2>1, <2>3, <2>8 DEF Both, At, Program
    <3>2. args.ids # NoChans
      <4>1. HasRx
        BY <3>1 DEF Where, HasRx
      <4>2. args.ids = NoChans => Sends(chans[1]) /\ Receives(chans[2])
        BY <3>1, <4>1 DEF Picked, Transfers
      <4> QED
        BY <2>8, <4>2 DEF Twoway, Sends, Receives
    <3> QED
      BY <3>1, <3>2 DEF OnlyKnownFaults
  <2> QED
    BY <1>2, <2>4, <2>5, <2>6, <2>7, <2>8, FaultMoves
<1> QED
  BY <1>1, <1>2
-----------------------------------------------------------------------------
(* The theorems.                                                           *)

\* The board, the process and the first program start so.
LEMMA InitHolds ==
  ASSUME Init
  PROVE  IndInv
<1>1. NoArgs \in CommandLines
  BY NoArgsWorks
<1>2. Fresh \in [cnt : 0 .. N - 1, sum : Words]
  BY KernelAssumption, WordsWrap DEF Fresh
<1>3. fabric.depth \in Nat \ {0}
  BY LibAssumption DEF Init, LibInit
<1>4. BoardOK /\ Room
  BY DEF Init, LibInit, BoardOK, Room, NoReception
<1>5. Stream
  BY <1>2, <1>3 DEF Init, LibInit, Stream
<1>6. Process
  <2>1. handle \in Handles /\ misuse \subseteq Faults
    BY DEF Init, LibInit, NewHandle, Handles
  <2>2. args \in CommandLines /\ (prog # "bench" => args = NoArgs)
    BY <1>1 DEF Init, Starts
  <2>3. launched \in 1 .. Launches /\ pc \in PCs
    BY ProgramAssumption DEF Init, Entry, PCs
  <2> QED
    BY <2>1, <2>2, <2>3 DEF Init, Process, NoChans
<1>7. Contents
  BY DEF Init, Contents
<1>8. Where /\ Maps /\ Picked
  BY DEF Init, Entry, Where, Maps, Picked, Transfers
<1>9. AllWaited
  BY DEF Init, LibInit, AllWaited
<1>10. Opened
  BY <1>9 DEF Init, LibInit, Entry, Opened, NewHandle
<1>11. Quiet
  BY <1>9 DEF Init, LibInit, Entry, Quiet
<1>12. OnlyKnownFaults
  BY DEF Init, LibInit, OnlyKnownFaults
<1> QED
  BY <1>4, <1>5, <1>6, <1>7, <1>8, <1>10, <1>11, <1>12 DEF IndInv, Types

\* Every step of the programs, the library and the hardware keeps the invariant.
LEMMA NextKeeps ==
  ASSUME IndInv, Next
  PROVE  IndInv'
<1>1. /\ Types /\ Where /\ Maps /\ Opened /\ Picked /\ Quiet /\ OnlyKnownFaults
      /\ BoardOK /\ Stream /\ Room /\ Process /\ Contents
  BY DEF IndInv, Types
<1>2. tx_buf \in Seq(Words) /\ args \in CommandLines
  BY <1>1 DEF Contents, Process
<1>3. BoardOK'
  BY <1>1, BoardStays DEF BoardOK
<1>4. Stream' /\ Room' /\ Process' /\ Contents'
  BY <1>1, <1>2, StreamKept, RoomKept, ProcessKept, ContentsKept
<1>5. Where' /\ Maps' /\ Opened' /\ Picked'
  BY <1>1, <1>2, WhereKept, MapsKept, OpenedKept, PickedKept
<1>6. Quiet' /\ OnlyKnownFaults'
  BY <1>1, QuietKept, FaultsBoundKept
<1> QED
  BY <1>3, <1>4, <1>5, <1>6 DEF IndInv, Types

\* The inductive invariant holds throughout: what the board, the library's handle and the
\* programs are at each place.
THEOREM Invariant == Spec => []IndInv
<1>1. IndInv /\ [Next]_vars => IndInv'
  <2>1. ASSUME IndInv, UNCHANGED vars
        PROVE  IndInv'
    <3>1. UNCHANGED <<tree, table, fabric, handle, sigs, ip, outq, mm2s, s2mm, misuse, prog, launched,
                     args, pc, round, rc, mapped, tx_buf, rx_buf, chans, shown, lost, stale>>
      BY <2>1 DEF vars, libVars, hwVars, procVars, runVars
    <3>2. Types'
      BY <2>1, <3>1 DEF IndInv, Types, BoardOK, Stream, Room, Process, Contents, Ids, Sent, TxSize,
                        CommandLines
    <3>3. (Where /\ Maps /\ Opened)'
      BY <2>1, <3>1 DEF IndInv, Where, Maps, Opened, HasRx, Helper, BuffersAt, AllWaited, OfKind
    <3>4. (Picked /\ Quiet /\ OnlyKnownFaults)'
      BY <2>1, <3>1 DEF IndInv, Picked, Quiet, OnlyKnownFaults, Sends, Receives, find_channel, HasRx,
                        Helper, Sure, Both2, Flow, AllWaited, TxSize, RxSize
    <3> QED
      BY <3>2, <3>3, <3>4 DEF IndInv
  <2> QED
    BY <2>1, NextKeeps
<1> QED
  BY <1>1, InitHolds, PTL DEF Spec

\* The variables of the library, of the hardware and of the programs keep their types:
\* the buffers hold words, a reception never gets more words than it wants, and the way
\* back from the core never holds more than it has room for.
THEOREM TypeCorrect == Spec => []TypeOK
<1>1. IndInv => TypeOK
  <2> SUFFICES ASSUME IndInv PROVE TypeOK
    OBVIOUS
  <2>1. BoardOK /\ Stream /\ Room /\ Process /\ Contents
    BY DEF IndInv, Types
  <2>2. ASSUME NEW S, NEW q \in Seq(S)
        PROVE  ToSet(q) \subseteq S
    BY <2>2, LenProperties, ElementOfSeq DEF ToSet
  <2>3. ToSet(tx_buf) \subseteq Words /\ ToSet(rx_buf) \subseteq Words /\ ToSet(shown) \subseteq Words
    BY <2>1, <2>2 DEF Contents
  <2>4. ToSet(sigs) \subseteq ChannelIds(tree) /\ ToSet(outq) \subseteq Beats
    BY <2>1, <2>2 DEF Stream, Ids
  <2>5. ToSet(mm2s) \subseteq [data : Words, last : BOOLEAN, id : ChannelIds(tree), wait : BOOLEAN]
    BY <2>1, <2>2 DEF Stream, Sent, Ids
  <2>6. ToSet(s2mm.got) \subseteq Words /\ Len(s2mm.got) <= s2mm.want
    BY <2>1, <2>2 DEF Room
  <2>7. LibTypeOK
    BY <2>1, <2>4, <2>5, <2>6 DEF LibTypeOK, BoardOK, Stream, Process, Handles
  <2> QED
    BY <2>1, <2>3, <2>7 DEF TypeOK, Process, Ids
<1> QED
  BY <1>1, Invariant, PTL

\* Each program unmaps only what it has mapped, destroys the handle once, and ends with
\* nothing left, except the error exits that are known not to release.
THEOREM ReleasesSafe == Spec => []ReleasesWhatItHas
<1>1. IndInv => ReleasesWhatItHas
  BY DEF IndInv, Maps, Opened, ReleasesWhatItHas
<1> QED
  BY <1>1, Invariant, PTL

\* Arrays that overflow, assertions that fail, ids used as indices and completions after
\* axidma_destroy come only where they are known to: a program on idle logic whose
\* transfers succeed, and that receives as much as it transmits, never meets the last.
THEOREM FaultsBounded == Spec => []OnlyKnownFaults
<1>1. IndInv => OnlyKnownFaults
  BY DEF IndInv
<1> QED
  BY <1>1, Invariant, PTL
=============================================================================
