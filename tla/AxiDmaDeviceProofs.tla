------------------------- MODULE AxiDmaDeviceProofs -------------------------
(***************************************************************************)
(* Machine-checked proofs about AxiDmaDevice, for every number of processes, *)
(* probes and buffers, every size of the address space and every set of    *)
(* device trees.                                                           *)
(***************************************************************************)
EXTENDS AxiDmaDevice, Integers, SequenceTheorems, WellFoundedInduction, TLAPS

\* A set of numbers that is not empty has a least one.
LEMMA Least ==
  ASSUME NEW T \in SUBSET Nat, T # {}
  PROVE  \E x \in T : \A y \in T : x <= y
<1>1. PICK x \in T : \A y \in T : ~ (<<y, x>> \in OpToRel(<, Nat))
  BY NatLessThanWellFounded, WFMin, Zenon
<1>2. ASSUME NEW y \in T
      PROVE  x <= y
  <2>1. ~(y < x)
    BY <1>1, Zenon DEF OpToRel
  <2> QED
    BY <2>1
<1> QED
  BY <1>2

\* Min finds it.
LEMMA MinWorks ==
  ASSUME NEW T \in SUBSET Nat, T # {}
  PROVE  Min(T) \in T /\ \A y \in T : Min(T) <= y
  BY Least DEF Min
-----------------------------------------------------------------------------
(* The device tree.                                                        *)

\* The parser's loop ends at the first entry that is not accepted.
LEMMA FirstBad ==
  ASSUME NEW t \in Trees
  PROVE  \/ /\ \A i \in DOMAIN t.dmas : ParseEntry(t, i) = "ok"
            /\ axidma_of_parse_dma_nodes(t) \in {"ok", "error"}
         \/ \E i \in DOMAIN t.dmas : /\ ParseEntry(t, i) # "ok"
                                     /\ axidma_of_parse_dma_nodes(t) = ParseEntry(t, i)
<1> DEFINE bad == {i \in DOMAIN t.dmas : ParseEntry(t, i) # "ok"}
<1>1. bad \in SUBSET Nat
  BY DeviceAssumption
<1>2. CASE bad = {}
  BY <1>2 DEF axidma_of_parse_dma_nodes
<1>3. CASE bad # {}
  <2> DEFINE c == CHOOSE i \in bad : \A j \in bad : i <= j
  <2>1. c \in bad
    <3> HIDE DEF bad
    <3> QED
      BY <1>1, <1>3, Least
  <2>2. axidma_of_parse_dma_nodes(t) = ParseEntry(t, c)
    BY <1>3 DEF axidma_of_parse_dma_nodes
  <2> QED
    BY <2>1, <2>2
<1> QED
  BY <1>2, <1>3

\* An accepted tree gives every channel an id.
LEMMA AcceptedIds ==
  ASSUME NEW t \in Trees, axidma_of_parse_dma_nodes(t) = "ok"
  PROVE  NoId \notin ChannelIds(t)
<1>1. \A i \in DOMAIN t.dmas : ParseEntry(t, i) = "ok"
  BY FirstBad
<1>2. ASSUME NEW i \in DOMAIN t.dmas
      PROVE  t.dmas[i].id # NoId
  <2>1. axidma_of_parse_channel(t.dmas[i]) = "ok"
    BY <1>1 DEF ParseEntry
  <2> QED
    BY <2>1 DEF axidma_of_parse_channel
<1> QED
  BY <1>2 DEF ChannelIds

\* The parser dereferences NULL only at a node with one channel.
LEMMA OopsTree ==
  ASSUME NEW t \in Trees, axidma_of_parse_dma_nodes(t) = "oops"
  PROVE  \E i \in DOMAIN t.dmas : t.dmas[i].kids = 1
<1>1. PICK i \in DOMAIN t.dmas : ParseEntry(t, i) = "oops"
  BY FirstBad
<1>2. axidma_of_parse_channel(t.dmas[i]) = "oops"
  BY <1>1 DEF ParseEntry, axidma_of_parse_dma_name
<1>3. t.dmas[i].kids = 1
  BY <1>2 DEF axidma_of_parse_channel, axidma_parse_compatible_property
<1> QED
  BY <1>3

\* Channel ids are numbers.
LEMMA IdsAreNumbers ==
  ASSUME NEW t \in Trees
  PROVE  ChannelIds(t) \subseteq Nat /\ Len(t.dmas) \in Nat
<1> DEFINE E == [id : Nat, arg : Nat, kids : Nat, compat : STRING]
<1>1. t.dmas \in Seq(E)
  BY DeviceAssumption
<1>2. \A e \in E : e.id \in Nat
  OBVIOUS
<1> HIDE DEF E
<1>3. \A i \in DOMAIN t.dmas : t.dmas[i] \in E
  BY <1>1
<1> QED
  BY <1>1, <1>2, <1>3 DEF ChannelIds
-----------------------------------------------------------------------------
(* The lists of buffers, newest first.                                     *)

Descending(s) == \A j, k \in 1 .. Len(s) : j < k => s[j] > s[k]

\* list_add: a new buffer, younger than all in the list, goes to the front.
LEMMA AddFirst ==
  ASSUME NEW s \in Seq(Nat), Descending(s), NEW n \in Nat,
         \A x \in ToSet(s) : x < n
  PROVE  /\ <<n>> \o s \in Seq(Nat) /\ Descending(<<n>> \o s)
         /\ ToSet(<<n>> \o s) = ToSet(s) \cup {n}
<1> DEFINE r == <<n>> \o s
<1>1. /\ r \in Seq(Nat) /\ Len(r) = Len(s) + 1 /\ Len(s) \in Nat
      /\ r[1] = n /\ \A j \in 2 .. Len(s) + 1 : r[j] = s[j - 1]
  OBVIOUS
<1> HIDE DEF r
<1>2. \A j \in 1 .. Len(s) : s[j] \in ToSet(s) /\ s[j] \in Nat
  BY DEF ToSet
<1>3. Descending(r)
  <2> SUFFICES ASSUME NEW j \in 1 .. Len(r), NEW k \in 1 .. Len(r), j < k
               PROVE  r[j] > r[k]
    BY DEF Descending
  <2> PICK m \in Nat : m = Len(s)
    BY <1>1
  <2>0. j \in 1 .. m + 1 /\ k \in 1 .. m + 1
    BY <1>1
  <2>1. k \in 2 .. m + 1 /\ k - 1 \in 1 .. m
    BY <2>0
  <2>1a. r[k] = s[k - 1] /\ s[k - 1] \in Nat
    BY <1>1, <1>2, <2>1
  <2>2. CASE j = 1
    BY <1>1, <1>2, <2>1, <2>1a, <2>2
  <2>3. CASE j # 1
    <3>1. j \in 2 .. m + 1 /\ j - 1 \in 1 .. m /\ j - 1 < k - 1
      BY <2>0, <2>3
    <3>2. r[j] = s[j - 1]
      BY <1>1, <3>1
    <3> QED
      BY <2>1, <2>1a, <3>1, <3>2 DEF Descending
  <2> QED
    BY <2>2, <2>3
<1>4. ToSet(r) = ToSet(s) \cup {n}
  <2>1. ASSUME NEW j \in 1 .. Len(r)
        PROVE  r[j] \in ToSet(s) \cup {n}
    <3>1. CASE j = 1
      BY <1>1, <3>1
    <3>2. CASE j # 1
      <4>1. j \in 2 .. Len(s) + 1 /\ j - 1 \in 1 .. Len(s)
        BY <1>1, <3>2
      <4> QED
        BY <1>1, <1>2, <4>1
    <3> QED
      BY <3>1, <3>2
  <2>2. ASSUME NEW j \in 1 .. Len(s)
        PROVE  s[j] \in ToSet(r)
    <3>1. j + 1 \in 2 .. Len(s) + 1 /\ j + 1 \in 1 .. Len(r) /\ r[j + 1] = s[j]
      BY <1>1
    <3>2. j + 1 \in DOMAIN r
      BY <1>1, <3>1
    <3> QED
      BY <3>1, <3>2 DEF ToSet
  <2>3. n \in ToSet(r)
    <3>1. 1 \in DOMAIN r
      BY <1>1
    <3> QED
      BY <1>1, <3>1 DEF ToSet
  <2>4. ToSet(r) \subseteq ToSet(s) \cup {n}
    BY <1>1, <2>1 DEF ToSet
  <2>5. ToSet(s) \subseteq ToSet(r)
    BY <2>2 DEF ToSet
  <2> QED
    BY <2>3, <2>4, <2>5
<1> QED
  BY <1>1, <1>3, <1>4 DEF r

\* list_del: the buffer is unlinked, the others keep their order.
LEMMA Unlink ==
  ASSUME NEW s \in Seq(Nat), Descending(s), NEW e
  PROVE  /\ RemoveFirst(s, e) \in Seq(Nat) /\ Descending(RemoveFirst(s, e))
         /\ ToSet(RemoveFirst(s, e)) = ToSet(s) \ {e}
<1>1. CASE ~ \E j \in 1 .. Len(s) : s[j] = e
  <2>1. RemoveFirst(s, e) = s
    BY <1>1 DEF RemoveFirst
  <2>2. e \notin ToSet(s)
    BY <1>1 DEF ToSet
  <2> QED
    BY <2>1, <2>2
<1>2. CASE \E j \in 1 .. Len(s) : s[j] = e
  <2> DEFINE I == {j \in 1 .. Len(s) : s[j] = e}
  <2>1. SelectInSeq(s, LAMBDA v : v = e) = Min(I) /\ I # {}
    BY <1>2 DEF SelectInSeq
  <2>2. Min(I) \in I
    <3>1. I \in SUBSET Nat
      OBVIOUS
    <3> HIDE DEF I
    <3> QED
      BY <2>1, <3>1, MinWorks
  <2>3. PICK k \in 1 .. Len(s) : k = Min(I) /\ s[k] = e
    BY <2>2
  <2> DEFINE r == SubSeq(s, 1, k - 1) \o SubSeq(s, k + 1, Len(s))
  <2>4. RemoveFirst(s, e) = r
    BY <1>2, <2>1, <2>3 DEF RemoveFirst, RemoveAt
  <2>5. PICK n \in Nat : n = Len(s) /\ k \in 1 .. n
    OBVIOUS
  <2>5a. \E u, v \in Seq(Nat) :
           /\ u = SubSeq(s, 1, k - 1) /\ Len(u) = k - 1
           /\ \A j \in 1 .. k - 1 : u[j] = s[j]
           /\ v = SubSeq(s, k + 1, Len(s)) /\ Len(v) = n - k
           /\ \A j \in 1 .. n - k : v[j] = s[k + j]
    <3>1. /\ SubSeq(s, 1, k - 1) \in Seq(Nat) /\ Len(SubSeq(s, 1, k - 1)) = k - 1
          /\ \A j \in 1 .. k - 1 : SubSeq(s, 1, k - 1)[j] = s[j]
      <4>1. \A j \in 1 .. k - 1 : s[j] \in Nat
        BY <2>5
      <4>2. k - 1 \in Nat /\ k - 1 <= Len(s)
        BY <2>5
      <4> QED
        BY <4>1, <4>2, SubSeqProperties
    <3>2. /\ SubSeq(s, k + 1, Len(s)) \in Seq(Nat) /\ Len(SubSeq(s, k + 1, Len(s))) = n - k
          /\ \A j \in 1 .. n - k : SubSeq(s, k + 1, Len(s))[j] = s[k + j]
      <4>1. \A j \in k + 1 .. n : s[j] \in Nat
        BY <2>5
      <4>2. k + 1 \in Nat /\ n - k \in Nat /\ n - (k + 1) + 1 = n - k
        BY <2>5
      <4> QED
        <5>1. PICK a \in Int : a = k + 1 /\ n \in Int
          BY <2>5
        <5>2. \A j \in a .. n : s[j] \in Nat
          BY <4>1, <5>1
        <5>3. /\ SubSeq(s, a, n) \in Seq(Nat)
              /\ Len(SubSeq(s, a, n)) = (IF a <= n THEN n - a + 1 ELSE 0)
              /\ \A j \in 1 .. n - a + 1 : SubSeq(s, a, n)[j] = s[a + j - 1]
          BY <5>1, <5>2, SubSeqProperties
        <5>4. PICK v : v = SubSeq(s, a, n)
          OBVIOUS
        <5>5. Len(v) = n - k
          BY <2>5, <4>2, <5>1, <5>3, <5>4
        <5>6. ASSUME NEW j \in 1 .. n - k
              PROVE  v[j] = s[k + j]
          <6>1. j \in 1 .. n - a + 1 /\ a + j - 1 = k + j
            BY <2>5, <5>1
          <6> QED
            BY <5>3, <5>4, <6>1
        <5> QED
          BY <2>5, <5>1, <5>3, <5>4, <5>5, <5>6
    <3> QED
      BY <3>1, <3>2
  <2>5b. PICK u \in Seq(Nat), v \in Seq(Nat) :
           /\ u = SubSeq(s, 1, k - 1) /\ Len(u) = k - 1
           /\ \A j \in 1 .. k - 1 : u[j] = s[j]
           /\ v = SubSeq(s, k + 1, Len(s)) /\ Len(v) = n - k
           /\ \A j \in 1 .. n - k : v[j] = s[k + j]
    BY <2>5a
  <2>5c. r = u \o v
    BY <2>5b
  <2> HIDE DEF r
  <2>6. /\ r \in Seq(Nat) /\ Len(r) = n - 1
        /\ \A j \in 1 .. k - 1 : r[j] = s[j]
        /\ \A j \in k .. n - 1 : r[j] = s[j + 1]
    <3>1. r \in Seq(Nat) /\ Len(r) = Len(u) + Len(v)
      BY <2>5c
    <3>2. Len(r) = n - 1
      BY <2>5, <2>5b, <3>1
    <3>3. /\ \A j \in 1 .. Len(u) : r[j] = u[j]
          /\ \A j \in 1 .. Len(v) : r[Len(u) + j] = v[j]
      BY <2>5c
    <3>4. \A j \in 1 .. k - 1 : r[j] = s[j]
      BY <2>5b, <3>3
    <3>5. \A j \in k .. n - 1 : r[j] = s[j + 1]
      <4> SUFFICES ASSUME NEW j \in k .. n - 1
                   PROVE  r[j] = s[j + 1]
        OBVIOUS
      <4>1. /\ j - (k - 1) \in 1 .. n - k /\ k + (j - (k - 1)) = j + 1
            /\ (k - 1) + (j - (k - 1)) = j
        BY <2>5
      <4>2. r[j] = v[j - (k - 1)]
        <5> DEFINE m == j - (k - 1)
        <5>1. m \in 1 .. Len(v) /\ Len(u) + m = j
          BY <2>5b, <4>1
        <5> HIDE DEF m
        <5>2. r[Len(u) + m] = v[m]
          BY <3>3, <5>1
        <5> QED
          BY <5>1, <5>2 DEF m
      <4> QED
        BY <2>5b, <4>1, <4>2
    <3> QED
      BY <3>1, <3>2, <3>4, <3>5
  <2> DEFINE At(j) == IF j < k THEN j ELSE j + 1
  <2>7. /\ \A j \in 1 .. n - 1 : At(j) \in 1 .. n /\ At(j) # k
        /\ \A j, l \in 1 .. n - 1 : j < l => At(j) < At(l)
    BY <2>5
  <2>7a. \A j \in 1 .. n - 1 : r[j] = s[At(j)]
    <3> SUFFICES ASSUME NEW j \in 1 .. n - 1
                 PROVE  r[j] = s[At(j)]
      OBVIOUS
    <3>1. CASE j < k
      <4>1. j \in 1 .. k - 1
        BY <2>5, <3>1
      <4> QED
        BY <2>6, <3>1, <4>1
    <3>2. CASE ~(j < k)
      <4>1. j \in k .. n - 1
        BY <2>5, <3>2
      <4> QED
        BY <2>6, <3>2, <4>1
    <3> QED
      BY <3>1, <3>2
  <2>8. \A j \in 1 .. n : j # k => \E l \in 1 .. n - 1 : j = At(l)
    <3> SUFFICES ASSUME NEW j \in 1 .. n, j # k
                 PROVE  \E l \in 1 .. n - 1 : j = At(l)
      OBVIOUS
    <3>1. CASE j < k
      <4>1. j \in 1 .. n - 1 /\ j = At(j)
        BY <2>5, <3>1
      <4> QED
        BY <4>1
    <3>2. CASE j > k
      <4>1. j - 1 \in 1 .. n - 1 /\ j = At(j - 1)
        BY <2>5, <3>2
      <4> QED
        BY <4>1
    <3> QED
      BY <2>5, <3>1, <3>2
  <2> HIDE DEF At
  <2>9. Descending(r)
    BY <2>5, <2>6, <2>7, <2>7a DEF Descending
  <2>10. \A j \in 1 .. Len(s) : j # k => s[j] # e
    <3> SUFFICES ASSUME NEW j \in 1 .. Len(s), j # k, s[j] = e
                 PROVE  FALSE
      OBVIOUS
    <3>1. j \in 1 .. n /\ s[j] \in Nat /\ s[k] \in Nat
      BY <2>5
    <3>2. j < k => s[j] > s[k]
      BY DEF Descending
    <3>3. k < j => s[k] > s[j]
      BY DEF Descending
    <3> QED
      BY <2>3, <2>5, <3>1, <3>2, <3>3
  <2>11. ToSet(r) = {r[j] : j \in 1 .. Len(r)} /\ ToSet(s) = {s[j] : j \in 1 .. Len(s)}
    <3>1. DOMAIN r = 1 .. Len(r) /\ DOMAIN s = 1 .. Len(s)
      BY <2>6
    <3> QED
      BY <3>1 DEF ToSet
  <2>12. ToSet(r) \subseteq ToSet(s) \ {e}
    <3> SUFFICES ASSUME NEW j \in 1 .. n - 1
                 PROVE  r[j] \in ToSet(s) \ {e}
      BY <2>6, <2>11
    <3>1. At(j) \in 1 .. Len(s) /\ At(j) # k /\ r[j] = s[At(j)]
      BY <2>5, <2>7, <2>7a
    <3> QED
      BY <2>10, <2>11, <3>1
  <2>13. ToSet(s) \ {e} \subseteq ToSet(r)
    <3> SUFFICES ASSUME NEW j \in 1 .. Len(s), s[j] # e
                 PROVE  s[j] \in ToSet(r)
      BY <2>11
    <3>1. PICK l \in 1 .. n - 1 : j = At(l)
      BY <2>3, <2>5, <2>8
    <3> QED
      BY <2>6, <2>7a, <2>11, <3>1
  <2> QED
    BY <2>4, <2>6, <2>9, <2>12, <2>13
<1> QED
  BY <1>1, <1>2
-----------------------------------------------------------------------------
(* What a set-up leaves.                                                   *)

\* axidma_mmap leaves all of an allocation, or after a failing step nothing.
LEMMA MmapParts ==
  ASSUME NEW f \in ToSet(MmapSteps) \cup {"none"}
  PROVE  (Upto(MmapSteps, f) \ {"remap"}) \ MmapReleases(f)
           = (IF f = "none" THEN OwnParts ELSE {})
<1>1. /\ DOMAIN MmapSteps = 1 .. 3 /\ MmapSteps[1] = "struct"
      /\ MmapSteps[2] = "coherent" /\ MmapSteps[3] = "remap"
  BY DEF MmapSteps
<1>2. ToSet(MmapSteps) = {"struct", "coherent", "remap"}
  BY <1>1 DEF ToSet
<1>3. /\ \A m \in 1 .. 1 : m = 1
      /\ \A m \in 1 .. 2 : m = 1 \/ m = 2
      /\ \A m \in 1 .. 3 : m = 1 \/ m = 2 \/ m = 3
  OBVIOUS
<1>4. Upto(MmapSteps, f) = {MmapSteps[k] : k \in {j \in {1, 2, 3} : \A m \in 1 .. j : MmapSteps[m] # f}}
  BY <1>1, <1>3 DEF Upto
<1>5. CASE f = "none"
  BY <1>1, <1>3, <1>4, <1>5 DEF MmapReleases, OwnParts
<1>6. CASE f = "struct"
  BY <1>1, <1>3, <1>4, <1>6 DEF MmapReleases, OwnParts
<1>7. CASE f = "coherent"
  BY <1>1, <1>3, <1>4, <1>7 DEF MmapReleases, OwnParts
<1>8. CASE f = "remap"
  BY <1>1, <1>3, <1>4, <1>8 DEF MmapReleases, OwnParts
<1> QED
  BY <1>2, <1>5, <1>6, <1>7, <1>8

\* So does axidma_get_external.
LEMMA GetParts ==
  ASSUME NEW f \in ToSet(GetSteps) \cup {"none"}
  PROVE  (Upto(GetSteps, f) \ {"contiguous"}) \ GetReleases(f)
           = (IF f = "none" THEN ExtParts ELSE {})
<1>1. /\ DOMAIN GetSteps = 1 .. 5 /\ GetSteps[1] = "struct" /\ GetSteps[2] = "get"
      /\ GetSteps[3] = "attach" /\ GetSteps[4] = "map" /\ GetSteps[5] = "contiguous"
  BY DEF GetSteps
<1>2. ToSet(GetSteps) = {"struct", "get", "attach", "map", "contiguous"}
  BY <1>1 DEF ToSet
<1>3. /\ \A m \in 1 .. 1 : m = 1
      /\ \A m \in 1 .. 2 : m \in {1, 2}
      /\ \A m \in 1 .. 3 : m \in {1, 2, 3}
      /\ \A m \in 1 .. 4 : m \in {1, 2, 3, 4}
      /\ \A m \in 1 .. 5 : m \in {1, 2, 3, 4, 5}
      /\ 1 .. 5 = {1, 2, 3, 4, 5}
  OBVIOUS
<1>4. Upto(GetSteps, f) = {GetSteps[k] : k \in {j \in 1 .. 5 : \A m \in 1 .. j : GetSteps[m] # f}}
  BY <1>1 DEF Upto
<1>5. CASE f = "none"
  <2>1. \A j \in 1 .. 5 : \A m \in 1 .. j : GetSteps[m] # f
    BY <1>1, <1>3, <1>5
  <2>2. Upto(GetSteps, f) = {"struct", "get", "attach", "map", "contiguous"}
    BY <1>1, <1>3, <1>4, <2>1
  <2> QED
    BY <1>5, <2>2 DEF GetReleases, ExtParts
<1>6. CASE f = "struct"
  BY <1>1, <1>3, <1>4, <1>6 DEF GetReleases, ExtParts
<1>7. CASE f = "get"
  <2>1. \A j \in 1 .. 5 : (\A m \in 1 .. j : GetSteps[m] # f) => j = 1
    BY <1>1, <1>3, <1>7
  <2> QED
    BY <1>1, <1>4, <1>7, <2>1 DEF GetReleases, ExtParts
<1>8. CASE f = "attach"
  <2>1. \A j \in 1 .. 5 : (\A m \in 1 .. j : GetSteps[m] # f) => j \in {1, 2}
    BY <1>1, <1>3, <1>8
  <2> QED
    BY <1>1, <1>4, <1>8, <2>1 DEF GetReleases, ExtParts
<1>9. CASE f = "map"
  <2>1. \A j \in 1 .. 5 : (\A m \in 1 .. j : GetSteps[m] # f) => j \in {1, 2, 3}
    BY <1>1, <1>3, <1>9
  <2> QED
    BY <1>1, <1>4, <1>9, <2>1 DEF GetReleases, ExtParts
<1>10. CASE f = "contiguous"
  <2>1. \A j \in 1 .. 5 : (\A m \in 1 .. j : GetSteps[m] # f) => j \in {1, 2, 3, 4}
    BY <1>1, <1>3, <1>10
  <2> QED
    BY <1>1, <1>4, <1>10, <2>1 DEF GetReleases, ExtParts
<1> QED
  BY <1>2, <1>5, <1>6, <1>7, <1>8, <1>9, <1>10
-----------------------------------------------------------------------------
(* The inductive invariant.                                                *)

\* What the device holds at each step of probe and remove.
HeldAt(at) ==
  CASE at = "unbound" -> {}
    [] at \in {"mask", "count", "channels", "kfree"} -> {"dev"}
    [] at = "cb_data" -> {"dev", "channels"}
    [] at \in {"parse", "oops", "request", "region", "dma_exit"} -> {"dev", "channels", "cb_data"}
    [] at = "class" -> {"dev", "channels", "cb_data", "region"}
    [] at = "device" -> {"dev", "channels", "cb_data", "region", "class"}
    [] at = "cdev" -> {"dev", "channels", "cb_data", "region", "class", "device"}
    [] OTHER -> Resources

\* Steps before the tree is accepted, before requested channels are there, and
\* before the device can be opened.
Parsing  == {"mask", "count", "channels", "cb_data", "parse", "oops"}
NoChans  == Parsing \cup {"unbound", "kfree"}
Early    == Parsing \cup {"request", "region", "class", "device", "cdev"}
\* Steps at which the device can no longer be opened.
Removed  == {"dma_exit", "kfree", "unbound"}
Accepted == axidma_of_parse_dma_nodes(tree) = "ok"

Types ==
  /\ tree \in Trees /\ mod \in {"out", "in", "exiting"} /\ pc \in PCs
  /\ leaked \subseteq Resources /\ gen \in 0 .. MaxBinds /\ axidma_dev \in 0 .. gen
  /\ own \in [Gens -> Seq(Nat)] /\ ext \in [Gens -> Seq(Nat)]
  /\ file \in [Procs -> 0 .. gen] /\ fd \in [Procs -> {"new", "open", "closed"}]
  /\ waits \in [Procs -> ChannelIds(tree) \cup {NoId}]
  /\ al \in Seq(Allocations) /\ Len(al) <= MaxAllocs /\ maps \subseteq 1 .. Len(al)
  /\ pend \subseteq Descriptors

\* Probe and remove hold what their step says.
Device ==
  /\ held = HeldAt(pc)
  /\ live = (IF pc = "unbound" THEN {} ELSE {gen})
  /\ pc # "unbound" => gen >= 1
  /\ reserved \in 0 .. Len(tree.dmas)
  /\ pc \in NoChans => reserved = 0
  /\ pc = "request" => reserved < Len(tree.dmas)
  /\ pc \in {"channels", "cb_data", "parse"} => Len(tree.dmas) > 0
  /\ pc \notin Parsing \cup {"unbound"} => Accepted
  /\ pc \notin Early \cup {"unbound"} => axidma_dev = gen
  /\ pc \in {"class", "device", "cdev"} => axidma_dev = gen

\* The lists of every structure are in order and name its mapped buffers.
Lists ==
  \A d \in Gens :
    /\ Descending(own[d]) /\ Descending(ext[d])
    /\ ToSet(own[d]) = {i \in maps : al[i].dev = d}
    /\ ToSet(ext[d]) \subseteq {i \in 1 .. Len(al) : al[i].kind = "ext" /\ al[i].dev = d}

\* An allocation has all of its parts or none.
Whole(i) ==
  \/ al[i].kind = "own" /\ al[i].parts = (IF i \in maps THEN OwnParts ELSE {})
  \/ /\ al[i].kind = "ext" /\ al[i].parts \in {ExtParts, {}} /\ i \notin maps
     /\ i \in ToSet(ext[al[i].dev])
     /\ al[i].parts = {} => "put" \in events
Parts == \A i \in 1 .. Len(al) : Whole(i)

\* An open file, or one that is mapped, points to a structure that was accepted; if
\* it is not the present one, or that is on its way out, it was removed while open.
FileOk(p) ==
  /\ file[p] <= axidma_dev
  /\ fd[p] = "new" => file[p] = 0
  /\ fd[p] = "open" => file[p] # 0
  /\ waits[p] # NoId => fd[p] = "open"
  /\ file[p] # 0 => Accepted
  /\ file[p] # 0 /\ file[p] = gen => pc \notin Early
  /\ file[p] # 0 /\ (file[p] # gen \/ pc \in Removed) => "removed_open" \in events
Files == \A p \in Procs : FileOk(p)

\* A mapping keeps its file.
Mapped == \A i \in maps : al[i].dev = file[al[i].proc]

\* Nothing belongs to a structure whose lists are not initialised yet.
Fresh ==
  Defined => \A d \in Gens :
    d > gen \/ (d = gen /\ pc \in Early \cup {"lists"})
      => /\ own[d] = <<>> /\ ext[d] = <<>>
         /\ \A i \in 1 .. Len(al) : al[i].dev # d

\* A descriptor lies in a buffer; the one a process waits for keeps it mapped.
Inside(x) ==
  /\ x.buf \in 1 .. Len(al) /\ x.off + x.len <= al[x.buf].size
  /\ x.ch # NoId
  /\ x.wait => waits[x.proc] = x.ch
  /\ x.wait /\ al[x.buf].kind = "own" /\ al[x.buf].proc = x.proc => x.buf \in maps
Pend ==
  /\ \A x \in pend : Inside(x)
  /\ \A x, y \in pend : x.wait /\ y.wait /\ x.proc = y.proc => x = y

\* Buffers of a process that exist together do not overlap.
Apart ==
  \A i, j \in 1 .. Len(al) :
    j < i /\ al[j].proc = al[i].proc /\ al[j].parts # {}
      => \/ al[j].addr + al[j].size <= al[i].addr
         \/ al[i].addr + al[i].size <= al[j].addr

IInv == Types /\ Device /\ Lists /\ Parts /\ Files /\ Mapped /\ Fresh /\ Pend /\ Apart
        /\ OnlyKnownFaults
-----------------------------------------------------------------------------
(* Module, probe and remove.                                               *)

\* HeldAt, step by step.
LEMMA HeldTable ==
  /\ HeldAt("unbound") = {}
  /\ HeldAt("mask") = {"dev"} /\ HeldAt("count") = {"dev"}
  /\ HeldAt("channels") = {"dev"} /\ HeldAt("kfree") = {"dev"}
  /\ HeldAt("cb_data") = {"dev", "channels"}
  /\ HeldAt("parse") = {"dev", "channels", "cb_data"}
  /\ HeldAt("oops") = {"dev", "channels", "cb_data"}
  /\ HeldAt("request") = {"dev", "channels", "cb_data"}
  /\ HeldAt("region") = {"dev", "channels", "cb_data"}
  /\ HeldAt("dma_exit") = {"dev", "channels", "cb_data"}
  /\ HeldAt("class") = {"dev", "channels", "cb_data", "region"}
  /\ HeldAt("device") = {"dev", "channels", "cb_data", "region", "class"}
  /\ HeldAt("cdev") = {"dev", "channels", "cb_data", "region", "class", "device"}
  /\ HeldAt("lists") = Resources /\ HeldAt("bound") = Resources
  /\ HeldAt("chrdev_exit") = Resources
BY DEF HeldAt

\* Types and Device are a matter of the device's variables.
LEMMA SameDevice ==
  ASSUME IInv, UNCHANGED devVars
  PROVE  Device'
BY DEF IInv, Device, devVars, Accepted

\* The step the driver core takes next: no way back to an earlier step of probe, and
\* to the end of remove only from where no file is open.
PcMoves ==
  /\ pc' \in PCs
  /\ pc' \in Early => pc \in Early
  /\ pc' = "lists" => pc \in Early \cup {"lists"}
  /\ pc' \in Removed => pc \in Early \cup Removed

\* What a step of probe or remove leaves alone.
Calm ==
  /\ UNCHANGED <<tree, al, maps, own, ext, file, fd, waits>>
  /\ pend' \subseteq pend /\ events \subseteq events' /\ misuse \subseteq misuse'

\* It keeps what the invariant says of buffers and descriptors.
LEMMA CalmKeeps ==
  ASSUME IInv, Calm
  PROVE  Lists' /\ Parts' /\ Mapped' /\ Pend' /\ Apart'
<1>1. Lists'
  BY DEF IInv, Calm, Lists
<1>2. Parts'
  BY DEF IInv, Calm, Parts, Whole
<1>3. Mapped'
  BY DEF IInv, Calm, Mapped
<1>4. Pend'
  <2>1. \A x \in pend' : Inside(x)'
    BY DEF IInv, Calm, Pend, Inside
  <2>2. \A x, y \in pend' : x \in pend /\ y \in pend
    BY DEF Calm
  <2> QED
    BY <2>1, <2>2 DEF IInv, Pend
<1>5. Apart'
  BY DEF IInv, Calm, Apart
<1> QED
  BY <1>1, <1>2, <1>3, <1>4, <1>5

\* What it must still show for the rest of the invariant.
LEMMA CalmStep ==
  ASSUME IInv, Defined, Calm, UNCHANGED <<gen, misuse>>, PcMoves,
         mod' \in {"out", "in", "exiting"},
         axidma_dev' \in {axidma_dev, gen},
         Device',
         \/ leaked' = leaked
         \/ /\ leaked' = leaked \cup {"channels", "cb_data"}
            /\ axidma_of_parse_dma_nodes(tree) = "error"
  PROVE  IInv'
<1>1. Types'
  <2>1. leaked' \subseteq Resources
    BY DEF IInv, Types, Resources
  <2>2. axidma_dev' \in 0 .. gen
    BY DEF IInv, Types
  <2>3. pend' \subseteq Descriptors /\ pc' \in PCs
    BY DEF IInv, Types, Calm, PcMoves
  <2> QED
    BY <2>1, <2>2, <2>3 DEF IInv, Types, Calm
<1>2. Lists' /\ Parts' /\ Mapped' /\ Pend' /\ Apart'
  BY CalmKeeps
<1>3. Files'
  <2> SUFFICES ASSUME NEW p \in Procs
               PROVE  FileOk(p)'
    BY DEF Files
  <2>1. FileOk(p)
    BY DEF IInv, Files
  <2>2. file[p] \in 0 .. gen /\ gen \in Nat /\ axidma_dev \in 0 .. gen
    BY DEF IInv, Types
  <2>3. file[p] <= axidma_dev'
    BY <2>1, <2>2 DEF FileOk
  <2>4. pc' \in Early => pc \in Early
    BY DEF PcMoves
  <2>5. pc' \in Removed => pc \in Early \cup Removed
    BY DEF PcMoves
  <2>6. file' = file /\ fd' = fd /\ waits' = waits /\ gen' = gen /\ tree' = tree
        /\ events \subseteq events'
    BY DEF Calm
  <2>7. file[p] # 0 /\ (file[p] # gen \/ pc' \in Removed) => "removed_open" \in events'
    BY <2>1, <2>5, <2>6 DEF FileOk
  <2> HIDE DEF Early, Removed
  <2> QED
    BY <2>1, <2>3, <2>4, <2>6, <2>7 DEF FileOk, Accepted
<1>4. Fresh'
  <2>1. \A d \in Gens : d > gen \/ (d = gen /\ pc' \in Early \cup {"lists"})
          => d > gen \/ (d = gen /\ pc \in Early \cup {"lists"})
    BY DEF PcMoves
  <2> HIDE DEF Early
  <2> QED
    BY <2>1 DEF IInv, Fresh, Calm
<1>5. OnlyKnownFaults'
  <2>1. misuse' \subseteq {"wrong_put"} /\ misuse' = misuse
    BY DEF Defined
  <2>2. "wrong_put" \in misuse' =>
          \E i, j \in DOMAIN al : /\ i # j /\ al[i].kind = "ext"
                                  /\ \/ al[i].proc # al[j].proc
                                     \/ al[j].addr = al[i].addr + al[i].size
    BY DEF IInv, OnlyKnownFaults
  <2>3. pc' = "unbound" => held' = {} /\ reserved' = 0
    BY HeldTable DEF Device, NoChans
  <2>4. /\ leaked' \subseteq {"channels", "cb_data"}
        /\ leaked' # {} => axidma_of_parse_dma_nodes(tree) = "error"
    BY DEF IInv, OnlyKnownFaults
  <2> QED
    BY <2>1, <2>2, <2>3, <2>4 DEF OnlyKnownFaults, Calm
<1> QED
  BY <1>1, <1>2, <1>3, <1>4, <1>5 DEF IInv
-----------------------------------------------------------------------------

\* Loading and unloading the module.
LEMMA ModuleKeeps ==
  ASSUME IInv, Defined, axidma_init \/ axidma_exit \/ ExitReturns
  PROVE  IInv'
<1>1. /\ UNCHANGED <<tree, pc, held, leaked, reserved, gen, live, axidma_dev, bufVars,
                     procVars, pend, histVars>>
      /\ mod' \in {"out", "in", "exiting"}
  BY DEF axidma_init, axidma_exit, ExitReturns
<1>2. Calm
  BY <1>1 DEF Calm, bufVars, procVars, histVars
<1>3. Device'
  BY <1>1 DEF IInv, Device, Accepted
<1>4. PcMoves
  BY <1>1 DEF PcMoves, IInv, Types
<1> QED
  BY <1>1, <1>2, <1>3, <1>4, CalmStep DEF histVars

\* A new device structure.
LEMMA axidma_probe_Keeps ==
  ASSUME IInv, Defined, axidma_probe
  PROVE  IInv'
<1>1. Calm /\ misuse' = misuse /\ events' = events /\ UNCHANGED <<mod, leaked, reserved, axidma_dev>>
  BY DEF axidma_probe, Calm, bufVars, procVars
<1>2. CASE UNCHANGED <<pc, held, gen, live>>
  <2>1. Device'
    BY <1>1, <1>2 DEF IInv, Device, Accepted, Calm
  <2>2. PcMoves
    BY <1>2 DEF PcMoves, IInv, Types
  <2> QED
    BY <1>1, <1>2, <2>1, <2>2, CalmStep DEF IInv, Types
<1>3. CASE /\ pc = "unbound" /\ gen < MaxBinds /\ pc' = "mask" /\ held' = {"dev"}
           /\ gen' = gen + 1 /\ live' = live \cup {gen + 1}
  <2>0. gen \in 0 .. MaxBinds /\ axidma_dev \in 0 .. gen /\ MaxBinds \in Nat
    BY DeviceAssumption DEF IInv, Types
  <2>0a. gen + 1 \in 0 .. MaxBinds /\ axidma_dev \in 0 .. gen + 1 /\ gen + 1 >= 1
    BY <1>3, <2>0
  <2>1. Device'
    <3>1. live' = {gen'} /\ held' = HeldAt(pc')
      BY <1>3, HeldTable DEF IInv, Device
    <3>2. gen' >= 1 /\ reserved' = 0
      BY <1>1, <1>3, <2>0a DEF IInv, Device, NoChans
    <3>3. 0 \in 0 .. Len(tree.dmas)
      BY <1>1, <1>3 DEF IInv, Device, NoChans
    <3>4. pc' \in Parsing /\ pc' \in Early /\ pc' = "mask" /\ tree' = tree
      BY <1>1, <1>3 DEF Parsing, Early, Calm
    <3> QED
      BY <3>1, <3>2, <3>3, <3>4 DEF Device
  <2>2. Types'
    <3>1. file' \in [Procs -> 0 .. gen']
      <4>1. \A k \in 0 .. gen : k \in 0 .. gen + 1
        BY <2>0
      <4>2. file \in [Procs -> 0 .. gen] /\ file' = file /\ gen' = gen + 1
        BY <1>1, <1>3 DEF IInv, Types, Calm
      <4> QED
        BY <4>1, <4>2
    <3>2. pend' \subseteq Descriptors
      BY <1>1 DEF IInv, Types, Calm
    <3>3. pc' \in PCs
      BY <1>3 DEF PCs, ProbePCs
    <3> QED
      BY <1>1, <1>3, <2>0a, <3>1, <3>2, <3>3 DEF IInv, Types, Calm
  <2>3. Lists' /\ Parts' /\ Mapped' /\ Pend' /\ Apart'
    BY <1>1, CalmKeeps
  <2>4. Files'
    <3> SUFFICES ASSUME NEW p \in Procs
                 PROVE  FileOk(p)'
      BY DEF Files
    <3>1. FileOk(p) /\ file[p] \in 0 .. gen
      BY DEF IInv, Files, Types
    <3>2. file[p] # gen + 1
      BY <2>0, <3>1
    <3>3. file[p] # 0 => "removed_open" \in events
      BY <1>3, <3>1 DEF FileOk, Removed
    <3> QED
      BY <1>1, <1>3, <3>1, <3>2, <3>3 DEF FileOk, Accepted, Calm
  <2>5. Fresh'
    <3>1. \A d \in Gens : d > gen + 1 \/ d = gen + 1 => d > gen
      BY <2>0 DEF Gens
    <3> QED
      BY <1>1, <1>3, <3>1 DEF IInv, Fresh, Calm
  <2>6. OnlyKnownFaults'
    <3>1. misuse' \subseteq {"wrong_put"} /\ misuse' = misuse
      BY <1>1 DEF Defined
    <3>2. pc' # "unbound"
      BY <1>3
    <3> QED
      BY <1>1, <3>1, <3>2 DEF IInv, OnlyKnownFaults, Calm
  <2> QED
    BY <2>1, <2>2, <2>3, <2>4, <2>5, <2>6 DEF IInv
<1> QED
  BY <1>2, <1>3 DEF axidma_probe

\* A step of probe that does nothing but get what the next step holds, or gives up
\* and releases all of it.
LEMMA ProbeStepKeeps ==
  ASSUME IInv, Defined,
         NEW at \in Early, NEW next \in Early \cup {"lists"}, NEW rel, NEW got,
         pc = at,
         \/ /\ pc' = next /\ held' = held \cup got
            /\ UNCHANGED <<leaked, live>>
         \/ GiveUp(rel),
         UNCHANGED probeRest,
         HeldAt(next) = HeldAt(at) \cup got,
         "dev" \in rel,
         axidma_dev' \in {axidma_dev, gen},
         reserved' \in 0 .. Len(tree.dmas), pc' \in NoChans => reserved' = 0,
         pc' = next => /\ next = "request" => reserved' < Len(tree.dmas)
                       /\ next \in {"channels", "cb_data", "parse"} => Len(tree.dmas) > 0
                       /\ next \notin Parsing => Accepted
                       /\ next \in {"class", "device", "cdev", "lists"} => axidma_dev' = gen,
         \/ HeldAt(at) \subseteq rel
         \/ /\ pc' = "unbound" => axidma_of_parse_dma_nodes(tree) = "error"
            /\ HeldAt(at) \ rel = {"channels", "cb_data"}
  PROVE  IInv'
<1>1. Calm /\ UNCHANGED <<mod, gen, misuse>>
  BY DEF probeRest, bufVars, procVars, Calm
<1>2. /\ pc = at /\ held = HeldAt(at) /\ live = {gen} /\ gen >= 1
  BY DEF IInv, Device, Early, Parsing
<1>3. \/ /\ pc' = next /\ held' = HeldAt(next) /\ leaked' = leaked /\ live' = live
      \/ /\ pc' = "unbound" /\ held' = {} /\ live' = {} /\ leaked' = leaked \cup (HeldAt(at) \ rel)
  BY <1>2 DEF GiveUp
<1>4. PcMoves
  <2>1. at \in PCs /\ next \in PCs /\ "unbound" \in PCs
    BY DEF Early, Parsing, PCs, ProbePCs
  <2>2. next \notin Removed /\ "unbound" \notin Early \cup {"lists"}
    BY DEF Early, Parsing, Removed
  <2> QED
    BY <1>2, <1>3, <2>1, <2>2 DEF PcMoves
<1>5. Device'
  <2>1. tree' = tree /\ gen' = gen
    BY <1>1 DEF Calm
  <2>2. CASE pc' = next /\ held' = HeldAt(next) /\ live' = live
    <3>1. next # "unbound"
      BY DEF Early, Parsing
    <3>2. next \notin Early \cup {"unbound"} => axidma_dev' = gen
      BY <2>2
    <3> QED
      BY <1>2, <2>1, <2>2, <3>1, <3>2 DEF Device, Accepted
  <2>3. CASE pc' = "unbound" /\ held' = {} /\ live' = {}
    BY <2>1, <2>3, HeldTable DEF Device, NoChans
  <2> QED
    BY <1>3, <2>2, <2>3
<1>6. \/ leaked' = leaked
      \/ /\ leaked' = leaked \cup {"channels", "cb_data"}
         /\ axidma_of_parse_dma_nodes(tree) = "error"
  BY <1>3
<1>7. mod' \in {"out", "in", "exiting"}
  BY <1>1 DEF IInv, Types
<1> QED
  BY <1>1, <1>4, <1>5, <1>6, <1>7, CalmStep

\* axidma_dma_init up to the parsing of the tree.
LEMMA DmaInitKeeps ==
  ASSUME IInv, Defined, ProbeMask \/ ProbeCount \/ ProbeChannels \/ ProbeCbData
  PROVE  IInv'
<1>0. /\ reserved \in 0 .. Len(tree.dmas) /\ (pc \in NoChans => reserved = 0)
      /\ tree \in Trees /\ Len(tree.dmas) \in Nat
  BY IdsAreNumbers DEF IInv, Device, Types
<1>1. CASE ProbeMask
  <2>1. /\ pc = "mask"
        /\ \/ pc' = "count" /\ held' = held \cup {} /\ UNCHANGED <<leaked, live>>
           \/ GiveUp({"dev"})
        /\ UNCHANGED <<probeRest, reserved, axidma_dev>>
    BY <1>1 DEF ProbeMask, ProbeStep
  <2>2. HeldAt("count") = HeldAt("mask") \cup {} /\ HeldAt("mask") \subseteq {"dev"}
    BY HeldTable
  <2>3. reserved' = 0
    BY <1>0, <2>1 DEF NoChans, Parsing
  <2>4. "mask" \in Early /\ "count" \in Early /\ "count" \in Parsing
    BY DEF Early, Parsing
  <2> HIDE DEF Early, Parsing, NoChans
  <2> QED
    BY <1>0, <2>1, <2>2, <2>3, <2>4, ProbeStepKeeps
<1>2. CASE ProbeCount
  <2>1. /\ pc = "count"
        /\ \/ pc' = "channels" /\ held' = held \cup {} /\ UNCHANGED <<leaked, live>>
           \/ GiveUp({"dev"})
        /\ UNCHANGED <<probeRest, reserved, axidma_dev>>
    BY <1>2 DEF ProbeCount, ProbeStep
  <2>2. HeldAt("channels") = HeldAt("count") \cup {} /\ HeldAt("count") \subseteq {"dev"}
    BY HeldTable
  <2>3. reserved' = 0
    BY <1>0, <2>1 DEF NoChans, Parsing
  <2>4. "count" \in Early /\ "channels" \in Early /\ "channels" \in Parsing
    BY DEF Early, Parsing
  <2>5. pc' = "channels" => Len(tree.dmas) > 0
    BY <1>0, <1>2 DEF ProbeCount, ProbeStep, GiveUp, axidma_of_num_channels
  <2> HIDE DEF Early, Parsing, NoChans
  <2> QED
    BY <1>0, <2>1, <2>2, <2>3, <2>4, <2>5, ProbeStepKeeps
<1>3. CASE ProbeChannels
  <2>1. /\ pc = "channels"
        /\ \/ pc' = "cb_data" /\ held' = held \cup {"channels"} /\ UNCHANGED <<leaked, live>>
           \/ GiveUp({"dev"})
        /\ UNCHANGED <<probeRest, reserved, axidma_dev>>
    BY <1>3 DEF ProbeChannels, ProbeStep
  <2>2. /\ HeldAt("cb_data") = HeldAt("channels") \cup {"channels"}
        /\ HeldAt("channels") \subseteq {"dev"}
    BY HeldTable
  <2>3. reserved' = 0
    BY <1>0, <2>1 DEF NoChans, Parsing
  <2>4. "channels" \in Early /\ "cb_data" \in Early /\ "cb_data" \in Parsing
    BY DEF Early, Parsing
  <2>5. Len(tree.dmas) > 0
    BY <2>1 DEF IInv, Device
  <2> HIDE DEF Early, Parsing, NoChans
  <2> QED
    BY <1>0, <2>1, <2>2, <2>3, <2>4, <2>5, ProbeStepKeeps
<1>4. CASE ProbeCbData
  <2>1. /\ pc = "cb_data"
        /\ \/ pc' = "parse" /\ held' = held \cup {"cb_data"} /\ UNCHANGED <<leaked, live>>
           \/ GiveUp({"channels", "dev"})
        /\ UNCHANGED <<probeRest, reserved, axidma_dev>>
    BY <1>4 DEF ProbeCbData, ProbeStep
  <2>2. /\ HeldAt("parse") = HeldAt("cb_data") \cup {"cb_data"}
        /\ HeldAt("cb_data") \subseteq {"channels", "dev"}
    BY HeldTable
  <2>3. reserved' = 0
    BY <1>0, <2>1 DEF NoChans, Parsing
  <2>4. "cb_data" \in Early /\ "parse" \in Early /\ "parse" \in Parsing
    BY DEF Early, Parsing
  <2>5. Len(tree.dmas) > 0
    BY <2>1 DEF IInv, Device
  <2> HIDE DEF Early, Parsing, NoChans
  <2> QED
    BY <1>0, <2>1, <2>2, <2>3, <2>4, <2>5, ProbeStepKeeps
<1> QED
  BY <1>1, <1>2, <1>3, <1>4

\* Parsing the tree.
LEMMA ProbeParseKeeps ==
  ASSUME IInv, Defined, ProbeParse
  PROVE  IInv'
<1> DEFINE result == axidma_of_parse_dma_nodes(tree)
<1>0. /\ tree \in Trees /\ Len(tree.dmas) \in Nat
      /\ UNCHANGED <<tree, mod, gen, bufVars, procVars, pend, events, reserved, axidma_dev>>
  BY IdsAreNumbers DEF IInv, Device, Types, ProbeParse
<1>0a. pc = "parse"
  BY DEF ProbeParse, ProbeStep
<1>0b. reserved' = 0 /\ Len(tree.dmas) > 0
  BY <1>0, <1>0a DEF IInv, Device, NoChans, Parsing
<1>1. CASE ProbeStep("parse", result = "ok", result = "error", {}, "request", {"dev"}) /\ UNCHANGED misuse
  <2>1. /\ \/ /\ pc' = "request" /\ held' = held \cup {} /\ UNCHANGED <<leaked, live>>
              /\ Accepted
           \/ GiveUp({"dev"}) /\ result = "error"
        /\ UNCHANGED <<probeRest, reserved, axidma_dev>>
    BY <1>0, <1>1 DEF ProbeStep, Accepted, probeRest
  <2>2. /\ HeldAt("request") = HeldAt("parse") \cup {}
        /\ HeldAt("parse") \ {"dev"} = {"channels", "cb_data"}
    BY HeldTable
  <2>3. "parse" \in Early /\ "request" \in Early
    BY DEF Early, Parsing
  <2>4. pc' = "unbound" => result = "error"
    BY <2>1
  <2> HIDE DEF Early, Parsing, NoChans, result
  <2>5. \/ /\ pc' = "request" /\ held' = held \cup {}
           /\ UNCHANGED <<leaked, live>>
        \/ GiveUp({"dev"})
    BY <2>1
  <2>6. pc' = "request" => Accepted
    BY <2>1 DEF GiveUp
  <2>7. reserved' \in 0 .. Len(tree.dmas) /\ reserved' < Len(tree.dmas) /\ reserved' = 0
    BY <1>0, <1>0b
  <2>8. "request" \notin {"channels", "cb_data", "parse", "class", "device", "cdev", "lists"}
    OBVIOUS
  <2>9. axidma_dev' = axidma_dev /\ UNCHANGED probeRest
    BY <2>1
  <2>10. "dev" \in {"dev"}
    OBVIOUS
  <2>11. pc' = "unbound" => axidma_of_parse_dma_nodes(tree) = "error"
    BY <2>4 DEF result
  <2> QED
    BY <1>0a, <2>2, <2>3, <2>5, <2>6, <2>7, <2>8, <2>9, <2>10, <2>11, ProbeStepKeeps
<1>2. CASE /\ result = "oops" /\ pc' = "oops" /\ misuse' = misuse \cup {"null_child"}
           /\ UNCHANGED <<held, leaked, live>>
  <2>1. Calm
    BY <1>0, <1>2 DEF Calm, bufVars, procVars
  <2>2. Lists' /\ Parts' /\ Mapped' /\ Pend' /\ Apart'
    BY <2>1, CalmKeeps
  <2>3. Types'
    BY <1>0, <1>2, <2>1 DEF IInv, Types, Calm, PCs
  <2>4. Device'
    <3>1. "oops" \in Parsing /\ "oops" \in Early /\ pc' # "unbound" /\ pc' # "request"
          /\ pc' \notin {"channels", "cb_data", "parse", "class", "device", "cdev"}
      BY <1>2 DEF Parsing, Early
    <3>2. held' = HeldAt(pc') /\ live' = {gen'} /\ gen' >= 1
      BY <1>0, <1>0a, <1>2, HeldTable DEF IInv, Device
    <3>3. reserved' \in 0 .. Len(tree'.dmas) /\ reserved' = 0
      BY <1>0, <1>0b
    <3> HIDE DEF Parsing, Early, NoChans
    <3> QED
      BY <1>2, <3>1, <3>2, <3>3 DEF Device
  <2>5. Files'
    BY <1>0, <1>0a, <1>2, <2>1 DEF IInv, Files, FileOk, Early, Parsing, Removed, Calm, Accepted
  <2>6. Fresh'
    BY <1>2 DEF Fresh, Defined
  <2>7. OnlyKnownFaults'
    <3>1. misuse' \subseteq {"wrong_put", "null_child"} /\ ("wrong_put" \in misuse' => "wrong_put" \in misuse)
      BY <1>2 DEF Defined
    <3>2. \E i \in DOMAIN tree.dmas : tree.dmas[i].kids = 1
      BY <1>0, <1>2, OopsTree
    <3> QED
      BY <1>0, <1>2, <2>1, <3>1, <3>2 DEF IInv, OnlyKnownFaults, Calm
  <2> QED
    BY <2>2, <2>3, <2>4, <2>5, <2>6, <2>7 DEF IInv
<1> QED
  BY <1>1, <1>2 DEF ProbeParse

\* Requesting the channels.
LEMMA RequestKeeps ==
  ASSUME IInv, Defined, axidma_request_channels
  PROVE  IInv'
<1> DEFINE rel == {"cb_data", "channels", "dev"}
<1>1. /\ pc = "request" /\ UNCHANGED <<probeRest, axidma_dev>>
      /\ \/ /\ reserved' = reserved + 1
            /\ pc' = (IF reserved + 1 = Len(tree.dmas) THEN "region" ELSE "request")
            /\ held' = held \cup {} /\ UNCHANGED <<leaked, live>>
         \/ reserved' = 0 /\ GiveUp(rel)
  BY DEF axidma_request_channels, ProbeStep
<1>2. /\ Len(tree.dmas) \in Nat /\ reserved \in 0 .. Len(tree.dmas)
      /\ reserved < Len(tree.dmas) /\ Accepted
  <2>1. pc \notin Parsing \cup {"unbound"}
    BY <1>1 DEF Parsing
  <2> QED
    BY <1>1, <2>1, IdsAreNumbers DEF IInv, Device, Types
<1>3. /\ HeldAt("request") = HeldAt("request") \cup {} /\ HeldAt("request") \subseteq rel
      /\ HeldAt("region") = HeldAt("request") \cup {} /\ "dev" \in rel
  BY HeldTable
<1>4. /\ "request" \in Early /\ "region" \in Early
      /\ "request" \notin NoChans /\ "region" \notin NoChans
      /\ "request" \notin {"channels", "cb_data", "parse", "class", "device", "cdev", "lists"}
      /\ "region" \notin {"request", "channels", "cb_data", "parse", "class", "device", "cdev", "lists"}
  BY DEF Early, Parsing, NoChans
<1>5. axidma_dev' \in {axidma_dev, gen} /\ UNCHANGED probeRest
  BY <1>1
<1> HIDE DEF Early, NoChans, Parsing, rel
<1>6. CASE GiveUp(rel) /\ reserved' = 0
  <2>1. pc' # "request" /\ reserved' \in 0 .. Len(tree.dmas)
    BY <1>2, <1>6 DEF GiveUp
  <2> QED
    BY <1>1, <1>3, <1>4, <1>5, <1>6, <2>1, ProbeStepKeeps
<1>7. CASE /\ reserved' = reserved + 1 /\ pc' = "region"
           /\ held' = held \cup {} /\ UNCHANGED <<leaked, live>>
  <2>1. reserved' \in 0 .. Len(tree.dmas)
    BY <1>2, <1>7
  <2> QED
    BY <1>1, <1>2, <1>3, <1>4, <1>5, <1>7, <2>1, ProbeStepKeeps
<1>8. CASE /\ reserved' = reserved + 1 /\ reserved + 1 # Len(tree.dmas) /\ pc' = "request"
           /\ held' = held \cup {} /\ UNCHANGED <<leaked, live>>
  <2>1. reserved' \in 0 .. Len(tree.dmas) /\ reserved' < Len(tree.dmas)
    BY <1>2, <1>8
  <2> QED
    BY <1>1, <1>2, <1>3, <1>4, <1>5, <1>8, <2>1, ProbeStepKeeps
<1> QED
  BY <1>1, <1>6, <1>7, <1>8

\* A step of axidma_chrdev_init.
LEMMA ChrdevStepKeeps ==
  ASSUME IInv, Defined,
         NEW at \in {"region", "class", "device", "cdev"}, NEW got,
         NEW next \in {"class", "device", "cdev", "lists"}, NEW rel,
         ChrdevStep(at, got, next, rel),
         HeldAt(next) = HeldAt(at) \cup got,
         HeldAt(at) \subseteq rel \cup {"cb_data", "channels", "dev"}
  PROVE  IInv'
<1> DEFINE all == rel \cup {"cb_data", "channels", "dev"}
<1>1. /\ pc = at /\ UNCHANGED probeRest /\ axidma_dev' = gen
      /\ reserved' = IF pc' = "unbound" THEN 0 ELSE reserved
      /\ \/ pc' = next /\ held' = held \cup got /\ UNCHANGED <<leaked, live>>
         \/ GiveUp(all)
  BY DEF ChrdevStep, ProbeStep
<1>2. /\ Len(tree.dmas) \in Nat /\ reserved \in 0 .. Len(tree.dmas) /\ Accepted
  <2>1. pc \notin Parsing \cup {"unbound"}
    BY <1>1 DEF Parsing
  <2> QED
    BY <1>1, <2>1, IdsAreNumbers DEF IInv, Device, Types
<1>3. /\ at \in Early /\ next \in Early \cup {"lists"} /\ next \notin NoChans
      /\ next \notin {"request", "channels", "cb_data", "parse"} /\ "dev" \in all
  BY DEF Early, Parsing, NoChans
<1>4. /\ reserved' \in 0 .. Len(tree.dmas)
      /\ pc' \in NoChans => reserved' = 0
  BY <1>1, <1>2, <1>3 DEF GiveUp
<1> HIDE DEF Early, NoChans, Parsing, all
<1>5. HeldAt(at) \subseteq all /\ axidma_dev' \in {axidma_dev, gen}
  BY <1>1 DEF all
<1> QED
  BY <1>1, <1>2, <1>3, <1>4, <1>5, ProbeStepKeeps

\* All of axidma_chrdev_init up to the lists.
LEMMA ChrdevKeeps ==
  ASSUME IInv, Defined, ProbeRegion \/ ProbeClass \/ ProbeDevice \/ ProbeCdev
  PROVE  IInv'
<1>1. CASE ProbeRegion
  <2>1. ChrdevStep("region", {"region"}, "class", {})
    BY <1>1 DEF ProbeRegion
  <2>2. /\ HeldAt("class") = HeldAt("region") \cup {"region"}
        /\ HeldAt("region") \subseteq {} \cup {"cb_data", "channels", "dev"}
    BY HeldTable
  <2> QED
    BY <2>1, <2>2, ChrdevStepKeeps
<1>2. CASE ProbeClass
  <2>1. ChrdevStep("class", {"class"}, "device", {"region"})
    BY <1>2 DEF ProbeClass
  <2>2. /\ HeldAt("device") = HeldAt("class") \cup {"class"}
        /\ HeldAt("class") \subseteq {"region"} \cup {"cb_data", "channels", "dev"}
    BY HeldTable
  <2> QED
    BY <2>1, <2>2, ChrdevStepKeeps
<1>3. CASE ProbeDevice
  <2>1. ChrdevStep("device", {"device"}, "cdev", {"class", "region"})
    BY <1>3 DEF ProbeDevice
  <2>2. /\ HeldAt("cdev") = HeldAt("device") \cup {"device"}
        /\ HeldAt("device") \subseteq {"class", "region"} \cup {"cb_data", "channels", "dev"}
    BY HeldTable
  <2> QED
    BY <2>1, <2>2, ChrdevStepKeeps
<1>4. CASE ProbeCdev
  <2>1. ChrdevStep("cdev", {"cdev"}, "lists", {"device", "class", "region"})
    BY <1>4 DEF ProbeCdev
  <2>2. /\ HeldAt("lists") = HeldAt("cdev") \cup {"cdev"}
        /\ HeldAt("cdev") \subseteq {"device", "class", "region"} \cup {"cb_data", "channels", "dev"}
    BY HeldTable DEF Resources
  <2> QED
    BY <2>1, <2>2, ChrdevStepKeeps
<1> QED
  BY <1>1, <1>2, <1>3, <1>4

\* The lists of a new device are empty already when they are initialised.
LEMMA ProbeListsKeeps ==
  ASSUME IInv, Defined, ProbeLists
  PROVE  IInv'
<1>1. gen \in Gens /\ pc = "lists" /\ pc' = "bound"
  <2>1. gen \in 0 .. MaxBinds /\ gen >= 1
    BY DEF IInv, Types, Device, ProbeLists
  <2> QED
    BY <2>1 DEF Gens, ProbeLists
<1>2. own[gen] = <<>> /\ ext[gen] = <<>>
  BY <1>1 DEF IInv, Fresh, ProbeLists
<1>3. own' = own /\ ext' = ext
  BY <1>1, <1>2 DEF ProbeLists, IInv, Types
<1>4. /\ Calm
      /\ UNCHANGED <<mod, held, leaked, reserved, gen, live, axidma_dev, misuse>>
  BY <1>3 DEF ProbeLists, Calm, procVars, histVars
<1>5. "bound" \in PCs /\ "bound" \notin Early /\ "bound" \notin Removed
      /\ "bound" \notin NoChans /\ "lists" \notin Early \cup Parsing \cup {"unbound"}
      /\ "bound" \notin Parsing
  BY DEF PCs, Early, Parsing, Removed, NoChans
<1> HIDE DEF Early, NoChans, Parsing, Removed
<1>6. PcMoves
  BY <1>1, <1>5 DEF PcMoves
<1>7. Device'
  <2>1. tree' = tree
    BY <1>4 DEF Calm
  <2>2. Device
    BY DEF IInv
  <2>3. Accepted /\ axidma_dev = gen /\ held = HeldAt("bound")
    BY <1>1, <1>5, <2>2, HeldTable DEF Device
  <2> QED
    BY <1>1, <1>4, <1>5, <2>1, <2>2, <2>3 DEF Device, Accepted
<1>8. mod' \in {"out", "in", "exiting"}
  BY <1>4 DEF IInv, Types
<1> QED
  BY <1>4, <1>6, <1>7, <1>8, CalmStep

\* Taking the device away.
LEMMA RemoveKeeps ==
  ASSUME IInv, Defined, StartRemove \/ axidma_dma_exit \/ axidma_remove
  PROVE  IInv'
<1>0. /\ Device /\ Types /\ 0 \in 0 .. Len(tree.dmas)
  <2>1. Len(tree.dmas) \in Nat
    BY IdsAreNumbers DEF IInv, Types
  <2> QED
    BY <2>1 DEF IInv
<1>1. CASE StartRemove
  <2>1. Calm /\ UNCHANGED <<mod, held, leaked, reserved, gen, live, axidma_dev, misuse>>
        /\ pc = "bound" /\ pc' = "chrdev_exit"
    BY <1>1 DEF StartRemove, Calm, bufVars, procVars
  <2>2. /\ "chrdev_exit" \in PCs
        /\ \A s \in {"bound", "chrdev_exit"} : s \notin Early \cup Removed \cup NoChans \cup Parsing
    BY DEF PCs, RemovePCs, Early, Parsing, Removed, NoChans
  <2> HIDE DEF Early, NoChans, Parsing, Removed
  <2>3. PcMoves
    BY <2>1, <2>2 DEF PcMoves
  <2>4. Device'
    <3>1. Accepted /\ axidma_dev = gen /\ held = HeldAt("chrdev_exit")
      BY <1>0, <2>1, <2>2, HeldTable DEF Device
    <3>2. tree' = tree
      BY <2>1 DEF Calm
    <3> QED
      BY <1>0, <2>1, <2>2, <3>1, <3>2 DEF Device, Accepted
  <2>5. mod' \in {"out", "in", "exiting"}
    BY <1>0, <2>1 DEF Types
  <2> QED
    BY <2>1, <2>3, <2>4, <2>5, CalmStep
<1>2. CASE axidma_dma_exit
  <2>1. Calm /\ UNCHANGED <<mod, leaked, gen, live, axidma_dev, misuse>>
        /\ pc = "dma_exit" /\ pc' = "kfree" /\ reserved' = 0
        /\ held' = held \ {"channels", "cb_data"}
    BY <1>2 DEF axidma_dma_exit, Calm, bufVars, procVars, histVars
  <2>2. /\ "kfree" \in PCs /\ "dma_exit" \in Removed
        /\ \A s \in {"dma_exit", "kfree"} : s \notin Early \cup Parsing
    BY DEF PCs, RemovePCs, Early, Parsing, Removed
  <2> HIDE DEF Early, NoChans, Parsing, Removed
  <2>3. PcMoves
    BY <2>1, <2>2 DEF PcMoves
  <2>4. Device'
    <3>1. Accepted /\ axidma_dev = gen /\ held' = HeldAt("kfree")
      BY <1>0, <2>1, <2>2, HeldTable DEF Device
    <3>2. tree' = tree
      BY <2>1 DEF Calm
    <3> QED
      BY <1>0, <2>1, <2>2, <3>1, <3>2 DEF Device, Accepted
  <2>5. mod' \in {"out", "in", "exiting"}
    BY <1>0, <2>1 DEF Types
  <2> QED
    BY <2>1, <2>3, <2>4, <2>5, CalmStep
<1>3. CASE axidma_remove
  <2>1. Calm /\ UNCHANGED <<mod, leaked, reserved, gen, axidma_dev, misuse>>
        /\ pc = "kfree" /\ pc' = "unbound"
        /\ held' = held \ {"dev"} /\ live' = live \ {gen}
    BY <1>3 DEF axidma_remove, Calm, bufVars, procVars, histVars
  <2>2. /\ "unbound" \in PCs /\ "kfree" \in Removed
        /\ "unbound" \notin Early \cup Parsing /\ "kfree" \in NoChans
    BY DEF PCs, Early, Parsing, Removed, NoChans
  <2> HIDE DEF Early, NoChans, Parsing, Removed
  <2>3. PcMoves
    BY <2>1, <2>2 DEF PcMoves
  <2>4. Device'
    <3>1. reserved' = 0 /\ held' = HeldAt("unbound") /\ live' = {}
      BY <1>0, <2>1, <2>2, HeldTable DEF Device
    <3>2. tree' = tree
      BY <2>1 DEF Calm
    <3> QED
      BY <1>0, <2>1, <2>2, <3>1, <3>2 DEF Device, Accepted
  <2>5. mod' \in {"out", "in", "exiting"}
    BY <1>0, <2>1 DEF Types
  <2> QED
    BY <2>1, <2>3, <2>4, <2>5, CalmStep
<1> QED
  BY <1>1, <1>2, <1>3

\* From axidma_chrdev_exit on nobody opens the device, and a file that is open now
\* is recorded.
LEMMA ChrdevExitKeeps ==
  ASSUME IInv, Defined, axidma_chrdev_exit
  PROVE  IInv'
<1>1. Calm /\ UNCHANGED <<mod, leaked, reserved, gen, live, axidma_dev, misuse>>
      /\ pc = "chrdev_exit" /\ pc' = "dma_exit"
      /\ held' = held \ {"cdev", "device", "class", "region"}
      /\ ((\E p \in Procs : file[p] = gen) => "removed_open" \in events')
  BY DEF axidma_chrdev_exit, Calm, bufVars, procVars
<1>2. /\ "dma_exit" \in PCs
      /\ "dma_exit" \notin Early \cup {"lists"} /\ "chrdev_exit" \notin Early \cup Parsing \cup {"unbound"}
      /\ "dma_exit" \notin NoChans \cup Parsing
  BY DEF PCs, RemovePCs, Early, Parsing, NoChans
<1> HIDE DEF Early, NoChans, Parsing
<1>3. Device'
  <2>1. Device /\ tree' = tree
    BY <1>1 DEF IInv, Calm
  <2>2. Accepted /\ axidma_dev = gen /\ held' = HeldAt("dma_exit")
    BY <1>1, <1>2, <2>1, HeldTable DEF Device, Resources
  <2> QED
    BY <1>1, <1>2, <2>1, <2>2 DEF Device, Accepted
<1>4. Types'
  BY <1>1, <1>2 DEF IInv, Types, Calm
<1>5. Lists' /\ Parts' /\ Mapped' /\ Pend' /\ Apart'
  BY <1>1, CalmKeeps
<1>6. Files'
  <2> SUFFICES ASSUME NEW p \in Procs
               PROVE  FileOk(p)'
    BY DEF Files
  <2>1. FileOk(p)
    BY DEF IInv, Files
  <2>2. file[p] # 0 => "removed_open" \in events'
    BY <1>1, <2>1 DEF FileOk, Calm
  <2> QED
    BY <1>1, <1>2, <2>1, <2>2 DEF FileOk, Accepted, Calm
<1>7. Fresh'
  BY <1>1, <1>2 DEF IInv, Fresh, Calm
<1>8. OnlyKnownFaults'
  <2>1. misuse' \subseteq {"wrong_put"} /\ misuse' = misuse
    BY <1>1 DEF Defined
  <2> QED
    BY <1>1, <2>1 DEF IInv, OnlyKnownFaults, Calm
<1> QED
  BY <1>3, <1>4, <1>5, <1>6, <1>7, <1>8 DEF IInv
-----------------------------------------------------------------------------
(* Opening, and the calls of a process.                                    *)

\* What the driver did wrong is explained by what users did, by the tree, or by the
\* moment: the first six conjuncts of OnlyKnownFaults.
Explained(m) ==
  /\ m = "removed_device" => "removed_open" \in events
  /\ m = "stale_external" => "put" \in events
  /\ m = "wrong_put" =>
       \E i, j \in DOMAIN al : /\ i # j /\ al[i].kind = "ext"
                               /\ \/ al[i].proc # al[j].proc
                                  \/ al[j].addr = al[i].addr + al[i].size
  /\ m = "cb_index" => ~DenseIds(tree)
  /\ m = "uninit_lists" => pc = "lists"
  /\ m = "null_child" => \E i \in DOMAIN tree.dmas : tree.dmas[i].kids = 1

\* A call of a process leaves the device alone, keeps the history and every
\* allocation's owner and place.
Call ==
  /\ UNCHANGED devVars /\ events \subseteq events' /\ misuse \subseteq misuse'
  /\ Len(al) <= Len(al')
  /\ \A i \in 1 .. Len(al) : /\ al'[i].kind = al[i].kind /\ al'[i].proc = al[i].proc
                             /\ al'[i].addr = al[i].addr /\ al'[i].size = al[i].size
                             /\ al'[i].dev = al[i].dev

\* So it only has to explain the faults it adds.
LEMMA CallFaults ==
  ASSUME IInv, Defined, Call, DOMAIN al = 1 .. Len(al), DOMAIN al' = 1 .. Len(al'),
         Len(al) \in Nat, Len(al') \in Nat,
         \A m \in misuse' : m \in misuse \/ Explained(m)'
  PROVE  OnlyKnownFaults'
<1>1. \A m \in misuse' : Explained(m)'
  <2> SUFFICES ASSUME NEW m \in misuse
               PROVE  Explained(m)'
    OBVIOUS
  <2>1. m = "wrong_put"
    BY DEF Defined
  <2>2. PICK i \in DOMAIN al, j \in DOMAIN al :
          /\ i # j /\ al[i].kind = "ext"
          /\ al[i].proc # al[j].proc \/ al[j].addr = al[i].addr + al[i].size
    BY <2>1 DEF IInv, OnlyKnownFaults
  <2>3. i \in DOMAIN al' /\ j \in DOMAIN al'
    BY DEF Call
  <2>4. /\ al'[i].kind = "ext"
        /\ al'[i].proc # al'[j].proc \/ al'[j].addr = al'[i].addr + al'[i].size
    BY <2>2 DEF Call
  <2> QED
    BY <2>1, <2>2, <2>3, <2>4 DEF Explained
<1>2. UNCHANGED <<tree, pc, held, reserved, leaked>>
  BY DEF Call, devVars
<1>3. /\ "removed_device" \in misuse' => ("removed_open" \in events)'
      /\ "stale_external" \in misuse' => ("put" \in events)'
      /\ "wrong_put" \in misuse' =>
           \E i, j \in DOMAIN al' : /\ i # j /\ al'[i].kind = "ext"
                                    /\ \/ al'[i].proc # al'[j].proc
                                       \/ al'[j].addr = al'[i].addr + al'[i].size
      /\ "cb_index" \in misuse' => ~DenseIds(tree')
      /\ "uninit_lists" \in misuse' => pc' = "lists"
      /\ "null_child" \in misuse' => \E i \in DOMAIN tree'.dmas : tree'.dmas[i].kids = 1
  BY <1>1 DEF Explained
<1>4. /\ pc = "unbound" => held = {} /\ reserved = 0
      /\ leaked \subseteq {"channels", "cb_data"}
      /\ leaked # {} => axidma_of_parse_dma_nodes(tree) = "error"
  BY DEF IInv, OnlyKnownFaults
<1> QED
  BY <1>2, <1>3, <1>4 DEF OnlyKnownFaults

\* What the types say of allocations, files and channels.
LEMMA Known ==
  ASSUME IInv
  PROVE  /\ Len(al) \in Nat /\ DOMAIN al = 1 .. Len(al)
         /\ \A i \in 1 .. Len(al) :
              /\ al[i] \in Allocations /\ al[i].kind \in {"own", "ext"}
              /\ al[i].dev \in Gens /\ al[i].proc \in Procs
              /\ al[i].addr \in 0 .. Space - 1 /\ al[i].size \in 1 .. Space
         /\ gen \in Nat /\ gen <= MaxBinds /\ axidma_dev \in 0 .. gen /\ MaxBinds \in Nat
         /\ \A p \in Procs : file[p] \in 0 .. gen
         /\ Space \in Nat \ {0} /\ MaxAllocs \in Nat /\ Gens = 1 .. MaxBinds
<1>1. al \in Seq(Allocations)
  BY DEF IInv, Types
<1>2. \A x \in Allocations :
        /\ x.kind \in {"own", "ext"} /\ x.dev \in Gens /\ x.proc \in Procs
        /\ x.addr \in 0 .. Space - 1 /\ x.size \in 1 .. Space
  BY DEF Allocations
<1>3. \A i \in 1 .. Len(al) : al[i] \in Allocations
  BY <1>1
<1>4. gen \in 0 .. MaxBinds /\ MaxBinds \in Nat
  BY DeviceAssumption DEF IInv, Types
<1> QED
  BY <1>1, <1>2, <1>3, <1>4, DeviceAssumption DEF IInv, Types, Gens

\* A file whose structure is freed, or the global pointer, was open at the removal.
LEMMA GoneRemoved ==
  ASSUME IInv, NEW p \in Procs, file[p] # 0,
         Gone(file[p]) \/ Gone(axidma_dev)
  PROVE  "removed_open" \in events
<1>1. FileOk(p)
  BY DEF IInv, Files
<1>2. \A d : Gone(d) => d # gen \/ pc \in Removed
  BY DEF Gone, IInv, Device, Removed
<1>3. CASE file[p] # gen \/ pc \in Removed
  BY <1>1, <1>3 DEF FileOk
<1>4. CASE axidma_dev # gen
  <2>1. file[p] # gen
    <3>1. gen \in Nat /\ axidma_dev \in 0 .. gen /\ file[p] <= axidma_dev
      BY <1>1, Known DEF FileOk
    <3> QED
      BY <1>4, <3>1
  <2> QED
    BY <1>3, <2>1
<1> QED
  BY <1>2, <1>3, <1>4

\* A process with a file works with an accepted tree.
LEMMA ChannelsKnown ==
  ASSUME IInv, NEW p \in Procs, file[p] # 0
  PROVE  Accepted /\ NoId \notin ChannelIds(tree)
<1>1. Accepted
  BY DEF IInv, Files, FileOk
<1>2. tree \in Trees
  BY DEF IInv, Types
<1> QED
  BY <1>1, <1>2, AcceptedIds DEF Accepted

\* Opening the device.
LEMMA OpenKeeps ==
  ASSUME IInv, Defined, NEW p \in Procs, axidma_open(p)
  PROVE  IInv'
<1>1. /\ fd[p] = "new" /\ "cdev" \in held
      /\ fd' = [fd EXCEPT ![p] = "open"] /\ file' = [file EXCEPT ![p] = axidma_dev]
      /\ UNCHANGED <<devVars, own, ext, al, maps, waits, pend, events, misuse>>
  BY DEF axidma_open, bufVars, histVars
<1>2. UNCHANGED <<tree, mod, pc, held, leaked, reserved, gen, live, axidma_dev>>
  BY <1>1 DEF devVars
<1>3. /\ FileOk(p) /\ file[p] = 0 /\ waits[p] = NoId
  BY <1>1 DEF IInv, Files, FileOk
<1>4. pc \in {"lists", "bound", "chrdev_exit"}
  <2>1. held = HeldAt(pc) /\ pc \in PCs
    BY DEF IInv, Device, Types
  <2>2. \A s \in PCs \ {"lists", "bound", "chrdev_exit"} : "cdev" \notin HeldAt(s)
    BY HeldTable DEF PCs, ProbePCs, RemovePCs
  <2> QED
    BY <1>1, <2>1, <2>2
<1>5. /\ Accepted /\ axidma_dev = gen /\ gen >= 1 /\ gen \in 0 .. gen
      /\ pc \notin Early /\ pc \notin Removed
  <2>1. pc \notin Early \cup Parsing \cup {"unbound"} /\ pc \notin Removed
    BY <1>4 DEF Early, Parsing, Removed
  <2>2. gen >= 1 /\ gen \in Nat
    BY <1>4, Known DEF IInv, Device
  <2> HIDE DEF Early, Parsing, Removed
  <2> QED
    BY <2>1, <2>2 DEF IInv, Device
<1>6. Types'
  <2>1. fd' \in [Procs -> {"new", "open", "closed"}] /\ file' \in [Procs -> 0 .. gen]
    BY <1>1, <1>5 DEF IInv, Types
  <2> QED
    BY <1>1, <1>2, <2>1 DEF IInv, Types
<1>7. Device'
  BY <1>1, SameDevice
<1>8. Lists' /\ Parts' /\ Apart' /\ Pend' /\ Fresh' /\ OnlyKnownFaults'
  <2>1. Lists'
    BY <1>1 DEF IInv, Lists
  <2>2. Parts'
    BY <1>1 DEF IInv, Parts, Whole
  <2>3. Apart'
    BY <1>1 DEF IInv, Apart
  <2>4. Pend'
    BY <1>1 DEF IInv, Pend, Inside
  <2>5. Fresh'
    BY <1>1, <1>2 DEF IInv, Fresh, Defined
  <2>6. OnlyKnownFaults'
    BY <1>1, <1>2 DEF IInv, OnlyKnownFaults
  <2> QED
    BY <2>1, <2>2, <2>3, <2>4, <2>5, <2>6
<1>9. Files'
  <2> SUFFICES ASSUME NEW q \in Procs
               PROVE  FileOk(q)'
    BY DEF Files
  <2>1. FileOk(q) /\ gen \in Nat
    BY Known DEF IInv, Files
  <2>2. CASE q = p
    <3>1. file'[q] = gen /\ fd'[q] = "open"
      BY <1>1, <1>5, <2>2 DEF IInv, Types
    <3> HIDE DEF Early, Removed
    <3> QED
      BY <1>1, <1>2, <1>3, <1>5, <2>1, <2>2, <3>1 DEF FileOk, Accepted
  <2>3. CASE q # p
    <3>1. file'[q] = file[q] /\ fd'[q] = fd[q]
      BY <1>1, <2>3 DEF IInv, Types
    <3> QED
      BY <1>1, <1>2, <2>1, <3>1 DEF FileOk, Accepted
  <2> QED
    BY <2>2, <2>3
<1>10. Mapped'
  <2> SUFFICES ASSUME NEW i \in maps
               PROVE  al[i].dev = file'[al[i].proc]
    BY <1>1 DEF Mapped
  <2>1. /\ al[i].proc \in Procs /\ al[i].dev \in 1 .. MaxBinds
        /\ al[i].dev = file[al[i].proc]
    BY Known DEF IInv, Types, Mapped, Gens
  <2>2. al[i].proc # p
    BY <1>3, <2>1
  <2> QED
    BY <1>1, <2>1, <2>2 DEF IInv, Types
<1> QED
  BY <1>6, <1>7, <1>8, <1>9, <1>10 DEF IInv

\* Closing it.
LEMMA ReleaseKeeps ==
  ASSUME IInv, Defined, NEW p \in Procs, axidma_release(p)
  PROVE  IInv'
<1>1. /\ fd[p] = "open" /\ waits[p] = NoId
      /\ fd' = [fd EXCEPT ![p] = "closed"]
      /\ file' = IF \E i \in maps : al[i].proc = p THEN file ELSE [file EXCEPT ![p] = 0]
      /\ misuse' = misuse \cup Tag(Gone(file[p]), "removed_device")
      /\ UNCHANGED <<devVars, own, ext, al, maps, waits, pend, events>>
  BY DEF axidma_release, Calls, bufVars
<1>2. UNCHANGED <<tree, mod, pc, held, leaked, reserved, gen, live, axidma_dev>>
  BY <1>1 DEF devVars
<1>3. FileOk(p) /\ file[p] # 0
  BY <1>1 DEF IInv, Files, FileOk
<1>6. Types'
  <2>0. 0 \in 0 .. gen
    BY Known
  <2>1. fd' \in [Procs -> {"new", "open", "closed"}] /\ file' \in [Procs -> 0 .. gen]
    BY <1>1, <2>0 DEF IInv, Types
  <2> QED
    BY <1>1, <1>2, <2>1 DEF IInv, Types
<1>7. Device'
  BY <1>1, SameDevice
<1>8. Lists' /\ Parts' /\ Apart' /\ Pend' /\ Fresh'
  <2>1. Lists'
    BY <1>1 DEF IInv, Lists
  <2>2. Parts'
    BY <1>1 DEF IInv, Parts, Whole
  <2>3. Apart'
    BY <1>1 DEF IInv, Apart
  <2>4. Pend'
    BY <1>1 DEF IInv, Pend, Inside
  <2>5. Fresh'
    BY <1>1, <1>2 DEF IInv, Fresh
  <2> QED
    BY <2>1, <2>2, <2>3, <2>4, <2>5
<1>9. Files'
  <2> SUFFICES ASSUME NEW q \in Procs
               PROVE  FileOk(q)'
    BY DEF Files
  <2>1. FileOk(q)
    BY DEF IInv, Files
  <2>2. CASE q = p
    <3>1. fd'[q] = "closed" /\ file'[q] \in {file[q], 0} /\ 0 <= axidma_dev
      BY <1>1, <2>2, Known DEF IInv, Types
    <3> QED
      BY <1>1, <1>2, <2>1, <2>2, <3>1 DEF FileOk, Accepted
  <2>3. CASE q # p
    <3>1. file'[q] = file[q] /\ fd'[q] = fd[q]
      BY <1>1, <2>3 DEF IInv, Types
    <3> QED
      BY <1>1, <1>2, <2>1, <3>1 DEF FileOk, Accepted
  <2> QED
    BY <2>2, <2>3
<1>10. Mapped'
  <2> SUFFICES ASSUME NEW i \in maps
               PROVE  al[i].dev = file'[al[i].proc]
    BY <1>1 DEF Mapped
  <2>1. al[i].proc \in Procs /\ al[i].dev = file[al[i].proc]
    BY Known DEF IInv, Types, Mapped
  <2> QED
    BY <1>1, <2>1 DEF IInv, Types
<1>11. OnlyKnownFaults'
  <2>1. \A m \in misuse' : m \in misuse \/ Explained(m)'
    <3> SUFFICES ASSUME Gone(file[p])
                 PROVE  Explained("removed_device")'
      BY <1>1 DEF Tag
    <3>1. "removed_open" \in events
      BY <1>3, GoneRemoved
    <3> QED
      BY <1>1, <3>1 DEF Explained
  <2>2. Call
    BY <1>1 DEF Call
  <2> QED
    BY <1>1, <2>1, <2>2, CallFaults, Known
<1> QED
  BY <1>6, <1>7, <1>8, <1>9, <1>10, <1>11 DEF IInv

\* A call that changes nothing but the history.
LEMMA OnlyMisuse ==
  ASSUME IInv, Defined,
         UNCHANGED <<devVars, own, ext, al, maps, file, fd, waits, pend, events>>,
         misuse \subseteq misuse',
         \A m \in misuse' : m \in misuse \/ Explained(m)'
  PROVE  IInv'
<1>1. UNCHANGED <<tree, mod, pc, held, leaked, reserved, gen, live, axidma_dev>>
  BY DEF devVars
<1>2. Types'
  BY <1>1 DEF IInv, Types
<1>3. Device'
  BY SameDevice
<1>4. Lists' /\ Parts' /\ Apart' /\ Mapped'
  BY DEF IInv, Lists, Parts, Whole, Apart, Mapped
<1>5. Pend'
  BY DEF IInv, Pend, Inside
<1>6. Files'
  BY <1>1 DEF IInv, Files, FileOk, Accepted
<1>7. Fresh'
  BY <1>1 DEF IInv, Fresh
<1>8. OnlyKnownFaults'
  BY CallFaults, Known DEF Call
<1> QED
  BY <1>2, <1>3, <1>4, <1>5, <1>6, <1>7, <1>8 DEF IInv

\* A new allocation on free pages.
LEMMA NewBuffer ==
  ASSUME IInv, NEW p \in Procs, NEW a \in 0 .. Space - 1, NEW n \in 1 .. Space,
         FreePages(p, a, n),
         NEW rec \in Allocations, rec.proc = p, rec.addr = a, rec.size = n,
         al' = Append(al, rec),
         UNCHANGED <<pend, waits>>, maps' \in {maps, maps \cup {Len(al) + 1}}
  PROVE  /\ al' \in Seq(Allocations) /\ Len(al') = Len(al) + 1 /\ Len(al') \in Nat
         /\ DOMAIN al' = 1 .. Len(al')
         /\ al'[Len(al) + 1] = rec /\ \A i \in 1 .. Len(al) : al'[i] = al[i]
         /\ Apart' /\ Pend'
<1>1. al \in Seq(Allocations) /\ Len(al) \in Nat /\ maps \subseteq 1 .. Len(al)
  BY Known DEF IInv, Types
<1>2. /\ al' \in Seq(Allocations) /\ Len(al') = Len(al) + 1 /\ Len(al') \in Nat
      /\ al'[Len(al) + 1] = rec /\ \A i \in 1 .. Len(al) : al'[i] = al[i]
      /\ DOMAIN al' = 1 .. Len(al')
  BY <1>1
<1>3. Apart'
  <2> SUFFICES ASSUME NEW i \in 1 .. Len(al'), NEW j \in 1 .. Len(al'),
                      j < i, al'[j].proc = al'[i].proc, al'[j].parts # {}
               PROVE  \/ al'[j].addr + al'[j].size <= al'[i].addr
                      \/ al'[i].addr + al'[i].size <= al'[j].addr
    BY DEF Apart
  <2>1. j \in 1 .. Len(al) /\ al'[j] = al[j]
    BY <1>1, <1>2
  <2>2. CASE i \in 1 .. Len(al)
    <3>1. al'[i] = al[i]
      BY <1>2, <2>2
    <3>2. al[j].proc = al[i].proc /\ al[j].parts # {}
      BY <2>1, <3>1
    <3> QED
      BY <2>1, <2>2, <3>1, <3>2 DEF IInv, Apart
  <2>3. CASE i = Len(al) + 1
    <3>1. al'[i] = rec
      BY <1>2, <2>3
    <3>2. al[j].proc = p /\ al[j].parts # {} /\ j \in DOMAIN al
      BY <2>1, <3>1, Known
    <3>3. al[j].addr + al[j].size <= a \/ a + n <= al[j].addr
      BY <3>2 DEF FreePages
    <3> QED
      BY <2>1, <3>1, <3>3
  <2> QED
    BY <1>1, <1>2, <2>2, <2>3
<1>4. Pend'
  <2> SUFFICES ASSUME NEW x \in pend
               PROVE  Inside(x)'
    BY DEF IInv, Pend
  <2>1. Inside(x)
    BY DEF IInv, Pend
  <2>2. x.buf \in 1 .. Len(al) /\ x.buf \in 1 .. Len(al') /\ al'[x.buf] = al[x.buf]
    BY <1>1, <1>2, <2>1 DEF Inside
  <2>3. maps \subseteq maps' /\ waits' = waits
    OBVIOUS
  <2> QED
    BY <2>1, <2>2, <2>3 DEF Inside
<1> QED
  BY <1>2, <1>3, <1>4

\* axidma_mmap: a new buffer at the head of dmabuf_list, or nothing.
LEMMA MmapKeeps ==
  ASSUME IInv, Defined, NEW p \in Procs, NEW a \in 0 .. Space - 1, NEW n \in 1 .. Space,
         NEW f \in ToSet(MmapSteps) \cup {"none"}, axidma_mmap(p, a, n, f)
  PROVE  IInv'
<1> DEFINE rec == [kind |-> "own", dev |-> file[p], proc |-> p, addr |-> a, size |-> n,
                   parts |-> (Upto(MmapSteps, f) \ {"remap"}) \ MmapReleases(f)]
<1>1. /\ Calls(p) /\ FreePages(p, a, n) /\ Len(al) < MaxAllocs
      /\ Enter(p, rec, f, own) /\ maps' = IF f = "none" THEN maps \cup {Len(al) + 1} ELSE maps
      /\ UNCHANGED <<devVars, ext, file, fd, waits, pend, events>>
  BY DEF axidma_mmap, procVars
<1>2. rec.parts = (IF f = "none" THEN OwnParts ELSE {})
  BY MmapParts
<1>3. file[p] # 0 /\ file[p] \in Gens /\ file[p] \in 1 .. gen
  <2>1. file[p] # 0
    BY <1>1 DEF Calls, IInv, Files, FileOk
  <2> QED
    BY <2>1, Known
<1>4. rec \in Allocations
  <2>1. rec.parts \in SUBSET (OwnParts \cup ExtParts)
    BY <1>2
  <2> QED
    BY <1>3, <2>1 DEF Allocations
<1>5. Gone(file[p]) => "removed_open" \in events
  BY <1>3, GoneRemoved
<1>6. /\ rec.kind = "own" /\ rec.dev = file[p] /\ rec.proc = p /\ rec.addr = a /\ rec.size = n
  OBVIOUS
<1> HIDE DEF rec
<1>7. CASE f # "none"
  <2>1. UNCHANGED <<al, own, ext, maps>>
    BY <1>1, <1>2, <1>7 DEF Enter
  <2>2. misuse' = misuse \cup Tag(Gone(file[p]), "removed_device")
    BY <1>1, <1>6, <1>7 DEF Enter, Tag
  <2>3. \A m \in misuse' : m \in misuse \/ Explained(m)'
    BY <1>1, <1>5, <2>2 DEF Tag, Explained
  <2> QED
    BY <1>1, <2>1, <2>2, <2>3, OnlyMisuse
<1>8. CASE f = "none"
  <2> DEFINE N == Len(al) + 1
             d == file[p]
  <2>0. /\ al' = Append(al, rec)
        /\ own' = [own EXCEPT ![d] = <<Len(al')>> \o @] /\ maps' = maps \cup {N}
        /\ misuse' = misuse \cup Tag(Gone(d), "removed_device")
                            \cup Tag(Uninit(d), "uninit_lists")
    <3>1. rec.parts # {}
      BY <1>2, <1>8 DEF OwnParts, ExtParts
    <3>2. PICK k : /\ k = (IF rec.parts = {} THEN al ELSE Append(al, rec)) /\ al' = k
                   /\ own' = IF f = "none" THEN [own EXCEPT ![rec.dev] = <<Len(k)>> \o @] ELSE own
                   /\ misuse' = misuse \cup Tag(Gone(rec.dev), "removed_device")
                                       \cup Tag(f = "none" /\ Uninit(rec.dev), "uninit_lists")
      BY <1>1, Zenon DEF Enter
    <3>3. k = Append(al, rec)
      BY <3>1, <3>2
    <3>4. Tag(f = "none" /\ Uninit(rec.dev), "uninit_lists") = Tag(Uninit(d), "uninit_lists")
      BY <1>6, <1>8 DEF Tag
    <3>5. misuse' = misuse \cup Tag(Gone(d), "removed_device")
                           \cup Tag(Uninit(d), "uninit_lists")
      BY <1>6, <3>2, <3>4
    <3>6. own' = [own EXCEPT ![d] = <<Len(al')>> \o @]
      BY <1>6, <1>8, <3>2
    <3>7. maps' = maps \cup {N}
      BY <1>1, <1>8
    <3> QED
      BY <3>2, <3>3, <3>5, <3>6, <3>7
  <2>1. /\ al' \in Seq(Allocations) /\ Len(al') = N /\ Len(al') \in Nat
        /\ DOMAIN al' = 1 .. Len(al')
        /\ al'[N] = rec /\ \A i \in 1 .. Len(al) : al'[i] = al[i]
        /\ Apart' /\ Pend'
    <3>1. maps' \in {maps, maps \cup {N}}
      BY <2>0
    <3> QED
      BY <1>1, <1>4, <1>6, <2>0, <3>1, NewBuffer
  <2>2. /\ Len(al) \in Nat /\ N \in Nat /\ N \notin 1 .. Len(al) /\ N \in 1 .. Len(al')
        /\ \A i \in 1 .. Len(al') : i \in 1 .. Len(al) \/ i = N
        /\ 1 .. Len(al) \subseteq 1 .. Len(al') /\ Len(al') <= MaxAllocs
        /\ maps \subseteq 1 .. Len(al) /\ Len(al) <= Len(al')
    <3>1. Len(al) \in Nat /\ maps \subseteq 1 .. Len(al) /\ MaxAllocs \in Nat
      BY Known DEF IInv, Types
    <3> QED
      BY <1>1, <2>1, <3>1
  <2>3. UNCHANGED <<tree, mod, pc, held, leaked, reserved, gen, live, axidma_dev>>
    BY <1>1 DEF devVars
  <2> HIDE DEF N
  <2>4. /\ own[d] \in Seq(Nat) /\ Descending(own[d]) /\ own \in [Gens -> Seq(Nat)]
        /\ ToSet(own[d]) \subseteq 1 .. Len(al)
    BY <1>3, <2>2 DEF IInv, Types, Lists
  <2>5. /\ <<N>> \o own[d] \in Seq(Nat) /\ Descending(<<N>> \o own[d])
        /\ ToSet(<<N>> \o own[d]) = ToSet(own[d]) \cup {N}
    <3>1. \A x \in ToSet(own[d]) : x < N
      BY <2>2, <2>4 DEF N
    <3> QED
      BY <2>2, <2>4, <3>1, AddFirst
  <2>6. /\ own' \in [Gens -> Seq(Nat)] /\ own'[d] = <<N>> \o own[d]
        /\ \A e \in Gens \ {d} : own'[e] = own[e]
    BY <1>3, <2>0, <2>1, <2>4, <2>5
  <2>7. Types'
    <3>1. maps' \subseteq 1 .. Len(al')
      BY <2>0, <2>2
    <3> QED
      BY <1>1, <2>1, <2>2, <2>3, <2>6, <3>1 DEF IInv, Types
  <2>8. Device'
    BY <1>1, SameDevice
  <2>9. Lists'
    <3> SUFFICES ASSUME NEW e \in Gens
                 PROVE  /\ Descending(own'[e]) /\ Descending(ext'[e])
                        /\ ToSet(own'[e]) = {i \in maps' : al'[i].dev = e}
                        /\ ToSet(ext'[e]) \subseteq {i \in 1 .. Len(al') : al'[i].kind = "ext" /\ al'[i].dev = e}
      BY DEF Lists
    <3>1. /\ Descending(own[e]) /\ Descending(ext[e])
          /\ ToSet(own[e]) = {i \in maps : al[i].dev = e}
          /\ ToSet(ext[e]) \subseteq {i \in 1 .. Len(al) : al[i].kind = "ext" /\ al[i].dev = e}
      BY DEF IInv, Lists
    <3>2. Descending(own'[e]) /\ Descending(ext'[e])
      BY <1>1, <2>5, <2>6, <3>1
    <3>3. /\ \A i \in maps : al'[i].dev = al[i].dev
          /\ al'[N].dev = d /\ al'[N].kind = "own"
          /\ \A i \in 1 .. Len(al) : al'[i].dev = al[i].dev /\ al'[i].kind = al[i].kind
      BY <1>6, <2>1, <2>2
    <3>4. ToSet(own'[e]) = {i \in maps' : al'[i].dev = e}
      <4>1. {i \in maps : al'[i].dev = e} = {i \in maps : al[i].dev = e}
        BY <3>3
      <4>2. maps' = maps \cup {N} /\ N \notin maps
        BY <2>0, <2>2
      <4>3. CASE e = d
        <5>1. ToSet(own'[e]) = ToSet(own[e]) \cup {N}
          BY <2>5, <2>6, <4>3
        <5> QED
          BY <3>1, <3>3, <4>1, <4>2, <4>3, <5>1
      <4>4. CASE e # d
        <5>1. own'[e] = own[e]
          BY <2>6, <4>4
        <5> QED
          BY <3>1, <3>3, <4>1, <4>2, <4>4, <5>1
      <4> QED
        BY <4>3, <4>4
    <3>5. ToSet(ext'[e]) \subseteq {i \in 1 .. Len(al') : al'[i].kind = "ext" /\ al'[i].dev = e}
      <4> SUFFICES ASSUME NEW i \in ToSet(ext'[e])
                   PROVE  i \in 1 .. Len(al') /\ al'[i].kind = "ext" /\ al'[i].dev = e
        OBVIOUS
      <4>1. i \in ToSet(ext[e])
        BY <1>1
      <4> QED
        BY <2>2, <3>1, <3>3, <4>1
    <3> QED
      BY <3>2, <3>4, <3>5
  <2>10. Parts'
    <3> SUFFICES ASSUME NEW i \in 1 .. Len(al')
                 PROVE  Whole(i)'
      BY DEF Parts
    <3>1. CASE i = N
      <4>1. al'[i].kind = "own" /\ al'[i].parts = OwnParts /\ al'[i].dev = d
        BY <1>2, <1>6, <1>8, <2>1, <3>1
      <4> QED
        BY <2>0, <2>2, <2>5, <2>6, <3>1, <4>1 DEF Whole, OwnParts, ExtParts
    <3>2. CASE i \in 1 .. Len(al)
      <4>1. Whole(i) /\ al'[i] = al[i] /\ al[i].dev \in Gens
        BY <2>1, <3>2, Known DEF IInv, Parts
      <4>2. i \in maps' <=> i \in maps
        BY <2>0, <2>2, <3>2
      <4>3. ToSet(ext[al[i].dev]) \subseteq ToSet(ext'[al[i].dev])
        BY <1>1, <2>5, <2>6, <4>1
      <4> QED
        BY <1>1, <4>1, <4>2, <4>3 DEF Whole
    <3> QED
      BY <2>2, <3>1, <3>2
  <2>11. Files'
    BY <1>1, <2>3 DEF IInv, Files, FileOk, Accepted
  <2>12. Mapped'
    <3> SUFFICES ASSUME NEW i \in maps'
                 PROVE  al'[i].dev = file[al'[i].proc]
      BY <1>1 DEF Mapped
    <3>1. CASE i = N
      BY <1>6, <2>1, <3>1
    <3>2. CASE i \in maps
      BY <2>1, <2>2, <3>2 DEF IInv, Mapped
    <3> QED
      BY <2>0, <3>1, <3>2
  <2>13. Fresh'
    <3> SUFFICES ASSUME Defined', NEW e \in Gens,
                        e > gen \/ (e = gen /\ pc \in Early \cup {"lists"})
                 PROVE  /\ own'[e] = <<>> /\ ext'[e] = <<>>
                        /\ \A i \in 1 .. Len(al') : al'[i].dev # e
      BY <2>3 DEF Fresh
    <3>1. ~Uninit(d)
      BY <2>0 DEF Defined, Tag
    <3>2. e # d
      <4>1. d = gen => pc \notin Early
        BY <1>3 DEF IInv, Files, FileOk
      <4>2. gen \in Nat
        BY Known
      <4> HIDE DEF Early
      <4> QED
        BY <1>3, <3>1, <4>1, <4>2 DEF Uninit, Gens
    <3>3. own[e] = <<>> /\ ext[e] = <<>> /\ \A i \in 1 .. Len(al) : al[i].dev # e
      BY DEF IInv, Fresh
    <3>4. own'[e] = <<>> /\ ext'[e] = <<>>
      BY <1>1, <2>6, <3>2, <3>3
    <3>5. ASSUME NEW i \in 1 .. Len(al')
          PROVE  al'[i].dev # e
      BY <1>6, <2>1, <2>2, <3>2, <3>3
    <3> QED
      BY <3>4, <3>5
  <2>14. OnlyKnownFaults'
    <3>1. \A m \in misuse' : m \in misuse \/ Explained(m)'
      <4>1. Gone(d) => Explained("removed_device")'
        BY <1>1, <1>5 DEF Explained
      <4>2. Uninit(d) => Explained("uninit_lists")'
        BY <2>3 DEF Explained, Uninit
      <4> QED
        BY <2>0, <4>1, <4>2 DEF Tag
    <3>2. Call
      BY <1>1, <2>0, <2>1, <2>2 DEF Call
    <3> QED
      BY <2>1, <3>1, <3>2, CallFaults, Known
  <2> QED
    BY <2>1, <2>7, <2>8, <2>9, <2>10, <2>11, <2>12, <2>13, <2>14 DEF IInv
<1> QED
  BY <1>7, <1>8

\* axidma_get_external: a new buffer at the head of external_dmabufs, or nothing.
LEMMA GetExternalKeeps ==
  ASSUME IInv, Defined, NEW p \in Procs, NEW a \in 0 .. Space - 1, NEW n \in 1 .. Space,
         NEW f \in ToSet(GetSteps) \cup {"none"}, axidma_get_external(p, a, n, f)
  PROVE  IInv'
<1> DEFINE rec == [kind |-> "ext", dev |-> file[p], proc |-> p, addr |-> a, size |-> n,
                   parts |-> (Upto(GetSteps, f) \ {"contiguous"}) \ GetReleases(f)]
<1>1. /\ Calls(p) /\ FreePages(p, a, n) /\ Len(al) < MaxAllocs
      /\ Enter(p, rec, f, ext) /\ maps' = maps
      /\ UNCHANGED <<devVars, own, file, fd, waits, pend, events>>
  BY DEF axidma_get_external, procVars
<1>2. rec.parts = (IF f = "none" THEN ExtParts ELSE {})
  BY GetParts
<1>3. file[p] # 0 /\ file[p] \in Gens /\ file[p] \in 1 .. gen
  <2>1. file[p] # 0
    BY <1>1 DEF Calls, IInv, Files, FileOk
  <2> QED
    BY <2>1, Known
<1>4. rec \in Allocations
  <2>1. rec.parts \in SUBSET (OwnParts \cup ExtParts)
    BY <1>2
  <2> QED
    BY <1>3, <2>1 DEF Allocations
<1>5. Gone(file[p]) => "removed_open" \in events
  BY <1>3, GoneRemoved
<1>6. /\ rec.kind = "ext" /\ rec.dev = file[p] /\ rec.proc = p /\ rec.addr = a /\ rec.size = n
  OBVIOUS
<1> HIDE DEF rec
<1>7. CASE f # "none"
  <2>1. UNCHANGED <<al, own, ext, maps>>
    BY <1>1, <1>2, <1>7 DEF Enter
  <2>2. misuse' = misuse \cup Tag(Gone(file[p]), "removed_device")
    BY <1>1, <1>6, <1>7 DEF Enter, Tag
  <2>3. \A m \in misuse' : m \in misuse \/ Explained(m)'
    BY <1>1, <1>5, <2>2 DEF Tag, Explained
  <2> QED
    BY <1>1, <2>1, <2>2, <2>3, OnlyMisuse
<1>8. CASE f = "none"
  <2> DEFINE N == Len(al) + 1
             d == file[p]
  <2>0. /\ al' = Append(al, rec)
        /\ ext' = [ext EXCEPT ![d] = <<Len(al')>> \o @] /\ maps' = maps
        /\ misuse' = misuse \cup Tag(Gone(d), "removed_device")
                            \cup Tag(Uninit(d), "uninit_lists")
    <3>1. rec.parts # {}
      BY <1>2, <1>8 DEF OwnParts, ExtParts
    <3>2. PICK k : /\ k = (IF rec.parts = {} THEN al ELSE Append(al, rec)) /\ al' = k
                   /\ ext' = IF f = "none" THEN [ext EXCEPT ![rec.dev] = <<Len(k)>> \o @] ELSE ext
                   /\ misuse' = misuse \cup Tag(Gone(rec.dev), "removed_device")
                                       \cup Tag(f = "none" /\ Uninit(rec.dev), "uninit_lists")
      BY <1>1, Zenon DEF Enter
    <3>3. k = Append(al, rec)
      BY <3>1, <3>2
    <3>4. Tag(f = "none" /\ Uninit(rec.dev), "uninit_lists") = Tag(Uninit(d), "uninit_lists")
      BY <1>6, <1>8 DEF Tag
    <3>5. misuse' = misuse \cup Tag(Gone(d), "removed_device")
                           \cup Tag(Uninit(d), "uninit_lists")
      BY <1>6, <3>2, <3>4
    <3>6. ext' = [ext EXCEPT ![d] = <<Len(al')>> \o @]
      BY <1>6, <1>8, <3>2
    <3>7. maps' = maps
      BY <1>1, <1>8
    <3> QED
      BY <3>2, <3>3, <3>5, <3>6, <3>7
  <2>1. /\ al' \in Seq(Allocations) /\ Len(al') = N /\ Len(al') \in Nat
        /\ DOMAIN al' = 1 .. Len(al')
        /\ al'[N] = rec /\ \A i \in 1 .. Len(al) : al'[i] = al[i]
        /\ Apart' /\ Pend'
    <3>1. maps' \in {maps, maps \cup {N}}
      BY <2>0
    <3> QED
      BY <1>1, <1>4, <1>6, <2>0, <3>1, NewBuffer
  <2>2. /\ Len(al) \in Nat /\ N \in Nat /\ N \notin 1 .. Len(al) /\ N \in 1 .. Len(al')
        /\ \A i \in 1 .. Len(al') : i \in 1 .. Len(al) \/ i = N
        /\ 1 .. Len(al) \subseteq 1 .. Len(al') /\ Len(al') <= MaxAllocs
        /\ maps \subseteq 1 .. Len(al) /\ Len(al) <= Len(al')
    <3>1. Len(al) \in Nat /\ maps \subseteq 1 .. Len(al) /\ MaxAllocs \in Nat
      BY Known DEF IInv, Types
    <3> QED
      BY <1>1, <2>1, <3>1
  <2>3. UNCHANGED <<tree, mod, pc, held, leaked, reserved, gen, live, axidma_dev>>
    BY <1>1 DEF devVars
  <2> HIDE DEF N
  <2>4. /\ ext[d] \in Seq(Nat) /\ Descending(ext[d]) /\ ext \in [Gens -> Seq(Nat)]
        /\ ToSet(ext[d]) \subseteq 1 .. Len(al)
    BY <1>3, <2>2 DEF IInv, Types, Lists
  <2>5. /\ <<N>> \o ext[d] \in Seq(Nat) /\ Descending(<<N>> \o ext[d])
        /\ ToSet(<<N>> \o ext[d]) = ToSet(ext[d]) \cup {N}
    <3>1. \A x \in ToSet(ext[d]) : x < N
      BY <2>2, <2>4 DEF N
    <3> QED
      BY <2>2, <2>4, <3>1, AddFirst
  <2>6. /\ ext' \in [Gens -> Seq(Nat)] /\ ext'[d] = <<N>> \o ext[d]
        /\ \A e \in Gens \ {d} : ext'[e] = ext[e]
    BY <1>3, <2>0, <2>1, <2>4, <2>5
  <2>7. Types'
    <3>1. maps' \subseteq 1 .. Len(al')
      BY <2>0, <2>2
    <3> QED
      BY <1>1, <2>1, <2>2, <2>3, <2>6, <3>1 DEF IInv, Types
  <2>8. Device'
    BY <1>1, SameDevice
  <2>9. Lists'
    <3> SUFFICES ASSUME NEW e \in Gens
                 PROVE  /\ Descending(own'[e]) /\ Descending(ext'[e])
                        /\ ToSet(own'[e]) = {i \in maps' : al'[i].dev = e}
                        /\ ToSet(ext'[e]) \subseteq {i \in 1 .. Len(al') : al'[i].kind = "ext" /\ al'[i].dev = e}
      BY DEF Lists
    <3>1. /\ Descending(own[e]) /\ Descending(ext[e])
          /\ ToSet(own[e]) = {i \in maps : al[i].dev = e}
          /\ ToSet(ext[e]) \subseteq {i \in 1 .. Len(al) : al[i].kind = "ext" /\ al[i].dev = e}
      BY DEF IInv, Lists
    <3>2. Descending(own'[e]) /\ Descending(ext'[e])
      BY <1>1, <2>5, <2>6, <3>1
    <3>3. /\ \A i \in maps : al'[i].dev = al[i].dev
          /\ al'[N].dev = d /\ al'[N].kind = "ext"
          /\ \A i \in 1 .. Len(al) : al'[i].dev = al[i].dev /\ al'[i].kind = al[i].kind
      BY <1>6, <2>1, <2>2
    <3>4. ToSet(own'[e]) = {i \in maps' : al'[i].dev = e}
      <4>1. {i \in maps : al'[i].dev = e} = {i \in maps : al[i].dev = e}
        BY <3>3
      <4>2. maps' = maps /\ N \notin maps
        BY <2>0, <2>2
      <4>3. own'[e] = own[e]
        BY <1>1
      <4> QED
        BY <3>1, <4>1, <4>2, <4>3
    <3>5. ToSet(ext'[e]) \subseteq {i \in 1 .. Len(al') : al'[i].kind = "ext" /\ al'[i].dev = e}
      <4> SUFFICES ASSUME NEW i \in ToSet(ext'[e])
                   PROVE  i \in 1 .. Len(al') /\ al'[i].kind = "ext" /\ al'[i].dev = e
        OBVIOUS
      <4>1. i \in ToSet(ext[e]) \/ (e = d /\ i = N)
        <5>1. CASE e = d
          BY <2>5, <2>6, <5>1
        <5>2. CASE e # d
          BY <2>6, <5>2
        <5> QED
          BY <5>1, <5>2
      <4>2. CASE i \in ToSet(ext[e])
        BY <2>2, <3>1, <3>3, <4>2
      <4>3. CASE e = d /\ i = N
        BY <2>2, <3>3, <4>3
      <4> QED
        BY <4>1, <4>2, <4>3
    <3> QED
      BY <3>2, <3>4, <3>5
  <2>10. Parts'
    <3> SUFFICES ASSUME NEW i \in 1 .. Len(al')
                 PROVE  Whole(i)'
      BY DEF Parts
    <3>1. CASE i = N
      <4>1. al'[i].kind = "ext" /\ al'[i].parts = ExtParts /\ al'[i].dev = d
        BY <1>2, <1>6, <1>8, <2>1, <3>1
      <4> QED
        BY <2>0, <2>2, <2>5, <2>6, <3>1, <4>1 DEF Whole, OwnParts, ExtParts
    <3>2. CASE i \in 1 .. Len(al)
      <4>1. Whole(i) /\ al'[i] = al[i] /\ al[i].dev \in Gens
        BY <2>1, <3>2, Known DEF IInv, Parts
      <4>2. i \in maps' <=> i \in maps
        BY <2>0, <2>2, <3>2
      <4>3. ToSet(ext[al[i].dev]) \subseteq ToSet(ext'[al[i].dev])
        BY <1>1, <2>5, <2>6, <4>1
      <4> QED
        BY <1>1, <4>1, <4>2, <4>3 DEF Whole
    <3> QED
      BY <2>2, <3>1, <3>2
  <2>11. Files'
    BY <1>1, <2>3 DEF IInv, Files, FileOk, Accepted
  <2>12. Mapped'
    <3> SUFFICES ASSUME NEW i \in maps'
                 PROVE  al'[i].dev = file[al'[i].proc]
      BY <1>1 DEF Mapped
    <3>1. CASE i = N
      BY <1>6, <2>1, <3>1
    <3>2. CASE i \in maps
      BY <2>1, <2>2, <3>2 DEF IInv, Mapped
    <3> QED
      BY <2>0, <3>1, <3>2
  <2>13. Fresh'
    <3> SUFFICES ASSUME Defined', NEW e \in Gens,
                        e > gen \/ (e = gen /\ pc \in Early \cup {"lists"})
                 PROVE  /\ own'[e] = <<>> /\ ext'[e] = <<>>
                        /\ \A i \in 1 .. Len(al') : al'[i].dev # e
      BY <2>3 DEF Fresh
    <3>1. ~Uninit(d)
      BY <2>0 DEF Defined, Tag
    <3>2. e # d
      <4>1. d = gen => pc \notin Early
        BY <1>3 DEF IInv, Files, FileOk
      <4>2. gen \in Nat
        BY Known
      <4> HIDE DEF Early
      <4> QED
        BY <1>3, <3>1, <4>1, <4>2 DEF Uninit, Gens
    <3>3. own[e] = <<>> /\ ext[e] = <<>> /\ \A i \in 1 .. Len(al) : al[i].dev # e
      BY DEF IInv, Fresh
    <3>4. own'[e] = <<>> /\ ext'[e] = <<>>
      BY <1>1, <2>6, <3>2, <3>3
    <3>5. ASSUME NEW i \in 1 .. Len(al')
          PROVE  al'[i].dev # e
      BY <1>6, <2>1, <2>2, <3>2, <3>3
    <3> QED
      BY <3>4, <3>5
  <2>14. OnlyKnownFaults'
    <3>1. \A m \in misuse' : m \in misuse \/ Explained(m)'
      <4>1. Gone(d) => Explained("removed_device")'
        BY <1>1, <1>5 DEF Explained
      <4>2. Uninit(d) => Explained("uninit_lists")'
        BY <2>3 DEF Explained, Uninit
      <4> QED
        BY <2>0, <4>1, <4>2 DEF Tag
    <3>2. Call
      BY <1>1, <2>0, <2>1, <2>2 DEF Call
    <3> QED
      BY <2>1, <3>1, <3>2, CallFaults, Known
  <2> QED
    BY <2>1, <2>7, <2>8, <2>9, <2>10, <2>11, <2>12, <2>13, <2>14 DEF IInv
<1> QED
  BY <1>7, <1>8

\* An allocation that loses its parts keeps its owner and its place.
LEMMA Cleared ==
  ASSUME IInv, NEW i \in 1 .. Len(al), al' = [al EXCEPT ![i].parts = {}]
  PROVE  /\ al' \in Seq(Allocations) /\ Len(al') = Len(al) /\ DOMAIN al' = 1 .. Len(al')
         /\ Len(al') \in Nat /\ al'[i].parts = {}
         /\ \A j \in 1 .. Len(al) :
              /\ al'[j].kind = al[j].kind /\ al'[j].proc = al[j].proc
              /\ al'[j].addr = al[j].addr /\ al'[j].size = al[j].size
              /\ al'[j].dev = al[j].dev
              /\ j # i => al'[j] = al[j]
         /\ Apart'
<1>1. /\ al \in Seq(Allocations) /\ Len(al) \in Nat /\ DOMAIN al = 1 .. Len(al)
      /\ al[i] \in Allocations
  BY Known DEF IInv, Types
<1> DEFINE r == [al[i] EXCEPT !.parts = {}]
<1>2. r \in Allocations
  BY <1>1 DEF Allocations
<1>3. /\ r.parts = {} /\ r.kind = al[i].kind /\ r.proc = al[i].proc /\ r.addr = al[i].addr
      /\ r.size = al[i].size /\ r.dev = al[i].dev
  BY <1>1 DEF Allocations
<1>4. al' = [al EXCEPT ![i] = r]
  BY <1>1
<1> HIDE DEF r
<1>5. /\ al' \in Seq(Allocations) /\ Len(al') = Len(al) /\ al'[i] = r
      /\ \A j \in 1 .. Len(al) : j # i => al'[j] = al[j]
  <2>1. al' \in Seq(Allocations) /\ Len(al') = Len(al)
    <3>1. [al EXCEPT ![i] = r] \in Seq(Allocations) /\ Len([al EXCEPT ![i] = r]) = Len(al)
      <4>1. PICK s \in Seq(Allocations) : s = al
        BY <1>1
      <4>2. PICK e \in Allocations : e = r
        BY <1>2
      <4>3. PICK k \in 1 .. Len(s) : k = i
        BY <4>1
      <4>4. [s EXCEPT ![k] = e] \in Seq(Allocations) /\ Len([s EXCEPT ![k] = e]) = Len(s)
        BY ExceptSeq
      <4> QED
        BY <4>1, <4>2, <4>3, <4>4
    <3> QED
      BY <1>4, <3>1, Zenon
  <2> QED
    BY <1>1, <1>4, <2>1
<1>6. \A j \in 1 .. Len(al) :
        /\ al'[j].kind = al[j].kind /\ al'[j].proc = al[j].proc
        /\ al'[j].addr = al[j].addr /\ al'[j].size = al[j].size
        /\ al'[j].dev = al[j].dev
        /\ al'[j].parts # {} => al[j].parts # {}
  BY <1>3, <1>5
<1>7. Apart'
  <2> SUFFICES ASSUME NEW k \in 1 .. Len(al), NEW j \in 1 .. Len(al),
                      j < k, al'[j].proc = al'[k].proc, al'[j].parts # {}
               PROVE  \/ al'[j].addr + al'[j].size <= al'[k].addr
                      \/ al'[k].addr + al'[k].size <= al'[j].addr
    BY <1>5 DEF Apart
  <2>1. al[j].proc = al[k].proc /\ al[j].parts # {}
    BY <1>6
  <2>2. \/ al[j].addr + al[j].size <= al[k].addr
        \/ al[k].addr + al[k].size <= al[j].addr
    BY <2>1 DEF IInv, Apart
  <2> QED
    BY <1>6, <2>2
<1>8. DOMAIN al' = 1 .. Len(al') /\ Len(al') \in Nat
  BY <1>1, <1>5
<1> QED
  BY <1>3, <1>5, <1>6, <1>7, <1>8

\* Unmapping a buffer.
LEMMA VmaCloseKeeps ==
  ASSUME IInv, Defined, NEW i \in maps, axidma_vma_close(i)
  PROVE  IInv'
<1> DEFINE p == al[i].proc
           d == al[i].dev
<1>1. /\ waits[p] = NoId
      /\ al' = [al EXCEPT ![i].parts = {}] /\ maps' = maps \ {i}
      /\ own' = [own EXCEPT ![d] = RemoveFirst(own[d], i)]
      /\ \/ file' = file
         \/ /\ fd[p] = "closed" /\ \A j \in maps \ {i} : al[j].proc # p
            /\ file' = [file EXCEPT ![p] = 0]
      /\ misuse' = misuse \cup Tag(Gone(axidma_dev) \/ Gone(d), "removed_device")
      /\ UNCHANGED <<devVars, ext, fd, waits, pend, events>>
  BY DEF axidma_vma_close
<1>2. UNCHANGED <<tree, mod, pc, held, leaked, reserved, gen, live, axidma_dev>>
  BY <1>1 DEF devVars
<1>3. /\ i \in 1 .. Len(al) /\ p \in Procs /\ d \in Gens /\ d = file[p]
      /\ maps \subseteq 1 .. Len(al)
  BY Known DEF IInv, Types, Mapped
<1>4. file[p] # 0
  BY <1>3 DEF Gens
<1>5. Gone(axidma_dev) \/ Gone(d) => "removed_open" \in events
  BY <1>3, <1>4, GoneRemoved
<1>6. /\ al' \in Seq(Allocations) /\ Len(al') = Len(al) /\ DOMAIN al' = 1 .. Len(al')
      /\ Len(al') \in Nat /\ al'[i].parts = {}
      /\ \A j \in 1 .. Len(al) :
           /\ al'[j].kind = al[j].kind /\ al'[j].proc = al[j].proc
           /\ al'[j].addr = al[j].addr /\ al'[j].size = al[j].size
           /\ al'[j].dev = al[j].dev
           /\ j # i => al'[j] = al[j]
      /\ Apart'
  BY <1>1, <1>3, Cleared
<1> HIDE DEF p, d
<1>7. /\ own \in [Gens -> Seq(Nat)] /\ own' \in [Gens -> Seq(Nat)]
      /\ Descending(own'[d]) /\ ToSet(own'[d]) = ToSet(own[d]) \ {i}
      /\ \A e \in Gens \ {d} : own'[e] = own[e]
  <2>1. own \in [Gens -> Seq(Nat)] /\ own[d] \in Seq(Nat) /\ Descending(own[d])
    BY <1>3 DEF IInv, Types, Lists
  <2>2. /\ RemoveFirst(own[d], i) \in Seq(Nat) /\ Descending(RemoveFirst(own[d], i))
        /\ ToSet(RemoveFirst(own[d], i)) = ToSet(own[d]) \ {i}
    BY <2>1, Unlink
  <2> QED
    BY <1>1, <1>3, <2>1, <2>2
<1>8. /\ file' \in [Procs -> 0 .. gen] /\ \A q \in Procs \ {p} : file'[q] = file[q]
      /\ file'[p] = file[p] \/ (file'[p] = 0 /\ fd[p] = "closed" /\ \A j \in maps' : al[j].proc # p)
  <2>1. 0 \in 0 .. gen
    BY Known
  <2> QED
    BY <1>1, <1>3, <2>1 DEF IInv, Types
<1>9. Types'
  BY <1>1, <1>2, <1>6, <1>7, <1>8 DEF IInv, Types
<1>10. Device'
  BY <1>1, SameDevice
<1>11. Lists'
  <2> SUFFICES ASSUME NEW e \in Gens
               PROVE  /\ Descending(own'[e]) /\ Descending(ext'[e])
                      /\ ToSet(own'[e]) = {j \in maps' : al'[j].dev = e}
                      /\ ToSet(ext'[e]) \subseteq {j \in 1 .. Len(al') : al'[j].kind = "ext" /\ al'[j].dev = e}
    BY DEF Lists
  <2>1. /\ Descending(own[e]) /\ Descending(ext[e])
        /\ ToSet(own[e]) = {j \in maps : al[j].dev = e}
        /\ ToSet(ext[e]) \subseteq {j \in 1 .. Len(al) : al[j].kind = "ext" /\ al[j].dev = e}
    BY DEF IInv, Lists
  <2>2. Descending(own'[e]) /\ Descending(ext'[e])
    BY <1>1, <1>7, <2>1
  <2>3. {j \in maps' : al'[j].dev = e} = {j \in maps : al[j].dev = e} \ {i}
    BY <1>1, <1>3, <1>6
  <2>4. ToSet(own'[e]) = ToSet(own[e]) \ {i}
    <3>1. CASE e = d
      BY <1>7, <3>1
    <3>2. CASE e # d
      <4>1. i \notin ToSet(own[e])
        BY <2>1, <3>2 DEF d
      <4> QED
        BY <1>7, <3>2, <4>1
    <3> QED
      BY <3>1, <3>2
  <2>5. ToSet(ext'[e]) \subseteq {j \in 1 .. Len(al') : al'[j].kind = "ext" /\ al'[j].dev = e}
    <3>1. ext' = ext
      BY <1>1
    <3> QED
      BY <1>6, <2>1, <3>1
  <2> QED
    BY <2>1, <2>2, <2>3, <2>4, <2>5
<1>12. Parts'
  <2> SUFFICES ASSUME NEW j \in 1 .. Len(al)
               PROVE  Whole(j)'
    BY <1>6 DEF Parts
  <2>1. Whole(j)
    BY DEF IInv, Parts
  <2>2. CASE j = i
    <3>1. al[i].kind = "own"
      BY <2>1, <2>2 DEF Whole
    <3> QED
      BY <1>1, <1>6, <2>2, <3>1 DEF Whole
  <2>3. CASE j # i
    <3>1. al'[j] = al[j] /\ (j \in maps' <=> j \in maps) /\ ext' = ext /\ events' = events
      BY <1>1, <1>6, <2>3
    <3> QED
      BY <2>1, <3>1 DEF Whole
  <2> QED
    BY <2>2, <2>3
<1>13. Files'
  <2> SUFFICES ASSUME NEW q \in Procs
               PROVE  FileOk(q)'
    BY DEF Files
  <2>1. FileOk(q) /\ 0 <= axidma_dev
    BY Known DEF IInv, Files
  <2>2. file'[q] = file[q] \/ (file'[q] = 0 /\ fd[q] = "closed")
    BY <1>8
  <2>3. /\ fd' = fd /\ waits' = waits /\ events' = events
    BY <1>1
  <2> QED
    BY <1>2, <2>1, <2>2, <2>3 DEF FileOk, Accepted
<1>14. Mapped'
  <2> SUFFICES ASSUME NEW j \in maps'
               PROVE  al'[j].dev = file'[al'[j].proc]
    BY DEF Mapped
  <2>1. j \in maps /\ j \in 1 .. Len(al) /\ al'[j] = al[j]
    BY <1>1, <1>3, <1>6
  <2>2. al[j].dev = file[al[j].proc] /\ al[j].proc \in Procs
    BY <2>1, Known DEF IInv, Mapped
  <2>3. file'[al[j].proc] = file[al[j].proc]
    BY <1>8, <2>2
  <2> QED
    BY <2>1, <2>2, <2>3
<1>15. Fresh'
  <2> SUFFICES ASSUME Defined', NEW e \in Gens,
                      e > gen \/ (e = gen /\ pc \in Early \cup {"lists"})
               PROVE  /\ own'[e] = <<>> /\ ext'[e] = <<>>
                      /\ \A j \in 1 .. Len(al') : al'[j].dev # e
    BY <1>2 DEF Fresh
  <2>1. own[e] = <<>> /\ ext[e] = <<>> /\ \A j \in 1 .. Len(al) : al[j].dev # e
    BY DEF IInv, Fresh
  <2>2. e # d
    BY <1>3, <2>1 DEF d
  <2>3. own'[e] = <<>> /\ ext'[e] = <<>>
    BY <1>1, <1>7, <2>1, <2>2
  <2> QED
    BY <1>6, <2>1, <2>3
<1>16. Pend'
  <2> SUFFICES ASSUME NEW x \in pend
               PROVE  Inside(x)'
    BY <1>1 DEF IInv, Pend
  <2>1. Inside(x)
    BY DEF IInv, Pend
  <2>2. x.wait /\ al[x.buf].kind = "own" /\ al[x.buf].proc = x.proc => x.buf # i
    BY <1>1, <2>1 DEF Inside, p
  <2>3. /\ x.buf \in 1 .. Len(al) /\ al'[x.buf].size = al[x.buf].size
        /\ al'[x.buf].kind = al[x.buf].kind /\ al'[x.buf].proc = al[x.buf].proc
    BY <1>6, <2>1 DEF Inside
  <2>4. waits' = waits /\ maps' = maps \ {i} /\ Len(al') = Len(al)
    BY <1>1, <1>6
  <2> QED
    BY <2>1, <2>2, <2>3, <2>4 DEF Inside
<1>17. OnlyKnownFaults'
  <2>1. \A m \in misuse' : m \in misuse \/ Explained(m)'
    <3>1. Gone(axidma_dev) \/ Gone(d) => Explained("removed_device")'
      BY <1>1, <1>5 DEF Explained
    <3> QED
      BY <1>1, <3>1 DEF Tag
  <2>2. Call
    BY <1>1, <1>6, Known DEF Call
  <2> QED
    BY <1>6, <2>1, <2>2, CallFaults, Known
<1> QED
  BY <1>6, <1>9, <1>10, <1>11, <1>12, <1>13, <1>14, <1>15, <1>16, <1>17 DEF IInv
-----------------------------------------------------------------------------
(* Looking a buffer up.                                                    *)

\* The element of a list at the least index of a set.
LEMMA FirstOf ==
  ASSUME NEW s \in Seq(Nat), NEW I \in SUBSET (1 .. Len(s)),
         NEW k, k = (IF I # {} THEN Min(I) ELSE 0)
  PROVE  \/ I = {} /\ k = 0
         \/ k \in I /\ k # 0 /\ \A j \in I : k <= j
<1>1. CASE I = {}
  BY <1>1
<1>2. CASE I # {}
  <2>1. I \in SUBSET Nat
    OBVIOUS
  <2>2. Min(I) \in I /\ \A j \in I : Min(I) <= j
    BY <1>2, <2>1, MinWorks
  <2> QED
    BY <1>2, <2>2
<1> QED
  BY <1>1, <1>2

\* The part of a list that was looked at belongs to the list.
LEMMA WalkedIn ==
  ASSUME NEW s \in Seq(Nat), NEW k \in 0 .. Len(s)
  PROVE  ToSet(IF k = 0 THEN s ELSE SubSeq(s, 1, k)) \subseteq ToSet(s)
<1>1. CASE k = 0
  BY <1>1
<1>2. CASE k # 0
  <2>0. PICK m \in Nat : m = k /\ m \in 1 .. Len(s)
    BY <1>2
  <2>1. \A j \in 1 .. m : s[j] \in Nat
    BY <2>0
  <2>2. /\ SubSeq(s, 1, m) \in Seq(Nat) /\ Len(SubSeq(s, 1, m)) = m
        /\ \A j \in 1 .. m : SubSeq(s, 1, m)[j] = s[j]
    BY <2>0, <2>1, SubSeqProperties
  <2>3. PICK u \in Seq(Nat) : u = SubSeq(s, 1, m)
    BY <2>2
  <2>4. \A j \in 1 .. Len(u) : j \in DOMAIN s /\ u[j] = s[j]
    BY <2>0, <2>2, <2>3
  <2>5. ToSet(u) \subseteq ToSet(s)
    BY <2>4 DEF ToSet
  <2> QED
    BY <1>2, <2>0, <2>3, <2>5
<1> QED
  BY <1>1, <1>2

\* axidma_put_external finds the newest buffer in the list whose place matches.
LEMMA PutFinds ==
  ASSUME IInv, NEW d \in Gens, NEW a \in 0 .. Space - 1
  PROVE  LET Match(i) == al[i].addr <= a /\ a <= al[i].addr + al[i].size
             f == FirstIn(ext[d], Match)
         IN  /\ \/ f = 0
                \/ /\ f \in ToSet(ext[d]) /\ Match(f)
                   /\ \A j \in ToSet(ext[d]) : j > f => ~Match(j)
             /\ Walked(ext[d], Match) \subseteq ToSet(ext[d])
<1> DEFINE Match(i) == al[i].addr <= a /\ a <= al[i].addr + al[i].size
<1> PICK s \in Seq(Nat) : s = ext[d] /\ Descending(s)
  BY DEF IInv, Types, Lists
<1> PICK n \in Nat : n = Len(s)
  OBVIOUS
<1>1. DOMAIN s = 1 .. n /\ \A j \in 1 .. n : s[j] \in Nat
  OBVIOUS
<1> DEFINE I == {j \in 1 .. Len(s) : Match(s[j])}
           k == SelectInSeq(s, Match)
<1>2. k = IF I # {} THEN Min(I) ELSE 0
  BY DEF SelectInSeq
<1>3. FirstIn(s, Match) = (IF k = 0 THEN 0 ELSE s[k])
  BY DEF FirstIn
<1>4. Walked(s, Match) = ToSet(IF k = 0 THEN s ELSE SubSeq(s, 1, k))
  BY DEF Walked
<1> HIDE DEF k
<1>5. I \in SUBSET (1 .. Len(s))
  OBVIOUS
<1>6. \/ I = {} /\ k = 0
      \/ k \in I /\ k # 0 /\ \A j \in I : k <= j
  <2> HIDE DEF I
  <2> QED
    BY <1>2, <1>5, FirstOf
<1>7. Walked(s, Match) \subseteq ToSet(s)
  <2>1. k \in 0 .. Len(s)
    BY <1>6
  <2> QED
    BY <1>4, <2>1, WalkedIn
<1>8. CASE k # 0
  <2>1. k \in 1 .. n /\ Match(s[k]) /\ \A j \in 1 .. n : Match(s[j]) => k <= j
    BY <1>6, <1>8
  <2> HIDE DEF Match, I
  <2>2. s[k] \in ToSet(s)
    BY <1>1, <2>1 DEF ToSet
  <2>3. ASSUME NEW x \in ToSet(s), x > s[k]
        PROVE  ~Match(x)
    <3>1. PICK j \in 1 .. n : x = s[j]
      BY <1>1 DEF ToSet
    <3>2. ~(k <= j)
      <4> SUFFICES ASSUME k <= j
                   PROVE  FALSE
        OBVIOUS
      <4>1. CASE k = j
        BY <1>1, <2>1, <2>3, <3>1, <4>1
      <4>2. CASE k < j
        <5>1. s[k] > s[j]
          BY <2>1, <4>2 DEF Descending
        <5> QED
          BY <1>1, <2>1, <2>3, <3>1, <5>1
      <4> QED
        BY <2>1, <4>1, <4>2
    <3> QED
      BY <2>1, <3>1, <3>2
  <2> QED
    BY <1>3, <1>7, <1>8, <2>1, <2>2, <2>3 DEF Match
<1>9. CASE k = 0
  BY <1>3, <1>7, <1>9
<1> QED
  BY <1>8, <1>9

\* axidma_uservirt_to_dma finds a buffer of the structure in which the request lies.
LEMMA LookupFinds ==
  ASSUME IInv, NEW d \in Gens, NEW a \in 0 .. Space - 1, NEW n \in 1 .. Space
  PROVE  LET Match(i) == valid_dma_request(i, a, n)
             f == axidma_uservirt_to_dma(d, a, n)
         IN  /\ \/ f = 0
                \/ /\ f \in ToSet(own[d]) \cup ToSet(ext[d])
                   /\ valid_dma_request(f, a, n)
             /\ Walked(ext[d], Match) \subseteq ToSet(ext[d])
<1> DEFINE Match(i) == valid_dma_request(i, a, n)
<1>1. ASSUME NEW s \in Seq(Nat)
      PROVE  /\ \/ FirstIn(s, Match) = 0
                \/ FirstIn(s, Match) \in ToSet(s) /\ Match(FirstIn(s, Match))
             /\ Walked(s, Match) \subseteq ToSet(s)
  <2> DEFINE I == {j \in 1 .. Len(s) : Match(s[j])}
             k == SelectInSeq(s, Match)
  <2>2. k = IF I # {} THEN Min(I) ELSE 0
    BY DEF SelectInSeq
  <2>3. FirstIn(s, Match) = (IF k = 0 THEN 0 ELSE s[k])
    BY DEF FirstIn
  <2>4. Walked(s, Match) = ToSet(IF k = 0 THEN s ELSE SubSeq(s, 1, k))
    BY DEF Walked
  <2> HIDE DEF k
  <2>5. I \in SUBSET (1 .. Len(s))
    OBVIOUS
  <2>6. \/ I = {} /\ k = 0
        \/ k \in I /\ k # 0 /\ \A j \in I : k <= j
    <3> HIDE DEF I
    <3> QED
      BY <2>2, <2>5, FirstOf
  <2>7. Walked(s, Match) \subseteq ToSet(s)
    <3>1. k \in 0 .. Len(s)
      BY <2>6
    <3> QED
      BY <2>4, <3>1, WalkedIn
  <2>8. CASE k # 0
    <3>1. k \in DOMAIN s /\ Match(s[k])
      BY <2>6, <2>8
    <3> HIDE DEF Match, I
    <3>2. s[k] \in ToSet(s)
      BY <3>1 DEF ToSet
    <3> QED
      BY <2>3, <2>7, <2>8, <3>1, <3>2
  <2>9. CASE k = 0
    BY <2>3, <2>7, <2>9
  <2> QED
    BY <2>8, <2>9
<1>2. own[d] \in Seq(Nat) /\ ext[d] \in Seq(Nat)
  BY DEF IInv, Types
<1>3. axidma_uservirt_to_dma(d, a, n)
        = IF FirstIn(own[d], Match) # 0 THEN FirstIn(own[d], Match) ELSE FirstIn(ext[d], Match)
  BY DEF axidma_uservirt_to_dma
<1> QED
  BY <1>1, <1>2, <1>3

\* What the driver does wrong in axidma_put_external, if it does.
LEMMA PutFaults ==
  ASSUME IInv, NEW p \in Procs, NEW a \in 0 .. Space - 1, NEW i, NEW d \in Gens,
         d = file[p], i \in ToSet(ext[d]),
         al[i].addr <= a, a <= al[i].addr + al[i].size,
         \A j \in ToSet(ext[d]) :
           j > i => ~(al[j].addr <= a /\ a <= al[j].addr + al[j].size),
         NEW j \in ToSet(ext[d]) \ {i}, al[j].proc = p, al[j].parts # {},
         al[j].addr <= a, a < al[j].addr + al[j].size
  PROVE  /\ al[i].kind = "ext" /\ i \in 1 .. Len(al) /\ j \in 1 .. Len(al) /\ i # j
         /\ al[i].proc # al[j].proc \/ al[j].addr = al[i].addr + al[i].size
<1>1. /\ i \in 1 .. Len(al) /\ j \in 1 .. Len(al) /\ al[i].kind = "ext" /\ i # j
  BY DEF IInv, Lists
<1>2. /\ al[i].addr \in Nat /\ al[i].size \in Nat /\ al[j].addr \in Nat /\ al[j].size \in Nat
      /\ a \in Nat /\ i \in Nat /\ j \in Nat
  <2>1. Space \in Nat
    BY DeviceAssumption
  <2> QED
    BY <1>1, <2>1, Known
<1>3. j < i
  <2>1. ~(j > i)
    BY <1>2
  <2> QED
    BY <1>1, <1>2, <2>1
<1>4. ASSUME al[i].proc = al[j].proc
      PROVE  al[j].addr = al[i].addr + al[i].size
  <2>1. \/ al[j].addr + al[j].size <= al[i].addr
        \/ al[i].addr + al[i].size <= al[j].addr
    BY <1>1, <1>3, <1>4 DEF IInv, Apart
  <2> QED
    BY <1>2, <2>1
<1> QED
  BY <1>1, <1>4

\* Unregistering a buffer.
LEMMA PutExternalKeeps ==
  ASSUME IInv, Defined, NEW p \in Procs, NEW a \in 0 .. Space - 1, axidma_put_external(p, a)
  PROVE  IInv'
<1> DEFINE d == file[p]
           Match(k) == al[k].addr <= a /\ a <= al[k].addr + al[k].size
           i == FirstIn(ext[d], Match)
           stale == \E j \in Walked(ext[d], Match) : al[j].parts = {}
           wrong == /\ i # 0
                    /\ \E j \in ToSet(ext[d]) \ {i} :
                         /\ al[j].proc = p /\ al[j].parts # {}
                         /\ al[j].addr <= a /\ a < al[j].addr + al[j].size
<1>1. /\ Calls(p)
      /\ al' = IF i = 0 THEN al ELSE [al EXCEPT ![i].parts = {}]
      /\ events' = events \cup Tag(i # 0, "put")
      /\ misuse' = misuse \cup Uses(d) \cup Tag(stale, "stale_external") \cup Tag(wrong, "wrong_put")
      /\ UNCHANGED <<devVars, own, ext, maps, file, fd, waits, pend>>
  BY DEF axidma_put_external, procVars
<1>2. d # 0 /\ d \in Gens
  <2>1. d # 0
    BY <1>1 DEF Calls, IInv, Files, FileOk
  <2> QED
    BY <2>1, Known
<1>3. /\ \/ i = 0
         \/ /\ i \in ToSet(ext[d]) /\ Match(i)
            /\ \A j \in ToSet(ext[d]) : j > i => ~Match(j)
      /\ Walked(ext[d], Match) \subseteq ToSet(ext[d])
  <2> HIDE DEF d
  <2> QED
    BY <1>2, PutFinds
<1>4. stale => "put" \in events
  <2> SUFFICES ASSUME NEW j \in ToSet(ext[d]), al[j].parts = {}
               PROVE  "put" \in events
    BY <1>3
  <2>1. j \in 1 .. Len(al) /\ al[j].kind = "ext"
    BY <1>2 DEF IInv, Lists
  <2>2. Whole(j)
    BY <2>1 DEF IInv, Parts
  <2> QED
    BY <2>1, <2>2 DEF Whole
<1>5. wrong => \E k, j \in 1 .. Len(al) :
                 /\ k # j /\ al[k].kind = "ext"
                 /\ al[k].proc # al[j].proc \/ al[j].addr = al[k].addr + al[k].size
  <2> SUFFICES ASSUME i # 0, NEW j \in ToSet(ext[d]) \ {i},
                      al[j].proc = p, al[j].parts # {},
                      al[j].addr <= a, a < al[j].addr + al[j].size
               PROVE  \E k, l \in 1 .. Len(al) :
                        /\ k # l /\ al[k].kind = "ext"
                        /\ al[k].proc # al[l].proc \/ al[l].addr = al[k].addr + al[k].size
    OBVIOUS
  <2>1. PICK k : k = i
    OBVIOUS
  <2>2. /\ k \in ToSet(ext[d]) /\ al[k].addr <= a /\ a <= al[k].addr + al[k].size
        /\ \A l \in ToSet(ext[d]) :
             l > k => ~(al[l].addr <= a /\ a <= al[l].addr + al[l].size)
    BY <1>3, <2>1
  <2> HIDE DEF i, d
  <2>3. /\ al[k].kind = "ext" /\ k \in 1 .. Len(al) /\ j \in 1 .. Len(al) /\ k # j
        /\ al[k].proc # al[j].proc \/ al[j].addr = al[k].addr + al[k].size
    BY <1>2, <2>1, <2>2, PutFaults DEF d
  <2> QED
    BY <2>3
<1>6. (Gone(d) => "removed_open" \in events) /\ (Uninit(d) => pc = "lists")
  BY <1>2, GoneRemoved DEF Uninit
<1>7. i = 0 \/ (i \in 1 .. Len(al) /\ al[i].kind = "ext" /\ al[i].dev = d)
  BY <1>2, <1>3 DEF IInv, Lists
<1> HIDE DEF d, i, stale, wrong
<1>8. /\ al' \in Seq(Allocations) /\ Len(al') = Len(al) /\ DOMAIN al' = 1 .. Len(al')
      /\ Len(al') \in Nat /\ Apart'
      /\ \A j \in 1 .. Len(al) :
           /\ al'[j].kind = al[j].kind /\ al'[j].proc = al[j].proc
           /\ al'[j].addr = al[j].addr /\ al'[j].size = al[j].size
           /\ al'[j].dev = al[j].dev
           /\ j # i => al'[j] = al[j]
  <2>1. CASE i = 0
    <3>1. al' = al
      BY <1>1, <2>1
    <3> QED
      BY <3>1, Known DEF IInv, Types, Apart
  <2>2. CASE i # 0
    <3>1. al' = [al EXCEPT ![i].parts = {}] /\ i \in 1 .. Len(al)
      BY <1>1, <1>7, <2>2
    <3> QED
      BY <3>1, Cleared
  <2> QED
    BY <2>1, <2>2
<1>9. i # 0 => al'[i].parts = {} /\ "put" \in events'
  <2> SUFFICES ASSUME i # 0
               PROVE  al'[i].parts = {} /\ "put" \in events'
    OBVIOUS
  <2>1. al' = [al EXCEPT ![i].parts = {}] /\ i \in 1 .. Len(al)
    BY <1>1, <1>7
  <2>2. al'[i].parts = {}
    BY <2>1, Cleared
  <2> QED
    BY <1>1, <2>2 DEF Tag
<1>10. UNCHANGED <<tree, mod, pc, held, leaked, reserved, gen, live, axidma_dev>>
  BY <1>1 DEF devVars
<1>11. Types'
  BY <1>1, <1>8, <1>10 DEF IInv, Types
<1>12. Device'
  BY <1>1, SameDevice
<1>13. Lists'
  <2> SUFFICES ASSUME NEW e \in Gens
               PROVE  /\ Descending(own[e]) /\ Descending(ext[e])
                      /\ ToSet(own[e]) = {j \in maps : al'[j].dev = e}
                      /\ ToSet(ext[e]) \subseteq {j \in 1 .. Len(al') : al'[j].kind = "ext" /\ al'[j].dev = e}
    BY <1>1 DEF Lists
  <2>1. /\ Descending(own[e]) /\ Descending(ext[e])
        /\ ToSet(own[e]) = {j \in maps : al[j].dev = e}
        /\ ToSet(ext[e]) \subseteq {j \in 1 .. Len(al) : al[j].kind = "ext" /\ al[j].dev = e}
    BY DEF IInv, Lists
  <2>2. \A j \in maps : j \in 1 .. Len(al)
    BY DEF IInv, Types
  <2>3. {j \in maps : al'[j].dev = e} = {j \in maps : al[j].dev = e}
    BY <1>8, <2>2
  <2>4. \A j \in 1 .. Len(al) : al'[j].kind = al[j].kind /\ al'[j].dev = al[j].dev
    BY <1>8
  <2> QED
    BY <1>8, <2>1, <2>3, <2>4
<1>14. Parts'
  <2> SUFFICES ASSUME NEW j \in 1 .. Len(al)
               PROVE  Whole(j)'
    BY <1>8 DEF Parts
  <2>1. Whole(j)
    BY DEF IInv, Parts
  <2>2. CASE j = i /\ i # 0
    <3>1. /\ al[i].kind = "ext" /\ al'[i].parts = {} /\ "put" \in events'
          /\ al'[i].kind = "ext" /\ al'[i].dev = al[i].dev
      BY <1>7, <1>8, <1>9, <2>2
    <3> QED
      BY <1>1, <2>1, <2>2, <3>1 DEF Whole
  <2>3. CASE j # i
    <3>1. al'[j] = al[j] /\ maps' = maps /\ ext' = ext /\ events \subseteq events'
      BY <1>1, <1>8, <2>3
    <3> QED
      BY <2>1, <3>1 DEF Whole
  <2>4. j # 0
    OBVIOUS
  <2> QED
    BY <2>2, <2>3, <2>4
<1>15. Files'
  BY <1>1, <1>10 DEF IInv, Files, FileOk, Accepted
<1>16. Mapped'
  <2> SUFFICES ASSUME NEW j \in maps
               PROVE  al'[j].dev = file[al'[j].proc]
    BY <1>1 DEF Mapped
  <2>1. j \in 1 .. Len(al) /\ al[j].dev = file[al[j].proc]
    BY DEF IInv, Mapped, Types
  <2> QED
    BY <1>8, <2>1
<1>17. Fresh'
  <2> SUFFICES ASSUME Defined', NEW e \in Gens,
                      e > gen \/ (e = gen /\ pc \in Early \cup {"lists"})
               PROVE  /\ own[e] = <<>> /\ ext[e] = <<>>
                      /\ \A j \in 1 .. Len(al') : al'[j].dev # e
    BY <1>1, <1>10 DEF Fresh
  <2>1. own[e] = <<>> /\ ext[e] = <<>> /\ \A j \in 1 .. Len(al) : al[j].dev # e
    BY DEF IInv, Fresh
  <2> QED
    BY <1>8, <2>1
<1>18. Pend'
  <2> SUFFICES ASSUME NEW x \in pend
               PROVE  Inside(x)'
    BY <1>1 DEF IInv, Pend
  <2>1. Inside(x)
    BY DEF IInv, Pend
  <2>2. /\ x.buf \in 1 .. Len(al) /\ al'[x.buf].size = al[x.buf].size
        /\ al'[x.buf].kind = al[x.buf].kind /\ al'[x.buf].proc = al[x.buf].proc
    BY <1>8, <2>1 DEF Inside
  <2>3. waits' = waits /\ maps' = maps /\ Len(al') = Len(al)
    BY <1>1, <1>8
  <2> QED
    BY <2>1, <2>2, <2>3 DEF Inside
<1>19. OnlyKnownFaults'
  <2>0. events \subseteq events'
    BY <1>1
  <2>1. \A m \in misuse' : m \in misuse \/ Explained(m)'
    <3>1. Gone(d) => Explained("removed_device")'
      BY <1>6, <2>0 DEF Explained
    <3>2. Uninit(d) => Explained("uninit_lists")'
      BY <1>6, <1>10 DEF Explained
    <3>3. stale => Explained("stale_external")'
      BY <1>4, <2>0 DEF Explained
    <3>4. wrong => Explained("wrong_put")'
      <4> SUFFICES ASSUME wrong
                   PROVE  \E k, j \in DOMAIN al' :
                            /\ k # j /\ al'[k].kind = "ext"
                            /\ al'[k].proc # al'[j].proc \/ al'[j].addr = al'[k].addr + al'[k].size
        BY DEF Explained
      <4>1. PICK k \in 1 .. Len(al), j \in 1 .. Len(al) :
              /\ k # j /\ al[k].kind = "ext"
              /\ al[k].proc # al[j].proc \/ al[j].addr = al[k].addr + al[k].size
        BY <1>5
      <4>2. k \in DOMAIN al' /\ j \in DOMAIN al'
        BY <1>8
      <4>3. /\ al'[k].kind = "ext"
            /\ al'[k].proc # al'[j].proc \/ al'[j].addr = al'[k].addr + al'[k].size
        BY <1>8, <4>1
      <4> QED
        BY <4>1, <4>2, <4>3
    <3> QED
      BY <1>1, <3>1, <3>2, <3>3, <3>4 DEF Tag, Uses
  <2>2. Call
    BY <1>1, <1>8, <2>0, Known DEF Call
  <2> QED
    BY <1>8, <2>1, <2>2, CallFaults, Known
<1> QED
  BY <1>8, <1>11, <1>12, <1>13, <1>14, <1>15, <1>16, <1>17, <1>18, <1>19 DEF IInv
-----------------------------------------------------------------------------
(* Transfers.                                                              *)

\* A call that changes descriptors and waits must keep the two in step.
LEMMA PendCall ==
  ASSUME IInv, Defined,
         UNCHANGED <<devVars, own, ext, al, maps, file, fd, events>>,
         misuse \subseteq misuse',
         \A m \in misuse' : m \in misuse \/ Explained(m)',
         pend' \subseteq Descriptors,
         waits' \in [Procs -> ChannelIds(tree) \cup {NoId}],
         \A q \in Procs : waits'[q] # NoId => fd[q] = "open",
         Pend'
  PROVE  IInv'
<1>1. UNCHANGED <<tree, mod, pc, held, leaked, reserved, gen, live, axidma_dev>>
  BY DEF devVars
<1>2. Types'
  BY <1>1 DEF IInv, Types
<1>3. Device'
  BY SameDevice
<1>4. Lists' /\ Parts' /\ Apart' /\ Mapped'
  BY DEF IInv, Lists, Parts, Whole, Apart, Mapped
<1>5. Files'
  BY <1>1 DEF IInv, Files, FileOk, Accepted
<1>6. Fresh'
  BY <1>1 DEF IInv, Fresh, Defined
<1>7. OnlyKnownFaults'
  BY CallFaults, Known DEF Call
<1> QED
  BY <1>2, <1>3, <1>4, <1>5, <1>6, <1>7 DEF IInv

\* Descriptors that end: those of a process that no longer waits, or of none.
LEMMA FewerDescriptors ==
  ASSUME IInv, pend' \subseteq pend, UNCHANGED <<al, maps>>,
         \A x \in pend' : x.wait => waits'[x.proc] = waits[x.proc]
  PROVE  Pend' /\ pend' \subseteq Descriptors
<1>1. pend' \subseteq Descriptors
  BY DEF IInv, Types
<1>2. ASSUME NEW x \in pend'
      PROVE  Inside(x)'
  <2>1. Inside(x)
    BY DEF IInv, Pend
  <2>2. x.wait => waits'[x.proc] = waits[x.proc]
    OBVIOUS
  <2> QED
    BY <2>1, <2>2 DEF Inside
<1>3. \A x, y \in pend' : x.wait /\ y.wait /\ x.proc = y.proc => x = y
  BY DEF IInv, Pend
<1> QED
  BY <1>1, <1>2, <1>3 DEF Pend

\* A read, write or video transfer.
LEMMA TransferKeeps ==
  ASSUME IInv, Defined, NEW p \in Procs, NEW ch \in ChannelIds(tree),
         NEW a \in 0 .. Space - 1, NEW n \in 1 .. Space, NEW w \in BOOLEAN,
         Transfer(p, ch, a, n, w)
  PROVE  IInv'
<1> DEFINE d == file[p]
           Match(k) == valid_dma_request(k, a, n)
           i == axidma_uservirt_to_dma(d, a, n)
           tags == LookupMisuse(d, a, n)
           x == [buf |-> i, off |-> a - al[i].addr, len |-> n, proc |-> p, ch |-> ch, wait |-> w]
<1>1. /\ Calls(p)
      /\ UNCHANGED <<devVars, own, ext, al, maps, file, fd, events>>
      /\ \/ /\ misuse' = misuse \cup tags
            /\ UNCHANGED <<pend, waits>>
         \/ /\ i # 0 /\ tags = {}
            /\ pend' = pend \cup {x}
            /\ waits' = IF w THEN [waits EXCEPT ![p] = ch] ELSE waits
            /\ misuse' = misuse \cup tags \cup CbMisuse(ch)
  BY DEF Transfer, axidma_init_sg_entry, bufVars
<1>2. d # 0 /\ d \in Gens /\ fd[p] = "open" /\ waits[p] = NoId
  <2>1. d # 0
    BY <1>1 DEF Calls, IInv, Files, FileOk
  <2> QED
    BY <1>1, <2>1, Known DEF Calls
<1>3. /\ \/ i = 0
         \/ i \in ToSet(own[d]) \cup ToSet(ext[d]) /\ valid_dma_request(i, a, n)
      /\ Walked(ext[d], Match) \subseteq ToSet(ext[d])
  <2> HIDE DEF d
  <2> QED
    BY <1>2, LookupFinds
<1>4. UNCHANGED <<tree, mod, pc, held, leaked, reserved, gen, live, axidma_dev>>
  BY <1>1 DEF devVars
<1>5. \A m \in tags : Explained(m)'
  <2>1. Gone(d) => Explained("removed_device")'
    BY <1>1, <1>2, GoneRemoved DEF Explained
  <2>2. Uninit(d) => Explained("uninit_lists")'
    BY <1>4 DEF Explained, Uninit
  <2>3. (\E j \in Walked(ext[d], Match) : al[j].parts = {}) => Explained("stale_external")'
    <3> SUFFICES ASSUME NEW j \in ToSet(ext[d]), al[j].parts = {}
                 PROVE  "put" \in events
      BY <1>1, <1>3 DEF Explained
    <3>1. j \in 1 .. Len(al) /\ al[j].kind = "ext"
      BY <1>2 DEF IInv, Lists
    <3>2. Whole(j)
      BY <3>1 DEF IInv, Parts
    <3> QED
      BY <3>1, <3>2 DEF Whole
  <2>4. \A m \in tags : \/ m = "removed_device" /\ Gone(d)
                        \/ m = "uninit_lists" /\ Uninit(d)
                        \/ m = "stale_external" /\ \E j \in Walked(ext[d], Match) : al[j].parts = {}
    BY DEF LookupMisuse, Uses, Tag
  <2> QED
    BY <2>1, <2>2, <2>3, <2>4
<1> HIDE DEF tags, i
<1>6. CASE misuse' = misuse \cup tags /\ UNCHANGED <<pend, waits>>
  <2>1. \A m \in misuse' : m \in misuse \/ Explained(m)'
    BY <1>5, <1>6
  <2> QED
    BY <1>1, <1>6, <2>1, OnlyMisuse
<1>7. CASE /\ i # 0 /\ tags = {} /\ pend' = pend \cup {x}
           /\ waits' = IF w THEN [waits EXCEPT ![p] = ch] ELSE waits
           /\ misuse' = misuse \cup tags \cup CbMisuse(ch)
  <2>1. \A m \in misuse' : m \in misuse \/ Explained(m)'
    <3>1. ch >= Len(tree.dmas) => ~DenseIds(tree)
      <4> SUFFICES ASSUME ch >= Len(tree.dmas), ch < Len(tree.dmas)
                   PROVE  FALSE
        BY DEF DenseIds
      <4>1. ch \in Nat /\ Len(tree.dmas) \in Nat
        BY IdsAreNumbers DEF IInv, Types
      <4> QED
        BY <4>1
    <3>2. ch >= Len(tree.dmas) => Explained("cb_index")'
      BY <1>4, <3>1 DEF Explained
    <3> QED
      BY <1>7, <3>2 DEF CbMisuse, Tag
  <2>2. ch # NoId /\ ch \in Nat
    <3>1. tree \in Trees
      BY DEF IInv, Types
    <3> QED
      BY <1>2, <3>1, ChannelsKnown, IdsAreNumbers DEF d
  <2>3. /\ i \in 1 .. Len(al)
        /\ al[i].kind = "own" => i \in maps
        /\ al[i].addr <= a /\ a + n <= al[i].addr + al[i].size
    <3>1. /\ ToSet(own[d]) = {k \in maps : al[k].dev = d} /\ maps \subseteq 1 .. Len(al)
          /\ ToSet(ext[d]) \subseteq {k \in 1 .. Len(al) : al[k].kind = "ext" /\ al[k].dev = d}
      BY <1>2 DEF IInv, Lists, Types
    <3>2. i \in ToSet(own[d]) => i \in maps /\ i \in 1 .. Len(al)
      BY <3>1
    <3>3. i \in ToSet(ext[d]) => i \in 1 .. Len(al) /\ al[i].kind = "ext"
      BY <3>1
    <3>4. i \in ToSet(own[d]) \cup ToSet(ext[d]) /\ valid_dma_request(i, a, n)
      BY <1>3, <1>7
    <3> QED
      BY <3>2, <3>3, <3>4 DEF valid_dma_request
  <2>4. PICK off : /\ off = a - al[i].addr /\ off \in 0 .. Space /\ off + n <= al[i].size
                   /\ i \in 1 .. MaxAllocs
    <3>1. al[i].addr \in 0 .. Space - 1 /\ al[i].size \in 1 .. Space /\ Space \in Nat
          /\ Len(al) <= MaxAllocs /\ MaxAllocs \in Nat /\ Len(al) \in Nat
      BY <2>3, Known DEF IInv, Types
    <3>2. a - al[i].addr \in 0 .. Space /\ (a - al[i].addr) + n <= al[i].size
      BY <2>3, <3>1
    <3> QED
      BY <2>3, <3>1, <3>2
  <2>4a. PICK z : z = [buf |-> i, off |-> off, len |-> n, proc |-> p, ch |-> ch, wait |-> w]
    OBVIOUS
  <2>5. z \in Descriptors /\ pend' = pend \cup {z}
    BY <1>7, <2>2, <2>4, <2>4a DEF Descriptors
  <2>6. /\ z.buf = i /\ z.off = off /\ z.len = n /\ z.proc = p /\ z.ch = ch
        /\ z.wait <=> w
    BY <2>4a
  <2> HIDE DEF x
  <2>7. pend' \subseteq Descriptors
    BY <2>5 DEF IInv, Types
  <2>8. /\ waits' \in [Procs -> ChannelIds(tree) \cup {NoId}]
        /\ \A q \in Procs : q # p => waits'[q] = waits[q]
        /\ w => waits'[p] = ch
        /\ ~w => waits' = waits
    <3>1. waits \in [Procs -> ChannelIds(tree) \cup {NoId}]
      BY DEF IInv, Types
    <3>2. CASE w
      <4>1. waits' = [waits EXCEPT ![p] = ch]
        BY <1>7, <3>2
      <4> QED
        BY <3>1, <3>2, <4>1
    <3>3. CASE ~w
      <4>1. waits' = waits
        BY <1>7, <3>3
      <4> QED
        BY <3>1, <3>3, <4>1
    <3> QED
      BY <3>2, <3>3
  <2>9. \A q \in Procs : waits'[q] # NoId => fd[q] = "open"
    <3> SUFFICES ASSUME NEW q \in Procs, waits'[q] # NoId
                 PROVE  fd[q] = "open"
      OBVIOUS
    <3>1. CASE q = p
      BY <1>2, <3>1
    <3>2. CASE q # p
      BY <2>8, <3>2 DEF IInv, Files, FileOk
    <3> QED
      BY <3>1, <3>2
  <2>10. \A y \in pend : y.wait => y.proc # p
    BY <1>2 DEF IInv, Pend, Inside
  <2>11. \A y \in pend : Inside(y)'
    <3> SUFFICES ASSUME NEW y \in pend
                 PROVE  Inside(y)'
      OBVIOUS
    <3>1. Inside(y) /\ y.proc \in Procs
      BY DEF IInv, Pend, Types, Descriptors
    <3>2. y.wait => waits'[y.proc] = waits[y.proc]
      BY <2>8, <2>10, <3>1
    <3>3. al' = al /\ maps' = maps
      BY <1>1
    <3> QED
      BY <3>1, <3>2, <3>3 DEF Inside
  <2>12. Inside(z)'
    <3>1. al' = al /\ maps' = maps
      BY <1>1
    <3>2. z.off + z.len <= al[z.buf].size
      BY <2>4, <2>6
    <3>3. z.wait => waits'[z.proc] = z.ch
      BY <2>6, <2>8
    <3> QED
      BY <2>2, <2>3, <2>6, <3>1, <3>2, <3>3, Zenon DEF Inside
  <2>13. Pend'
    <3>1. \A y \in pend' : Inside(y)'
      BY <2>5, <2>11, <2>12
    <3>2. \A y, u \in pend : y.wait /\ u.wait /\ y.proc = u.proc => y = u
      BY DEF IInv, Pend
    <3>3. \A y, u \in pend' : y.wait /\ u.wait /\ y.proc = u.proc => y = u
      BY <2>5, <2>6, <2>10, <3>2
    <3> QED
      BY <3>1, <3>3 DEF Pend
  <2>14. misuse \subseteq misuse'
    BY <1>7
  <2> QED
    BY <1>1, <2>1, <2>7, <2>8, <2>9, <2>13, <2>14, PendCall
<1> QED
  BY <1>1, <1>6, <1>7

\* A stop, on whatever channel.
LEMMA StopKeeps ==
  ASSUME IInv, Defined, NEW p \in Procs, NEW ch \in ChannelIds(tree),
         axidma_stop_channel(p, ch)
  PROVE  IInv'
<1>1. /\ Calls(p) /\ pend' \subseteq pend
      /\ misuse' = misuse \cup Tag(Gone(file[p]), "removed_device")
      /\ UNCHANGED <<devVars, own, ext, al, maps, file, fd, waits, events>>
  BY DEF axidma_stop_channel, bufVars, procVars
<1>2. file[p] # 0
  BY <1>1 DEF Calls, IInv, Files, FileOk
<1>3. \A m \in misuse' : m \in misuse \/ Explained(m)'
  <2>1. Gone(file[p]) => Explained("removed_device")'
    BY <1>1, <1>2, GoneRemoved DEF Explained
  <2> QED
    BY <1>1, <2>1 DEF Tag
<1>4. Pend' /\ pend' \subseteq Descriptors
  BY <1>1, FewerDescriptors
<1>5. /\ waits' \in [Procs -> ChannelIds(tree) \cup {NoId}] /\ misuse \subseteq misuse'
      /\ \A q \in Procs : waits'[q] # NoId => fd[q] = "open"
  BY <1>1 DEF IInv, Types, Files, FileOk
<1> QED
  BY <1>1, <1>3, <1>4, <1>5, PendCall

\* The use of a channel that is not there.
LEMMA NullChannelKeeps ==
  ASSUME IInv, Defined, NEW p \in Procs, NullChannel(p)
  PROVE  IInv'
<1>1. /\ misuse' = misuse \cup {"null_channel"}
      /\ UNCHANGED <<devVars, own, ext, al, maps, file, fd, waits, pend, events>>
  BY DEF NullChannel, bufVars, procVars
<1>2. \A m \in misuse' : m \in misuse \/ Explained(m)'
  BY <1>1 DEF Explained
<1> QED
  BY <1>1, <1>2, OnlyMisuse

\* The wait of a process ends: what it waited for has ended too.
LEMMA WaitOver ==
  ASSUME IInv, NEW q \in Procs, waits' = [waits EXCEPT ![q] = NoId],
         pend' \subseteq pend, UNCHANGED <<al, maps, fd>>,
         \A x \in pend' : x.wait => x.proc # q
  PROVE  /\ Pend' /\ pend' \subseteq Descriptors
         /\ waits' \in [Procs -> ChannelIds(tree) \cup {NoId}]
         /\ \A r \in Procs : waits'[r] # NoId => fd[r] = "open"
<1>1. /\ waits \in [Procs -> ChannelIds(tree) \cup {NoId}]
      /\ \A x \in pend : x.proc \in Procs
  BY DEF IInv, Types, Descriptors
<1>2. \A r \in Procs : waits'[r] = IF r = q THEN NoId ELSE waits[r]
  BY <1>1
<1>3. waits' \in [Procs -> ChannelIds(tree) \cup {NoId}]
  BY <1>1
<1>4. \A r \in Procs : waits'[r] # NoId => fd[r] = "open"
  BY <1>2 DEF IInv, Files, FileOk
<1>5. \A x \in pend' : x.wait => waits'[x.proc] = waits[x.proc]
  BY <1>1, <1>2
<1> QED
  BY <1>3, <1>4, <1>5, FewerDescriptors

\* The callback of a descriptor that is done.
LEMMA CompleteKeeps ==
  ASSUME IInv, Defined, NEW x \in pend, Complete(x)
  PROVE  IInv'
<1>1. /\ pend' = pend \ {x}
      /\ waits' = IF x.wait THEN [waits EXCEPT ![x.proc] = NoId] ELSE waits
      /\ UNCHANGED <<devVars, own, ext, al, maps, file, fd, events, misuse>>
  BY DEF Complete, bufVars, histVars
<1>2. x.proc \in Procs /\ x.wait \in BOOLEAN
  BY DEF IInv, Types, Descriptors
<1>3. /\ Pend' /\ pend' \subseteq Descriptors
      /\ waits' \in [Procs -> ChannelIds(tree) \cup {NoId}]
      /\ \A r \in Procs : waits'[r] # NoId => fd[r] = "open"
  <2>1. CASE x.wait
    <3>1. waits' = [waits EXCEPT ![x.proc] = NoId]
      BY <1>1, <2>1
    <3>2. \A y \in pend' : y.wait => y.proc # x.proc
      BY <1>1, <2>1 DEF IInv, Pend
    <3>3. pend' \subseteq pend /\ UNCHANGED <<al, maps, fd>>
      BY <1>1
    <3> QED
      BY <1>2, <3>1, <3>2, <3>3, WaitOver
  <2>2. CASE ~x.wait
    <3>1. waits' = waits
      BY <1>1, <2>2
    <3> QED
      BY <1>1, <3>1, FewerDescriptors DEF IInv, Types, Files, FileOk
  <2> QED
    BY <2>1, <2>2
<1> QED
  BY <1>1, <1>3, PendCall

\* The timeout of a wait, with stop_dma.
LEMMA WaitTimesOutKeeps ==
  ASSUME IInv, Defined, NEW p \in Procs, WaitTimesOut(p)
  PROVE  IInv'
<1>1. /\ waits[p] # NoId /\ pend' = pend \ OnChannel(waits[p])
      /\ waits' = [waits EXCEPT ![p] = NoId]
      /\ misuse' = misuse \cup Tag(Gone(file[p]), "removed_device")
      /\ UNCHANGED <<devVars, own, ext, al, maps, file, fd, events>>
  BY DEF WaitTimesOut, bufVars
<1>2. file[p] # 0
  BY <1>1 DEF IInv, Files, FileOk
<1>3. \A m \in misuse' : m \in misuse \/ Explained(m)'
  <2>1. Gone(file[p]) => Explained("removed_device")'
    BY <1>1, <1>2, GoneRemoved DEF Explained
  <2> QED
    BY <1>1, <2>1 DEF Tag
<1>4. \A x \in pend' : x.wait => x.proc # p
  BY <1>1 DEF IInv, Pend, Inside, OnChannel
<1>5. /\ Pend' /\ pend' \subseteq Descriptors
      /\ waits' \in [Procs -> ChannelIds(tree) \cup {NoId}]
      /\ \A r \in Procs : waits'[r] # NoId => fd[r] = "open"
  <2>1. pend' \subseteq pend /\ UNCHANGED <<al, maps, fd>>
    BY <1>1
  <2> QED
    BY <1>1, <1>4, <2>1, WaitOver
<1> QED
  BY <1>1, <1>3, <1>5, PendCall
-----------------------------------------------------------------------------
(* The theorems.                                                           *)

\* The invariant holds at the start.
LEMMA InitHolds == Init => IInv
<1> SUFFICES ASSUME Init
             PROVE  IInv
  OBVIOUS
<1>0. /\ MaxBinds \in Nat /\ MaxAllocs \in Nat /\ tree \in Trees /\ Len(tree.dmas) \in Nat
      /\ gen = 0 /\ axidma_dev = 0 /\ 0 \in 0 .. MaxBinds /\ 0 \in 0 .. 0
      /\ 0 \in 0 .. Len(tree.dmas)
  BY IdsAreNumbers, DeviceAssumption DEF Init
<1>1. /\ <<>> \in Seq(Nat) /\ <<>> \in Seq(Allocations) /\ Len(<<>>) = 0
      /\ ToSet(<<>>) = {} /\ 1 .. 0 = {}
  BY DEF ToSet
<1>2. Types
  <2>1. own \in [Gens -> Seq(Nat)] /\ ext \in [Gens -> Seq(Nat)]
    BY <1>1 DEF Init
  <2>2. al = <<>> /\ Len(al) <= MaxAllocs /\ maps \subseteq 1 .. Len(al)
    BY <1>0, <1>1 DEF Init
  <2>3. /\ file \in [Procs -> 0 .. gen] /\ fd \in [Procs -> {"new", "open", "closed"}]
        /\ waits \in [Procs -> ChannelIds(tree) \cup {NoId}] /\ pend \subseteq Descriptors
    BY <1>0 DEF Init
  <2>4. mod \in {"out", "in", "exiting"} /\ pc \in PCs /\ leaked \subseteq Resources
        /\ gen \in 0 .. MaxBinds /\ axidma_dev \in 0 .. gen
    BY <1>0 DEF Init, PCs
  <2> QED
    BY <1>0, <1>1, <2>1, <2>2, <2>3, <2>4 DEF Types
<1>3. Device
  <2>1. pc = "unbound" /\ held = {} /\ live = {} /\ reserved = 0
    BY DEF Init
  <2> QED
    BY <1>0, <2>1, HeldTable DEF Device
<1>4. Lists
  <2> SUFFICES ASSUME NEW d \in Gens
               PROVE  /\ Descending(own[d]) /\ Descending(ext[d])
                      /\ ToSet(own[d]) = {i \in maps : al[i].dev = d}
                      /\ ToSet(ext[d]) \subseteq {i \in 1 .. Len(al) : al[i].kind = "ext" /\ al[i].dev = d}
    BY DEF Lists
  <2>1. own[d] = <<>> /\ ext[d] = <<>> /\ maps = {}
    BY DEF Init
  <2>2. Descending(<<>>)
    BY <1>1 DEF Descending
  <2> QED
    BY <1>1, <2>1, <2>2
<1>5. Parts /\ Apart /\ Mapped /\ Pend
  <2>1. 1 .. Len(al) = {} /\ maps = {} /\ pend = {}
    BY <1>1 DEF Init
  <2> QED
    BY <2>1 DEF Parts, Apart, Mapped, Pend
<1>6. Files
  BY <1>0 DEF Init, Files, FileOk
<1>7. Fresh
  <2>1. 1 .. Len(al) = {} /\ \A d \in Gens : own[d] = <<>> /\ ext[d] = <<>>
    BY <1>1 DEF Init
  <2> QED
    BY <2>1 DEF Fresh
<1>8. OnlyKnownFaults
  BY DEF Init, OnlyKnownFaults
<1> QED
  BY <1>2, <1>3, <1>4, <1>5, <1>6, <1>7, <1>8 DEF IInv

\* Every step keeps it.
LEMMA NextKeeps == IInv /\ [Next]_vars => IInv'
<1> SUFFICES ASSUME IInv, [Next]_vars
             PROVE  IInv'
  OBVIOUS
<1>1. CASE UNCHANGED vars
  <2>1. UNCHANGED <<tree, mod, pc, held, leaked, reserved, gen, live, axidma_dev, own, ext,
                    al, maps, file, fd, waits, pend, events, misuse>>
    BY <1>1 DEF vars, devVars, bufVars, procVars, histVars
  <2>2. Types' /\ Device' /\ Lists' /\ Parts'
    BY <2>1 DEF IInv, Types, Device, Accepted, Lists, Parts, Whole
  <2>3. Files' /\ Mapped' /\ Fresh' /\ Apart'
    BY <2>1 DEF IInv, Files, FileOk, Accepted, Mapped, Fresh, Defined, Apart
  <2>4. Pend' /\ OnlyKnownFaults'
    BY <2>1 DEF IInv, Pend, Inside, OnlyKnownFaults
  <2> QED
    BY <2>2, <2>3, <2>4 DEF IInv
<1>2. CASE Next
  <2>0. Defined /\ Steps
    BY <1>2 DEF Next
  <2>1. CASE axidma_init \/ axidma_exit \/ ExitReturns
    BY <2>0, <2>1, ModuleKeeps
  <2>2. CASE axidma_probe
    BY <2>0, <2>2, axidma_probe_Keeps
  <2>3. CASE ProbeMask \/ ProbeCount \/ ProbeChannels \/ ProbeCbData
    BY <2>0, <2>3, DmaInitKeeps
  <2>4. CASE ProbeParse
    BY <2>0, <2>4, ProbeParseKeeps
  <2>5. CASE axidma_request_channels
    BY <2>0, <2>5, RequestKeeps
  <2>6. CASE ProbeRegion \/ ProbeClass \/ ProbeDevice \/ ProbeCdev
    BY <2>0, <2>6, ChrdevKeeps
  <2>7. CASE ProbeLists
    BY <2>0, <2>7, ProbeListsKeeps
  <2>8. CASE StartRemove \/ axidma_dma_exit \/ axidma_remove
    BY <2>0, <2>8, RemoveKeeps
  <2>9. CASE axidma_chrdev_exit
    BY <2>0, <2>9, ChrdevExitKeeps
  <2>10. ASSUME NEW p \in Procs, axidma_open(p)
         PROVE  IInv'
    BY <2>0, <2>10, OpenKeeps
  <2>11. ASSUME NEW p \in Procs, axidma_release(p)
         PROVE  IInv'
    BY <2>0, <2>11, ReleaseKeeps
  <2>12. ASSUME NEW p \in Procs, axidma_ioctl(p)
         PROVE  IInv'
    <3>1. ASSUME NEW ch \in ChannelIds(tree), NEW a \in 0 .. Space - 1, NEW n \in 1 .. Space,
                 NEW w \in BOOLEAN, Transfer(p, ch, a, n, w)
          PROVE  IInv'
      BY <2>0, <3>1, TransferKeeps
    <3>2. ASSUME NEW ch \in ChannelIds(tree), axidma_stop_channel(p, ch)
          PROVE  IInv'
      BY <2>0, <3>2, StopKeeps
    <3>3. CASE NullChannel(p)
      BY <2>0, <3>3, NullChannelKeeps
    <3> QED
      BY <2>12, <3>1, <3>2, <3>3 DEF axidma_ioctl
  <2>13. ASSUME NEW p \in Procs, WaitTimesOut(p)
         PROVE  IInv'
    BY <2>0, <2>13, WaitTimesOutKeeps
  <2>14. ASSUME NEW p \in Procs, NEW a \in 0 .. Space - 1, NEW n \in 1 .. Space,
                NEW f \in ToSet(MmapSteps) \cup {"none"}, axidma_mmap(p, a, n, f)
         PROVE  IInv'
    BY <2>0, <2>14, MmapKeeps
  <2>15. ASSUME NEW p \in Procs, NEW a \in 0 .. Space - 1, NEW n \in 1 .. Space,
                NEW f \in ToSet(GetSteps) \cup {"none"}, axidma_get_external(p, a, n, f)
         PROVE  IInv'
    BY <2>0, <2>15, GetExternalKeeps
  <2>16. ASSUME NEW p \in Procs, NEW a \in 0 .. Space - 1, axidma_put_external(p, a)
         PROVE  IInv'
    BY <2>0, <2>16, PutExternalKeeps
  <2>17. ASSUME NEW i \in maps, axidma_vma_close(i)
         PROVE  IInv'
    BY <2>0, <2>17, VmaCloseKeeps
  <2>18. ASSUME NEW x \in pend, Complete(x)
         PROVE  IInv'
    BY <2>0, <2>18, CompleteKeeps
  <2> QED
    BY <2>0, <2>1, <2>2, <2>3, <2>4, <2>5, <2>6, <2>7, <2>8, <2>9, <2>10, <2>11, <2>12,
       <2>13, <2>14, <2>15, <2>16, <2>17, <2>18 DEF Steps
<1> QED
  BY <1>1, <1>2

\* So it is an invariant.
LEMMA Invariant == Spec => []IInv
BY InitHolds, NextKeeps, PTL DEF Spec

\* All variables of the driver keep their types: among them that a file, the global
\* pointer and the lists name structures and allocations that were made.
THEOREM TypeCorrect == Spec => []TypeOK
<1>1. IInv => TypeOK
  <2> SUFFICES ASSUME IInv
               PROVE  TypeOK
    OBVIOUS
  <2>1. /\ DOMAIN al = 1 .. Len(al) /\ gen \in Nat /\ gen <= MaxBinds
        /\ \A i \in 1 .. Len(al) : al[i] \in Allocations
    BY Known
  <2>2. ToSet(al) \subseteq Allocations /\ maps \subseteq DOMAIN al
    BY <2>1 DEF IInv, Types, ToSet
  <2>3. held \subseteq Resources
    <3>1. held = HeldAt(pc) /\ pc \in PCs
      BY DEF IInv, Device, Types
    <3>2. \A s \in PCs : HeldAt(s) \subseteq Resources
      BY HeldTable DEF PCs, ProbePCs, RemovePCs, Resources
    <3> QED
      BY <3>1, <3>2
  <2>4. live \subseteq 1 .. gen
    BY <2>1 DEF IInv, Device
  <2>5. \A d \in Gens : ToSet(own[d]) \cup ToSet(ext[d]) \subseteq DOMAIN al
    BY <2>1 DEF IInv, Lists, Types
  <2>6. reserved \in 0 .. Len(tree.dmas)
    BY DEF IInv, Device
  <2> QED
    BY <2>2, <2>3, <2>4, <2>5, <2>6 DEF TypeOK, IInv, Types
<1> QED
  BY <1>1, Invariant, PTL

\* dmabuf_list and external_dmabufs: however mmap, munmap, registering, failing set-ups
\* and removals interleave, the list of a live device names exactly the mapped buffers
\* in their order, and an allocation has all of its parts or none.
THEOREM BuffersSafe == Spec => []BuffersAccounted
<1>1. IInv => BuffersAccounted
  <2> SUFFICES ASSUME IInv
               PROVE  BuffersAccounted
    OBVIOUS
  <2>0. DOMAIN al = 1 .. Len(al) /\ gen \in Nat /\ gen <= MaxBinds /\ MaxBinds \in Nat
    BY Known
  <2>1. ASSUME NEW d \in live
        PROVE  /\ ToSet(own[d]) = {i \in maps : al[i].dev = d}
               /\ \A j, k \in DOMAIN own[d] : j < k => own[d][j] > own[d][k]
    <3>1. d \in Gens
      BY <2>0, <2>1 DEF IInv, Device, Gens
    <3>2. Descending(own[d]) /\ ToSet(own[d]) = {i \in maps : al[i].dev = d}
      BY <3>1 DEF IInv, Lists
    <3>3. own[d] \in Seq(Nat)
      BY <3>1 DEF IInv, Types
    <3>4. DOMAIN own[d] = 1 .. Len(own[d])
      BY <3>3
    <3> QED
      BY <3>2, <3>4 DEF Descending
  <2>2. ASSUME NEW i \in DOMAIN al
        PROVE  \/ al[i].kind = "own" /\ al[i].parts = (IF i \in maps THEN OwnParts ELSE {})
               \/ /\ al[i].kind = "ext" /\ al[i].parts \in {ExtParts, {}}
                  /\ i \in ToSet(ext[al[i].dev])
    BY <2>0, <2>2 DEF IInv, Parts, Whole
  <2> QED
    BY <2>1, <2>2, Zenon DEF BuffersAccounted
<1> QED
  BY <1>1, Invariant, PTL

\* A descriptor stays inside the buffer the look-up found, and the memory a waiting
\* process handed over is not freed under the hardware.
THEOREM DmaSafe == Spec => []DmaInsideLiveMemory
<1>1. IInv => DmaInsideLiveMemory
  <2> SUFFICES ASSUME IInv, NEW x \in pend
               PROVE  /\ x.off + x.len <= al[x.buf].size
                      /\ x.wait /\ al[x.buf].kind = "own" /\ al[x.buf].proc = x.proc
                           => al[x.buf].parts = OwnParts
    BY DEF DmaInsideLiveMemory
  <2>1. Inside(x)
    BY DEF IInv, Pend
  <2>2. Whole(x.buf)
    BY <2>1 DEF IInv, Parts, Inside
  <2> QED
    BY <2>1, <2>2 DEF Inside, Whole
<1> QED
  BY <1>1, Invariant, PTL

\* The driver touches memory it does not own only after one of the listed causes, and a
\* probe that failed leaves nothing behind but the two arrays of a tree in error.
THEOREM FaultsBounded == Spec => []OnlyKnownFaults
<1>1. IInv => OnlyKnownFaults
  BY DEF IInv
<1> QED
  BY <1>1, Invariant, PTL
=============================================================================
