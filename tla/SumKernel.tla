------------------------------ MODULE SumKernel ------------------------------
(***************************************************************************)
(* The HLS core sum_330, which adds up a stream of words, and the sums the *)
(* test program computes in software (axidma_transfer.c) to compare with.  *)
(* A word of the stream has its data and the side channel's last bit.      *)
(***************************************************************************)
EXTENDS Naturals, SequencesExt

CONSTANTS
  N,       \* words per sum (330 in the code)
  Modulus  \* 2^w for words of w bits (32 in the code)

ASSUME KernelAssumption == N \in Nat \ {0} /\ Modulus \in Nat \ {0}

\* The core's locals at the start of a call of sum_330.
Fresh == [cnt |-> 0, sum |-> 0]

\* Mistake: the sum is not reset with the count.
sum_330_KeepsSum(ip, word) ==
  LET sum == (ip.sum + word.data) % Modulus
      ends == word.last \/ ip.cnt + 1 = N
  IN  [ip  |-> IF ends THEN [cnt |-> 0, sum |-> sum] ELSE [cnt |-> ip.cnt + 1, sum |-> sum],
       out |-> IF ends THEN <<[data |-> sum, last |-> word.last]>> ELSE <<>>]

\* One round of the loop of sum_330: the N-th word or a last word ends a sum, which
\* is written with last set exactly if the word had it.
sum_330(ip, word) ==
  LET sum == (ip.sum + word.data) % Modulus
      ends == word.last \/ ip.cnt + 1 = N
  IN  [ip  |-> IF ends THEN Fresh ELSE [cnt |-> ip.cnt + 1, sum |-> sum],
       out |-> IF ends THEN <<[data |-> sum, last |-> word.last]>> ELSE <<>>]

\* sum_buffer: the words from index start up to, not including, end.
sum_buffer(buffer, start, end) ==
  FoldLeft(LAMBDA ret, w : (ret + w) % Modulus, 0, SubSeq(buffer, start + 1, end))

\* calc_output: a sum for each N words and one for the rest, if there is one.
calc_output(buffer) ==
  LET j == Len(buffer) \div N
      r == Len(buffer) % N
  IN  [i \in 1 .. j |-> sum_buffer(buffer, N * (i - 1), N * i)]
      \o (IF r # 0 THEN <<sum_buffer(buffer, N * j, N * j + r)>> ELSE <<>>)
=============================================================================
