---------------------------- MODULE SequenceSums ----------------------------
(***************************************************************************)
(* Sums over sequences of natural numbers.  The dynamic table adds up the  *)
(* sizes of its entries and flow control adds up the octets in flight;     *)
(* both are stated with SumSeq, which is written as a recursive function   *)
(* so that theorems can be proved about it (module SequenceSums_proofs).   *)
(***************************************************************************)
EXTENDS Integers, Sequences

\* PartialSums(s)[i] is the sum of the first i elements of s.
PartialSums(s) ==
  LET sum[i \in 0 .. Len(s)] == IF i = 0 THEN 0 ELSE sum[i - 1] + s[i]
  IN  sum

SumSeq(s) == PartialSums(s)[Len(s)]

=============================================================================
