----------------------------- MODULE HpackBlock -----------------------------
(***************************************************************************)
(* What hpack_decoder::decode makes of a header block, seen as a sequence  *)
(* of representations: each is decoded whole and in its turn, and a block  *)
(* that was cut inside a representation is an error, never a shorter one.  *)
(* Of a representation the code cannot hold (an integer beyond int, a      *)
(* Huffman string of padding only) nothing is promised.                    *)
(***************************************************************************)
EXTENDS HpackDecode

VARIABLES
  block,     \* representations not decoded yet
  decoder,   \* the decoding context, the headers so far, whether it threw
  phase      \* "decoding", "done", "thrown" or "undefined"

blockVars == <<block, decoder, phase>>

Representation == Literals \cup {"indexed", "resize", "cut", "unholdable"}

Init ==
  /\ \A i \in DOMAIN block : block[i].rep \in Representation
  /\ decoder = NewDecoder
  /\ phase = "decoding"

\* The representation that is next is of one of these kinds.
NextIs(kinds) == phase = "decoding" /\ block # <<>> /\ Head(block).rep \in kinds

Decode ==
  /\ NextIs(Literals \cup {"indexed", "resize"})
  /\ decoder' = DecodeNext(decoder, Head(block))
  /\ IF decoder'.thrown
       THEN phase' = "thrown" /\ UNCHANGED block
       ELSE block' = Tail(block) /\ UNCHANGED phase

ThrowCut ==
  /\ NextIs({"cut"})
  /\ decoder' = [decoder EXCEPT !.thrown = TRUE]
  /\ phase' = "thrown"
  /\ UNCHANGED block

LeaveDefined == NextIs({"unholdable"}) /\ phase' = "undefined"

End == /\ phase = "decoding"
       /\ block = <<>>
       /\ phase' = "done"
       /\ UNCHANGED <<block, decoder>>

\* Nothing is said of the steps after undefined behaviour.
Anything == phase = "undefined" /\ phase' = "undefined"

Next == Decode \/ ThrowCut \/ LeaveDefined \/ End \/ Anything

Spec == Init /\ [][Next]_blockVars

=============================================================================
