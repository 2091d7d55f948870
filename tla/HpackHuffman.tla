---------------------------- MODULE HpackHuffman ----------------------------
(***************************************************************************)
(* hpack_huffman.cc: the tree that is built from the code table before     *)
(* main() starts, and decode_huffman, which walks the tree bit by bit.     *)
(* The table itself is in module HuffmanCodes.                             *)
(*                                                                         *)
(* A node is named by the number whose binary digits are a 1 and the bits  *)
(* on the way from the root to it: the root is 1, and the children of n    *)
(* are 2n (left, bit 0) and 2n+1 (right, bit 1).                           *)
(***************************************************************************)
EXTENDS Integers, Sequences, SequencesExt

CONSTANTS
  Codes,   \* len and bits of each symbol, from 0 to EOS
  Texts    \* the strings a peer may send, as sequences of symbols

EOS == 256

\* The bits of a code from its first to bit i, as a number.
Start(code, i) == code[2] \div 2^(code[1] - i)

\* The table is a canonical prefix code: codes are in order of length and, among
\* equals, of symbol, and none is the start of another.  It is complete: beside
\* every start of a code there is the start of one that ends in the other bit.
\* EOS has ones only, more of them than padding can have.
ASSUME CodesAssumption ==
  /\ Codes \in [1 .. EOS + 1 -> (1 .. 30) \X Nat]
  /\ \A a \in 1 .. EOS + 1 : Codes[a][2] < 2^Codes[a][1]
  /\ \A a, b \in 1 .. EOS + 1 :
       /\ Codes[a][1] = Codes[b][1] /\ a < b => Codes[a][2] < Codes[b][2]
       /\ Codes[a][1] < Codes[b][1] => Codes[a][2] < Start(Codes[b], Codes[a][1])
  /\ \A a \in 1 .. EOS + 1 : \A i \in 1 .. Codes[a][1] :
       \E b \in 1 .. EOS + 1 :
         /\ i <= Codes[b][1]
         /\ Start(Codes[a], i) \div 2 = Start(Codes[b], i) \div 2
         /\ Start(Codes[a], i) # Start(Codes[b], i)
  /\ Codes[EOS + 1][1] >= 8
  /\ Codes[EOS + 1][2] = 2^Codes[EOS + 1][1] - 1

ASSUME TextsAssumption == Texts \subseteq Seq(0 .. EOS)

VARIABLES
  pc,       \* "building", "idle", "decoding", "done" or "thrown"
  next,     \* the index i of create_huffman_tree
  nodes,    \* the tree's nodes
  values,   \* the value of each node that has one
  text,     \* what the peer encoded
  input,    \* the bits of the octets handed to decode_huffman
  offset, node, decoded

tree == <<nodes, values>>
vars == <<pc, next, tree, text, input, offset, node, decoded>>

-----------------------------------------------------------------------------
\* insert_code.

\* Mutant of NodeAt: the bits are shifted one place too far.
NodeAtShifted(code, i) == 2^i + (code[2] \div 2^(code[1] - i + 1))

\* The node that the first i bits of a code lead to.
NodeAt(code, i) == 2^i + Start(code, i)

\* A child would be added to a node that has a value: "incorrect code.".
Incorrect(code) ==
  \E i \in 1 .. code[1] :
    NodeAt(code, i) \notin nodes /\ NodeAt(code, i - 1) \in DOMAIN values

insert_code ==
  LET code == Codes[next + 1]
  IN  /\ pc = "building"
      /\ UNCHANGED <<text, input, offset, node, decoded>>
      /\ IF Incorrect(code)
           THEN pc' = "thrown" /\ UNCHANGED <<next, tree>>
           ELSE /\ nodes' = nodes \cup {NodeAt(code, i) : i \in 1 .. code[1]}
                /\ values' = [n \in DOMAIN values \cup {NodeAt(code, code[1])} |->
                                IF n = NodeAt(code, code[1]) THEN next ELSE values[n]]
                /\ next' = next + 1
                /\ pc' = IF next' = Len(Codes) THEN "idle" ELSE pc

-----------------------------------------------------------------------------
\* The peer: the codes of the symbols, filled up with ones to a whole octet.

CodeBits(symbol) ==
  LET code == Codes[symbol + 1]
  IN  [i \in 1 .. code[1] |-> Start(code, i) % 2]

TextBits(s) == FlattenSeq([i \in 1 .. Len(s) |-> CodeBits(s[i])])

Encoded(s) == TextBits(s) \o [i \in 1 .. (8 - (Len(TextBits(s)) % 8)) % 8 |-> 1]

Send(s) ==
  /\ pc = "idle"
  /\ text' = s
  /\ input' = Encoded(s)
  /\ pc' = "decoding"
  /\ UNCHANGED <<next, tree, offset, node, decoded>>

-----------------------------------------------------------------------------
\* decode_huffman.

\* Mutant of FetchedBit: the octets are read from their lowest bit.
FetchedBitLowFirst == input[8 * (offset \div 8) + 8 - (offset % 8)]

FetchedBit == input[offset + 1]

Child(n, bit) == 2 * n + bit

\* Mutant of Found: the walk does not go back to the root.
FoundWithoutReset(n) ==
  /\ decoded' = Append(decoded, values[n])
  /\ node' = n
  /\ offset' = offset + 1
  /\ UNCHANGED pc

\* A node with a value ends a symbol; EOS ends the loop at once.
Found(n) ==
  IF values[n] = EOS
    THEN pc' = "done" /\ node' = n /\ UNCHANGED <<decoded, offset>>
    ELSE /\ decoded' = Append(decoded, values[n])
         /\ node' = 1
         /\ offset' = offset + 1
         /\ UNCHANGED pc

\* One turn of the loop.
WalkBit ==
  LET child == Child(node, FetchedBit)
  IN  /\ pc = "decoding"
      /\ offset < Len(input)
      /\ UNCHANGED <<next, tree, text, input>>
      /\ IF child \notin nodes
           THEN pc' = "thrown" /\ UNCHANGED <<offset, node, decoded>>
         ELSE IF child \in DOMAIN values
           THEN Found(child)
         ELSE node' = child /\ offset' = offset + 1 /\ UNCHANGED <<pc, decoded>>

\* Bits left over after the last symbol are padding, whatever they are.
InputEnds ==
  /\ pc = "decoding"
  /\ offset = Len(input)
  /\ pc' = "done"
  /\ UNCHANGED <<next, tree, text, input, offset, node, decoded>>

Terminated == pc \in {"done", "thrown"} /\ UNCHANGED vars

Init ==
  /\ pc = "building"
  /\ next = 0
  /\ nodes = {1} /\ values = <<>>
  /\ text = <<>> /\ input = <<>>
  /\ offset = 0 /\ node = 1 /\ decoded = <<>>

Next == insert_code \/ (\E s \in Texts : Send(s)) \/ WalkBit \/ InputEnds \/ Terminated

Spec == Init /\ [][Next]_vars

-----------------------------------------------------------------------------
\* The number of bits on the way from the root to n.
Depth(n) == CHOOSE d \in 0 .. 30 : n \div 2^d = 1

\* The table is the canonical, complete prefix code that RFC 7541, 5.2 and
\* appendix B, describes: once built, every node without a value has both its
\* children, so that no walk can fail; every symbol has a leaf; and the codes
\* are in order of length and, among equals, of symbol, so that a wrong digit
\* anywhere in the 257 codes shows (hpack_huffman.cc:18-276).
CanonicalTree ==
  pc = "idle" =>
    /\ \A n \in nodes \ DOMAIN values : {2 * n, 2 * n + 1} \subseteq nodes
    /\ {values[n] : n \in DOMAIN values} = 0 .. EOS
    /\ LET depth == [n \in DOMAIN values |-> Depth(n)]
       IN  \A m, n \in DOMAIN values :
             m < n => /\ depth[m] = depth[n] => values[m] < values[n]
                      /\ depth[m] < depth[n] => m < n \div 2^(depth[n] - depth[m])

\* The symbols decoded so far and the walk in progress account for every bit
\* that was read, none skipped and none used twice (decode_huffman's loop), and
\* the walk is always at a node from which it can go on.
BitsAccounted ==
  pc = "decoding" =>
    /\ node \in nodes \ DOMAIN values
    /\ LET walked == [i \in 1 .. Depth(node) |-> (node \div 2^(Depth(node) - i)) % 2]
       IN  TextBits(decoded) \o walked = SubSeq(input, 1, offset)

\* The string that was encoded is decoded, up to EOS if that was sent; its
\* padding adds nothing and nothing is thrown.
TextRecovered ==
  /\ pc # "thrown"
  /\ IsPrefix(decoded, text)
  /\ pc = "done" =>
       \/ decoded = text
       \/ text[Len(decoded) + 1] = EOS

=============================================================================
