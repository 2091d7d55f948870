--------------------------- MODULE MCHpackHuffman ---------------------------
(***************************************************************************)
(* Every symbol at the start of an octet and, behind the five bits of "0", *)
(* within one, so that all lengths of padding occur; and a string that EOS *)
(* breaks off.                                                             *)
(***************************************************************************)
EXTENDS HpackHuffman, HuffmanCodes

Zero == 48   \* the character 0, whose code has five bits

MCTexts == {<<a>> : a \in 0 .. EOS - 1} \cup {<<Zero, a>> : a \in 0 .. EOS - 1}
             \cup {<<Zero, EOS, Zero>>}

=============================================================================
