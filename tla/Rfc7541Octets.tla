--------------------------- MODULE Rfc7541Octets ----------------------------
(***************************************************************************)
(* The octets in which an RFC 7541 encoder may write a representation      *)
(* (5.1, 5.2 and section 6).  It is free to write strings in Huffman code  *)
(* and to put zero digits behind the last digit of a continued integer.    *)
(***************************************************************************)
EXTENDS Integers, Sequences, SequencesExt, FiniteSetsExt

CONSTANT HuffmanText  \* code octets -> text, for those decode_huffman accepts

Octet == 0 .. 255
Text == Seq(Octet)

\* Numbers of up to four digits of seven bits: a frame, and so what can be sent
\* in it or referred to, is shorter than 2^24.
Numbers == 0 .. 128^4 - 1
Strings == {s \in Text : Len(s) \in Numbers}

Literals == {"incremental", "without", "never"}

\* The representations of RFC 7541, section 6.
IsRepresentation(r) ==
  \/ r \in [rep : {"indexed"}, index : Numbers]
  \/ r \in [rep : Literals, index : 1 .. 128^4 - 1, value : Strings]
  \/ r \in [rep : Literals, index : {0}, name : Strings, value : Strings]
  \/ r \in [rep : {"resize"}, size : Numbers]

ASSUME HuffmanAssumption ==
  \A c \in DOMAIN HuffmanText : c \in Strings \ {<<>>} /\ HuffmanText[c] \in Text

\* What has a Huffman code.
Coded == {HuffmanText[c] : c \in DOMAIN HuffmanText} \ {<<>>}

\* k digits of seven bits, lowest first, and pad zero digits; all but the last
\* are marked as continued.
Digits(v, k, pad) ==
  [j \in 1 .. k + pad |-> (IF j <= k THEN (v \div 128^(j - 1)) % 128 ELSE 0)
                            + IF j < k + pad THEN 128 ELSE 0]

\* i behind the 8 - n top bits of an octet, with pad digits more than it needs.
RfcInteger(top, n, i, pad) ==
  LET mask == 2^n - 1
  IN  IF i < mask
        THEN <<top + i>>
        ELSE <<top + mask>> \o Digits(i - mask, Min({k \in 1 .. 4 : i - mask < 128^k}), pad)

RfcString(s, item) ==
  LET code == CHOOSE c \in DOMAIN HuffmanText : HuffmanText[c] = s
  IN  IF item.huffman
        THEN RfcInteger(128, 7, Len(code), item.pad) \o code
        ELSE RfcInteger(0, 7, Len(s), item.pad) \o s

RfcLiteral(top, n, item) ==
  RfcInteger(top, n, item.rep.index, item.pad)
    \o (IF item.rep.index = 0 THEN RfcString(item.rep.name, item) ELSE <<>>)
    \o RfcString(item.rep.value, item)

\* An item is a representation, or octets that stand for one the code cannot
\* hold, and the choices made for it: huffman and pad.
IsItem(item) ==
  /\ item.pad \in Nat
  /\ item.huffman \in BOOLEAN
  /\ \/ IsRepresentation(item.rep)
     \/ item.rep \in [rep : {"unholdable"}, octets : Text \ {<<>>}]
  /\ item.huffman /\ item.rep.rep \in Literals =>
       /\ item.rep.value \in Coded
       /\ item.rep.index = 0 => item.rep.name \in Coded

RfcOctets(item) ==
  CASE item.rep.rep = "indexed" -> RfcInteger(128, 7, item.rep.index, item.pad)
    [] item.rep.rep = "incremental" -> RfcLiteral(64, 6, item)
    [] item.rep.rep = "resize" -> RfcInteger(32, 5, item.rep.size, item.pad)
    [] item.rep.rep = "never" -> RfcLiteral(16, 4, item)
    [] item.rep.rep = "without" -> RfcLiteral(0, 4, item)
    [] item.rep.rep = "unholdable" -> item.rep.octets

=============================================================================
