--------------------------- MODULE MCHpackOctets ----------------------------
(***************************************************************************)
(* A static table of the real length with strings of its own, strings at   *)
(* the lengths where a length grows by an octet, indices and sizes at the  *)
(* limits of their prefixes (15, 31, 63, 127), 0, at the sentinel of the   *)
(* static table and behind the tables, zero digits, Huffman codes of RFC   *)
(* 7541, C.6, and integers beyond int.                                     *)
(***************************************************************************)
EXTENDS HpackOctets, TLC

MCStaticTable == [i \in 1 .. 61 |-> [name |-> <<58, i>>, value |-> <<i>>]]

\* "302", "307" and eight bits of padding.
MCHuffmanText == <<100, 2>> :> <<51, 48, 50>> @@ <<100, 14, 255>> :> <<51, 48, 55>>
                   @@ <<255>> :> <<>>

Str(n) == [i \in 1 .. n |-> 48 + (i % 10)]

Item(r) == [rep |-> r, pad |-> 0, huffman |-> FALSE]
Padded(r) == [rep |-> r, pad |-> 2, huffman |-> FALSE]
Huffman(r) == [rep |-> r, pad |-> 0, huffman |-> TRUE]

Idx(i) == [rep |-> "indexed", index |-> i]
Named(kind, i, v) == [rep |-> kind, index |-> i, value |-> v]
New(kind, n, v) == [rep |-> kind, index |-> 0, name |-> n, value |-> v]
Resize(n) == [rep |-> "resize", size |-> n]
Raw(s) == [rep |-> "unholdable", octets |-> s]

MCItems ==
  {Item(Idx(i)) : i \in {0, 2, 61, 62, 63, 127}} \cup {Padded(Idx(200))}
  \cup {Item(New("incremental", Str(2), Str(1))), Item(Named("incremental", 63, Str(2))),
        Item(New("without", Str(1), Str(126))), Item(New("without", Str(127), Str(1))),
        Item(New("incremental", Str(1), Str(128))), Item(New("never", Str(1), Str(255))),
        Item(Named("without", 14, Str(1))), Item(Named("without", 15, Str(1))),
        Item(Named("never", 16, Str(3))), Padded(Named("never", 15, Str(127))),
        Item(New("never", Str(1), <<>>)),
        Huffman(New("incremental", <<51, 48, 50>>, <<51, 48, 55>>)),
        Huffman(Named("without", 8, <<51, 48, 55>>))}
  \cup {Item(Resize(n)) : n \in {0, 30, 31, 100}} \cup {Padded(Resize(160))}
  \cup {Item(Raw(s)) :
          s \in {<<255, 255, 255, 255, 255, 127>>,             \* an index
                 <<63, 255, 255, 255, 255, 255, 1>>,           \* a size
                 <<0, 127, 129, 255, 255, 255, 15, 97, 1, 97>>,  \* the length of a name
                 <<16, 1, 97, 255, 255, 255, 255, 255, 7, 100, 2>>,  \* of a value
                 <<16, 1, 97, 127, 255, 255, 255, 255, 7, 97>>,
                 <<64, 1, 97, 129, 255>>}}                     \* padding only

\* As a std::size_t the negative ones are above every length.
MCOverflowed == {-1, -9, 0, 2, 130}

MCRequests ==
  {<<[name |-> Str(a), value |-> Str(b)], [name |-> Str(c), value |-> Str(1)]>> :
     a \in {1, 126, 127}, b \in {1, 127, 128, 254, 255, 256}, c \in {1, 300}}

=============================================================================
