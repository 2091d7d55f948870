---------------------------- MODULE HpackDecode -----------------------------
(***************************************************************************)
(* hpack_decoder::decode (hpack_decoder.cc): a header block is decoded     *)
(* one representation at a time against a decoding context, whose only     *)
(* content is the dynamic table.                                           *)
(*                                                                         *)
(* A representation is one element of a block here; its octets are only    *)
(* counted where a property depends on them.  A name is its text without   *)
(* a leading colon together with whether it has one, because the static    *)
(* table of the code writes every name, pseudo-header or not, with one.    *)
(***************************************************************************)
EXTENDS HpackTable, SequencesExt

Literals == {"incremental", "without", "never"}

\* The five representations of RFC 7541, section 6.
Indexed(i) == [rep |-> "indexed", index |-> i]
LiteralIndexedName(kind, i, v) == [rep |-> kind, index |-> i, value |-> v]
LiteralNewName(kind, n, v) == [rep |-> kind, index |-> 0, name |-> n, value |-> v]
SizeUpdate(n) == [rep |-> "resize", size |-> n]

AllRepresentations ==
  [rep : {"indexed"}, index : Nat]
    \cup [rep : Literals, index : Nat \ {0}, value : Values]
    \cup [rep : Literals, index : {0}, name : Names, value : Values]
    \cup [rep : {"resize"}, size : Nat]

-----------------------------------------------------------------------------
\* decode_representation and what it calls.

\* parse_string_literal_representation takes the address of the first octet of
\* the string, plain or Huffman coded, and so throws when there is none.
StringParses(size) == size > 0

\* Mutant of fetch_header: a literal takes the whole table entry, not its name.
FetchWholeEntry(t, r) ==
  LET indexed == hpack_table_at(t, r.index)
  IN  IF r.index # 0 THEN indexed ELSE Found([name |-> r.name, value |-> r.value])

\* The name is looked up, or read when the index is 0; then the value is read.
fetch_header(t, r) ==
  LET indexed == hpack_table_at(t, r.index)
      named   == IF r.index # 0
                   THEN indexed.outcome = "header"
                   ELSE StringParses(NameSize[r.name])
      name    == IF r.index # 0 THEN indexed.header.name ELSE r.name
  IN  IF named /\ StringParses(ValueSize[r.value])
        THEN Found([name |-> name, value |-> r.value])
        ELSE Thrown

\* Mutant of decode_representation: a literal that is never indexed is indexed,
\* and a size update changes nothing.
DecodeIndexingAll(t, r) ==
  IF r.rep = "indexed" THEN [result |-> hpack_table_at(t, r.index), table |-> t]
  ELSE IF r.rep \in Literals
    THEN LET h == fetch_header(t, r)
         IN  [result |-> h,
              table |-> IF h.outcome = "header" THEN add(t, h.header) ELSE t]
  ELSE [result |-> Nullopt, table |-> t]

\* The header, std::nullopt or exception of one representation, and the table
\* it leaves behind.
decode_representation(t, r) ==
  CASE r.rep = "indexed" -> [result |-> hpack_table_at(t, r.index), table |-> t]
    [] r.rep \in Literals ->
         LET h == fetch_header(t, r)
         IN  [result |-> h,
              table |-> IF r.rep = "incremental" /\ h.outcome = "header"
                          THEN add(t, h.header) ELSE t]
    [] r.rep = "resize" ->
         [result |-> Nullopt, table |-> set_maximum_table_size(t, r.size)]

\* A fresh decoding context and an empty header list.
NewDecoder == [table |-> EmptyTable, headers |-> <<>>, thrown |-> FALSE]

\* One turn of decode()'s loop: std::nullopt adds nothing and is no error.
DecodeNext(d, r) ==
  LET one == decode_representation(d.table, r)
  IN  [table   |-> one.table,
       headers |-> IF one.result.outcome = "header"
                     THEN Append(d.headers, one.result.header) ELSE d.headers,
       thrown  |-> one.result.outcome = "thrown"]

\* The loop.  after[i] holds the one decoder there is after i representations;
\* as a set, so that TLC computes it once and not at each mention.
decode(block) ==
  LET after[i \in 0 .. Len(block)] ==
        IF i = 0
          THEN {NewDecoder}
          ELSE {IF d.thrown THEN d ELSE DecodeNext(d, block[i]) : d \in after[i - 1]}
  IN  CHOOSE d \in after[Len(block)] : TRUE

\* httpv2.cc's convert_header_name drops the colon; its change of case loses
\* nothing, since HTTP/2 names are lower case.
convert_header_name(n) == [colon |-> FALSE, base |-> n.base]

=============================================================================
