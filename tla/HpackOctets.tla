---------------------------- MODULE HpackOctets -----------------------------
(***************************************************************************)
(* HPACK in octets: hpack_encoder (hpack_encoder.h), which writes the      *)
(* block of the request, and hpack_decoder with its integers and strings   *)
(* (hpack_decoder.cc) over buffer_view (buffer_view.h), which reads a      *)
(* block from any RFC 7541 encoder, complete or cut at any octet.          *)
(*                                                                         *)
(* A std::size_t above the largest int is written as the negative number   *)
(* it is congruent to; Below compares two of them as unsigned numbers.     *)
(***************************************************************************)
EXTENDS Rfc7541Octets

CONSTANTS
  StaticTable,     \* the static table, its strings as octets
  DefaultMaxSize,  \* of the dynamic table
  Items,           \* representations in use, with their encodings
  Requests,        \* header lists the client may send
  MaxItems,        \* bound on the representations of a block
  Overflowed,      \* ints that an integer beyond int may turn into
  MaxCut           \* blocks of up to so many octets are cut at every octet

Lengths == [s \in Text |-> Len(s)]

ASSUME HeadersAssumption == /\ StaticTable \in Seq([name : Text, value : Text])
                            /\ DefaultMaxSize \in Nat
ASSUME ItemsAssumption == \A item \in Items : IsItem(item)
ASSUME RequestsAssumption ==
         \A headers \in Requests : headers \in Seq([name : Strings, value : Strings])
ASSUME BoundsAssumption == MaxItems \in Nat /\ MaxCut \in Nat
ASSUME OverflowedAssumption == Overflowed # {} /\ Overflowed \subseteq Int

Table == INSTANCE HpackTable WITH
           Names <- Text, Values <- Text, NameSize <- Lengths, ValueSize <- Lengths

VARIABLES
  writer,      \* who wrote the block: "peer" or "hpack_encoder"
  sent,        \* the representations it consists of
  starts,      \* the offset at which each of them starts
  octets,      \* the block
  decode_pos,  \* decode_pos_
  decoder,     \* the decoding context and the header list
  phase        \* "decoding", "done" or "thrown"

vars == <<writer, sent, starts, octets, decode_pos, decoder, phase>>

-----------------------------------------------------------------------------
\* buffer_view over the block.

Below(a, b) == IF (a < 0) = (b < 0) THEN a < b ELSE b < 0

InView(offset) == Below(offset, Len(octets))

test_range(offset) == ~ Below(Len(octets), offset + 1)

\* Mutant of SubviewFits: the end is not checked for having wrapped around.
SubviewFitsUnwrapped(offset, length) == ~ Below(Len(octets), offset + length)

SubviewFits(offset, length) ==
  LET end == offset + length
  IN  ~ Below(end, offset) /\ ~ Below(Len(octets), end)

-----------------------------------------------------------------------------
\* Integers and strings: what was parsed and the octets it took, or Thrown.

Thrown == [outcome |-> "thrown"]
Parsed(v, n) == [outcome |-> "parsed", value |-> v, size |-> n]

IntMax == 2147483647

\* The sum of mask and the first digits of the continuation, seven bits each,
\* lowest first; no number once a digit does not fit into an int.
Sums(mask, digits) ==
  LET Digit(i) == digits[i] % 128
      Fits(v, i) == Digit(i) = 0 \/ (i <= 5 /\ Digit(i) <= (IntMax - v) \div 128^(i - 1))
      sum[i \in 0 .. Len(digits)] ==
        IF i = 0 THEN {mask}
        ELSE {v + IF Digit(i) = 0 THEN 0 ELSE Digit(i) * 128^(i - 1) :
                v \in {w \in sum[i - 1] : Fits(w, i)}}
  IN  sum

Accumulated(mask, digits, junk) ==
  LET sum == Sums(mask, digits)[Len(digits)]
  IN  IF sum = {} THEN junk ELSE CHOOSE v \in sum : TRUE

\* The prefix of n bits at offset and, when it is full, its continuation up to
\* the first octet below 128; at() throws at the end of the block.
parse_integer_representation(offset, n, junk) ==
  LET mask == 2^n - 1
      first == octets[offset + 1] % 2^n
      last == {k \in 1 .. Len(octets) - offset - 1 : octets[offset + 1 + k] < 128}
  IN  IF ~ InView(offset) THEN Thrown
      ELSE IF first < mask THEN Parsed(first, 1)
      ELSE IF last = {} THEN Thrown
      ELSE Parsed(Accumulated(mask, SubSeq(octets, offset + 2, offset + 1 + Min(last)), junk),
                  1 + Min(last))

\* A string that is empty, cut or not valid Huffman code throws.
parse_string_literal_representation(offset, junk) ==
  LET len == parse_integer_representation(offset, 7, junk)
      start == offset + len.size
      data == SubSeq(octets, start + 1, start + len.value)
  IN  IF ~ InView(offset) \/ len.outcome = "thrown" THEN Thrown
      ELSE IF len.value = 0 \/ ~ SubviewFits(start, len.value) THEN Thrown
      ELSE IF octets[offset + 1] < 128 THEN Parsed(data, len.size + len.value)
      ELSE IF data \in DOMAIN HuffmanText THEN Parsed(HuffmanText[data], len.size + len.value)
      ELSE Thrown

-----------------------------------------------------------------------------
\* hpack_decoder.

\* A header and the offset behind it.
Fetched(h, pos) == [outcome |-> "header", header |-> h, pos |-> pos]

\* Mutant of fetch_header: the value is read where the name is.
FetchValueAtName(table, index, pos, junk) ==
  LET name == parse_string_literal_representation(pos, junk)
  IN  IF index # 0 \/ name.outcome = "thrown" THEN Thrown
      ELSE Fetched([name |-> name.value, value |-> name.value], pos + 2 * name.size)

\* The name is looked up, or read when the index is 0; then the value is read.
fetch_header(table, index, pos, junk) ==
  LET indexed == Table!hpack_table_at(table, index)
      name == parse_string_literal_representation(pos, junk)
      valuePos == IF index # 0 THEN pos ELSE pos + name.size
      value == parse_string_literal_representation(valuePos, junk)
  IN  IF IF index # 0 THEN indexed.outcome # "header" ELSE name.outcome = "thrown"
        THEN Thrown
      ELSE IF value.outcome = "thrown" THEN Thrown
      ELSE Fetched([name |-> IF index # 0 THEN indexed.header.name ELSE name.value,
                    value |-> value.value],
                   valuePos + value.size)

\* The representation that the top bits of an octet announce, and the number of
\* bits they leave to the integer.
Announced(top) ==
  CASE top \in 128 .. 255 -> [rep |-> "indexed", bits |-> 7]
    [] top \in 64 .. 127 -> [rep |-> "incremental", bits |-> 6]
    [] top \in 32 .. 63 -> [rep |-> "resize", bits |-> 5]
    [] top \in 16 .. 31 -> [rep |-> "never", bits |-> 4]
    [] top \in 0 .. 15 -> [rep |-> "without", bits |-> 4]

\* Mutant of AsSize: the maximum is kept in an int.
AsSizeSigned(n) == n

\* A size below 0 is a std::size_t above every size of the table.
AsSize(n) == IF n < 0 THEN IntMax ELSE n

AddHeader(result) ==
  decoder' = [decoder EXCEPT
                !.headers = IF result.outcome = "header" THEN Append(@, result.header) ELSE @,
                !.thrown = (result.outcome = "thrown")]

\* What a representation does once its integer is parsed: it throws, or the
\* position moves behind it.
Apply(rep, integer, junk) ==
  LET pos == decode_pos + integer.size
      found == Table!hpack_table_at(decoder.table, integer.value)
      fetched == fetch_header(decoder.table, integer.value, pos, junk)
  IN  CASE rep = "indexed" ->
             /\ AddHeader(found)
             /\ decode_pos' = IF found.outcome = "thrown" THEN decode_pos ELSE pos
        [] rep = "resize" ->
             /\ decoder' = [decoder EXCEPT !.table =
                              Table!set_maximum_table_size(@, AsSize(integer.value))]
             /\ decode_pos' = pos
        [] OTHER ->
             IF fetched.outcome = "thrown"
               THEN AddHeader(fetched) /\ UNCHANGED decode_pos
               ELSE /\ decoder' = [decoder EXCEPT
                                     !.headers = Append(@, fetched.header),
                                     !.table = IF rep = "incremental"
                                                 THEN Table!add(@, fetched.header) ELSE @]
                    /\ decode_pos' = fetched.pos

\* One turn of decode()'s loop.  What an exception leaves of decode_pos_ is not
\* read again; here it stays.
DecodeRepresentation ==
  /\ phase = "decoding"
  /\ test_range(decode_pos)
  /\ UNCHANGED <<writer, sent, starts, octets>>
  /\ \E junk \in Overflowed :
       LET kind == Announced(octets[decode_pos + 1])
           integer == parse_integer_representation(decode_pos, kind.bits, junk)
       IN  IF integer.outcome = "thrown"
             THEN AddHeader(Thrown) /\ UNCHANGED decode_pos
             ELSE Apply(kind.rep, integer, junk)
  /\ phase' = IF decoder'.thrown THEN "thrown" ELSE phase

DecodeEnd ==
  /\ phase = "decoding"
  /\ ~ test_range(decode_pos)
  /\ phase' = "done"
  /\ UNCHANGED <<writer, sent, starts, octets, decode_pos, decoder>>

-----------------------------------------------------------------------------
\* hpack_encoder.

\* Mutant of encode_integer: the prefix is not taken off the continuation.
EncodeIntegerUnreduced(src, i, n) ==
  IF i < 2^n - 1 THEN <<src + i>> ELSE <<src + 2^n - 1, (i % 128) + 128, i \div 128>>

encode_integer(src, i, n) ==
  LET mask == 2^n - 1
      high == (src \div 2^n) * 2^n
      Rest[v \in 0 .. i] == IF v >= 128
                              THEN <<(v % 128) + 128>> \o Rest[v \div 128] ELSE <<v>>
  IN  IF i < mask THEN <<high + i>> ELSE <<high + mask>> \o Rest[i - mask]

encode_header(h) ==
  <<0>> \o encode_integer(0, Len(h.name), 7) \o h.name
        \o encode_integer(0, Len(h.value), 7) \o h.value

encode(headers) == FlattenSeq([i \in 1 .. Len(headers) |-> encode_header(headers[i])])

-----------------------------------------------------------------------------
StartsOf(parts) == [i \in 1 .. Len(parts) |-> Len(FlattenSeq(SubSeq(parts, 1, i - 1)))]

\* The first cut octets of a block: the representation that the cut falls into
\* is a cut one, unless nothing can be said of it anyway; those behind it are
\* not sent.
PeerBlock ==
  \E n \in 1 .. MaxItems : \E items \in [1 .. n -> Items] :
    LET parts == [i \in 1 .. n |-> RfcOctets(items[i])]
        all == FlattenSeq(parts)
        begin == StartsOf(parts)
    IN  \E cut \in {Len(all)} \cup IF Len(all) <= MaxCut THEN 1 .. Len(all) ELSE {} :
          LET begun == Max({i \in 1 .. n : begin[i] < cut})
              whole == cut = begin[begun] + Len(parts[begun])
          IN  /\ octets = SubSeq(all, 1, cut)
              /\ starts = SubSeq(begin, 1, begun)
              /\ sent = [i \in 1 .. begun |->
                           IF i < begun \/ whole \/ items[i].rep.rep = "unholdable"
                             THEN items[i].rep ELSE [rep |-> "cut"]]
              /\ writer = "peer"

\* The block that send_http2_headers sends for a request.
RequestBlock ==
  \E headers \in Requests :
    /\ octets = encode(headers)
    /\ sent = [i \in 1 .. Len(headers) |->
                 [rep |-> "without", index |-> 0,
                  name |-> headers[i].name, value |-> headers[i].value]]
    /\ starts = StartsOf([i \in 1 .. Len(headers) |-> encode_header(headers[i])])
    /\ writer = "hpack_encoder"

Init ==
  /\ PeerBlock \/ RequestBlock
  /\ decode_pos = 0
  /\ decoder = [table |-> Table!EmptyTable, headers |-> <<>>, thrown |-> FALSE]
  /\ phase = "decoding"

Terminated == phase # "decoding" /\ UNCHANGED vars

Next == DecodeRepresentation \/ DecodeEnd \/ Terminated

Spec == Init /\ [][Next]_vars

-----------------------------------------------------------------------------
\* The block and its outline, the position within it, the context and the list.
TypeOK ==
  /\ writer \in {"peer", "hpack_encoder"}
  /\ octets \in Text
  /\ Len(starts) = Len(sent)
  /\ decode_pos \in 0 .. Len(octets)
  /\ decoder.table \in Table!Tables
  /\ decoder.headers \in Seq(Table!Headers)
  /\ phase = IF decoder.thrown THEN "thrown" ELSE IF phase = "done" THEN phase ELSE "decoding"

\* hpack_encoder writes what RFC 7541, 5.1, 5.2 and 6.2.2, asks for, around the
\* lengths at which an integer grows by an octet (hpack_encoder.h:10-54).
EncodedAsRfc ==
  writer = "hpack_encoder" =>
    octets = FlattenSeq([i \in 1 .. Len(sent) |->
                       RfcOctets([rep |-> sent[i], pad |-> 0, huffman |-> FALSE])])

\* Whatever the block holds, also integers that overflow, each turn of the loop
\* that does not end it moves forward and stays within the block: decode() ends
\* and never goes over an octet twice (hpack_decoder.cc:83-93, buffer_view.h).
Advances ==
  [][phase' = "decoding" => decode_pos' > decode_pos /\ decode_pos' <= Len(octets)]_vars

\* The number of representations that the decoder has begun.
Begun == Cardinality({i \in 1 .. Len(starts) : starts[i] < decode_pos})

Undefined ==
  \E i \in 1 .. Begun + (IF phase = "thrown" THEN 1 ELSE 0) :
    i <= Len(sent) /\ sent[i].rep = "unholdable"

Block == INSTANCE HpackBlock WITH
           Names <- Text, Values <- Text, NameSize <- Lengths, ValueSize <- Lengths,
           block <- SubSeq(sent, Begun + 1, Len(sent)),
           decoder <- decoder,
           phase <- IF Undefined THEN "undefined" ELSE phase

\* The decoder of octets implements the decoder of representations: at every
\* step it has decoded exactly the representations that lie before its position,
\* however their integers and strings were written, and a cut representation
\* throws (hpack_decoder.cc:12-64 and 98-180).
DecodesBlock == Block!Spec

=============================================================================
