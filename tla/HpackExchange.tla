--------------------------- MODULE HpackExchange ----------------------------
(***************************************************************************)
(* One header block from an RFC 7541 encoder to hpack_decoder.  The server *)
(* is free to choose any legal representation of each header it sends; it  *)
(* keeps the dynamic table of the RFC (rows, limit), the client the table  *)
(* of the code.  The block is decoded once it is complete, in one context, *)
(* as httpv2::get does.                                                    *)
(***************************************************************************)
EXTENDS HpackDecode

CONSTANTS
  Pseudo,      \* bases of the pseudo-headers, whose real names have a colon
  Sendable,    \* the headers the server may send
  Encodings,   \* pairs <<representation, table the name comes from>> in use
  MaxHeaders,  \* bound on the headers of the block
  MaxSizes     \* sizes a size update may ask for, none above DefaultMaxSize

ASSUME BoundsAssumption == MaxHeaders \in Nat
ASSUME MaxSizesAssumption == MaxSizes \subseteq 0 .. DefaultMaxSize
ASSUME EncodingsAssumption ==
  Encodings \subseteq ({"indexed"} \X {"static", "dynamic"})
                        \cup (Literals \X {"static", "dynamic", "new"})

VARIABLES
  phase,       \* "encoding", "decoding", "done" or "thrown"
  sent,        \* the headers the server encoded
  rows, limit, \* the server's dynamic table
  block,       \* representations not decoded yet
  decoder      \* the client's context and header list

vars == <<phase, sent, rows, limit, block, decoder>>

-----------------------------------------------------------------------------
\* The server (RFC 7541).

\* The header a static entry of the code stands for.
RfcHeader(h) ==
  [h EXCEPT !.name = [colon |-> h.name.base \in Pseudo, base |-> h.name.base]]

RfcHeaders == {RfcHeader(h) : h \in Headers}

ASSUME SendableAssumption == Sendable \subseteq Headers \cap RfcHeaders

ServerTable == INSTANCE Rfc7541Table WITH
                 Entry <- RfcHeaders, Size <- entry_size,
                 InitialLimit <- DefaultMaxSize, Limits <- MaxSizes

\* The indices, by table, at which the server finds a header.
StaticIndices(P(_)) == {i \in 1 .. Len(StaticTable) : P(RfcHeader(StaticTable[i]))}
DynamicIndices(P(_)) == {Len(StaticTable) + i : i \in {j \in 1 .. Len(rows) : P(rows[j])}}
IndicesIn(where, P(_)) ==
  IF where = "static" THEN StaticIndices(P) ELSE DynamicIndices(P)

\* Every legal way to represent h with an encoding in use.
Representations(h) ==
  UNION {LET kind == e[1] where == e[2]
         IN  IF kind = "indexed"
               THEN {Indexed(i) : i \in IndicesIn(where, LAMBDA x : x = h)}
             ELSE IF where = "new"
               THEN {LiteralNewName(kind, h.name, h.value)}
             ELSE {LiteralIndexedName(kind, i, h.value) :
                     i \in IndicesIn(where, LAMBDA x : x.name = h.name)}
         : e \in Encodings}

Encode(h, r) ==
  /\ phase = "encoding"
  /\ Len(sent) < MaxHeaders
  /\ r \in Representations(h)
  /\ sent' = Append(sent, h)
  /\ block' = Append(block, r)
  /\ IF r.rep = "incremental"
       THEN ServerTable!Insert(h)
       ELSE UNCHANGED <<rows, limit>>
  /\ UNCHANGED <<phase, decoder>>

\* A size update comes before the first header of a block.
EncodeSizeUpdate(n) ==
  /\ phase = "encoding"
  /\ block = <<>>
  /\ ServerTable!Resize(n)
  /\ block' = <<SizeUpdate(n)>>
  /\ UNCHANGED <<phase, sent, decoder>>

EndBlock ==
  /\ phase = "encoding"
  /\ sent # <<>>
  /\ phase' = "decoding"
  /\ UNCHANGED <<sent, rows, limit, block, decoder>>

-----------------------------------------------------------------------------
\* The client.

DecodeRepresentation ==
  /\ phase = "decoding"
  /\ block # <<>>
  /\ decoder' = DecodeNext(decoder, Head(block))
  /\ block' = Tail(block)
  /\ phase' = IF decoder'.thrown THEN "thrown" ELSE phase
  /\ UNCHANGED <<sent, rows, limit>>

DecodeEnd ==
  /\ phase = "decoding"
  /\ block = <<>>
  /\ phase' = "done"
  /\ UNCHANGED <<sent, rows, limit, block, decoder>>

Terminated ==
  /\ phase \in {"done", "thrown"}
  /\ UNCHANGED vars

Init == /\ phase = "encoding"
        /\ sent = <<>>
        /\ ServerTable!Init
        /\ block = <<>>
        /\ decoder = NewDecoder

Next == \/ \E h \in Sendable : \E r \in Representations(h) : Encode(h, r)
        \/ \E n \in MaxSizes : EncodeSizeUpdate(n)
        \/ EndBlock
        \/ DecodeRepresentation
        \/ DecodeEnd
        \/ Terminated

Spec == Init /\ [][Next]_vars

-----------------------------------------------------------------------------
\* The phases, the headers on both sides, the two tables and the block.
TypeOK ==
  /\ phase \in {"encoding", "decoding", "done", "thrown"}
  /\ sent \in Seq(Sendable) /\ Len(sent) <= MaxHeaders
  /\ rows \in Seq(RfcHeaders) /\ limit \in MaxSizes \cup {DefaultMaxSize}
  /\ \A i \in DOMAIN block : block[i].rep \in Literals \cup {"indexed", "resize"}
  /\ decoder \in [table : Tables, headers : Seq(Headers), thrown : BOOLEAN]

Displayed(h) == [name |-> convert_header_name(h.name).base, value |-> h.value]

DisplayedAll(s) == [i \in 1 .. Len(s) |-> Displayed(s[i])]

\* At every representation the headers decoded so far are, as httpv2::get shows
\* them, the first headers the server sent, in order; at the end, all of them.
DecodedAsSent ==
  /\ IsPrefix(DisplayedAll(decoder.headers), DisplayedAll(sent))
  /\ phase = "done" => Len(decoder.headers) = Len(sent)

\* A legal block is decoded to its end: decode() does not throw.
LegalBlockDecodes == phase # "thrown"

\* After the block both sides hold the same dynamic table: the same entries,
\* whatever was evicted on the way, under the same limit.
TablesAgree ==
  phase = "done" =>
    /\ rows = Reverse([i \in 1 .. Len(decoder.table.entries) |->
                         RfcHeader(decoder.table.entries[i])])
    /\ decoder.table.max_size = limit

=============================================================================
