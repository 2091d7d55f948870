------------------------ MODULE HpackExchange_proofs ------------------------
(***************************************************************************)
(* What a header block becomes at the client, for every server, table size *)
(* and choice of representations.                                          *)
(***************************************************************************)
EXTENDS HpackExchange, HpackDecode_proofs

-----------------------------------------------------------------------------
\* Representations.

\* The server refers to no entry of the dynamic table: the code counts the
\* sentinel of the static table and looks one entry too far (hpack_table.cc:169).
NoDynamicIndex == \A e \in Encodings : e[2] # "dynamic"

\* An entry is inserted under a name in the block, not under a static one, to
\* which the code gives a colon (hpack_table.cc:9-72).
InsertsNewNames == \A e \in Encodings : e[1] = "incremental" => e[2] = "new"

\* No name or value is empty: its first octet is addressed (hpack_decoder.cc:60).
NoEmptyStrings == \A h \in Sendable : NameSize[h.name] > 0 /\ ValueSize[h.value] > 0

\* r stands for h, whatever the dynamic table holds.
Represents(r, h) ==
  \/ \E i \in 1 .. Len(StaticTable) :
       r = Indexed(i) /\ RfcHeader(StaticTable[i]) = h
  \/ \E kind \in Literals : r = LiteralNewName(kind, h.name, h.value)
  \/ \E kind \in Literals : \E i \in 1 .. Len(StaticTable) :
       /\ r = LiteralIndexedName(kind, i, h.value)
       /\ RfcHeader(StaticTable[i]).name = h.name

\* The representations a server may choose.
LEMMA RepresentationType ==
  ASSUME NEW h \in Sendable, NEW r \in Representations(h), Len(rows) \in Nat
  PROVE  /\ r \in AllRepresentations /\ r.rep \in Literals \cup {"indexed"}
         /\ NoDynamicIndex => Represents(r, h)
         /\ InsertsNewNames /\ r.rep = "incremental"
              => r = LiteralNewName("incremental", h.name, h.value)
<1>1. h.name \in Names /\ h.value \in Values
  BY SendableAssumption DEF Headers
<1>2. Len(StaticTable) \in Nat
  BY StaticTableAssumption
<1>3. /\ \A i \in IndicesIn("static", LAMBDA x : x = h) :
           i \in 1 .. Len(StaticTable) /\ RfcHeader(StaticTable[i]) = h
      /\ \A i \in IndicesIn("static", LAMBDA x : x.name = h.name) :
           i \in 1 .. Len(StaticTable) /\ RfcHeader(StaticTable[i]).name = h.name
      /\ \A i \in IndicesIn("dynamic", LAMBDA x : x = h) : i \in Nat \ {0}
      /\ \A i \in IndicesIn("dynamic", LAMBDA x : x.name = h.name) : i \in Nat \ {0}
  BY <1>2 DEF IndicesIn, StaticIndices, DynamicIndices
<1>4. PICK e \in Encodings :
        \/ /\ e = <<"indexed", "static">>
           /\ \E i \in IndicesIn("static", LAMBDA x : x = h) : r = Indexed(i)
        \/ /\ e = <<"indexed", "dynamic">>
           /\ \E i \in IndicesIn("dynamic", LAMBDA x : x = h) : r = Indexed(i)
        \/ \E kind \in Literals :
             e = <<kind, "new">> /\ r = LiteralNewName(kind, h.name, h.value)
        \/ \E kind \in Literals :
             /\ e = <<kind, "static">>
             /\ \E i \in IndicesIn("static", LAMBDA x : x.name = h.name) :
                  r = LiteralIndexedName(kind, i, h.value)
        \/ \E kind \in Literals :
             /\ e = <<kind, "dynamic">>
             /\ \E i \in IndicesIn("dynamic", LAMBDA x : x.name = h.name) :
                  r = LiteralIndexedName(kind, i, h.value)
  <2>1. PICK e \in Encodings :
          r \in IF e[1] = "indexed"
                  THEN {Indexed(i) : i \in IndicesIn(e[2], LAMBDA x : x = h)}
                ELSE IF e[2] = "new"
                  THEN {LiteralNewName(e[1], h.name, h.value)}
                ELSE {LiteralIndexedName(e[1], i, h.value) :
                        i \in IndicesIn(e[2], LAMBDA x : x.name = h.name)}
    BY DEF Representations
  <2>2. \/ e = <<"indexed", "static">> \/ e = <<"indexed", "dynamic">>
        \/ \E kind \in Literals : \E where \in {"static", "dynamic", "new"} : e = <<kind, where>>
    BY EncodingsAssumption
  <2>3. CASE e = <<"indexed", "static">>
    <3>1. e[1] = "indexed" /\ e[2] = "static"
      BY <2>3
    <3> QED
      BY <2>1, <2>3, <3>1
  <2>4. CASE e = <<"indexed", "dynamic">>
    <3>1. e[1] = "indexed" /\ e[2] = "dynamic"
      BY <2>4
    <3> QED
      BY <2>1, <2>4, <3>1
  <2>5. ASSUME NEW kind \in Literals, NEW where \in {"static", "dynamic", "new"},
               e = <<kind, where>>
        PROVE  \/ where = "new" /\ r = LiteralNewName(kind, h.name, h.value)
               \/ /\ where = "static"
                  /\ \E i \in IndicesIn("static", LAMBDA x : x.name = h.name) :
                       r = LiteralIndexedName(kind, i, h.value)
               \/ /\ where = "dynamic"
                  /\ \E i \in IndicesIn("dynamic", LAMBDA x : x.name = h.name) :
                       r = LiteralIndexedName(kind, i, h.value)
    <3>1. e[1] = kind /\ e[2] = where /\ kind # "indexed"
      BY <2>5 DEF Literals
    <3> QED
      BY <2>1, <3>1
  <2> QED
    BY <2>2, <2>3, <2>4, <2>5
<1>5. CASE e = <<"indexed", "static">> /\ \E i \in 1 .. Len(StaticTable) :
             RfcHeader(StaticTable[i]) = h /\ r = Indexed(i)
  BY <1>2, <1>5 DEF Indexed, AllRepresentations, Literals, Represents
<1>6. CASE e = <<"indexed", "dynamic">> /\ \E i \in Nat \ {0} : r = Indexed(i)
  BY <1>6 DEF Indexed, AllRepresentations, Literals, NoDynamicIndex
<1>7. CASE \E kind \in Literals :
             e = <<kind, "new">> /\ r = LiteralNewName(kind, h.name, h.value)
  BY <1>1, <1>7 DEF LiteralNewName, AllRepresentations, Literals, Represents
<1>8. CASE \E kind \in Literals :
             /\ e = <<kind, "static">>
             /\ \E i \in 1 .. Len(StaticTable) :
                  /\ RfcHeader(StaticTable[i]).name = h.name
                  /\ r = LiteralIndexedName(kind, i, h.value)
  BY <1>1, <1>2, <1>8
  DEF LiteralIndexedName, AllRepresentations, Literals, Represents, InsertsNewNames
<1>9. CASE \E kind \in Literals :
             /\ e = <<kind, "dynamic">>
             /\ \E i \in Nat \ {0} : r = LiteralIndexedName(kind, i, h.value)
  BY <1>1, <1>9
  DEF LiteralIndexedName, AllRepresentations, Literals, NoDynamicIndex, InsertsNewNames
<1> QED
  BY <1>3, <1>4, <1>5, <1>6, <1>7, <1>8, <1>9, Zenon

-----------------------------------------------------------------------------
\* Types.

Types ==
  /\ phase \in {"encoding", "decoding", "done", "thrown"}
  /\ sent \in Seq(Sendable) /\ Len(sent) <= MaxHeaders
  /\ rows \in Seq(Sendable) /\ limit \in MaxSizes \cup {DefaultMaxSize}
  /\ block \in Seq(AllRepresentations)
  /\ decoder \in Decoders
  /\ phase = "encoding" => decoder = NewDecoder

\* The server's table operations, with the octets the code counts for an entry.
LEMMA ServerNewest ==
  ASSUME NEW s, NEW room
  PROVE  ServerTable!Newest(s, room) = Newest(s, room)
<1>1. EntrySizes(s) = ServerTable!Sizes(s)
  BY DEF ServerTable!Sizes, EntrySizes
<1>2. ServerTable!PartialSums(EntrySizes(s)) = PartialSums(EntrySizes(s))
  BY DEF ServerTable!PartialSums, PartialSums
<1> QED
  BY <1>1, <1>2, Zenon DEF ServerTable!Newest, Newest

LEMMA ServerTableType ==
  ASSUME rows \in Seq(Sendable), limit \in Nat
  PROVE  /\ \A h \in Sendable : ServerTable!Insert(h) => rows' \in Seq(Sendable)
         /\ \A n \in Nat : ServerTable!Resize(n) => rows' \in Seq(Sendable)
<1>1. Sendable \subseteq Headers
  BY SendableAssumption
<1>2. ASSUME NEW h \in Sendable, ServerTable!Insert(h)  PROVE rows' \in Seq(Sendable)
  <2>1. entry_size(h) \in Nat
    BY <1>1, EntrySizeType
  <2>2. CASE entry_size(h) > limit
    BY <1>2, <2>2 DEF ServerTable!Insert
  <2>3. CASE ~ (entry_size(h) > limit)
    <3>1. limit - entry_size(h) \in Nat
      BY <2>1, <2>3
    <3>2. Newest(rows, limit - entry_size(h)) \in Seq(Sendable)
      BY <1>1, <3>1, NewestType
    <3>3. <<h>> \o Newest(rows, limit - entry_size(h)) \in Seq(Sendable)
      BY <3>2, PrependProperties
    <3> QED
      BY <1>2, <2>3, <3>3, ServerNewest DEF ServerTable!Insert
  <2> QED
    BY <2>2, <2>3
<1>3. ASSUME NEW n \in Nat, ServerTable!Resize(n)  PROVE rows' \in Seq(Sendable)
  BY <1>1, <1>3, ServerNewest, NewestType DEF ServerTable!Resize
<1> QED
  BY <1>2, <1>3

LEMMA TypesInitially == Init => Types
BY NewDecoderType, BoundsAssumption DEF Init, Types, ServerTable!Init

LEMMA TypesInductive == Types /\ [Next]_vars => Types'
<1> SUFFICES ASSUME Types, [Next]_vars PROVE Types'
  OBVIOUS
<1>0. /\ limit \in Nat /\ MaxHeaders \in Nat
      /\ \A n \in MaxSizes : n \in Nat
  BY DefaultMaxSizeAssumption, MaxSizesAssumption, BoundsAssumption DEF Types
<1>1. ASSUME NEW h \in Sendable, NEW r \in Representations(h), Encode(h, r)  PROVE Types'
  <2>1. r \in AllRepresentations
    BY RepresentationType DEF Types
  <2>2. sent' \in Seq(Sendable) /\ Len(sent') <= MaxHeaders /\ block' \in Seq(AllRepresentations)
    BY <1>0, <1>1, <2>1 DEF Types, Encode
  <2>3. rows' \in Seq(Sendable) /\ limit' = limit
    <3>1. CASE r.rep = "incremental"
      BY <1>0, <1>1, <3>1, ServerTableType DEF Types, Encode, ServerTable!Insert
    <3>2. CASE r.rep # "incremental"
      BY <1>1, <3>2 DEF Types, Encode
    <3> QED
      BY <3>1, <3>2
  <2> QED
    BY <1>1, <2>2, <2>3 DEF Types, Encode
<1>2. ASSUME NEW n \in MaxSizes, EncodeSizeUpdate(n)  PROVE Types'
  <2>1. SizeUpdate(n) \in AllRepresentations
    BY <1>0 DEF SizeUpdate, AllRepresentations
  <2>2. rows' \in Seq(Sendable) /\ limit' = n
    BY <1>0, <1>2, ServerTableType DEF Types, EncodeSizeUpdate, ServerTable!Resize
  <2> QED
    BY <1>2, <2>1, <2>2 DEF Types, EncodeSizeUpdate
<1>3. CASE EndBlock
  BY <1>3 DEF Types, EndBlock
<1>4. CASE DecodeRepresentation
  <2>1. Head(block) \in AllRepresentations /\ block' \in Seq(AllRepresentations)
    BY <1>4 DEF Types, DecodeRepresentation
  <2>2. decoder' \in Decoders
    BY <1>4, <2>1, DecodeNextType DEF Types, DecodeRepresentation
  <2> QED
    BY <1>4, <2>1, <2>2 DEF Types, DecodeRepresentation
<1>5. CASE DecodeEnd
  BY <1>5 DEF Types, DecodeEnd
<1>6. CASE Terminated \/ UNCHANGED vars
  BY <1>6 DEF Types, Terminated, vars
<1> QED
  BY <1>1, <1>2, <1>3, <1>4, <1>5, <1>6 DEF Next

\* Both sides keep their types, for every choice of representations, legal for
\* the code or not (hpack_decoder.cc).
THEOREM TypeOKAlways == Spec => []TypeOK
<1>1. Types => TypeOK
  <2> SUFFICES ASSUME Types PROVE TypeOK
    OBVIOUS
  <2>1. rows \in Seq(RfcHeaders)
    BY SendableAssumption DEF Types
  <2>2. \A i \in DOMAIN block : block[i].rep \in Literals \cup {"indexed", "resize"}
    BY DEF Types, AllRepresentations
  <2> QED
    BY <2>1, <2>2 DEF Types, TypeOK, Decoders
<1> QED
  BY <1>1, TypesInitially, TypesInductive, PTL DEF Spec

-----------------------------------------------------------------------------
\* The headers.

\* The block still holds the headers that are not decoded yet, in order, and
\* before the first of them possibly a size update.
Left(update) ==
  /\ Len(block) = update + Len(sent) - Len(decoder.headers)
  /\ update = 1 => Len(decoder.headers) = 0 /\ block[1].rep = "resize"
  /\ \A i \in 1 .. Len(sent) - Len(decoder.headers) :
       Represents(block[update + i], sent[Len(decoder.headers) + i])

Aligned ==
  /\ Len(decoder.headers) <= Len(sent)
  /\ \A i \in 1 .. Len(decoder.headers) : Displayed(decoder.headers[i]) = Displayed(sent[i])
  /\ phase # "thrown" => \E update \in 0 .. 1 : Left(update)
  /\ phase = "done" => block = <<>>

\* The static table is found where the RFC has it.
LEMMA StaticLookup ==
  ASSUME NEW t, Consistent(t), NEW i \in 1 .. Len(StaticTable)
  PROVE  StaticTable[i] \in Headers /\ hpack_table_at(t, i) = Found(StaticTable[i])
<1>1. PICK n \in Nat : n = Len(t.entries)
  BY DEF Consistent, Tables
<1>2. PICK m \in Nat : m = Len(StaticTable) /\ \A j \in 1 .. m : StaticTable[j] \in Headers
  BY StaticTableAssumption
<1>3. StaticSize = m + 1 /\ i \in 1 .. m + 1 /\ ~ (i >= m + 1) /\ i # 0
  BY <1>2 DEF StaticSize
<1>4. hpack_table_at(t, i) = hpack_static_table_at(i)
  BY <1>1, <1>3 DEF hpack_table_at
<1> QED
  BY <1>2, <1>3, <1>4 DEF hpack_static_table_at

\* A representation is decoded as the header it stands for, unless it throws.
LEMMA DecodesHeader ==
  ASSUME NEW d \in Decoders, NEW h \in Sendable, NEW r, Represents(r, h)
  PROVE  /\ \/ DecodeNext(d, r).thrown /\ DecodeNext(d, r).headers = d.headers
            \/ /\ ~ DecodeNext(d, r).thrown
               /\ \E x \in Headers : /\ DecodeNext(d, r).headers = Append(d.headers, x)
                                     /\ Displayed(x) = Displayed(h)
         /\ NoEmptyStrings => ~ DecodeNext(d, r).thrown
<1> DEFINE one == decode_representation(d.table, r)
<1>1. /\ DecodeNext(d, r).thrown <=> one.result.outcome = "thrown"
      /\ DecodeNext(d, r).headers = IF one.result.outcome = "header"
                                      THEN Append(d.headers, one.result.header) ELSE d.headers
  BY DEF DecodeNext
<1>2. Len(StaticTable) \in Nat
        /\ \A i \in 1 .. Len(StaticTable) :
             /\ StaticTable[i] \in Headers
             /\ hpack_table_at(d.table, i) = Found(StaticTable[i])
  BY StaticTableAssumption, StaticLookup DEF Decoders
<1>3. h \in Headers /\ h = [name |-> h.name, value |-> h.value]
        /\ h.name \in Names /\ h.value \in Values
  BY SendableAssumption DEF Headers
<1>4. \A x \in Headers : RfcHeader(x).name.base = x.name.base /\ RfcHeader(x).value = x.value
  BY DEF RfcHeader, Headers
<1>5. SUFFICES \/ one.result = Thrown /\ ~ NoEmptyStrings
               \/ \E x \in Headers : /\ one.result = Found(x)
                                     /\ x.name.base = h.name.base /\ x.value = h.value
  <2>1. CASE one.result = Thrown /\ ~ NoEmptyStrings
    BY <1>1, <2>1 DEF Thrown
  <2>2. ASSUME NEW x \in Headers, one.result = Found(x),
               x.name.base = h.name.base, x.value = h.value
        PROVE  /\ ~ DecodeNext(d, r).thrown /\ DecodeNext(d, r).headers = Append(d.headers, x)
               /\ Displayed(x) = Displayed(h)
    <3>1. one.result.outcome = "header" /\ one.result.header = x
      BY <2>2 DEF Found
    <3> HIDE DEF one
    <3> QED
      BY <1>1, <2>2, <3>1 DEF Displayed, convert_header_name
  <2> QED
    BY <2>1, <2>2
<1>6. CASE \E i \in 1 .. Len(StaticTable) :
             r = Indexed(i) /\ RfcHeader(StaticTable[i]) = h
  <2>1. PICK i \in 1 .. Len(StaticTable) : r = Indexed(i) /\ RfcHeader(StaticTable[i]) = h
    BY <1>6
  <2>2. one.result = hpack_table_at(d.table, i)
    <3>1. r.rep = "indexed" /\ r.index = i
      BY <2>1 DEF Indexed
    <3> QED
      BY <3>1 DEF decode_representation, Literals
  <2> QED
    BY <1>2, <1>4, <2>1, <2>2
<1>7. CASE \E kind \in Literals : r = LiteralNewName(kind, h.name, h.value)
  <2>1. r.rep \in Literals /\ r.index = 0 /\ r.name = h.name /\ r.value = h.value
    BY <1>7 DEF LiteralNewName
  <2>2. one.result = fetch_header(d.table, r)
    BY <2>1 DEF decode_representation, Literals
  <2>3. \/ fetch_header(d.table, r) = Thrown /\ ~ NoEmptyStrings
        \/ fetch_header(d.table, r) = Found(h)
    BY <1>3, <2>1 DEF fetch_header, StringParses, NoEmptyStrings
  <2> QED
    BY <1>3, <2>2, <2>3
<1>8. CASE \E kind \in Literals : \E i \in 1 .. Len(StaticTable) :
             /\ r = LiteralIndexedName(kind, i, h.value)
             /\ RfcHeader(StaticTable[i]).name = h.name
  <2>1. PICK i \in 1 .. Len(StaticTable) :
          /\ r.rep \in Literals /\ r.index = i /\ r.value = h.value
          /\ RfcHeader(StaticTable[i]).name = h.name
    BY <1>8 DEF LiteralIndexedName
  <2>2. one.result = fetch_header(d.table, r)
    BY <2>1 DEF decode_representation, Literals
  <2> PICK x : x = [name |-> StaticTable[i].name, value |-> h.value]
    OBVIOUS
  <2>3. x \in Headers /\ x.name = StaticTable[i].name /\ x.value = h.value
    BY <1>2, <1>3 DEF Headers
  <2>4. \/ fetch_header(d.table, r) = Thrown /\ ~ NoEmptyStrings
        \/ fetch_header(d.table, r) = Found(x)
    <3>1. /\ hpack_table_at(d.table, r.index).outcome = "header"
          /\ hpack_table_at(d.table, r.index).header = StaticTable[i]
          /\ r.index # 0
      <4>1. r.index = i /\ i # 0
        BY <1>2, <2>1
      <4>2. hpack_table_at(d.table, i) = Found(StaticTable[i])
        BY <1>2
      <4> QED
        BY <4>1, <4>2 DEF Found
    <3>2. \/ fetch_header(d.table, r) = Thrown /\ ~ StringParses(ValueSize[r.value])
          \/ fetch_header(d.table, r) = Found(x)
      BY <2>1, <3>1 DEF fetch_header
    <3> QED
      BY <2>1, <3>2 DEF StringParses, NoEmptyStrings
  <2>5. x.name.base = h.name.base
    BY <1>2, <1>4, <2>1, <2>3
  <2> QED
    BY <2>2, <2>3, <2>4, <2>5
<1> QED
  BY <1>6, <1>7, <1>8 DEF Represents

LEMMA DecodesSizeUpdate ==
  ASSUME NEW d \in Decoders, NEW r, r.rep = "resize"
  PROVE  /\ ~ DecodeNext(d, r).thrown /\ DecodeNext(d, r).headers = d.headers
         /\ DecodeNext(d, r).table = set_maximum_table_size(d.table, r.size)
BY DEF DecodeNext, decode_representation, Nullopt, Literals

LEMMA AlignedInitially == Init => Aligned
<1> SUFFICES ASSUME Init PROVE Aligned
  OBVIOUS
<1>1. /\ sent = <<>> /\ block = <<>> /\ decoder.headers = <<>> /\ phase = "encoding"
      /\ Len(sent) = 0 /\ Len(block) = 0 /\ Len(decoder.headers) = 0
  BY DEF Init, NewDecoder
<1>2. Left(0)
  BY <1>1 DEF Left
<1> QED
  BY <1>1, <1>2 DEF Aligned

LEMMA AlignedInductive ==
  ASSUME NoDynamicIndex
  PROVE  Types /\ Aligned /\ [Next]_vars => Aligned'
<1> SUFFICES ASSUME Types, Aligned, [Next]_vars PROVE Aligned'
  OBVIOUS
<1>0. /\ sent \in Seq(Sendable) /\ block \in Seq(AllRepresentations)
      /\ decoder \in Decoders /\ decoder.headers \in Seq(Headers)
  BY DEF Types, Decoders
<1>k. PICK n \in Nat, m \in Nat, k \in Nat :
        n = Len(decoder.headers) /\ m = Len(block) /\ k = Len(sent)
  BY <1>0
<1>n. n = Len(decoder.headers) /\ m = Len(block) /\ k = Len(sent) /\ n <= k
  BY <1>k DEF Aligned
<1>1. ASSUME NEW h \in Sendable, NEW r \in Representations(h), Encode(h, r)  PROVE Aligned'
  <2>0. /\ phase = "encoding" /\ phase' = phase /\ decoder' = decoder /\ n = 0
        /\ sent' = Append(sent, h) /\ block' = Append(block, r)
    <3>1. decoder = NewDecoder
      BY <1>1 DEF Types, Encode
    <3> QED
      BY <1>1, <1>n, <3>1 DEF Encode, NewDecoder
  <2>1. PICK u \in 0 .. 1 : Left(u)
    BY <2>0 DEF Aligned
  <2>2. Represents(r, h)
    BY <1>0, RepresentationType DEF Types
  <2>3. m = u + k /\ (u = 1 => block[1].rep = "resize")
        /\ \A i \in 1 .. k : Represents(block[u + i], sent[i])
    <3>1. /\ m = u + k - n
          /\ u = 1 => n = 0 /\ block[1].rep = "resize"
          /\ \A i \in 1 .. k - n : Represents(block[u + i], sent[n + i])
      BY <1>n, <2>1 DEF Left
    <3>2. k - n = k /\ m = u + k /\ \A i \in 1 .. k : n + i = i
      BY <2>0, <3>1
    <3> QED
      BY <3>1, <3>2
  <2>4. /\ Len(sent') = k + 1 /\ sent'[k + 1] = h /\ \A i \in 1 .. k : sent'[i] = sent[i]
        /\ Len(block') = m + 1 /\ block'[m + 1] = r /\ \A i \in 1 .. m : block'[i] = block[i]
    BY <1>0, <1>n, <2>0
  <2>5. ASSUME NEW i \in 1 .. k + 1  PROVE Represents(block'[u + i], sent'[i])
    <3>1. CASE i = k + 1
      <4>1. u + i = m + 1
        BY <2>3, <3>1
      <4> QED
        BY <2>2, <2>4, <3>1, <4>1
    <3>2. CASE i # k + 1
      <4>1. i \in 1 .. k /\ u + i \in 1 .. m
        BY <1>n, <2>3, <3>2
      <4> QED
        BY <2>3, <2>4, <4>1
    <3> QED
      BY <3>1, <3>2
  <2>6. u = 1 => block'[1].rep = "resize"
    <3>1. u = 1 => 1 \in 1 .. m
      BY <1>n, <2>3
    <3> QED
      BY <2>3, <2>4, <3>1
  <2>7. Left(u)'
    BY <1>n, <2>0, <2>3, <2>4, <2>5, <2>6 DEF Left
  <2> QED
    BY <1>n, <2>0, <2>4, <2>7 DEF Aligned
<1>2. ASSUME NEW z \in MaxSizes, EncodeSizeUpdate(z)  PROVE Aligned'
  <2>0. /\ phase = "encoding" /\ phase' = phase /\ decoder' = decoder /\ n = 0
        /\ block = <<>> /\ block' = <<SizeUpdate(z)>> /\ sent' = sent
    <3>1. decoder = NewDecoder
      BY <1>2 DEF Types, EncodeSizeUpdate
    <3> QED
      BY <1>2, <1>n, <3>1 DEF EncodeSizeUpdate, NewDecoder
  <2>1. PICK u \in 0 .. 1 : Left(u)
    BY <2>0 DEF Aligned
  <2>2. k = 0
    <3>1. m = 0
      BY <1>n, <2>0
    <3>2. m = u + k - n
      BY <1>n, <2>1, Zenon DEF Left
    <3> QED
      BY <2>0, <3>1, <3>2
  <2>3. Len(block') = 1 /\ block'[1].rep = "resize"
    BY <2>0 DEF SizeUpdate
  <2>4. Left(1)'
    BY <1>n, <2>0, <2>2, <2>3 DEF Left
  <2> QED
    BY <1>n, <2>0, <2>4 DEF Aligned
<1>3. CASE EndBlock
  <2>1. UNCHANGED <<sent, block, decoder>> /\ phase # "thrown" /\ phase' = "decoding"
    BY <1>3 DEF EndBlock
  <2> QED
    BY <2>1 DEF Aligned, Left
<1>4. CASE DecodeRepresentation
  <2>0. /\ phase = "decoding" /\ block # <<>> /\ sent' = sent /\ block' = Tail(block)
        /\ decoder' = DecodeNext(decoder, block[1])
        /\ phase' = IF decoder'.thrown THEN "thrown" ELSE phase
    BY <1>0, <1>4 DEF DecodeRepresentation
  <2>1. PICK u \in 0 .. 1 : Left(u)
    BY <2>0 DEF Aligned
  <2>2. /\ m = u + k - n
        /\ u = 1 => n = 0 /\ block[1].rep = "resize"
        /\ \A i \in 1 .. k - n : Represents(block[u + i], sent[n + i])
    BY <1>n, <2>1 DEF Left
  <2>3. /\ m > 0 /\ Len(block') = m - 1 /\ \A i \in 1 .. m - 1 : block'[i] = block[i + 1]
    BY <1>0, <1>n, <2>0
  <2>4. CASE u = 1
    <3>1. decoder'.headers = decoder.headers
      BY <1>0, <2>0, <2>2, <2>4, DecodesSizeUpdate
    <3>2. ASSUME NEW i \in 1 .. k  PROVE Represents(block'[i], sent[i])
      <4>1. n = 0 /\ m = k + 1
        BY <2>2, <2>4
      <4>2. i \in 1 .. m - 1 /\ u + i = i + 1 /\ n + i = i /\ i \in 1 .. k - n
        BY <1>n, <2>4, <4>1
      <4> QED
        BY <2>2, <2>3, <4>2
    <3>3. Left(0)'
      BY <1>n, <2>0, <2>2, <2>3, <2>4, <3>1, <3>2 DEF Left
    <3> QED
      BY <1>n, <2>0, <3>1, <3>3 DEF Aligned
  <2>5. CASE u = 0
    <3>1. k - n > 0 /\ n + 1 \in 1 .. k
      BY <1>n, <2>2, <2>3, <2>5
    <3>2. Represents(block[1], sent[n + 1])
      <4>1. 1 \in 1 .. k - n /\ u + 1 = 1
        BY <1>n, <2>5, <3>1
      <4> QED
        BY <2>2, <4>1
    <3>3. sent[n + 1] \in Sendable
      BY <1>0, <1>n, <3>1
    <3>4. CASE decoder'.thrown /\ decoder'.headers = decoder.headers
      <4>1. phase' = "thrown"
        BY <2>0, <3>4
      <4> QED
        BY <2>0, <3>4, <4>1 DEF Aligned
    <3>5. CASE ~ decoder'.thrown /\ \E x \in Headers :
                 /\ decoder'.headers = Append(decoder.headers, x)
                 /\ Displayed(x) = Displayed(sent[n + 1])
      <4>1. PICK x \in Headers : /\ decoder'.headers = Append(decoder.headers, x)
                                 /\ Displayed(x) = Displayed(sent[n + 1])
        BY <3>5
      <4>2. /\ Len(decoder'.headers) = n + 1 /\ decoder'.headers[n + 1] = x
            /\ \A i \in 1 .. n : decoder'.headers[i] = decoder.headers[i]
        BY <1>0, <1>n, <4>1
      <4>3. ASSUME NEW i \in 1 .. n + 1
            PROVE  Displayed(decoder'.headers[i]) = Displayed(sent[i])
        <5>1. CASE i = n + 1
          BY <4>1, <4>2, <5>1
        <5>2. CASE i # n + 1
          <6>1. i \in 1 .. n
            BY <1>n, <5>2
          <6> QED
            BY <1>n, <4>2, <6>1 DEF Aligned
        <5> QED
          BY <5>1, <5>2
      <4>4. ASSUME NEW i \in 1 .. k - (n + 1)
            PROVE  Represents(block'[i], sent[(n + 1) + i])
        <5>0. m = k - n
          BY <1>n, <2>2, <2>5
        <5>1. /\ i \in 1 .. m - 1 /\ i + 1 \in 1 .. k - n
              /\ u + (i + 1) = i + 1 /\ n + (i + 1) = (n + 1) + i
          BY <2>5, <5>0
        <5>2. Represents(block[u + (i + 1)], sent[n + (i + 1)])
          BY <2>2, <5>1
        <5> QED
          BY <2>3, <5>1, <5>2
      <4>5. Left(0)'
        <5>1. Len(block') = 0 + k - (n + 1)
          BY <1>n, <2>2, <2>3, <2>5
        <5>2. \A i \in 1 .. k - (n + 1) : Represents(block'[0 + i], sent[(n + 1) + i])
          BY <1>n, <4>4
        <5>3. Len(decoder'.headers) = n + 1 /\ Len(sent') = k
          BY <1>n, <2>0, <4>2
        <5>4. 0 # 1
          OBVIOUS
        <5> QED
          BY <5>1, <5>2, <5>3, <5>4, <2>0, Zenon DEF Left
      <4> QED
        BY <1>n, <2>0, <3>1, <3>5, <4>2, <4>3, <4>5 DEF Aligned
    <3>6. \/ decoder'.thrown /\ decoder'.headers = decoder.headers
          \/ /\ ~ decoder'.thrown
             /\ \E x \in Headers : /\ decoder'.headers = Append(decoder.headers, x)
                                   /\ Displayed(x) = Displayed(sent[n + 1])
      <4> PICK r, h : r = block[1] /\ h = sent[n + 1]
        OBVIOUS
      <4>1. r = block[1] /\ h = sent[n + 1] /\ Represents(r, h) /\ h \in Sendable
        BY <3>2, <3>3
      <4>2. /\ \/ DecodeNext(decoder, r).thrown /\ DecodeNext(decoder, r).headers = decoder.headers
               \/ /\ ~ DecodeNext(decoder, r).thrown
                  /\ \E x \in Headers : /\ DecodeNext(decoder, r).headers = Append(decoder.headers, x)
                                        /\ Displayed(x) = Displayed(h)
        <5>1. decoder \in Decoders /\ h \in Sendable /\ Represents(r, h)
          BY <1>0, <4>1
        <5> QED
          BY <5>1, DecodesHeader
      <4> QED
        BY <2>0, <4>1, <4>2, Zenon
    <3> QED
      BY <3>4, <3>5, <3>6, Zenon
  <2> QED
    BY <2>4, <2>5
<1>5. CASE DecodeEnd
  <2>1. UNCHANGED <<sent, block, decoder>> /\ phase # "thrown" /\ block = <<>>
    BY <1>5 DEF DecodeEnd
  <2> QED
    BY <2>1 DEF Aligned, Left
<1>6. CASE Terminated \/ UNCHANGED vars
  BY <1>6 DEF Aligned, Left, Terminated, vars
<1> QED
  BY <1>1, <1>2, <1>3, <1>4, <1>5, <1>6 DEF Next

\* Whatever representations of its headers a server chooses that refers to no
\* entry of the dynamic table, the headers decoded are the first headers it sent,
\* as httpv2::get shows them, and at the end all of them (hpack_decoder.cc:22).
THEOREM DecodedAsSentAlways ==
  ASSUME NoDynamicIndex
  PROVE  Spec => []DecodedAsSent
<1>1. Types /\ Aligned => DecodedAsSent
  <2> SUFFICES ASSUME Types, Aligned PROVE DecodedAsSent
    OBVIOUS
  <2>0. decoder.headers \in Seq(Headers) /\ sent \in Seq(Sendable)
    BY DEF Types, Decoders
  <2>k. PICK n \in Nat, k \in Nat : n = Len(decoder.headers) /\ k = Len(sent)
    BY <2>0
  <2>n. n = Len(decoder.headers) /\ k = Len(sent) /\ n <= k
    BY <2>k DEF Aligned
  <2> PICK s, t : s = DisplayedAll(decoder.headers) /\ t = DisplayedAll(sent)
    OBVIOUS
  <2>1. /\ s = DisplayedAll(decoder.headers) /\ t = DisplayedAll(sent)
        /\ s = [i \in 1 .. n |-> Displayed(decoder.headers[i])]
        /\ t = [i \in 1 .. k |-> Displayed(sent[i])]
        /\ Len(s) = n /\ Len(t) = k
    BY <2>n DEF DisplayedAll
  <2>2. \A i \in 1 .. n : s[i] = t[i]
    BY <2>n, <2>1 DEF Aligned
  <2>3. IsPrefix(s, t)
    <3>1. SubSeq(t, 1, n) = s
      <4>1. SubSeq(t, 1, n) = [i \in 1 .. n |-> t[i]]
        BY <2>1
      <4> QED
        BY <2>1, <2>2, <4>1
    <3>2. SubSeq(s, 1, n) = s
      BY <2>1
    <3> QED
      BY <2>n, <2>1, <3>1, <3>2 DEF IsPrefix
  <2>4. phase = "done" => n = k
    <3> SUFFICES ASSUME phase = "done" PROVE n = k
      OBVIOUS
    <3>1. PICK u \in 0 .. 1 : Left(u)
      BY DEF Aligned
    <3>2. Len(block) = 0
      BY DEF Aligned
    <3> QED
      BY <2>n, <3>1, <3>2 DEF Left
  <2> QED
    BY <2>n, <2>1, <2>3, <2>4 DEF DecodedAsSent
<1> QED
  BY <1>1, TypesInitially, TypesInductive, AlignedInitially, AlignedInductive, PTL DEF Spec

\* Such a block is decoded to its end if none of its strings is empty: decode()
\* does not throw (hpack_decoder.cc:22-159).
THEOREM LegalBlockDecodesAlways ==
  ASSUME NoDynamicIndex, NoEmptyStrings
  PROVE  Spec => []LegalBlockDecodes
<1>1. Types /\ Aligned /\ LegalBlockDecodes /\ [Next]_vars => LegalBlockDecodes'
  <2> SUFFICES ASSUME Types, Aligned, phase # "thrown", [Next]_vars PROVE phase' # "thrown"
    BY DEF LegalBlockDecodes
  <2>1. CASE DecodeRepresentation
    <3>0. /\ sent \in Seq(Sendable) /\ block \in Seq(AllRepresentations)
          /\ decoder \in Decoders /\ decoder.headers \in Seq(Headers)
      BY DEF Types, Decoders
    <3>1. PICK n \in Nat, m \in Nat, k \in Nat :
            n = Len(decoder.headers) /\ m = Len(block) /\ k = Len(sent)
      BY <3>0
    <3>2. block # <<>> /\ decoder' = DecodeNext(decoder, block[1])
      BY <2>1, <3>0 DEF DecodeRepresentation
    <3>3. PICK u \in 0 .. 1 : Left(u)
      BY DEF Aligned
    <3>4. /\ m = u + k - n
          /\ u = 1 => block[1].rep = "resize"
          /\ \A i \in 1 .. k - n : Represents(block[u + i], sent[n + i])
      BY <3>1, <3>3 DEF Left
    <3>5. ~ decoder'.thrown
      <4>1. CASE u = 1
        BY <3>0, <3>2, <3>4, <4>1, DecodesSizeUpdate
      <4>2. CASE u = 0
        <5>1. m > 0
          BY <3>0, <3>1, <3>2
        <5>2. 1 \in 1 .. k - n /\ u + 1 = 1 /\ n + 1 \in 1 .. k
          BY <3>4, <4>2, <5>1
        <5> PICK r, h : r = block[1] /\ h = sent[n + 1]
          OBVIOUS
        <5>3. /\ r = block[1] /\ decoder \in Decoders
              /\ h \in Sendable /\ Represents(r, h)
          BY <3>0, <3>1, <3>4, <5>2
        <5>4. ~ DecodeNext(decoder, r).thrown
          BY <5>3, DecodesHeader
        <5> QED
          BY <3>2, <5>3, <5>4
      <4> QED
        BY <4>1, <4>2
    <3> QED
      BY <2>1, <3>5 DEF DecodeRepresentation
  <2>2. CASE ~ DecodeRepresentation
    BY <2>2 DEF Next, Encode, EncodeSizeUpdate, EndBlock, DecodeEnd, Terminated, vars
  <2> QED
    BY <2>1, <2>2
<1>2. Init => LegalBlockDecodes
  BY DEF Init, LegalBlockDecodes
<1> QED
  BY <1>1, <1>2, TypesInitially, TypesInductive, AlignedInitially, AlignedInductive, PTL
  DEF Spec

-----------------------------------------------------------------------------
\* The tables.

\* What a representation does to a table when it does not throw.
Applied(t, r) ==
  IF r.rep = "incremental" THEN add(t, [name |-> r.name, value |-> r.value])
  ELSE IF r.rep = "resize" THEN set_maximum_table_size(t, r.size)
  ELSE t

\* The table of the server is what the rest of the block makes of the client's.
Ahead(tables) ==
  /\ tables \in [0 .. Len(block) -> Tables]
  /\ tables[0] = decoder.table
  /\ \A i \in 0 .. Len(block) : Consistent(tables[i])
  /\ \A i \in 1 .. Len(block) : tables[i] = Applied(tables[i - 1], block[i])
  /\ rows = Reverse(tables[Len(block)].entries)
  /\ limit = tables[Len(block)].max_size

Synchronised ==
  /\ \A i \in 1 .. Len(block) : block[i].rep = "incremental" => block[i].index = 0
  /\ phase # "thrown" => \E tables : Ahead(tables)
  /\ phase = "done" => block = <<>>

\* Both ends change their tables alike.
LEMMA AppliedType ==
  ASSUME NEW t, Consistent(t), NEW r \in AllRepresentations,
         r.rep = "incremental" => r.index = 0
  PROVE  Applied(t, r) \in Tables /\ Consistent(Applied(t, r))
<1>1. CASE r.rep = "incremental"
  <2>1. r.name \in Names /\ r.value \in Values
    BY <1>1 DEF AllRepresentations, Literals
  <2>2. [name |-> r.name, value |-> r.value] \in Headers
    BY <2>1 DEF Headers
  <2>3. Consistent(add(t, [name |-> r.name, value |-> r.value]))
    BY <2>2, AddCorrect
  <2> QED
    BY <1>1, <2>3 DEF Applied, Consistent
<1>2. CASE r.rep = "resize"
  <2>1. r.size \in Nat
    BY <1>2 DEF AllRepresentations, Literals
  <2>2. Consistent(set_maximum_table_size(t, r.size))
    BY <2>1, ResizeCorrect
  <2> QED
    BY <1>2, <2>2 DEF Applied, Consistent
<1>3. CASE r.rep # "incremental" /\ r.rep # "resize"
  BY <1>3 DEF Applied, Consistent
<1> QED
  BY <1>1, <1>2, <1>3

LEMMA DecodesTable ==
  ASSUME NEW d \in Decoders, NEW r \in AllRepresentations,
         r.rep = "incremental" => r.index = 0
  PROVE  DecodeNext(d, r).thrown \/ DecodeNext(d, r).table = Applied(d.table, r)
<1> DEFINE one == decode_representation(d.table, r)
<1>1. /\ DecodeNext(d, r).thrown <=> one.result.outcome = "thrown"
      /\ DecodeNext(d, r).table = one.table
  BY DEF DecodeNext
<1>2. CASE r.rep = "indexed"
  BY <1>1, <1>2 DEF decode_representation, Applied, Literals
<1>3. CASE r.rep \in Literals
  <2> DEFINE f == fetch_header(d.table, r)
  <2>1. /\ one.result = f
        /\ one.table = IF r.rep = "incremental" /\ f.outcome = "header"
                         THEN add(d.table, f.header) ELSE d.table
    BY <1>3 DEF decode_representation, Literals
  <2>2. CASE r.rep = "incremental"
    <3>1. f = Thrown \/ f = Found([name |-> r.name, value |-> r.value])
      BY <2>2 DEF fetch_header
    <3>2. CASE f = Thrown
      BY <1>1, <2>1, <3>2 DEF Thrown
    <3>3. CASE f = Found([name |-> r.name, value |-> r.value])
      <4>1. f.outcome = "header" /\ f.header = [name |-> r.name, value |-> r.value]
        BY <3>3 DEF Found
      <4> HIDE DEF f
      <4> QED
        BY <1>1, <2>1, <2>2, <4>1 DEF Applied
    <3> QED
      BY <3>1, <3>2, <3>3
  <2>3. CASE r.rep # "incremental"
    <3> HIDE DEF f
    <3> QED
      BY <1>1, <1>3, <2>1, <2>3 DEF Applied, Literals
  <2> QED
    BY <2>2, <2>3
<1>4. CASE r.rep = "resize"
  BY <1>4, DecodesSizeUpdate DEF Applied
<1> QED
  BY <1>2, <1>3, <1>4 DEF AllRepresentations

\* A representation at the end of the block adds a table.
LEMMA AheadExtends ==
  ASSUME Types, NEW tables, Ahead(tables),
         NEW r \in AllRepresentations, r.rep = "incremental" => r.index = 0,
         block' = Append(block, r), decoder' = decoder,
         rows' = Reverse(Applied(tables[Len(block)], r).entries),
         limit' = Applied(tables[Len(block)], r).max_size
  PROVE  \E further : Ahead(further)'
<1>1. PICK m \in Nat : m = Len(block)
  BY DEF Types
<1>2. /\ Len(block') = m + 1 /\ block'[m + 1] = r /\ \A i \in 1 .. m : block'[i] = block[i]
  BY <1>1 DEF Types
<1>3. /\ tables \in [0 .. m -> Tables] /\ tables[0] = decoder.table
      /\ \A i \in 0 .. m : Consistent(tables[i])
      /\ \A i \in 1 .. m : tables[i] = Applied(tables[i - 1], block[i])
  BY <1>1 DEF Ahead
<1> PICK t : t = Applied(tables[m], r)
  OBVIOUS
<1>4. t = Applied(tables[m], r) /\ t \in Tables /\ Consistent(t)
  BY <1>3, AppliedType
<1> DEFINE new == [i \in 0 .. m + 1 |-> IF i = m + 1 THEN t ELSE tables[i]]
<1>5. /\ new \in [0 .. m + 1 -> Tables] /\ new[m + 1] = t
      /\ \A i \in 0 .. m : new[i] = tables[i]
  <2>1. \A i \in 0 .. m + 1 : i = m + 1 \/ i \in 0 .. m
    OBVIOUS
  <2> QED
    BY <1>3, <1>4, <2>1
<1> HIDE DEF new
<1>6. \A i \in 0 .. m + 1 : Consistent(new[i])
  <2>1. \A i \in 0 .. m + 1 : i = m + 1 \/ i \in 0 .. m
    OBVIOUS
  <2> QED
    BY <1>3, <1>4, <1>5, <2>1
<1>7. ASSUME NEW i \in 1 .. m + 1  PROVE new[i] = Applied(new[i - 1], block'[i])
  <2>1. CASE i = m + 1
    <3>1. i - 1 = m /\ m \in 0 .. m
      BY <2>1
    <3> QED
      BY <1>2, <1>4, <1>5, <2>1, <3>1
  <2>2. CASE i # m + 1
    <3>1. i \in 1 .. m /\ i \in 0 .. m /\ i - 1 \in 0 .. m
      BY <2>2
    <3> QED
      BY <1>2, <1>3, <1>5, <3>1
  <2> QED
    BY <2>1, <2>2
<1>8. new[0] = decoder'.table
  <2>1. 0 \in 0 .. m
    OBVIOUS
  <2> QED
    BY <1>3, <1>5, <2>1
<1>9. rows' = Reverse(new[m + 1].entries) /\ limit' = new[m + 1].max_size
  BY <1>1, <1>4, <1>5
<1>10. Ahead(new)'
  BY <1>2, <1>5, <1>6, <1>7, <1>8, <1>9 DEF Ahead
<1> QED
  BY <1>10

\* Decoding a representation leaves the tables behind it.
LEMMA AheadShortens ==
  ASSUME Types, NEW tables, Ahead(tables), block # <<>>,
         block[1].rep = "incremental" => block[1].index = 0,
         block' = Tail(block), decoder' = DecodeNext(decoder, block[1]), ~ decoder'.thrown,
         UNCHANGED <<rows, limit>>
  PROVE  \E further : Ahead(further)'
<1>1. PICK m \in Nat : m = Len(block) /\ m > 0
  BY DEF Types
<1>2. Len(block') = m - 1 /\ \A i \in 1 .. m - 1 : block'[i] = block[i + 1]
  BY <1>1 DEF Types
<1>3. /\ tables \in [0 .. m -> Tables] /\ tables[0] = decoder.table
      /\ \A i \in 0 .. m : Consistent(tables[i])
      /\ \A i \in 1 .. m : tables[i] = Applied(tables[i - 1], block[i])
      /\ rows = Reverse(tables[m].entries) /\ limit = tables[m].max_size
  BY <1>1 DEF Ahead
<1> DEFINE new == [i \in 0 .. m - 1 |-> tables[i + 1]]
<1>4. /\ new \in [0 .. m - 1 -> Tables] /\ \A i \in 0 .. m - 1 : new[i] = tables[i + 1]
  BY <1>1, <1>3
<1> HIDE DEF new
<1>5. new[0] = decoder'.table
  <2>1. 0 \in 0 .. m - 1 /\ 0 + 1 = 1 /\ 1 \in 1 .. m /\ 1 - 1 = 0
    BY <1>1
  <2>2. new[0] = Applied(decoder.table, block[1])
    BY <1>3, <1>4, <2>1
  <2> PICK r : r = block[1]
    OBVIOUS
  <2>3. /\ r = block[1] /\ r \in AllRepresentations /\ (r.rep = "incremental" => r.index = 0)
        /\ decoder \in Decoders
    BY <1>1, <2>1 DEF Types
  <2>4. ~ DecodeNext(decoder, r).thrown
    BY <2>3
  <2>5. DecodeNext(decoder, r).table = Applied(decoder.table, r)
    BY <2>3, <2>4, DecodesTable
  <2> QED
    BY <2>2, <2>3, <2>5
<1>6. \A i \in 0 .. m - 1 : Consistent(new[i])
  <2>1. \A i \in 0 .. m - 1 : i + 1 \in 0 .. m
    BY <1>1
  <2> QED
    BY <1>3, <1>4, <2>1
<1>7. ASSUME NEW i \in 1 .. m - 1  PROVE new[i] = Applied(new[i - 1], block'[i])
  <2>1. /\ i \in 0 .. m - 1 /\ i - 1 \in 0 .. m - 1 /\ i + 1 \in 1 .. m
        /\ (i - 1) + 1 = i /\ (i + 1) - 1 = i
    BY <1>1
  <2> QED
    BY <1>2, <1>3, <1>4, <2>1
<1>8. rows' = Reverse(new[m - 1].entries) /\ limit' = new[m - 1].max_size
  <2>1. m - 1 \in 0 .. m - 1 /\ (m - 1) + 1 = m
    BY <1>1
  <2> QED
    BY <1>3, <1>4, <2>1
<1>9. Ahead(new)'
  BY <1>2, <1>4, <1>5, <1>6, <1>7, <1>8 DEF Ahead
<1> QED
  BY <1>9

LEMMA SynchronisedInitially == Init => Synchronised
<1> SUFFICES ASSUME Init PROVE Synchronised
  OBVIOUS
<1>1. /\ rows = <<>> /\ limit = DefaultMaxSize /\ block = <<>> /\ phase = "encoding"
      /\ decoder.table = EmptyTable /\ Len(block) = 0
  BY DEF Init, ServerTable!Init, NewDecoder
<1>2. /\ EmptyTable \in Tables /\ Consistent(EmptyTable)
      /\ EmptyTable.entries = <<>> /\ EmptyTable.max_size = DefaultMaxSize
  BY NewDecoderType DEF Decoders, NewDecoder, Consistent, EmptyTable
<1> DEFINE tables == [i \in 0 .. 0 |-> EmptyTable]
<1>3. tables \in [0 .. 0 -> Tables] /\ \A i \in 0 .. 0 : tables[i] = EmptyTable
  BY <1>2
<1>4. Reverse(EmptyTable.entries) = <<>>
  BY <1>2 DEF Reverse
<1> HIDE DEF tables
<1>5. Ahead(tables)
  BY <1>1, <1>2, <1>3, <1>4 DEF Ahead
<1> QED
  BY <1>1, <1>5 DEF Synchronised

LEMMA SynchronisedInductive ==
  ASSUME InsertsNewNames
  PROVE  Types /\ Synchronised /\ [Next]_vars => Synchronised'
<1> SUFFICES ASSUME Types, Synchronised, [Next]_vars PROVE Synchronised'
  OBVIOUS
<1>1. ASSUME NEW h \in Sendable, NEW r \in Representations(h), Encode(h, r)
      PROVE  Synchronised'
  <2>1. /\ r \in AllRepresentations /\ r.rep \in Literals \cup {"indexed"}
        /\ r.rep = "incremental" => r = LiteralNewName("incremental", h.name, h.value)
    BY RepresentationType DEF Types
  <2>2. h \in Headers /\ [name |-> h.name, value |-> h.value] = h
    BY SendableAssumption DEF Headers
  <2>3. r.rep = "incremental" => /\ r.index = 0 /\ [name |-> r.name, value |-> r.value] = h
    BY <2>1, <2>2 DEF LiteralNewName
  <2>4. PICK tables : Ahead(tables)
    BY <1>1 DEF Synchronised, Encode
  <2> PICK t : t = tables[Len(block)]
    OBVIOUS
  <2>5. /\ t = tables[Len(block)] /\ Consistent(t) /\ rows = Reverse(t.entries)
        /\ limit = t.max_size
    <3>1. Len(block) \in 0 .. Len(block)
      BY DEF Types
    <3> QED
      BY <2>4, <3>1 DEF Ahead
  <2>6. rows' = Reverse(Applied(t, r).entries) /\ limit' = Applied(t, r).max_size
    <3>1. CASE r.rep = "incremental"
      <4>1. /\ add(t, h).max_size = t.max_size
            /\ Reverse(add(t, h).entries) =
                 IF entry_size(h) > t.max_size THEN <<>>
                 ELSE <<h>> \o Newest(Reverse(t.entries), t.max_size - entry_size(h))
        BY <2>2, <2>5, AddKeepsNewest
      <4>2. /\ limit' = limit
            /\ rows' = IF entry_size(h) > limit THEN <<>>
                       ELSE <<h>> \o Newest(rows, limit - entry_size(h))
        BY <1>1, <3>1, ServerNewest DEF Encode, ServerTable!Insert
      <4>3. Applied(t, r) = add(t, h)
        BY <2>3, <3>1 DEF Applied
      <4> QED
        BY <2>5, <4>1, <4>2, <4>3
    <3>2. CASE r.rep # "incremental"
      BY <1>1, <2>1, <2>5, <3>2 DEF Applied, Encode, Literals
    <3> QED
      BY <3>1, <3>2
  <2>7. \E further : Ahead(further)'
    BY <1>1, <2>1, <2>3, <2>4, <2>5, <2>6, AheadExtends DEF Encode
  <2>8. ASSUME NEW i \in 1 .. Len(block'), block'[i].rep = "incremental"
        PROVE  block'[i].index = 0
    <3>1. block' = Append(block, r)
      BY <1>1 DEF Encode
    <3>2. \/ i \in 1 .. Len(block) /\ block'[i] = block[i]
          \/ block'[i] = r
      BY <3>1 DEF Types
    <3> QED
      BY <2>3, <2>8, <3>2 DEF Synchronised
  <2> QED
    BY <1>1, <2>7, <2>8 DEF Synchronised, Encode
<1>2. ASSUME NEW n \in MaxSizes, EncodeSizeUpdate(n)  PROVE Synchronised'
  <2>1. n \in Nat /\ SizeUpdate(n) \in AllRepresentations /\ SizeUpdate(n).rep = "resize"
        /\ SizeUpdate(n).size = n
    BY MaxSizesAssumption, DefaultMaxSizeAssumption DEF SizeUpdate, AllRepresentations
  <2> PICK r : r = SizeUpdate(n)
    OBVIOUS
  <2>2. r = SizeUpdate(n) /\ r \in AllRepresentations /\ r.rep = "resize" /\ r.size = n
    BY <2>1
  <2>3. block = <<>> /\ Len(block) = 0 /\ block' = <<r>> /\ block' = Append(block, r)
    BY <1>2, <2>2 DEF EncodeSizeUpdate
  <2>4. PICK tables : Ahead(tables)
    BY <1>2 DEF Synchronised, EncodeSizeUpdate
  <2> PICK t : t = tables[Len(block)]
    OBVIOUS
  <2>5. /\ t = tables[Len(block)] /\ Consistent(t) /\ rows = Reverse(t.entries)
        /\ limit = t.max_size
    <3>1. Len(block) \in 0 .. Len(block)
      BY DEF Types
    <3> QED
      BY <2>4, <3>1 DEF Ahead
  <2>6. rows' = Reverse(Applied(t, r).entries) /\ limit' = Applied(t, r).max_size
    <3>1. /\ set_maximum_table_size(t, n).max_size = n
          /\ Reverse(set_maximum_table_size(t, n).entries) = Newest(Reverse(t.entries), n)
      BY <2>1, <2>5, ResizeKeepsNewest
    <3>2. limit' = n /\ rows' = Newest(rows, n)
      BY <1>2, ServerNewest DEF EncodeSizeUpdate, ServerTable!Resize
    <3>3. Applied(t, r) = set_maximum_table_size(t, n)
      BY <2>2 DEF Applied
    <3> QED
      BY <2>5, <3>1, <3>2, <3>3
  <2>7. \E further : Ahead(further)'
    BY <1>2, <2>2, <2>3, <2>4, <2>5, <2>6, AheadExtends DEF EncodeSizeUpdate
  <2>8. \A i \in 1 .. Len(block') : block'[i].rep = "incremental" => block'[i].index = 0
    BY <2>2, <2>3
  <2> QED
    BY <1>2, <2>7, <2>8 DEF Synchronised, EncodeSizeUpdate
<1>3. CASE EndBlock
  <2>1. UNCHANGED <<rows, limit, block, decoder>> /\ phase # "thrown" /\ phase' = "decoding"
    BY <1>3 DEF EndBlock
  <2> QED
    BY <2>1 DEF Synchronised, Ahead
<1>4. CASE DecodeRepresentation
  <2>1. /\ phase = "decoding" /\ block # <<>> /\ block' = Tail(block)
        /\ decoder' = DecodeNext(decoder, block[1])
        /\ phase' = IF decoder'.thrown THEN "thrown" ELSE phase
        /\ UNCHANGED <<rows, limit>>
    BY <1>4 DEF DecodeRepresentation, Types
  <2>2. \A i \in 1 .. Len(block') : block'[i].rep = "incremental" => block'[i].index = 0
    <3>1. \A i \in 1 .. Len(block') : i + 1 \in 1 .. Len(block) /\ block'[i] = block[i + 1]
      BY <2>1 DEF Types
    <3> QED
      BY <3>1 DEF Synchronised
  <2>3. CASE decoder'.thrown
    BY <2>1, <2>2, <2>3 DEF Synchronised
  <2>4. CASE ~ decoder'.thrown
    <3>1. PICK tables : Ahead(tables)
      BY <2>1 DEF Synchronised
    <3>2. block[1].rep = "incremental" => block[1].index = 0
      <4>1. 1 \in 1 .. Len(block)
        BY <2>1 DEF Types
      <4> QED
        BY <4>1 DEF Synchronised
    <3>3. \E further : Ahead(further)'
      BY <2>1, <2>4, <3>1, <3>2, AheadShortens
    <3> QED
      BY <2>1, <2>2, <2>4, <3>3 DEF Synchronised
  <2> QED
    BY <2>3, <2>4
<1>5. CASE DecodeEnd
  <2>1. UNCHANGED <<rows, limit, block, decoder>> /\ phase # "thrown" /\ block = <<>>
    BY <1>5 DEF DecodeEnd
  <2> QED
    BY <2>1 DEF Synchronised, Ahead
<1>6. CASE Terminated \/ UNCHANGED vars
  BY <1>6 DEF Synchronised, Ahead, Terminated, vars
<1> QED
  BY <1>1, <1>2, <1>3, <1>4, <1>5, <1>6 DEF Next

\* After a block that inserts entries under names of its own, client and server
\* hold the same dynamic table, whatever was evicted or resized on the way and
\* although each computes sizes and evictions by itself (hpack_table.cc:80-136).
THEOREM TablesAgreeAlways ==
  ASSUME InsertsNewNames
  PROVE  Spec => []TablesAgree
<1>1. Types /\ Synchronised => TablesAgree
  <2> SUFFICES ASSUME Types, Synchronised, phase = "done"
               PROVE  /\ rows = Reverse([i \in 1 .. Len(decoder.table.entries) |->
                                           RfcHeader(decoder.table.entries[i])])
                      /\ decoder.table.max_size = limit
    BY DEF TablesAgree
  <2>1. Len(block) = 0 /\ phase # "thrown"
    BY DEF Synchronised
  <2>2. PICK tables : Ahead(tables)
    BY <2>1 DEF Synchronised
  <2>3. rows = Reverse(decoder.table.entries) /\ limit = decoder.table.max_size
    BY <2>1, <2>2 DEF Ahead
  <2> PICK e : e = decoder.table.entries
    OBVIOUS
  <2>4. e = decoder.table.entries /\ e \in Seq(Headers)
    BY DEF Types, Decoders, Tables
  <2>5. PICK n \in Nat : n = Len(e)
    BY <2>4
  <2>6. ASSUME NEW i \in 1 .. n  PROVE RfcHeader(e[i]) = e[i]
    <3>1. /\ Reverse(e) \in Seq(Sendable) /\ Len(Reverse(e)) = n
          /\ \A j \in 1 .. n : Reverse(e)[j] = e[n - j + 1]
      BY <2>3, <2>4, <2>5, ReverseProperties DEF Types
    <3>2. n - i + 1 \in 1 .. n /\ n - (n - i + 1) + 1 = i
      OBVIOUS
    <3>3. e[i] \in Sendable
      BY <3>1, <3>2
    <3>4. PICK h \in Headers : e[i] = RfcHeader(h)
      BY <3>3, SendableAssumption DEF RfcHeaders
    <3>5. RfcHeader(RfcHeader(h)) = RfcHeader(h)
      BY DEF RfcHeader, Headers
    <3> QED
      BY <3>4, <3>5
  <2>7. [i \in 1 .. Len(e) |-> RfcHeader(e[i])] = e
    BY <2>4, <2>5, <2>6
  <2> QED
    BY <2>3, <2>4, <2>7
<1> QED
  BY <1>1, TypesInitially, TypesInductive, SynchronisedInitially, SynchronisedInductive, PTL
  DEF Spec

=============================================================================
