------------------------- MODULE HpackOctets_proofs --------------------------
(***************************************************************************)
(* What hpack_encoder writes and what hpack_decoder makes of octets, for   *)
(* every block, wherever it is cut and however integers and strings are    *)
(* written.                                                                *)
(***************************************************************************)
EXTENDS HpackOctets, SequenceSums_proofs, FiniteSetTheorems, SequenceTheorems

\* decode() and the table over texts that are octets.
F == INSTANCE HpackDecode_proofs WITH
       Names <- Text, Values <- Text, NameSize <- Lengths, ValueSize <- Lengths

\* The assumptions of the table hold for texts as names and values.
LEMMA TablesOfTexts ==
  /\ F!SizesAssumption
  /\ F!StaticTableAssumption
  /\ F!DefaultMaxSizeAssumption
  /\ Table!Tables = F!Tables
  /\ Table!Headers = F!Headers
  /\ Table!EmptyTable = F!EmptyTable
<1>1. \A s \in Text : Len(s) \in Nat
  BY DEF Text
<1>2. F!SizesAssumption
  BY <1>1 DEF F!SizesAssumption, Lengths
<1>3. F!StaticTableAssumption /\ F!DefaultMaxSizeAssumption
  BY HeadersAssumption DEF F!StaticTableAssumption, F!DefaultMaxSizeAssumption, F!Headers
<1>4. Table!Headers = F!Headers
  BY Zenon DEF Table!Headers, F!Headers
<1>5. Table!Tables = F!Tables
  BY <1>4, Zenon DEF Table!Tables, F!Tables
<1> QED
  BY <1>2, <1>3, <1>4, <1>5 DEF Table!EmptyTable, F!EmptyTable

\* Both instances of the table insert alike.
LEMMA SameAdd ==
  ASSUME NEW t, NEW h
  PROVE  Table!add(t, h) = F!add(t, h)
BY Zenon DEF Table!add, F!add, Table!evict, F!evict, Table!EvictionStops, F!EvictionStops,
             Table!Removed, F!Removed, Table!EntrySizes, F!EntrySizes, Table!entry_size,
             F!entry_size, Table!PartialSums, F!PartialSums

\* Both instances of the table resize alike.
LEMMA SameResize ==
  ASSUME NEW t, NEW n
  PROVE  Table!set_maximum_table_size(t, n) = F!set_maximum_table_size(t, n)
BY Zenon DEF Table!set_maximum_table_size, F!set_maximum_table_size, Table!evict, F!evict,
             Table!EvictionStops, F!EvictionStops, Table!Removed, F!Removed,
             Table!EntrySizes, F!EntrySizes, Table!entry_size, F!entry_size,
             Table!PartialSums, F!PartialSums

\* Both instances of the table look up alike.
LEMMA SameLookup ==
  ASSUME NEW t, NEW i
  PROVE  Table!hpack_table_at(t, i) = F!hpack_table_at(t, i)
BY Zenon DEF Table!hpack_table_at, F!hpack_table_at, Table!Nullopt, F!Nullopt,
             Table!hpack_static_table_at, F!hpack_static_table_at, Table!StaticSize,
             F!StaticSize, Table!at, F!at, Table!Thrown, F!Thrown, Table!Found, F!Found

-----------------------------------------------------------------------------
\* Integers, read.

\* Digit i can be added to w without overflow.
DigitFits(digits, w, i) ==
  digits[i] % 128 = 0 \/ (i <= 5 /\ digits[i] % 128 <= (IntMax - w) \div 128^(i - 1))

\* What the sums become with digit i.
NextSums(digits, S, i) ==
  {v + IF digits[i] % 128 = 0 THEN 0 ELSE (digits[i] % 128) * 128^(i - 1) :
     v \in {w \in S : DigitFits(digits, w, i)}}

\* Adding a digit makes integers of integers.
LEMMA NextSumsType ==
  ASSUME NEW digits \in Text, NEW i \in 1 .. Len(digits), NEW S \in SUBSET Int
  PROVE  NextSums(digits, S, i) \in SUBSET Int
<1>1. i - 1 \in Nat
  BY DEF Text
<1>2. 128^(i - 1) \in Int
  BY <1>1
<1>3. PICK d \in Int : d = digits[i] % 128
  <2>1. PICK o \in Octet : o = digits[i]
    BY DEF Text
  <2>2. o % 128 \in Int
    BY DEF Octet
  <2> QED
    BY <2>1, <2>2
<1>4. PICK p \in Int : p = 128^(i - 1)
  BY <1>2
<1>5. (IF d = 0 THEN 0 ELSE d * p) \in Int
  BY <1>3, <1>4
<1> QED
  BY <1>3, <1>4, <1>5 DEF NextSums

\* The sums of parse_integer_representation, digit by digit.
LEMMA SumsStep ==
  ASSUME NEW mask \in Int, NEW digits \in Text
  PROVE  /\ Sums(mask, digits) \in [0 .. Len(digits) -> SUBSET Int]
         /\ Sums(mask, digits)[0] = {mask}
         /\ \A i \in 1 .. Len(digits) :
              Sums(mask, digits)[i] = NextSums(digits, Sums(mask, digits)[i - 1], i)
<1>1. PICK n \in Nat : n = Len(digits)
  BY DEF Text
<1> DEFINE Eq(f) == f = [i \in 0 .. Len(digits) |->
                           IF i = 0 THEN {mask} ELSE NextSums(digits, f[i - 1], i)]
           D == SUBSET Int
           t == [i \in 1 .. n |-> [S \in D |-> NextSums(digits, S, i)]]
<1>2. Sums(mask, digits) = CHOOSE f : Eq(f)
  BY Zenon DEF Sums, NextSums, DigitFits
<1>3. PICK step \in Steps(n, D) :
        \A i \in 1 .. n, S \in D : step[i][S] = NextSums(digits, S, i)
  <2>1. t \in [1 .. n -> [D -> D]]
    <3>1. \A i \in 1 .. n, S \in D : NextSums(digits, S, i) \in D
      BY <1>1, NextSumsType
    <3> QED
      BY <3>1, Zenon
  <2>2. \A i \in 1 .. n, S \in D : t[i][S] = NextSums(digits, S, i)
    BY Zenon
  <2> HIDE DEF t, D
  <2> QED
    BY <2>1, <2>2 DEF Steps
<1> HIDE DEF t
<1>4. {mask} \in D
  OBVIOUS
<1> HIDE DEF D
<1>5. PICK run : IsRecursion(run, n, D, {mask}, step)
  BY <1>4, RecursionExists
<1>6. run \in [0 .. n -> D] /\ run[0] = {mask}
  BY <1>5 DEF IsRecursion
<1>7. \A i \in 1 .. n : run[i] = NextSums(digits, run[i - 1], i)
  <2>1. ASSUME NEW i \in 1 .. n  PROVE run[i - 1] \in D /\ run[i] = step[i][run[i - 1]]
    BY <1>5 DEF IsRecursion
  <2> QED
    BY <1>3, <2>1
<1>8. Eq(run)
  <2>1. \A i \in 0 .. n : i # 0 => i \in 1 .. n
    OBVIOUS
  <2>2. \A i \in 0 .. n : run[i] = IF i = 0 THEN {mask} ELSE NextSums(digits, run[i - 1], i)
    BY <1>6, <1>7, <2>1, Zenon
  <2>3. run = [i \in 0 .. n |-> run[i]]
    BY <1>6
  <2>4. [i \in 0 .. n |-> run[i]]
          = [i \in 0 .. n |-> IF i = 0 THEN {mask} ELSE NextSums(digits, run[i - 1], i)]
    BY <2>2, Zenon
  <2> QED
    BY <1>1, <2>3, <2>4, Zenon
<1>9. PICK c : c = Sums(mask, digits) /\ Eq(c)
  <2> HIDE DEF Eq
  <2> QED
    BY <1>2, <1>8, Zenon
<1>10. /\ c[0] = {mask}
       /\ \A i \in 1 .. n : c[i] = NextSums(digits, c[i - 1], i)
       /\ c = [i \in 0 .. n |-> c[i]]
  <2>1. c = [i \in 0 .. n |-> IF i = 0 THEN {mask} ELSE NextSums(digits, c[i - 1], i)]
    BY <1>1, <1>9, Zenon
  <2>2. 0 \in 0 .. n /\ \A i \in 1 .. n : i \in 0 .. n /\ i # 0
    OBVIOUS
  <2>3. c[0] = {mask}
    BY <2>1, <2>2, Zenon
  <2>4. \A i \in 1 .. n : c[i] = NextSums(digits, c[i - 1], i)
    BY <2>1, <2>2, Zenon
  <2>5. c = [i \in 0 .. n |-> c[i]]
    BY <2>1, Zenon
  <2> QED
    BY <2>3, <2>4, <2>5
<1> DEFINE N == {i \in Nat : i <= n => c[i] \in D}
<1>11. 0 \in N
  BY <1>4, <1>10
<1>12. ASSUME NEW i \in Nat, i \in N  PROVE i + 1 \in N
  <2>1. SUFFICES ASSUME i + 1 <= n  PROVE c[i + 1] \in D
    OBVIOUS
  <2>2. i + 1 \in 1 .. n /\ (i + 1) - 1 = i /\ i <= n
    BY <2>1
  <2>3. c[i] \in SUBSET Int
    BY <1>12, <2>2 DEF D
  <2>4. c[i + 1] = NextSums(digits, c[i], i + 1)
    BY <1>10, <2>2
  <2>5. c[i + 1] \in SUBSET Int
    BY <1>1, <2>2, <2>3, <2>4, NextSumsType
  <2> QED
    BY <2>5, Zenon DEF D
<1>13. Nat \subseteq N
  <2> HIDE DEF N
  <2> QED
    BY <1>11, <1>12, SetInduction
<1>14. c \in [0 .. n -> D]
  BY <1>10, <1>13
<1> QED
  BY <1>1, <1>9, <1>10, <1>14 DEF D

\* What the parser accumulates is an integer, overflow or not.
LEMMA AccumulatedType ==
  ASSUME NEW mask \in Int, NEW digits \in Text, NEW junk \in Int
  PROVE  Accumulated(mask, digits, junk) \in Int
<1>1. Len(digits) \in 0 .. Len(digits)
  BY DEF Text
<1>2. PICK sum \in SUBSET Int : sum = Sums(mask, digits)[Len(digits)]
  BY <1>1, SumsStep
<1> QED
  BY <1>2 DEF Accumulated

\* The least of a set of positions.
LEMMA MinOf ==
  ASSUME NEW S \in SUBSET Nat, S # {}
  PROVE  Min(S) \in S /\ \A x \in S : Min(S) <= x
<1>1. \E x \in S : \A y \in S : x <= y
  BY LeastElement
<1> QED
  BY <1>1 DEF Min

\* A least element is the minimum.
LEMMA MinIs ==
  ASSUME NEW S \in SUBSET Nat, NEW x \in S, \A y \in S : x <= y
  PROVE  Min(S) = x
<1>1. PICK m \in Nat : m = Min(S) /\ m \in S /\ m <= x
  BY MinOf
<1>2. x \in Nat /\ x <= m
  BY <1>1
<1> QED
  BY <1>1, <1>2

\* The widths of an integer prefix.
PrefixBits == {4, 5, 6, 7}

\* The powers of two a prefix can hold.
LEMMA PowersOfTwo == 2^4 = 16 /\ 2^5 = 32 /\ 2^6 = 64 /\ 2^7 = 128
BY SMT

\* The low bits of an octet.
LEMMA MaskType ==
  ASSUME NEW n \in PrefixBits
  PROVE  /\ 2^n \in {16, 32, 64, 128}
         /\ \A x \in Octet : x % 2^n \in 0 .. 2^n - 1
<1>1. 2^n \in {16, 32, 64, 128}
  <2>1. n = 4 \/ n = 5 \/ n = 6 \/ n = 7
    BY DEF PrefixBits
  <2>2. /\ n = 4 => 2^n = 16
        /\ n = 5 => 2^n = 32
        /\ n = 6 => 2^n = 64
        /\ n = 7 => 2^n = 128
    BY PowersOfTwo
  <2> QED
    BY <2>1, <2>2
<1>2. \A x \in Octet, m \in {16, 32, 64, 128} : x % m \in 0 .. m - 1
  BY DEF Octet
<1> QED
  BY <1>1, <1>2

\* Whatever the octets, an integer that is parsed is a number and takes an octet
\* or more, all of them in the block.
LEMMA IntegerType ==
  ASSUME octets \in Text, NEW n \in PrefixBits, NEW offset \in Nat, NEW junk \in Int
  PROVE  \/ parse_integer_representation(offset, n, junk) = Thrown
         \/ \E v \in Int, size \in Nat \ {0} :
              /\ offset + size <= Len(octets)
              /\ parse_integer_representation(offset, n, junk) = Parsed(v, size)
<1>1. PICK L \in Nat : L = Len(octets)
  BY DEF Text
<1> DEFINE mask == 2^n - 1
           first == octets[offset + 1] % 2^n
           last == {k \in 1 .. L - offset - 1 : octets[offset + 1 + k] < 128}
           p == parse_integer_representation(offset, n, junk)
           digits(k) == SubSeq(octets, offset + 2, offset + 1 + k)
<1>2. p = IF ~ InView(offset) THEN Thrown
          ELSE IF first < mask THEN Parsed(first, 1)
          ELSE IF last = {} THEN Thrown
          ELSE Parsed(Accumulated(mask, digits(Min(last)), junk), 1 + Min(last))
  BY <1>1, Zenon DEF parse_integer_representation
<1>3. InView(offset) => offset + 1 \in 1 .. L
  BY <1>1 DEF InView, Below
<1>4. offset + 1 \in 1 .. L => first \in Int
  <2>1. SUFFICES ASSUME offset + 1 \in 1 .. L  PROVE first \in Int
    OBVIOUS
  <2>2. octets[offset + 1] \in Octet
    BY <1>1, <2>1 DEF Text
  <2> QED
    BY <2>2, MaskType
<1>5. mask \in Int
  BY MaskType
<1>6. last # {} => Min(last) \in last
  <2>1. last \in SUBSET Nat
    BY <1>1
  <2> HIDE DEF last
  <2> QED
    BY <2>1, MinOf
<1>7. ASSUME last # {}  PROVE digits(Min(last)) \in Text
  <2>1. PICK k \in Nat : k = Min(last) /\ k \in 1 .. L - offset - 1
    <3>1. PICK k : k = Min(last)
      OBVIOUS
    <3>2. k \in last
      BY <1>6, <1>7, <3>1, Zenon
    <3>3. k \in 1 .. L - offset - 1
      BY <3>2
    <3> QED
      BY <3>1, <3>3
  <2>2. offset + 2 \in Nat /\ offset + 2 >= 1 /\ offset + 1 + k <= L
    BY <2>1
  <2>3. \A i \in offset + 2 .. offset + 1 + k : octets[i] \in Octet
    BY <1>1, <2>1, <2>2 DEF Text
  <2>4. digits(k) \in Seq(Octet)
    BY <1>1, <2>1, <2>2, <2>3 DEF Text
  <2> QED
    BY <2>1, <2>4 DEF Text
<1> HIDE DEF mask, first, last, p, digits
<1>8. CASE ~ InView(offset) \/ (~ first < mask /\ last = {})
  BY <1>2, <1>8 DEF p
<1>9. CASE InView(offset) /\ first < mask
  <2>1. p = Parsed(first, 1) /\ first \in Int /\ 1 \in Nat \ {0} /\ offset + 1 <= Len(octets)
    BY <1>1, <1>2, <1>3, <1>4, <1>9
  <2> QED
    BY <2>1 DEF p
<1>10. CASE InView(offset) /\ ~ first < mask /\ last # {}
  <2>1. PICK k \in Nat : k = Min(last) /\ k \in 1 .. L - offset - 1
    BY <1>6, <1>10 DEF last
  <2>2. 1 + k \in Nat \ {0} /\ offset + (1 + k) <= Len(octets)
    BY <1>1, <2>1
  <2>3. PICK v \in Int : v = Accumulated(mask, digits(k), junk)
    BY <1>5, <1>7, <1>10, <2>1, AccumulatedType
  <2>4. p = Parsed(v, 1 + k)
    BY <1>2, <1>10, <2>1, <2>3
  <2> QED
    BY <2>2, <2>3, <2>4 DEF p
<1> QED
  BY <1>8, <1>9, <1>10

\* A string that is parsed is a text and takes an octet or more, all of them in
\* the block.
LEMMA StringType ==
  ASSUME octets \in Text, NEW offset \in Nat, NEW junk \in Int
  PROVE  \/ parse_string_literal_representation(offset, junk) = Thrown
         \/ \E s \in Text, size \in Nat \ {0} :
              /\ offset + size <= Len(octets)
              /\ parse_string_literal_representation(offset, junk) = Parsed(s, size)
<1>1. PICK L \in Nat : L = Len(octets)
  BY DEF Text
<1> DEFINE p == parse_string_literal_representation(offset, junk)
           integer == parse_integer_representation(offset, 7, junk)
<1>2. CASE integer = Thrown
  BY <1>2 DEF parse_string_literal_representation, Thrown
<1>3. ASSUME NEW v \in Int, NEW size \in Nat \ {0},
             offset + size <= L, integer = Parsed(v, size)
      PROVE  \/ p = Thrown
             \/ \E s \in Text, k \in Nat \ {0} : offset + k <= L /\ p = Parsed(s, k)
  <2> DEFINE data == SubSeq(octets, offset + size + 1, offset + size + v)
  <2>1. /\ integer.outcome = "parsed" /\ integer.value = v /\ integer.size = size
        /\ integer.outcome # "thrown"
    BY <1>3 DEF Parsed
  <2>2. p = IF ~ InView(offset) THEN Thrown
            ELSE IF v = 0 \/ ~ SubviewFits(offset + size, v) THEN Thrown
            ELSE IF octets[offset + 1] < 128 THEN Parsed(data, size + v)
            ELSE IF data \in DOMAIN HuffmanText THEN Parsed(HuffmanText[data], size + v)
            ELSE Thrown
    <3> HIDE DEF integer
    <3> QED
      BY <2>1, Zenon DEF parse_string_literal_representation, integer
  <2>3. ASSUME v # 0, SubviewFits(offset + size, v)
        PROVE  v \in Nat \ {0} /\ offset + size + v <= L
    BY <1>1, <2>3 DEF SubviewFits, Below
  <2>4. ASSUME v \in Nat \ {0}, offset + size + v <= L
        PROVE  data \in Text
    <3>1. \A i \in offset + size + 1 .. offset + size + v : octets[i] \in Octet
      BY <1>1, <2>4 DEF Text
    <3> QED
      BY <1>1, <2>4, <3>1 DEF Text
  <2>5. data \in DOMAIN HuffmanText => HuffmanText[data] \in Text
    BY HuffmanAssumption
  <2> HIDE DEF data, p
  <2>6. ASSUME v \in Nat \ {0}, offset + size + v <= L
        PROVE  size + v \in Nat \ {0} /\ offset + (size + v) <= L
    BY <2>6
  <2> QED
    BY <2>2, <2>3, <2>4, <2>5, <2>6
<1>4. \/ integer = Thrown
      \/ \E v \in Int, size \in Nat \ {0} : offset + size <= L /\ integer = Parsed(v, size)
  <2>1. 7 \in PrefixBits
    BY DEF PrefixBits
  <2> QED
    BY <1>1, <2>1, IntegerType
<1> QED
  BY <1>1, <1>2, <1>3, <1>4

-----------------------------------------------------------------------------
\* One turn of the loop, whatever the octets.

\* A lookup finds a header, finds none or throws.
LEMMA LookupOutcome ==
  ASSUME NEW t, F!Consistent(t), NEW i \in Int
  PROVE  \/ \E h \in F!Headers : Table!hpack_table_at(t, i) = F!Found(h)
         \/ Table!hpack_table_at(t, i) = F!Nullopt
         \/ Table!hpack_table_at(t, i) = F!Thrown
<1>1. Table!hpack_table_at(t, i) = F!hpack_table_at(t, i)
  BY SameLookup
<1>2. CASE i \in Nat
  BY <1>1, <1>2, TablesOfTexts, F!LookupType
<1>3. CASE i < 0
  <2>1. PICK m \in Nat : m = F!StaticSize
    <3>1. Len(StaticTable) \in Nat
      BY HeadersAssumption
    <3> QED
      BY <3>1 DEF F!StaticSize
  <2>2. PICK k : k = m + Len(t.entries)
    OBVIOUS
  <2>3. i # 0 /\ i \notin 1 .. m /\ i \notin m + 1 .. k
    BY <1>3
  <2>4. F!hpack_table_at(t, i) = F!Nullopt
    BY <2>1, <2>2, <2>3 DEF F!hpack_table_at
  <2> QED
    BY <1>1, <2>4
<1> QED
  BY <1>2, <1>3

\* A header that is fetched ends behind where it began, within the block.
LEMMA FetchOutcome ==
  ASSUME octets \in Text, NEW t, F!Consistent(t), NEW index \in Int, NEW pos \in Nat,
         NEW junk \in Int
  PROVE  \/ fetch_header(t, index, pos, junk) = Thrown
         \/ \E h \in F!Headers, end \in Nat :
              /\ pos < end /\ end <= Len(octets)
              /\ fetch_header(t, index, pos, junk) = Fetched(h, end)
<1>1. PICK L \in Nat : L = Len(octets)
  BY DEF Text
<1> DEFINE p == fetch_header(t, index, pos, junk)
           indexed == Table!hpack_table_at(t, index)
           String(at) == parse_string_literal_representation(at, junk)
           valuePos == IF index # 0 THEN pos ELSE pos + String(pos).size
           named == IF index # 0 THEN indexed.outcome = "header"
                    ELSE String(pos).outcome # "thrown"
           name == IF index # 0 THEN indexed.header.name ELSE String(pos).value
<1>2. p = IF ~ named THEN Thrown
          ELSE IF String(valuePos).outcome = "thrown" THEN Thrown
          ELSE Fetched([name |-> name, value |-> String(valuePos).value],
                       valuePos + String(valuePos).size)
  BY DEF fetch_header
<1>3. ASSUME NEW at \in Nat, String(at).outcome # "thrown"
      PROVE  \E s \in Text, size \in Nat \ {0} :
               at + size <= L /\ String(at) = Parsed(s, size)
  <2>1. String(at) # Thrown
    BY <1>3 DEF Thrown
  <2> QED
    BY <1>1, <2>1, StringType
<1>4. ASSUME named
      PROVE  name \in Text /\ valuePos \in Nat /\ pos <= valuePos
  <2>1. CASE index # 0
    <3>1. indexed.outcome = "header"
      BY <1>4, <2>1
    <3>2. PICK h \in F!Headers : indexed = F!Found(h)
      BY <3>1, LookupOutcome DEF F!Nullopt, F!Thrown
    <3>3. indexed.header.name = h.name /\ h.name \in Text
      BY <3>2 DEF F!Found, F!Headers
    <3> QED
      BY <2>1, <3>3
  <2>2. CASE index = 0
    <3>1. String(pos).outcome # "thrown"
      BY <1>4, <2>2
    <3>2. PICK s \in Text, size \in Nat \ {0} : String(pos) = Parsed(s, size)
      BY <1>3, <3>1
    <3>3. String(pos).value = s /\ String(pos).size = size
      BY <3>2 DEF Parsed
    <3> QED
      BY <2>2, <3>3
  <2> QED
    BY <2>1, <2>2
<1> HIDE DEF p, indexed, String, valuePos, named, name
<1>5. CASE named /\ String(valuePos).outcome # "thrown"
  <2>1. PICK at \in Nat : at = valuePos /\ pos <= at
    BY <1>4, <1>5
  <2>2. PICK s \in Text, size \in Nat \ {0} : at + size <= L /\ String(at) = Parsed(s, size)
    BY <1>3, <1>5, <2>1
  <2>3. String(at).value = s /\ String(at).size = size
    BY <2>2 DEF Parsed
  <2>4. p = Fetched([name |-> name, value |-> s], at + size)
    BY <1>2, <1>5, <2>1, <2>3
  <2>5. [name |-> name, value |-> s] \in F!Headers
    BY <1>4, <1>5 DEF F!Headers
  <2>6. at + size \in Nat /\ pos < at + size
    BY <2>1
  <2> QED
    BY <1>1, <2>2, <2>4, <2>5, <2>6 DEF p
<1>6. CASE ~ (named /\ String(valuePos).outcome # "thrown")
  <2>1. p = Thrown
    BY <1>2, <1>6
  <2> QED
    BY <2>1 DEF p
<1> QED
  BY <1>5, <1>6

\* What one turn adds leaves a decoder.
LEMMA AddHeaderType ==
  ASSUME decoder \in F!Decoders, NEW h \in F!Headers
  PROVE  /\ AddHeader(F!Found(h)) => decoder' \in F!Decoders /\ ~ decoder'.thrown
         /\ AddHeader(F!Nullopt) => decoder' \in F!Decoders /\ ~ decoder'.thrown
         /\ AddHeader(Thrown) => decoder' \in F!Decoders /\ decoder'.thrown
<1>1. PICK d : d = decoder
  OBVIOUS
<1>2. d \in [table : F!Tables, headers : Seq(F!Headers), thrown : BOOLEAN] /\ F!Consistent(d.table)
  BY <1>1 DEF F!Decoders
<1>3. Append(d.headers, h) \in Seq(F!Headers)
  BY <1>2
<1>4. ASSUME NEW hs \in Seq(F!Headers), NEW b \in BOOLEAN
      PROVE  /\ [d EXCEPT !.headers = hs, !.thrown = b] \in F!Decoders
             /\ [d EXCEPT !.headers = hs, !.thrown = b].thrown = b
  BY <1>2 DEF F!Decoders
<1>5. ASSUME AddHeader(F!Found(h))
      PROVE  decoder' = [d EXCEPT !.headers = Append(@, h), !.thrown = FALSE]
  BY <1>1, <1>5 DEF AddHeader, F!Found
<1>6. ASSUME AddHeader(F!Nullopt)
      PROVE  decoder' = [d EXCEPT !.headers = @, !.thrown = FALSE]
  BY <1>1, <1>6 DEF AddHeader, F!Nullopt
<1>7. ASSUME AddHeader(Thrown)
      PROVE  decoder' = [d EXCEPT !.headers = @, !.thrown = TRUE]
  BY <1>1, <1>7 DEF AddHeader, Thrown
<1>8. d.headers \in Seq(F!Headers)
  BY <1>2
<1> QED
  BY <1>3, <1>4, <1>5, <1>6, <1>7, <1>8

\* The representations decode() tells apart.
Kinds == {"indexed", "incremental", "resize", "never", "without"}

\* What a representation does keeps the decoder a decoder; unless it throws, it
\* moves on, and stays within the block.
LEMMA ApplyTypes ==
  ASSUME octets \in Text, decoder \in F!Decoders, ~ decoder.thrown,
         decode_pos \in Nat, decode_pos <= Len(octets),
         NEW rep \in Kinds, NEW v \in Int, NEW size \in Nat \ {0},
         decode_pos + size <= Len(octets), NEW junk \in Int,
         Apply(rep, Parsed(v, size), junk)
  PROVE  /\ decoder' \in F!Decoders
         /\ decode_pos' \in 0 .. Len(octets)
         /\ IF decoder'.thrown THEN decode_pos' = decode_pos ELSE decode_pos' > decode_pos
<1>1. PICK L \in Nat : L = Len(octets)
  BY DEF Text
<1>2. PICK at \in Nat : at = decode_pos
  OBVIOUS
<1>3. PICK d : d = decoder
  OBVIOUS
<1>4. /\ d \in [table : F!Tables, headers : Seq(F!Headers), thrown : BOOLEAN]
      /\ F!Consistent(d.table) /\ ~ d.thrown
  BY <1>3 DEF F!Decoders
<1>5. PICK pos \in Nat : pos = at + size /\ pos > at /\ pos <= L
  BY <1>1, <1>2
<1> DEFINE found == Table!hpack_table_at(d.table, v)
           fetched == fetch_header(d.table, v, pos, junk)
<1>6. /\ rep = "indexed" =>
           AddHeader(found) /\ decode_pos' = IF found.outcome = "thrown" THEN at ELSE pos
      /\ rep = "resize" =>
           /\ decoder' = [d EXCEPT !.table = Table!set_maximum_table_size(@, AsSize(v))]
           /\ decode_pos' = pos
      /\ rep \in Literals =>
           IF fetched.outcome = "thrown"
             THEN AddHeader(fetched) /\ decode_pos' = at
             ELSE /\ decoder' = [d EXCEPT
                                  !.headers = Append(@, fetched.header),
                                  !.table = IF rep = "incremental"
                                              THEN Table!add(@, fetched.header) ELSE @]
                  /\ decode_pos' = fetched.pos
  BY <1>2, <1>3, <1>5 DEF Apply, Parsed, Literals
<1>7. CASE rep = "indexed"
  <2>1. AddHeader(found) /\ decode_pos' = IF found.outcome = "thrown" THEN at ELSE pos
    BY <1>6, <1>7
  <2>2. CASE found = F!Thrown
    <3>1. found = Thrown /\ found.outcome = "thrown"
      BY <2>2 DEF F!Thrown, Thrown
    <3>2. decoder' \in F!Decoders /\ decoder'.thrown
      <4>1. [name |-> <<>>, value |-> <<>>] \in F!Headers
        BY DEF F!Headers, Text
      <4> HIDE DEF found
      <4> QED
        BY <2>1, <3>1, <4>1, AddHeaderType
    <3> QED
      BY <1>1, <1>2, <2>1, <3>1, <3>2
  <2>3. ASSUME NEW h \in F!Headers, found = F!Found(h) \/ found = F!Nullopt
        PROVE  decoder' \in F!Decoders /\ ~ decoder'.thrown /\ decode_pos' = pos
    <3>1. found.outcome # "thrown"
      BY <2>3 DEF F!Found, F!Nullopt
    <3> HIDE DEF found
    <3> QED
      BY <2>1, <2>3, <3>1, AddHeaderType
  <2>4. \/ \E h \in F!Headers : found = F!Found(h)
        \/ found = F!Nullopt \/ found = F!Thrown
    BY <1>4, LookupOutcome
  <2>5. [name |-> <<>>, value |-> <<>>] \in F!Headers
    BY DEF F!Headers, Text
  <2> HIDE DEF found
  <2> QED
    BY <1>1, <1>2, <1>5, <2>2, <2>3, <2>4, <2>5
<1>8. CASE rep = "resize"
  <2>1. AsSize(v) \in Nat
    BY DEF AsSize, IntMax
  <2>2. PICK u : u = F!set_maximum_table_size(d.table, AsSize(v)) /\ F!Consistent(u)
    BY <1>4, <2>1, TablesOfTexts, F!ResizeCorrect
  <2>3. u \in F!Tables
    BY <2>2 DEF F!Consistent
  <2>4. decoder' = [d EXCEPT !.table = u]
    BY <1>6, <1>8, <2>2, SameResize
  <2>5. decoder' \in F!Decoders /\ ~ decoder'.thrown
    BY <1>4, <2>2, <2>3, <2>4 DEF F!Decoders
  <2> QED
    BY <1>1, <1>2, <1>5, <1>6, <1>8, <2>5
<1>9. CASE rep \in Literals
  <2>1. IF fetched.outcome = "thrown"
          THEN AddHeader(fetched) /\ decode_pos' = at
          ELSE /\ decoder' = [d EXCEPT
                               !.headers = Append(@, fetched.header),
                               !.table = IF rep = "incremental"
                                           THEN Table!add(@, fetched.header) ELSE @]
               /\ decode_pos' = fetched.pos
    BY <1>6, <1>9
  <2>2. CASE fetched = Thrown
    <3>1. fetched.outcome = "thrown"
      BY <2>2 DEF Thrown
    <3>2. AddHeader(Thrown) /\ decode_pos' = at
      BY <2>1, <2>2, <3>1
    <3>3. [name |-> <<>>, value |-> <<>>] \in F!Headers
      BY DEF F!Headers, Text
    <3>4. decoder' \in F!Decoders /\ decoder'.thrown
      BY <3>2, <3>3, AddHeaderType
    <3> QED
      BY <1>1, <1>2, <3>2, <3>4
  <2>3. ASSUME NEW h \in F!Headers, NEW end \in Nat, pos < end, end <= L,
               fetched = Fetched(h, end)
        PROVE  decoder' \in F!Decoders /\ ~ decoder'.thrown /\ decode_pos' = end
    <3>1. fetched.outcome = "header" /\ fetched.header = h /\ fetched.pos = end
      BY <2>3 DEF Fetched
    <3>2. PICK u : /\ u = IF rep = "incremental" THEN F!add(d.table, h) ELSE d.table
                   /\ F!Consistent(u)
      BY <1>4, TablesOfTexts, F!AddCorrect
    <3>3. decoder' = [d EXCEPT !.headers = Append(@, h), !.table = u] /\ decode_pos' = end
      BY <2>1, <3>1, <3>2, SameAdd
    <3>4. u \in F!Tables
      BY <3>2 DEF F!Consistent
    <3>5. Append(d.headers, h) \in Seq(F!Headers)
      BY <1>4
    <3>6. decoder' \in F!Decoders /\ ~ decoder'.thrown
      BY <1>4, <3>2, <3>3, <3>4, <3>5 DEF F!Decoders
    <3> QED
      BY <3>3, <3>6
  <2>4. \/ fetched = Thrown
        \/ \E h \in F!Headers, end \in Nat :
             pos < end /\ end <= L /\ fetched = Fetched(h, end)
    BY <1>1, <1>4, FetchOutcome
  <2> HIDE DEF fetched
  <2>5. ASSUME NEW end \in Nat, pos < end, end <= L  PROVE end \in 0 .. L /\ end > at
    BY <1>5, <2>5
  <2> QED
    BY <1>1, <1>2, <2>2, <2>3, <2>4, <2>5
<1> QED
  BY <1>7, <1>8, <1>9 DEF Kinds, Literals

-----------------------------------------------------------------------------
\* Blocks that consist of parts.

\* One text behind another.
LEMMA TextConcat ==
  ASSUME NEW b \in Text, NEW c \in Text
  PROVE  /\ b \o c \in Text /\ Len(b) \in Nat /\ Len(c) \in Nat
         /\ Len(b \o c) = Len(b) + Len(c)
         /\ \A j \in 1 .. Len(b) : (b \o c)[j] = b[j]
         /\ \A j \in 1 .. Len(c) : (b \o c)[Len(b) + j] = c[j]
<1>1. b \o c \in Text
  BY DEF Text
<1>2. IsSeq(b) /\ IsSeq(c)
  BY DEF IsSeq, Text
<1> QED
  BY <1>1, <1>2, SeqConcat

\* What the parts of a block make together grows at its end.
LEMMA BlockGrows ==
  ASSUME NEW parts \in Seq(Text), NEW joined, IsJoin(joined, parts, Octet),
         NEW i \in 0 .. Len(parts), NEW m \in i .. Len(parts)
  PROVE  /\ Len(joined[i]) \in Nat /\ Len(joined[m]) \in Nat
         /\ Len(joined[i]) <= Len(joined[m])
         /\ \A j \in 1 .. Len(joined[i]) : joined[m][j] = joined[i][j]
<1>1. parts \in Seq(Seq(Octet))
  BY DEF Text
<1> QED
  BY <1>1, JoinGrows

\* Three texts, one behind the other.
LEMMA TextAssociative ==
  ASSUME NEW a \in Text, NEW b \in Text, NEW c \in Text
  PROVE  (a \o b) \o c = a \o (b \o c)
<1>1. a \in Seq(Octet) /\ b \in Seq(Octet) /\ c \in Seq(Octet)
  BY DEF Text
<1> QED
  BY <1>1, ConcatAssociative, SMTT(30)

-----------------------------------------------------------------------------
\* Integers, written.

\* The weights of the digits.
LEMMA PowersOf128 ==
  /\ 128^0 = 1 /\ 128^1 = 128 /\ 128^2 = 16384 /\ 128^3 = 2097152
  /\ 128^4 = 268435456
<1>1. 128^0 = 1 /\ 128^1 = 128 /\ 128^2 = 16384
  BY SMT
<1>2. 128^3 = 2097152
  BY SMT
<1>3. 128^4 = 268435456
  BY SMT
<1> QED
  BY <1>1, <1>2, <1>3, SMT

\* The numbers are an interval from 0.
LEMMA NumbersAre == \E m \in Nat : Numbers = 0 .. m
<1>1. PICK m \in Nat : m = 128^4 - 1
  BY PowersOf128, SMT
<1> QED
  BY <1>1 DEF Numbers

\* v has no more than k digits.
HasDigits(v, k) == v < 128^k

\* The weight of digit j, and the digit without its mark.
Weight(j) == 128^(j - 1)

\* Digit j of v, written with k digits; what pads them is 0.
DigitOf(v, k, j) == IF j <= k THEN (v \div Weight(j)) % 128 ELSE 0

\* The weights of the first four digits.
LEMMA WeightIs ==
  ASSUME NEW j \in 1 .. 4
  PROVE  /\ Weight(j) \in Nat \ {0}
         /\ j = 1 => Weight(j) = 1
         /\ j = 2 => Weight(j) = 128
         /\ j = 3 => Weight(j) = 128 * 128
         /\ j = 4 => Weight(j) = 128 * 128 * 128
<1>1. j = 1 => 128^(j - 1) = 1
  BY PowersOf128, SMT
<1>2. j = 2 => 128^(j - 1) = 128
  BY PowersOf128, SMT
<1>3. j = 3 => 128^(j - 1) = 128 * 128
  BY PowersOf128, SMT
<1>4. j = 4 => 128^(j - 1) = 128 * 128 * 128
  BY PowersOf128, SMT
<1>5. j = 1 \/ j = 2 \/ j = 3 \/ j = 4
  OBVIOUS
<1>6. PICK p : p = Weight(j)
  OBVIOUS
<1>7. /\ j = 1 => p = 1
      /\ j = 2 => p = 128
      /\ j = 3 => p = 128 * 128
      /\ j = 4 => p = 128 * 128 * 128
  BY <1>1, <1>2, <1>3, <1>4, <1>6, Zenon DEF Weight
<1>8. p \in Nat \ {0}
  BY <1>5, <1>7
<1> QED
  BY <1>6, <1>7, <1>8

\* A digit has 7 bits.
LEMMA DigitType ==
  ASSUME NEW v \in Numbers, NEW k \in 1 .. 4, NEW j \in Nat \ {0}
  PROVE  DigitOf(v, k, j) \in 0 .. 127
<1>1. CASE j <= k
  <2>1. j \in 1 .. 4
    BY <1>1
  <2>2. PICK p \in Nat \ {0} : p = Weight(j)
    BY <2>1, WeightIs
  <2>3. v \in Nat
    BY NumbersAre
  <2>4. (v \div p) % 128 \in 0 .. 127
    <3>1. v \div p \in Int
      BY <2>2, <2>3
    <3> QED
      BY <3>1
  <2> QED
    BY <1>1, <2>2, <2>4 DEF DigitOf
<1>2. CASE ~ j <= k
  BY <1>2 DEF DigitOf
<1> QED
  BY <1>1, <1>2

\* The octets behind a full prefix, one by one.
LEMMA DigitsAre ==
  ASSUME NEW v \in Numbers, NEW k \in 1 .. 4, NEW pad \in Nat
  PROVE  /\ Digits(v, k, pad) \in Text
         /\ Len(Digits(v, k, pad)) = k + pad
         /\ \A j \in 1 .. k + pad :
              Digits(v, k, pad)[j] = DigitOf(v, k, j) + IF j < k + pad THEN 128 ELSE 0
<1>1. PICK n \in Nat : n = k + pad
  OBVIOUS
<1> DEFINE D(j) == DigitOf(v, k, j) + IF j < n THEN 128 ELSE 0
<1>2. Digits(v, k, pad) = [j \in 1 .. n |-> D(j)]
  BY <1>1, Zenon DEF Digits, DigitOf, Weight
<1>3. \A j \in 1 .. n : D(j) \in Octet
  <2>1. \A j \in 1 .. n : DigitOf(v, k, j) \in 0 .. 127
    BY DigitType
  <2>2. ASSUME NEW j \in 1 .. n  PROVE D(j) \in Octet
    <3>1. PICK a \in 0 .. 127 : a = DigitOf(v, k, j)
      BY <2>1
    <3>2. a \in Octet /\ a + 128 \in Octet /\ a + 0 = a
      BY DEF Octet
    <3> QED
      BY <3>1, <3>2
  <2> QED
    BY <2>2
<1> HIDE DEF D
<1>4. Digits(v, k, pad) \in Seq(Octet) /\ Len(Digits(v, k, pad)) = n
  BY <1>2, <1>3
<1>5. \A j \in 1 .. n : Digits(v, k, pad)[j] = D(j)
  BY <1>2
<1> QED
  BY <1>1, <1>4, <1>5 DEF D, Text

\* Bits at the top of an octet that leave n of them to an integer.
IsTop(top, n) ==
  n \in PrefixBits /\ top \in Nat /\ top % 2^n = 0 /\ top + 2^n - 1 <= 255

\* The prefixes of representations and strings.
LEMMA PrefixesAre ==
  /\ IsTop(128, 7) /\ IsTop(64, 6) /\ IsTop(32, 5)
  /\ IsTop(16, 4) /\ IsTop(0, 4) /\ IsTop(0, 7)
BY PowersOfTwo DEF IsTop, PrefixBits

\* An integer fits into its prefix, or goes on behind it with k digits of v.
Short(s, top, n, i) == i < 2^n - 1 /\ Len(s) = 1 /\ s[1] = top + i

\* s is i with a full prefix and k digits of the rest v, padded.
Long(s, top, n, i, pad, v, k) ==
  /\ i = 2^n - 1 + v
  /\ k = Min({m \in 1 .. 4 : v < 128^m})
  /\ HasDigits(v, k)
  /\ Len(s) = 1 + k + pad
  /\ s[1] = top + 2^n - 1
  /\ \A j \in 1 .. k + pad :
       s[1 + j] = DigitOf(v, k, j) + IF j < k + pad THEN 128 ELSE 0

\* An integer fits into its prefix or has digits behind it.
LEMMA RfcIntegerIs ==
  ASSUME NEW n, NEW top, IsTop(top, n), NEW i \in Numbers, NEW pad \in Nat
  PROVE  LET s == RfcInteger(top, n, i, pad)
         IN  /\ s \in Text
             /\ \/ Short(s, top, n, i)
                \/ \E v \in Numbers, k \in 1 .. 4 : Long(s, top, n, i, pad, v, k)
<1>0. n \in PrefixBits /\ top \in Nat /\ top + 2^n - 1 <= 255
  BY DEF IsTop
<1>1. PICK mask \in Nat : mask = 2^n - 1 /\ mask \in {15, 31, 63, 127}
  BY <1>0, MaskType
<1>2. PICK s : s = RfcInteger(top, n, i, pad)
  OBVIOUS
<1>3. i \in Nat
  BY PowersOf128, SMT DEF Numbers
<1>4. top + mask \in Octet
  BY <1>0, <1>1, MaskType DEF Octet
<1>5. CASE i < mask
  <2>1. s = <<top + i>>
    BY <1>1, <1>2, <1>5 DEF RfcInteger
  <2>2. top + i \in Octet
    BY <1>0, <1>1, <1>3, <1>4, <1>5 DEF Octet
  <2>3. s \in Text /\ Len(s) = 1 /\ s[1] = top + i
    BY <2>1, <2>2 DEF Text
  <2> QED
    BY <1>1, <1>2, <1>5, <2>3 DEF Short
<1>6. CASE ~ i < mask
  <2>1. PICK v \in Numbers : v = i - mask
    <3>1. PICK m \in Nat : Numbers = 0 .. m
      BY NumbersAre
    <3>2. i - mask \in 0 .. m
      BY <1>1, <1>3, <1>6, <3>1
    <3> QED
      BY <3>1, <3>2
  <2> DEFINE K == {m \in 1 .. 4 : v < 128^m}
  <2>2. PICK k \in 1 .. 4 : k = Min(K) /\ k \in K
    <3>1. 4 \in K
      BY SMT DEF Numbers
    <3>2. K \in SUBSET Nat
      OBVIOUS
    <3>3. Min(K) \in K
      <4> HIDE DEF K
      <4> QED
        BY <3>1, <3>2, MinOf
    <3> QED
      BY <3>3
  <2>3. HasDigits(v, k)
    BY <2>2 DEF HasDigits
  <2>4. PICK d \in Text : /\ d = Digits(v, k, pad) /\ Len(d) = k + pad
                          /\ \A j \in 1 .. k + pad :
                               d[j] = DigitOf(v, k, j) + IF j < k + pad THEN 128 ELSE 0
    BY DigitsAre
  <2>5. s = <<top + mask>> \o d
    BY <1>1, <1>2, <1>6, <2>1, <2>2, <2>4 DEF RfcInteger
  <2>6. <<top + mask>> \in Text /\ Len(<<top + mask>>) = 1 /\ <<top + mask>>[1] = top + mask
    BY <1>4 DEF Text
  <2>7. PICK one : one = <<top + mask>> /\ one \in Text /\ Len(one) = 1 /\ one[1] = top + mask
    BY <2>6
  <2>8. /\ s \in Text /\ Len(s) = 1 + Len(d)
        /\ \A j \in 1 .. Len(one) : s[j] = one[j]
        /\ \A j \in 1 .. Len(d) : s[1 + j] = d[j]
    BY <2>5, <2>7, TextConcat
  <2>9. s[1] = top + mask
    BY <2>7, <2>8
  <2>10. i = mask + v
    BY <1>1, <1>3, <2>1
  <2> HIDE DEF K
  <2>11. Len(s) = 1 + k + pad
    BY <2>4, <2>8
  <2>12. \A j \in 1 .. k + pad : s[1 + j] = DigitOf(v, k, j) + IF j < k + pad THEN 128 ELSE 0
    BY <2>4, <2>8
  <2>13. /\ i = 2^n - 1 + v /\ s[1] = top + 2^n - 1
         /\ k = Min({m \in 1 .. 4 : v < 128^m})
    <3>1. top + mask = top + 2^n - 1
      BY <1>0, <1>1, MaskType
    <3> QED
      BY <1>1, <2>2, <2>9, <2>10, <3>1 DEF K
  <2>14. Long(s, top, n, i, pad, v, k)
    BY <2>3, <2>11, <2>12, <2>13, Zenon DEF Long
  <2> QED
    BY <1>2, <2>8, <2>14
<1> QED
  BY <1>5, <1>6

\* An integer takes at least one octet.
LEMMA RfcIntegerLength ==
  ASSUME NEW n, NEW top, IsTop(top, n), NEW i \in Numbers, NEW pad \in Nat
  PROVE  RfcInteger(top, n, i, pad) \in Text /\ Len(RfcInteger(top, n, i, pad)) \in Nat \ {0}
<1>1. PICK s : s = RfcInteger(top, n, i, pad)
  OBVIOUS
<1>2. /\ s \in Text
      /\ \/ Short(s, top, n, i)
         \/ \E v \in Numbers, k \in 1 .. 4 : Long(s, top, n, i, pad, v, k)
  BY <1>1, RfcIntegerIs
<1>3. Short(s, top, n, i) => Len(s) \in Nat \ {0}
  BY DEF Short
<1>4. ASSUME NEW v \in Numbers, NEW k \in 1 .. 4, Long(s, top, n, i, pad, v, k)
      PROVE  Len(s) \in Nat \ {0}
  <2>1. Len(s) = 1 + k + pad
    BY <1>4 DEF Long
  <2> QED
    BY <2>1
<1> QED
  BY <1>1, <1>2, <1>3, <1>4, Zenon

-----------------------------------------------------------------------------
\* Integers, read as they were written.

\* The part of v that its first j digits carry.
Low(v, j) == IF j < 4 THEN v % Weight(j + 1) ELSE v

\* No digit is behind the last one.
LEMMA HasDigitsIs ==
  ASSUME NEW v, NEW k \in 1 .. 3
  PROVE  HasDigits(v, k) <=> v < Weight(k + 1)
<1>1. (k + 1) - 1 = k
  OBVIOUS
<1> QED
  BY <1>1, Zenon DEF HasDigits, Weight

\* A number has at most four digits.
LEMMA NumberBound ==
  ASSUME NEW v \in Numbers
  PROVE  v \in Nat /\ v < 128 * 128 * 128 * 128
BY PowersOf128, SMT DEF Numbers

\* A digit does not depend on how many are written.
LEMMA DigitIs ==
  ASSUME NEW v \in Numbers, NEW k \in 1 .. 4, HasDigits(v, k), NEW j \in 1 .. 4
  PROVE  DigitOf(v, k, j) = (v \div Weight(j)) % 128
<1>1. CASE j <= k
  BY <1>1 DEF DigitOf
<1>2. CASE ~ j <= k
  <2>1. PICK p \in Nat \ {0}, q \in Nat \ {0} : p = Weight(j) /\ q = Weight(k + 1)
    BY <1>2, WeightIs
  <2>2. v \in Nat /\ v < q
    BY <1>2, <2>1, NumberBound, HasDigitsIs
  <2>3. \/ k = 1 /\ j \in 2 .. 4
        \/ k = 2 /\ j \in 3 .. 4
        \/ k = 3 /\ j = 4
    BY <1>2
  <2>4. q <= p
    <3>1. CASE k = 1 /\ j \in 2 .. 4
      <4>1. q = 128 /\ p >= 128
        BY <2>1, <3>1, WeightIs
      <4> QED
        BY <4>1
    <3>2. CASE k = 2 /\ j \in 3 .. 4
      <4>1. q = 128 * 128 /\ p >= 128 * 128
        BY <2>1, <3>2, WeightIs
      <4> QED
        BY <4>1
    <3>3. CASE k = 3 /\ j = 4
      BY <2>1, <3>3
    <3> QED
      BY <2>3, <3>1, <3>2, <3>3
  <2>5. v \div p = 0
    BY <2>1, <2>2, <2>4
  <2> QED
    BY <1>2, <2>1, <2>5 DEF DigitOf
<1> QED
  BY <1>1, <1>2

\* The low three digits are the third digit and the low two.
LEMMA DigitSplit ==
  ASSUME NEW v \in Nat
  PROVE  ((v \div (128 * 128)) % 128) * (128 * 128) + (v % (128 * 128)) = v % (128 * 128 * 128)
<1>1. PICK q \in Nat : q = v \div 16384
  BY SMT
<1>2. PICK r \in Nat : r = v % 16384 /\ r < 16384
  BY SMT
<1>3. v = 16384 * q + r
  BY <1>1, <1>2, SMT
<1>4. PICK a \in Nat : a = q % 128 /\ a < 128
  BY SMT
<1>5. PICK b \in Nat : b = q \div 128
  BY SMT
<1>6. q = 128 * b + a
  BY <1>4, <1>5, SMT
<1>7. PICK c \in Nat : c = 16384 * a + r /\ c < 2097152
  BY <1>2, <1>4, SMT
<1>8. v = 2097152 * b + c
  BY <1>3, <1>6, <1>7, SMT
<1>9. v % 2097152 = c
  BY <1>7, <1>8, SMT
<1>10. 128 * 128 = 16384 /\ 128 * 128 * 128 = 2097152
  BY SMT
<1>11. (q % 128) * 16384 + r = c
  BY <1>4, <1>7, SMT
<1> QED
  BY <1>1, <1>2, <1>9, <1>10, <1>11, SMT

\* w is a sum that takes digit j of v without overflow and so reaches the next sum.
StepsTo(mask, v, j, w) ==
  /\ w \in Nat
  /\ w + ((v \div Weight(j)) % 128) * Weight(j) = mask + Low(v, j)
  /\ (v \div Weight(j)) % 128 <= (IntMax - w) \div Weight(j)

\* The sum of the low j - 1 digits takes digit j.
LEMMA LowStep ==
  ASSUME NEW v \in Numbers, NEW mask \in 0 .. 127, NEW j \in 1 .. 4,
         NEW w, w = mask + Low(v, j - 1)
  PROVE  StepsTo(mask, v, j, w)
<1>0. v \in Nat /\ v < 128 * 128 * 128 * 128
  BY NumberBound
<1>1. CASE j = 1
  <2>1. Weight(1) = 1 /\ Weight(2) = 128
    BY WeightIs
  <2>2. v % 1 = 0
    BY <1>0
  <2>3. w = mask /\ Low(v, 1) = v % 128
    BY <1>1, <2>1, <2>2 DEF Low
  <2> QED
    BY <1>0, <1>1, <2>1, <2>3, SMT DEF IntMax, StepsTo
<1>2. CASE j = 2
  <2>1. Weight(2) = 128 /\ Weight(3) = 128 * 128
    BY WeightIs
  <2>2. w = mask + (v % 128) /\ Low(v, 2) = v % (128 * 128)
    BY <1>2, <2>1 DEF Low
  <2> QED
    BY <1>0, <1>2, <2>1, <2>2, SMT DEF IntMax, StepsTo
<1>3. CASE j = 3
  <2>1. Weight(3) = 128 * 128 /\ Weight(4) = 128 * 128 * 128
    BY WeightIs
  <2>2. w = mask + (v % (128 * 128)) /\ Low(v, 3) = v % (128 * 128 * 128)
    BY <1>3, <2>1 DEF Low
  <2>3. w \in Nat
    BY <1>0, <2>2, SMT
  <2>4. w + ((v \div (128 * 128)) % 128) * (128 * 128) = mask + (v % (128 * 128 * 128))
    <3>1. ((v \div (128 * 128)) % 128) * (128 * 128) + (v % (128 * 128)) = v % (128 * 128 * 128)
      BY <1>0, DigitSplit, Zenon
    <3> QED
      BY <1>0, <2>2, <3>1, SMT
  <2>5. (v \div (128 * 128)) % 128 <= (IntMax - w) \div (128 * 128)
    BY <1>0, <2>2, SMT DEF IntMax
  <2> QED
    BY <1>3, <2>1, <2>2, <2>3, <2>4, <2>5, Zenon DEF StepsTo
<1>4. CASE j = 4
  <2>1. Weight(4) = 128 * 128 * 128
    BY WeightIs
  <2>2. w = mask + (v % (128 * 128 * 128)) /\ Low(v, 4) = v
    BY <1>4, <2>1 DEF Low
  <2> QED
    BY <1>0, <1>4, <2>1, <2>2, SMT DEF IntMax, StepsTo
<1> QED
  BY <1>1, <1>2, <1>3, <1>4

\* The digits behind a full prefix, as octets.
Carries(digits, v, k, pad) ==
  /\ v \in Numbers /\ k \in 1 .. 4 /\ HasDigits(v, k) /\ pad \in Nat
  /\ digits \in Text
  /\ Len(digits) = k + pad
  /\ \A j \in 1 .. k + pad :
       digits[j] = DigitOf(v, k, j) + IF j < k + pad THEN 128 ELSE 0

\* One number and no other.
Just(n) == {n}

\* The only sum after some digits is the number they make up.
LEMMA SumsAre ==
  ASSUME NEW mask \in 0 .. 127, NEW v, NEW k, NEW pad, NEW digits,
         Carries(digits, v, k, pad), NEW at \in 0 .. k + pad
  PROVE  Sums(mask, digits)[at] = Just(mask + Low(v, at))
<1>0. v \in Numbers /\ k \in 1 .. 4 /\ HasDigits(v, k) /\ pad \in Nat
  BY DEF Carries
<1>1. PICK n \in Nat : n = k + pad /\ n = Len(digits)
  BY <1>0 DEF Carries
<1>2. PICK c : c = Sums(mask, digits)
  OBVIOUS
<1>3. c[0] = {mask} /\ \A i \in 1 .. n : c[i] = NextSums(digits, c[i - 1], i)
  <2>1. digits \in Text
    BY DEF Carries
  <2> QED
    BY <1>1, <1>2, <2>1, SumsStep
<1>4. v \in Nat
  BY <1>0, NumbersAre
<1>5. ASSUME NEW j \in 1 .. n
      PROVE  NextSums(digits, {mask + Low(v, j - 1)}, j) = {mask + Low(v, j)}
  <2>1. PICK d \in 0 .. 127 : d = DigitOf(v, k, j)
    BY <1>0, DigitType
  <2>2. digits[j] = d \/ digits[j] = d + 128
    BY <1>1, <2>1 DEF Carries
  <2>3. digits[j] % 128 = d
    BY <2>1, <2>2
  <2>4. PICK w : w = mask + Low(v, j - 1)
    OBVIOUS
  <2>5. PICK p : p = Weight(j)
    OBVIOUS
  <2>6. /\ w + (IF d = 0 THEN 0 ELSE d * p) = mask + Low(v, j)
        /\ d = 0 \/ (j <= 5 /\ d <= (IntMax - w) \div p)
    <3>1. CASE j <= 4
      <4>1. j \in 1 .. 4
        BY <3>1
      <4>2. d = (v \div p) % 128
        BY <2>1, <2>5, <1>0, <4>1, DigitIs
      <4>3. w \in Nat /\ w + d * p = mask + Low(v, j) /\ d <= (IntMax - w) \div p
        <5>1. v \in Numbers
          BY <1>0
        <5>2. StepsTo(mask, v, j, w)
          BY <2>4, <4>1, <5>1, LowStep, Zenon
        <5> QED
          BY <2>5, <4>2, <5>2, Zenon DEF StepsTo
      <4>a. p \in Nat
        BY <2>5, <4>1, WeightIs
      <4>4. d = 0 => d * p = 0
        BY <4>a
      <4>5. w + (IF d = 0 THEN 0 ELSE d * p) = mask + Low(v, j)
        BY <4>3, <4>4
      <4> QED
        BY <3>1, <4>3, <4>5
    <3>2. CASE ~ j <= 4
      <4>1. d = 0
        BY <1>0, <2>1, <3>2 DEF DigitOf
      <4>2. Low(v, j - 1) = v /\ Low(v, j) = v
        BY <3>2 DEF Low
      <4> QED
        BY <1>4, <2>4, <4>1, <4>2
    <3> QED
      BY <3>1, <3>2
  <2>7. DigitFits(digits, w, j)
    BY <2>3, <2>5, <2>6, Zenon DEF DigitFits, Weight
  <2>8. {x \in {w} : DigitFits(digits, x, j)} = {w}
    BY <2>7, Zenon
  <2>9. NextSums(digits, {w}, j) = {w + (IF d = 0 THEN 0 ELSE d * p)}
    <3>1. NextSums(digits, {w}, j) = {x + (IF d = 0 THEN 0 ELSE d * p) : x \in {w}}
      BY <2>3, <2>5, <2>8, Zenon DEF NextSums, Weight
    <3> QED
      BY <3>1, Zenon
  <2> QED
    BY <2>4, <2>6, <2>9, Zenon
<1> DEFINE N == {j \in Nat : j <= n => c[j] = {mask + Low(v, j)}}
<1>6. 0 \in N
  <2>1. v % 1 = 0
    BY <1>4
  <2>2. Weight(0 + 1) = 1
    BY WeightIs
  <2>3. Low(v, 0) = 0
    BY <2>1, <2>2 DEF Low
  <2> QED
    BY <1>3, <2>3
<1>7. ASSUME NEW j \in Nat, j \in N  PROVE j + 1 \in N
  <2>1. SUFFICES ASSUME j + 1 <= n  PROVE c[j + 1] = {mask + Low(v, j + 1)}
    OBVIOUS
  <2>2. j + 1 \in 1 .. n /\ (j + 1) - 1 = j /\ j <= n
    BY <2>1
  <2>3. c[j] = {mask + Low(v, j)}
    BY <1>7, <2>2
  <2>4. c[j + 1] = NextSums(digits, c[j], j + 1)
    BY <1>3, <2>2
  <2>5. NextSums(digits, {mask + Low(v, j)}, j + 1) = {mask + Low(v, j + 1)}
    BY <1>5, <2>2
  <2> QED
    BY <2>3, <2>4, <2>5
<1>8. Nat \subseteq N
  <2> HIDE DEF N
  <2> QED
    BY <1>6, <1>7, SetInduction
<1>9. \A j \in 0 .. n : c[j] = {mask + Low(v, j)}
  BY <1>8
<1> QED
  BY <1>1, <1>2, <1>9 DEF Just

\* The parser accumulates the number whose digits it reads.
LEMMA AccumulatedIs ==
  ASSUME NEW mask \in 0 .. 127, NEW v, NEW k, NEW pad, NEW digits,
         Carries(digits, v, k, pad), NEW junk
  PROVE  Accumulated(mask, digits, junk) = mask + v
<1>0. v \in Numbers /\ k \in 1 .. 4 /\ HasDigits(v, k) /\ pad \in Nat
  BY DEF Carries
<1>1. PICK n \in Nat : n = k + pad /\ n = Len(digits) /\ n \in 0 .. k + pad
  BY <1>0 DEF Carries
<1>2. Low(v, n) = v
  <2>1. CASE n >= 4
    BY <2>1 DEF Low
  <2>2. CASE n < 4
    <3>1. PICK p \in Nat \ {0} : p = Weight(n + 1) /\ v < p
      <4>1. n \in 1 .. 3 /\ k <= n
        BY <1>0, <1>1, <2>2
      <4>2. PICK p \in Nat \ {0}, q \in Nat \ {0} : p = Weight(n + 1) /\ q = Weight(k + 1)
        BY <1>0, <4>1, WeightIs
      <4>3. v \in Nat /\ v < q
        BY <1>0, <4>1, <4>2, NumberBound, HasDigitsIs
      <4>4. q <= p
        <5>1. CASE k = 1
          <6>1. q = 128 /\ p >= 128
            BY <1>0, <4>1, <4>2, <5>1, WeightIs
          <6> QED
            BY <6>1
        <5>2. CASE k = 2
          <6>1. q = 128 * 128 /\ p >= 128 * 128
            BY <4>1, <4>2, <5>2, WeightIs
          <6> QED
            BY <6>1
        <5>3. CASE k = 3
          <6>1. n = 3
            BY <4>1, <5>3
          <6> QED
            BY <4>2, <5>3, <6>1
        <5> QED
          BY <1>0, <4>1, <5>1, <5>2, <5>3
      <4> QED
        BY <4>2, <4>3, <4>4
    <3>2. v \in Nat
      BY <1>0, NumbersAre
    <3>3. v % p = v
      BY <3>1, <3>2
    <3> QED
      BY <2>2, <3>1, <3>3 DEF Low
  <2> QED
    BY <2>1, <2>2
<1>3. Sums(mask, digits)[Len(digits)] = {mask + v}
  <2>1. Sums(mask, digits)[n] = Just(mask + Low(v, n))
    <3>1. n \in 0 .. k + pad
      BY <1>1
    <3> QED
      BY <3>1, SumsAre
  <2> QED
    BY <1>1, <1>2, <2>1 DEF Just
<1> QED
  BY <1>3 DEF Accumulated

-----------------------------------------------------------------------------
\* What an RFC 7541 encoder writes is octets, and at least one.

\* A string and the octets that it is sent as.
Body(s, item) ==
  IF item.huffman THEN CHOOSE c \in DOMAIN HuffmanText : HuffmanText[c] = s ELSE s

\* A string is its length and its octets, coded or plain.
LEMMA BodyIs ==
  ASSUME NEW s \in Strings, NEW item, item.huffman \in BOOLEAN, item.pad \in Nat,
         item.huffman => s \in Coded
  PROVE  /\ Body(s, item) \in Strings /\ Body(s, item) \in Text
         /\ Len(Body(s, item)) \in Numbers /\ Len(Body(s, item)) \in Nat
         /\ RfcString(s, item) =
              RfcInteger(IF item.huffman THEN 128 ELSE 0, 7, Len(Body(s, item)), item.pad)
                \o Body(s, item)
         /\ item.huffman => /\ Body(s, item) \in DOMAIN HuffmanText
                            /\ HuffmanText[Body(s, item)] = s
                            /\ Body(s, item) # <<>>
         /\ ~ item.huffman => Body(s, item) = s
<1>1. item.huffman =>
        /\ Body(s, item) \in DOMAIN HuffmanText /\ HuffmanText[Body(s, item)] = s
  BY Zenon DEF Body, Coded
<1>2. item.huffman => Body(s, item) \in Strings /\ Body(s, item) # <<>>
  BY <1>1, HuffmanAssumption, Zenon
<1>3. ~ item.huffman => Body(s, item) = s
  BY DEF Body
<1>4. Body(s, item) \in Strings
  BY <1>2, <1>3
<1>5. \A t \in Strings : t \in Text /\ Len(t) \in Numbers /\ Len(t) \in Nat
  BY DEF Strings, Text
<1>6. RfcString(s, item) =
        RfcInteger(IF item.huffman THEN 128 ELSE 0, 7, Len(Body(s, item)), item.pad)
          \o Body(s, item)
  <2>1. CASE item.huffman
    <3>1. Body(s, item) = CHOOSE c \in DOMAIN HuffmanText : HuffmanText[c] = s
      BY <2>1, Zenon DEF Body
    <3>2. RfcString(s, item) = RfcInteger(128, 7, Len(Body(s, item)), item.pad) \o Body(s, item)
      BY <2>1, <3>1, Zenon DEF RfcString
    <3> QED
      BY <2>1, <3>2, Zenon
  <2>2. CASE ~ item.huffman
    BY <2>2, Zenon DEF RfcString, Body
  <2> QED
    BY <2>1, <2>2, Zenon
<1> QED
  BY <1>1, <1>2, <1>3, <1>4, <1>5, <1>6

\* A string on the wire is a text.
LEMMA RfcStringType ==
  ASSUME NEW s \in Strings, NEW item, item.huffman \in BOOLEAN, item.pad \in Nat,
         item.huffman => s \in Coded
  PROVE  RfcString(s, item) \in Text
<1>1. PICK top \in {0, 128} : top = IF item.huffman THEN 128 ELSE 0
  OBVIOUS
<1>2. IsTop(top, 7)
  BY PrefixesAre
<1>3. PICK b \in Text : /\ b = Body(s, item) /\ Len(b) \in Numbers
                        /\ RfcString(s, item) = RfcInteger(top, 7, Len(b), item.pad) \o b
  BY <1>1, BodyIs
<1>4. PICK l \in Numbers : l = Len(b)
  BY <1>3
<1>5. PICK pad \in Nat : pad = item.pad
  OBVIOUS
<1>6. RfcInteger(top, 7, l, pad) \in Text
  BY <1>2, RfcIntegerLength
<1> QED
  BY <1>3, <1>4, <1>5, <1>6, TextConcat

\* A representation starts with an integer; a literal goes on with strings.
TopOf(rep) ==
  CASE rep = "indexed" -> 128
    [] rep = "incremental" -> 64
    [] rep = "resize" -> 32
    [] rep = "never" -> 16
    [] rep = "without" -> 0

\* The bits of the prefix of a representation.
BitsOf(rep) ==
  CASE rep = "indexed" -> 7
    [] rep = "incremental" -> 6
    [] rep = "resize" -> 5
    [] rep = "never" -> 4
    [] rep = "without" -> 4

\* The integer in front of a representation.
NumberOf(r) == IF r.rep = "resize" THEN r.size ELSE r.index

\* The name of a literal, if it is written.
NamePart(item) == IF item.rep.index = 0 THEN RfcString(item.rep.name, item) ELSE <<>>

\* The strings of a representation.
StringPart(item) ==
  IF item.rep.rep \in Literals
    THEN NamePart(item) \o RfcString(item.rep.value, item) ELSE <<>>

\* Every representation begins with a prefix.
LEMMA KindIs ==
  ASSUME NEW rep \in Kinds
  PROVE  IsTop(TopOf(rep), BitsOf(rep)) /\ BitsOf(rep) \in PrefixBits
<1>1. IsTop(TopOf(rep), BitsOf(rep))
  BY PrefixesAre DEF Kinds, TopOf, BitsOf
<1> QED
  BY <1>1 DEF IsTop

\* A string of an item can be sent the way the item says.
Sendable(s, item) == s \in Strings /\ (item.huffman => s \in Coded)

\* What the peer puts into a block, case by case.
LEMMA ItemIs ==
  ASSUME NEW item, IsItem(item)
  PROVE  /\ item.pad \in Nat /\ item.huffman \in BOOLEAN
         /\ \/ /\ item.rep.rep = "unholdable"
               /\ RfcOctets(item) \in Text /\ RfcOctets(item) # <<>>
            \/ item.rep.rep = "indexed" /\ item.rep.index \in Numbers
            \/ item.rep.rep = "resize" /\ item.rep.size \in Numbers
            \/ /\ item.rep.rep \in Literals
               /\ item.rep.index \in Numbers
               /\ item.rep.index = 0 => Sendable(item.rep.name, item)
               /\ Sendable(item.rep.value, item)
<1>1. PICK r : r = item.rep
  OBVIOUS
<1>2. /\ item.pad \in Nat /\ item.huffman \in BOOLEAN
      /\ IsRepresentation(r) \/ r \in [rep : {"unholdable"}, octets : Text \ {<<>>}]
      /\ item.huffman /\ r.rep \in Literals =>
           r.value \in Coded /\ (r.index = 0 => r.name \in Coded)
  BY <1>1 DEF IsItem
<1>3. CASE r \in [rep : {"unholdable"}, octets : Text \ {<<>>}]
  <2>1. r.rep = "unholdable" /\ r.octets \in Text /\ r.octets # <<>>
    BY <1>3
  <2>2. RfcOctets(item) = r.octets
    BY <1>1, <2>1 DEF RfcOctets
  <2> QED
    BY <1>1, <1>2, <2>1, <2>2
<1>4. CASE r \in [rep : {"indexed"}, index : Numbers]
  BY <1>1, <1>2, <1>4
<1>5. CASE r \in [rep : {"resize"}, size : Numbers]
  BY <1>1, <1>2, <1>5
<1>6. CASE r \in [rep : Literals, index : 1 .. 128^4 - 1, value : Strings]
  <2>1. r.rep \in Literals /\ r.index \in 1 .. 128^4 - 1 /\ r.value \in Strings
    BY <1>6
  <2>2. r.index \in Numbers /\ r.index # 0
    <3>1. PICK m \in Nat : m = 128^4 - 1
      BY PowersOf128, SMT
    <3> QED
      BY <2>1, <3>1 DEF Numbers
  <2> QED
    BY <1>1, <1>2, <2>1, <2>2 DEF Sendable
<1>7. CASE r \in [rep : Literals, index : {0}, name : Strings, value : Strings]
  <2>1. /\ r.rep \in Literals /\ r.index = 0
        /\ r.name \in Strings /\ r.value \in Strings
    BY <1>7
  <2>2. 0 \in Numbers
    BY NumbersAre
  <2> QED
    BY <1>1, <1>2, <2>1, <2>2 DEF Sendable
<1> QED
  BY <1>2, <1>3, <1>4, <1>5, <1>6, <1>7 DEF IsRepresentation

\* The octets of a string the peer can send.
LEMMA SendableType ==
  ASSUME NEW item, IsItem(item), NEW s, Sendable(s, item)
  PROVE  RfcString(s, item) \in Text
<1>1. item.pad \in Nat /\ item.huffman \in BOOLEAN
  BY ItemIs
<1>2. s \in Strings /\ (item.huffman => s \in Coded)
  BY DEF Sendable
<1> QED
  BY <1>1, <1>2, RfcStringType

\* A representation is an integer and its strings.
LEMMA OctetsAre ==
  ASSUME NEW item, IsItem(item), item.rep.rep # "unholdable"
  PROVE  /\ item.rep.rep \in Kinds /\ item.pad \in Nat /\ NumberOf(item.rep) \in Numbers
         /\ StringPart(item) \in Text
         /\ RfcOctets(item) =
              RfcInteger(TopOf(item.rep.rep), BitsOf(item.rep.rep), NumberOf(item.rep), item.pad)
                \o StringPart(item)
<1>1. PICK r : r = item.rep
  OBVIOUS
<1>2. PICK kind : kind = r.rep
  OBVIOUS
<1>3. PICK head : head = RfcInteger(TopOf(kind), BitsOf(kind), NumberOf(r), item.pad)
  OBVIOUS
<1>4. ASSUME kind \in Kinds, NumberOf(r) \in Numbers
      PROVE  head \in Text
  <2>1. IsTop(TopOf(kind), BitsOf(kind)) /\ item.pad \in Nat
    BY <1>4, KindIs, ItemIs
  <2> QED
    BY <1>3, <1>4, <2>1, RfcIntegerLength, Zenon
<1>5. <<>> \in Text
  BY DEF Text
<1>6. \A s \in Text : s \o <<>> = s
  BY DEF Text
<1>10. item.pad \in Nat
  BY ItemIs
<1>7. CASE kind = "indexed" /\ r.index \in Numbers
  <2>1. kind \in Kinds /\ NumberOf(r) = r.index /\ TopOf(kind) = 128 /\ BitsOf(kind) = 7
    BY <1>2, <1>7 DEF Kinds, NumberOf, TopOf, BitsOf
  <2>2. RfcOctets(item) = head
    BY <1>1, <1>2, <1>3, <1>7, <2>1 DEF RfcOctets
  <2>3. StringPart(item) = <<>>
    BY <1>1, <1>2, <1>7 DEF StringPart, Literals
  <2>4. head \o <<>> = head
    BY <1>4, <1>6, <1>7, <2>1
  <2>5. RfcOctets(item) = head \o StringPart(item) /\ StringPart(item) \in Text
    BY <1>5, <2>2, <2>3, <2>4
  <2>6. NumberOf(r) \in Numbers
    BY <1>7, <2>1
  <2> QED
    BY <1>1, <1>2, <1>3, <1>10, <2>1, <2>5, <2>6
<1>8. CASE kind = "resize" /\ r.size \in Numbers
  <2>1. kind \in Kinds /\ NumberOf(r) = r.size /\ TopOf(kind) = 32 /\ BitsOf(kind) = 5
    BY <1>2, <1>8 DEF Kinds, NumberOf, TopOf, BitsOf
  <2>2. RfcOctets(item) = head
    BY <1>1, <1>2, <1>3, <1>8, <2>1 DEF RfcOctets
  <2>3. StringPart(item) = <<>>
    BY <1>1, <1>2, <1>8 DEF StringPart, Literals
  <2>4. head \o <<>> = head
    BY <1>4, <1>6, <1>8, <2>1
  <2> QED
    BY <1>1, <1>2, <1>3, <1>5, <1>8, <1>10, <2>1, <2>2, <2>3, <2>4
<1>9. CASE /\ kind \in Literals /\ r.index \in Numbers
           /\ r.index = 0 => Sendable(r.name, item)
           /\ Sendable(r.value, item)
  <2>1. kind \in Kinds /\ NumberOf(r) = r.index
    BY <1>2, <1>9 DEF Kinds, NumberOf, Literals
  <2>2. RfcOctets(item) = RfcLiteral(TopOf(kind), BitsOf(kind), item)
    BY <1>1, <1>2, <1>9 DEF RfcOctets, TopOf, BitsOf, Literals
  <2>3. PICK value \in Text : value = RfcString(r.value, item)
    BY <1>9, SendableType
  <2>4. PICK name \in Text : name = NamePart(item)
    <3>1. CASE r.index = 0
      BY <1>1, <1>9, <3>1, SendableType DEF NamePart
    <3>2. CASE r.index # 0
      BY <1>1, <1>5, <3>2 DEF NamePart
    <3> QED
      BY <3>1, <3>2
  <2>5. RfcOctets(item) = (head \o name) \o value
    BY <1>1, <1>3, <2>1, <2>2, <2>3, <2>4, Zenon DEF RfcLiteral, NamePart
  <2>6. StringPart(item) = name \o value
    BY <1>1, <1>2, <1>9, <2>3, <2>4 DEF StringPart
  <2>7. head \in Text
    BY <1>4, <1>9, <2>1
  <2>8. (head \o name) \o value = head \o (name \o value)
    BY <2>7, TextAssociative
  <2>9. name \o value \in Text
    BY TextConcat
  <2> QED
    BY <1>1, <1>2, <1>3, <1>9, <2>1, <1>10, <2>5, <2>6, <2>8, <2>9
<1> QED
  BY <1>1, <1>2, <1>7, <1>8, <1>9, ItemIs

\* Every item takes at least one octet.
LEMMA RfcOctetsType ==
  ASSUME NEW item, IsItem(item)
  PROVE  RfcOctets(item) \in Text /\ Len(RfcOctets(item)) \in Nat \ {0}
<1>1. CASE item.rep.rep = "unholdable"
  <2>1. RfcOctets(item) \in Text /\ RfcOctets(item) # <<>>
    BY <1>1, ItemIs DEF Literals
  <2> QED
    BY <2>1 DEF Text
<1>2. CASE item.rep.rep # "unholdable"
  <2>1. PICK kind \in Kinds, i \in Numbers, pad \in Nat, rest \in Text :
          RfcOctets(item) = RfcInteger(TopOf(kind), BitsOf(kind), i, pad) \o rest
    BY <1>2, OctetsAre
  <2>2. IsTop(TopOf(kind), BitsOf(kind))
    BY KindIs
  <2>3. PICK head \in Text : /\ head = RfcInteger(TopOf(kind), BitsOf(kind), i, pad)
                             /\ Len(head) \in Nat \ {0}
    BY <2>2, RfcIntegerLength
  <2>4. /\ head \o rest \in Text /\ Len(rest) \in Nat
        /\ Len(head \o rest) = Len(head) + Len(rest)
    BY TextConcat
  <2>5. Len(head \o rest) \in Nat \ {0}
    BY <2>3, <2>4
  <2> QED
    BY <2>1, <2>3, <2>4, <2>5
<1> QED
  BY <1>1, <1>2

-----------------------------------------------------------------------------
\* hpack_encoder.

\* The number of digits that v needs.
DigitCount(v) == Min({k \in 1 .. 4 : v < 128^k})

\* The number of digits is the least that is enough.
LEMMA DigitCountIs ==
  ASSUME NEW v \in Numbers
  PROVE  /\ DigitCount(v) \in 1 .. 4
         /\ \A k \in 1 .. 4 : DigitCount(v) <= k <=> HasDigits(v, k)
<1> DEFINE K == {k \in 1 .. 4 : v < 128^k}
<1>1. 4 \in K
  BY SMT DEF Numbers
<1>2. K \in SUBSET Nat
  OBVIOUS
<1>3. PICK d : d = DigitCount(v) /\ d \in K /\ \A x \in K : d <= x
  <2>1. Min(K) \in K /\ \A x \in K : Min(K) <= x
    <3> HIDE DEF K
    <3> QED
      BY <1>1, <1>2, MinOf
  <2> QED
    BY <2>1 DEF DigitCount
<1>4. \A k \in 1 .. 4 : k \in K <=> HasDigits(v, k)
  BY Zenon DEF HasDigits
<1>5. d \in 1 .. 4
  BY <1>3
<1>6. PICK w \in Nat : w = v
  BY NumbersAre
<1>7. ASSUME NEW k \in 1 .. 4, NEW m \in 1 .. 4, HasDigits(v, k), k <= m
      PROVE  HasDigits(v, m)
  <2>1. /\ HasDigits(v, 1) => w < 128
        /\ HasDigits(v, 2) => w < 16384
        /\ HasDigits(v, 3) => w < 2097152
    BY <1>6, PowersOf128, SMT DEF HasDigits
  <2>2. /\ w < 16384 => HasDigits(v, 2)
        /\ w < 2097152 => HasDigits(v, 3)
        /\ HasDigits(v, 4)
    <3>1. HasDigits(v, 4)
      BY <1>1, <1>4
    <3> QED
      BY <1>6, <3>1, PowersOf128, SMT DEF HasDigits
  <2>3. /\ HasDigits(v, 1) => HasDigits(v, 2)
        /\ HasDigits(v, 2) => HasDigits(v, 3)
        /\ HasDigits(v, 4)
    BY <2>1, <2>2, SMT
  <2> HIDE <2>1, <2>2
  <2>4. k = m \/ m = 4 \/ (k = 1 /\ m = 2) \/ (k = 1 /\ m = 3) \/ (k = 2 /\ m = 3)
    BY <1>7, SMT
  <2> QED
    BY <1>7, <2>3, <2>4, SMT
<1>8. \A k \in 1 .. 4 : d <= k <=> HasDigits(v, k)
  <2>1. ASSUME NEW k \in 1 .. 4, d <= k  PROVE HasDigits(v, k)
    BY <1>3, <1>4, <1>5, <1>7, <2>1
  <2>2. ASSUME NEW k \in 1 .. 4, HasDigits(v, k)  PROVE d <= k
    BY <1>3, <1>4, <2>2
  <2> QED
    BY <2>1, <2>2
<1> QED
  BY <1>3, <1>5, <1>8

\* A number of several digits is its lowest one and the others.
LEMMA DigitCountStep ==
  ASSUME NEW v \in Numbers
  PROVE  /\ v < 128 => DigitCount(v) = 1
         /\ v >= 128 => /\ v \div 128 \in Numbers /\ v \div 128 < v
                        /\ DigitCount(v) = 1 + DigitCount(v \div 128)
<1>1. PICK w \in Nat : w = v
  BY NumbersAre
<1>2. HasDigits(v, 1) <=> w < 128
  BY <1>1, PowersOf128, SMT DEF HasDigits
<1>3. PICK d \in 1 .. 4 : d = DigitCount(v) /\ \A k \in 1 .. 4 : d <= k <=> HasDigits(v, k)
  BY DigitCountIs
<1>4. w < 128 => d = 1
  BY <1>2, <1>3
<1>5. ASSUME w >= 128
      PROVE  /\ w \div 128 \in Numbers /\ w \div 128 < w
             /\ d = 1 + DigitCount(w \div 128)
  <2>1. PICK u \in Nat : u = w \div 128 /\ u < w
    BY <1>5
  <2>2. u \in Numbers
    <3>1. PICK m \in Nat : Numbers = 0 .. m
      BY NumbersAre
    <3> QED
      BY <1>1, <2>1, <3>1
  <2>3. PICK e \in 1 .. 4 : e = DigitCount(u) /\ \A k \in 1 .. 4 : e <= k <=> HasDigits(u, k)
    BY <2>2, DigitCountIs
  <2>4. /\ HasDigits(u, 1) <=> HasDigits(v, 2)
        /\ HasDigits(u, 2) <=> HasDigits(v, 3)
        /\ HasDigits(u, 3)
    <3>1. HasDigits(u, 1) <=> u < 128
      BY PowersOf128, SMT DEF HasDigits
    <3>2. HasDigits(u, 2) <=> u < 16384
      BY PowersOf128, SMT DEF HasDigits
    <3>3. HasDigits(u, 3) <=> u < 2097152
      BY PowersOf128, SMT DEF HasDigits
    <3>4. HasDigits(v, 2) <=> w < 16384
      BY <1>1, PowersOf128, SMT DEF HasDigits
    <3>5. HasDigits(v, 3) <=> w < 2097152
      BY <1>1, PowersOf128, SMT DEF HasDigits
    <3>6. w < 268435456
      BY <1>1, PowersOf128, SMT DEF Numbers
    <3>7. u < 128 <=> w < 16384
      BY <2>1, SMT
    <3>8. u < 16384 <=> w < 2097152
      BY <2>1, SMT
    <3>9. u < 2097152
      BY <2>1, <3>6, SMT
    <3> QED
      BY <3>1, <3>2, <3>3, <3>4, <3>5, <3>7, <3>8, <3>9, SMT
  <2>5. d >= 2
    BY <1>2, <1>3, <1>5
  <2>6. (d <= 2 <=> e <= 1) /\ (d <= 3 <=> e <= 2) /\ e <= 3
    BY <1>3, <2>3, <2>4
  <2>7. d = 1 + e
    BY <2>5, <2>6
  <2> QED
    BY <2>1, <2>2, <2>3, <2>7
<1> QED
  BY <1>1, <1>3, <1>4, <1>5

\* Digit j of what is left of v is digit j + 1 of v.
LEMMA DigitStep ==
  ASSUME NEW v \in Nat, NEW j \in 1 .. 3
  PROVE  (v \div 128) \div Weight(j) = v \div Weight(j + 1)
<1>1. j + 1 \in 1 .. 4 /\ j \in 1 .. 4
  OBVIOUS
<1>2. CASE j = 1
  <2>1. Weight(1) = 1 /\ Weight(2) = 128
    BY WeightIs
  <2>2. v \div 128 \in Nat
    OBVIOUS
  <2> QED
    BY <1>2, <2>1, <2>2
<1>3. CASE j = 2
  <2>1. Weight(2) = 128 /\ Weight(3) = 128 * 128
    BY WeightIs
  <2>2. (v \div 128) \div 128 = v \div (128 * 128)
    BY SMT
  <2> QED
    BY <1>3, <2>1, <2>2
<1>4. CASE j = 3
  <2>1. Weight(3) = 128 * 128 /\ Weight(4) = 128 * 128 * 128
    BY WeightIs
  <2>2. (v \div 128) \div (128 * 128) = v \div (128 * 128 * 128)
    BY SMT
  <2> QED
    <3>1. j + 1 = 4
      BY <1>4
    <3> QED
      BY <1>4, <2>1, <2>2, <3>1, Zenon
<1> QED
  BY <1>2, <1>3, <1>4


\* The digits of v are its first digit and those of v \div 128.
LEMMA DigitsStep ==
  ASSUME NEW v \in Numbers
  PROVE  /\ v < 128 => Digits(v, DigitCount(v), 0) = <<v>>
         /\ v >= 128 => Digits(v, DigitCount(v), 0)
                         = <<(v % 128) + 128>> \o Digits(v \div 128, DigitCount(v \div 128), 0)
<1>1. PICK w \in Nat : w = v
  BY NumbersAre
<1>2. PICK d \in 1 .. 4 : d = DigitCount(v)
  BY DigitCountIs
<1>3. PICK s \in Text : /\ s = Digits(v, d, 0) /\ Len(s) = d
                        /\ \A j \in 1 .. d : s[j] = DigitOf(v, d, j) + IF j < d THEN 128 ELSE 0
  <2>1. PICK s \in Text : /\ s = Digits(v, d, 0) /\ Len(s) = d + 0
                          /\ \A j \in 1 .. d + 0 :
                               s[j] = DigitOf(v, d, j) + IF j < d + 0 THEN 128 ELSE 0
    BY DigitsAre
  <2>2. d + 0 = d
    OBVIOUS
  <2> QED
    BY <2>1, <2>2
<1>4. Weight(1) = 1
  BY WeightIs
<1>5. DigitOf(v, d, 1) = w % 128
  <2>1. w \div 1 = w
    OBVIOUS
  <2> QED
    BY <1>1, <1>4, <2>1 DEF DigitOf
<1>6. CASE w < 128
  <2>1. d = 1
    BY <1>1, <1>2, <1>6, DigitCountStep
  <2>2. w % 128 = w
    BY <1>6
  <2>3. Len(s) = 1 /\ s[1] = w
    BY <1>3, <1>5, <2>1, <2>2
  <2>4. s = <<w>>
    BY <2>3 DEF Text
  <2> QED
    BY <1>1, <1>2, <1>3, <1>6, <2>4
<1>7. CASE ~ w < 128
  <2>1. PICK u \in Numbers : u = w \div 128 /\ d = 1 + DigitCount(u)
    BY <1>1, <1>2, <1>7, DigitCountStep
  <2>2. PICK e \in 1 .. 4 : e = DigitCount(u) /\ d = 1 + e /\ e <= 3
    BY <2>1, DigitCountIs
  <2>3. PICK r \in Text : /\ r = Digits(u, e, 0) /\ Len(r) = e
                          /\ \A j \in 1 .. e : r[j] = DigitOf(u, e, j) + IF j < e THEN 128 ELSE 0
    <3>1. PICK r \in Text : /\ r = Digits(u, e, 0) /\ Len(r) = e + 0
                            /\ \A j \in 1 .. e + 0 :
                                 r[j] = DigitOf(u, e, j) + IF j < e + 0 THEN 128 ELSE 0
      BY DigitsAre
    <3>2. e + 0 = e
      OBVIOUS
    <3> QED
      BY <3>1, <3>2
  <2>4. PICK o \in Octet : o = (w % 128) + 128
    BY DEF Octet
  <2>5. PICK one : one = <<o>> /\ one \in Text /\ Len(one) = 1 /\ one[1] = o
    <3>1. <<o>> \in Text /\ Len(<<o>>) = 1 /\ <<o>>[1] = o
      BY DEF Text
    <3> QED
      BY <3>1
  <2>6. PICK t : /\ t = one \o r /\ t \in Text /\ Len(t) = 1 + e /\ t[1] = o
                 /\ \A j \in 1 .. e : t[1 + j] = r[j]
    <3>1. one \o r \in Text /\ Len(one \o r) = Len(one) + Len(r)
      BY <2>5, TextConcat
    <3>2. \A j \in 1 .. Len(one) : (one \o r)[j] = one[j]
      BY <2>5, TextConcat
    <3>3. \A j \in 1 .. Len(r) : (one \o r)[Len(one) + j] = r[j]
      BY <2>5, TextConcat
    <3>4. PICK t : t = one \o r
      OBVIOUS
    <3>5. t \in Text /\ Len(t) = 1 + e
      BY <2>3, <2>5, <3>1, <3>4
    <3>6. t[1] = o
      BY <2>5, <3>2, <3>4
    <3>7. \A j \in 1 .. e : t[1 + j] = r[j]
      BY <2>3, <2>5, <3>3, <3>4
    <3> QED
      BY <3>4, <3>5, <3>6, <3>7
  <2>7. s[1] = o
    BY <1>3, <1>5, <2>2, <2>4
  <2>8. ASSUME NEW j \in 1 .. e  PROVE s[1 + j] = r[j]
    <3>1. 1 + j \in 1 .. d /\ j \in 1 .. 3 /\ (1 + j < d <=> j < e) /\ 1 + j = j + 1 /\ 1 + j <= d
      BY <2>2
    <3>2. s[1 + j] = DigitOf(v, d, 1 + j) + IF 1 + j < d THEN 128 ELSE 0
      BY <1>3, <3>1
    <3>3. r[j] = DigitOf(u, e, j) + IF j < e THEN 128 ELSE 0
      BY <2>3
    <3>4. DigitOf(v, d, 1 + j) = (w \div Weight(j + 1)) % 128
      BY <1>1, <3>1 DEF DigitOf
    <3>5. DigitOf(u, e, j) = (u \div Weight(j)) % 128
      BY DEF DigitOf
    <3>6. u \div Weight(j) = w \div Weight(j + 1)
      BY <2>1, <3>1, DigitStep
    <3> QED
      BY <3>1, <3>2, <3>3, <3>4, <3>5, <3>6
  <2>9. \A j \in 1 .. d : s[j] = t[j]
    <3>1. ASSUME NEW j \in 1 .. d, j # 1  PROVE s[j] = t[j]
      <4>1. j - 1 \in 1 .. e /\ 1 + (j - 1) = j
        BY <2>2, <3>1
      <4> QED
        BY <2>6, <2>8, <4>1
    <3>2. s[1] = t[1]
      BY <2>6, <2>7
    <3> QED
      BY <3>1, <3>2
  <2>10. s = t
    BY <1>3, <2>2, <2>5, <2>6, <2>9, SeqEqual DEF Text
  <2>11. ~ v < 128 /\ u = v \div 128 /\ o = (v % 128) + 128
    BY <1>1, <1>7, <2>1, <2>4
  <2>12. Digits(v, DigitCount(v), 0) = t /\ Digits(u, DigitCount(u), 0) = r
    BY <1>2, <1>3, <2>2, <2>3, <2>10
  <2>13. t = <<(v % 128) + 128>> \o r
    BY <2>5, <2>6, <2>11
  <2>14. Digits(v, DigitCount(v), 0)
           = <<(v % 128) + 128>> \o Digits(v \div 128, DigitCount(v \div 128), 0)
    BY <2>11, <2>12, <2>13
  <2> QED
    BY <2>11, <2>14
<1> QED
  BY <1>6, <1>7

\* What encode_integer writes behind a full prefix are the digits of what is left.
LEMMA EncodesInteger ==
  ASSUME NEW i \in Numbers
  PROVE  encode_integer(0, i, 7) = RfcInteger(0, 7, i, 0)
<1>1. PICK n \in Nat : n = i
  BY NumbersAre
<1>2. PICK mask : mask = 2^7 - 1 /\ mask = 127
  BY PowersOfTwo
<1>3. (0 \div 2^7) * 2^7 = 0
  BY PowersOfTwo
<1> DEFINE Eq(f) == f = [v \in 0 .. n |-> IF v >= 128
                                           THEN <<(v % 128) + 128>> \o f[v \div 128] ELSE <<v>>]
<1>4. encode_integer(0, i, 7) =
        IF n < mask THEN <<0 + n>> ELSE <<0 + mask>> \o (CHOOSE f : Eq(f))[n - mask]
  <2>1. encode_integer(0, n, 7) =
          IF n < 2^7 - 1 THEN <<((0 \div 2^7) * 2^7) + n>>
          ELSE <<((0 \div 2^7) * 2^7) + (2^7 - 1)>> \o (CHOOSE f : Eq(f))[n - (2^7 - 1)]
    BY Zenon DEF encode_integer
  <2> HIDE DEF Eq
  <2> QED
    BY <1>1, <1>2, <1>3, <2>1, Zenon
<1>5. RfcInteger(0, 7, i, 0) =
        IF n < mask THEN <<0 + n>>
        ELSE <<0 + mask>> \o Digits(n - mask, DigitCount(n - mask), 0)
  BY <1>1, <1>2, Zenon DEF RfcInteger, DigitCount
<1>6. ASSUME NEW v \in 0 .. n
      PROVE  /\ v \in Numbers /\ v \in Nat
             /\ v >= 128 => v \div 128 \in 0 .. n /\ v \div 128 < v
  <2>1. PICK m \in Nat : Numbers = 0 .. m
    BY NumbersAre
  <2> QED
    BY <1>1, <2>1
<1> DEFINE Out(v) == Digits(v, DigitCount(v), 0)
           g == [v \in 0 .. n |-> Out(v)]
<1>7. ASSUME NEW v \in 0 .. n
      PROVE  Out(v) = IF v >= 128 THEN <<(v % 128) + 128>> \o Out(v \div 128) ELSE <<v>>
  <2>1. v < 128 \/ v >= 128
    BY <1>6
  <2>2. v < 128 => ~ v >= 128
    BY <1>6
  <2>3. v \in Numbers
    BY <1>6
  <2>4. /\ v < 128 => Out(v) = <<v>>
        /\ v >= 128 => Out(v) = <<(v % 128) + 128>> \o Out(v \div 128)
    BY <2>3, DigitsStep
  <2> HIDE DEF Out
  <2> QED
    BY <2>1, <2>2, <2>4, Zenon
<1> HIDE DEF Out
<1>8. Eq(g)
  <2>1. \A v \in 0 .. n :
          Out(v) = IF v >= 128 THEN <<(v % 128) + 128>> \o g[v \div 128] ELSE <<v>>
    <3>1. \A v \in 0 .. n : v >= 128 => g[v \div 128] = Out(v \div 128)
      BY <1>6
    <3> HIDE DEF g
    <3> QED
      BY <1>7, <3>1, Zenon
  <2> HIDE DEF g
  <2>2. [v \in 0 .. n |-> Out(v)] =
          [v \in 0 .. n |-> IF v >= 128 THEN <<(v % 128) + 128>> \o g[v \div 128] ELSE <<v>>]
    BY <2>1, Zenon
  <2> QED
    BY <2>2, Zenon DEF g
<1>9. PICK f : f = (CHOOSE x : Eq(x)) /\ Eq(f)
  <2> HIDE DEF Eq, g
  <2> QED
    BY <1>8, Zenon
<1>10. ASSUME NEW v \in 0 .. n
       PROVE  f[v] = IF v >= 128 THEN <<(v % 128) + 128>> \o f[v \div 128] ELSE <<v>>
  BY <1>9, Zenon
<1> HIDE DEF Eq, g
<1> DEFINE N == {m \in Nat : \A v \in 0 .. n : v <= m => f[v] = Out(v)}
<1>11. 0 \in N
  <2>1. ASSUME NEW v \in 0 .. n, v <= 0  PROVE f[v] = Out(v)
    <3>1. ~ v >= 128
      BY <2>1
    <3> QED
      BY <1>7, <1>10, <3>1, Zenon
  <2> QED
    BY <2>1
<1>12. ASSUME NEW m \in Nat, m \in N  PROVE m + 1 \in N
  <2>1. ASSUME NEW v \in 0 .. n, v <= m + 1  PROVE f[v] = Out(v)
    <3>1. CASE v >= 128
      <4>1. v \div 128 \in 0 .. n /\ v \div 128 <= m
        <5>1. PICK u \in Nat : u = v \div 128 /\ u \in 0 .. n /\ u < v
          BY <1>6, <3>1
        <5> QED
          BY <2>1, <5>1
      <4>2. f[v \div 128] = Out(v \div 128)
        BY <1>12, <4>1
      <4> QED
        BY <1>7, <1>10, <3>1, <4>2, Zenon
    <3>2. CASE ~ v >= 128
      BY <1>7, <1>10, <3>2, Zenon
    <3> QED
      BY <3>1, <3>2
  <2> QED
    BY <2>1
<1>13. Nat \subseteq N
  <2> HIDE DEF N
  <2> QED
    BY <1>11, <1>12, SetInduction
<1>14. \A v \in 0 .. n : f[v] = Out(v)
  <2>1. n \in N
    BY <1>13
  <2>2. \A v \in 0 .. n : v <= n
    OBVIOUS
  <2> QED
    BY <2>1, <2>2
<1>15. n < mask \/ n - mask \in 0 .. n
  BY <1>2
<1> HIDE DEF N
<1> QED
  BY <1>4, <1>5, <1>9, <1>14, <1>15, Zenon DEF Out

\* A header as hpack_encoder sends it: a literal without indexing, name and
\* value as they are.
HeaderRep(h) == [rep |-> "without", index |-> 0, name |-> h.name, value |-> h.value]

\* An item as hpack_encoder writes it: no padding, no Huffman code.
Plain(r) == [rep |-> r, pad |-> 0, huffman |-> FALSE]

\* The headers of a request are items.
LEMMA PlainHeader ==
  ASSUME NEW h \in [name : Strings, value : Strings]
  PROVE  IsItem(Plain(HeaderRep(h))) /\ Plain(HeaderRep(h)).rep.rep # "unholdable"
<1>1. HeaderRep(h) \in [rep : Literals, index : {0}, name : Strings, value : Strings]
  BY DEF HeaderRep, Literals
<1>2. IsRepresentation(HeaderRep(h))
  BY <1>1, Zenon DEF IsRepresentation
<1>3. /\ Plain(HeaderRep(h)).rep = HeaderRep(h)
      /\ Plain(HeaderRep(h)).pad = 0
      /\ Plain(HeaderRep(h)).huffman = FALSE
  BY DEF Plain
<1>4. Plain(HeaderRep(h)).rep.rep # "unholdable"
  BY <1>3 DEF HeaderRep
<1>5. PICK item : item = Plain(HeaderRep(h))
  OBVIOUS
<1>6. item.pad \in Nat /\ item.huffman = FALSE /\ IsRepresentation(item.rep)
  BY <1>2, <1>3, <1>5
<1>7. IsItem(item)
  BY <1>6, Zenon DEF IsItem
<1> QED
  BY <1>4, <1>5, <1>7

\* encode() writes a header as RFC 7541 has it.
LEMMA EncodesHeader ==
  ASSUME NEW h \in [name : Strings, value : Strings]
  PROVE  encode_header(h) = RfcOctets(Plain(HeaderRep(h)))
<1>1. PICK item : item = Plain(HeaderRep(h))
  OBVIOUS
<1>2. /\ item.rep.rep = "without" /\ item.rep.index = 0 /\ item.pad = 0
      /\ item.huffman = FALSE /\ item.rep.name = h.name /\ item.rep.value = h.value
  BY <1>1 DEF Plain, HeaderRep
<1>3. IsItem(item) /\ item.rep.rep # "unholdable"
  BY <1>1, PlainHeader
<1>4. PICK n, v : n = h.name /\ v = h.value /\ n \in Strings /\ v \in Strings
  OBVIOUS
<1>5. n \in Text /\ v \in Text /\ Len(n) \in Numbers /\ Len(v) \in Numbers
  BY <1>4 DEF Strings
<1>6. PICK e1 : e1 = encode_integer(0, Len(n), 7)
  OBVIOUS
<1>7. PICK e2 : e2 = encode_integer(0, Len(v), 7)
  OBVIOUS
<1>8. e1 = RfcInteger(0, 7, Len(n), 0) /\ e2 = RfcInteger(0, 7, Len(v), 0)
  BY <1>5, <1>6, <1>7, EncodesInteger
<1>9. e1 \in Text /\ e2 \in Text
  <2>1. IsTop(0, 7)
    BY PrefixesAre
  <2>2. 0 \in Nat
    OBVIOUS
  <2> QED
    BY <1>5, <1>8, <2>1, <2>2, RfcIntegerLength, Zenon
<1>10. RfcString(n, item) = e1 \o n /\ RfcString(v, item) = e2 \o v
  BY <1>2, <1>8, Zenon DEF RfcString
<1>11. StringPart(item) = (e1 \o n) \o (e2 \o v)
  BY <1>2, <1>4, <1>10 DEF StringPart, NamePart, Literals
<1>12. RfcInteger(0, 4, 0, 0) = <<0>>
  BY PowersOfTwo DEF RfcInteger
<1>13. RfcOctets(item) = <<0>> \o ((e1 \o n) \o (e2 \o v))
  <2>1. TopOf("without") = 0 /\ BitsOf("without") = 4 /\ NumberOf(item.rep) = 0
    BY <1>2 DEF TopOf, BitsOf, NumberOf
  <2> QED
    BY <1>2, <1>3, <1>11, <1>12, <2>1, OctetsAre
<1>14. encode_header(h) = (((<<0>> \o e1) \o n) \o e2) \o v
  BY <1>4, <1>6, <1>7, Zenon DEF encode_header
<1>15. PICK z : z = <<0>> /\ z \in Text
  <2>1. 0 \in Octet
    BY DEF Octet
  <2>2. <<0>> \in Text
    BY <2>1 DEF Text
  <2> QED
    BY <2>2
<1>16. PICK a, b : a = e1 \o n /\ b = e2 \o v
  OBVIOUS
<1>17. a \in Text /\ b \in Text /\ z \o a \in Text
  BY <1>5, <1>9, <1>15, <1>16 DEF Text
<1>18. (z \o e1) \o n = z \o a
  BY <1>5, <1>9, <1>15, <1>16, TextAssociative
<1>19. ((z \o a) \o e2) \o v = (z \o a) \o b
  <2>1. PICK y : y = z \o a /\ y \in Text
    BY <1>17
  <2>2. e2 \in Text /\ v \in Text
    BY <1>5, <1>9
  <2>3. (y \o e2) \o v = y \o (e2 \o v)
    BY <2>1, <2>2, TextAssociative
  <2> QED
    BY <1>16, <2>1, <2>3
<1>20. (z \o a) \o b = z \o (a \o b)
  BY <1>15, <1>17, TextAssociative
<1> QED
  BY <1>1, <1>13, <1>14, <1>15, <1>16, <1>18, <1>19, <1>20, Zenon

-----------------------------------------------------------------------------
\* A block and its outline.

\* A set of places has a last one.
LEMMA MaxOf ==
  ASSUME NEW n \in Nat, NEW S \in SUBSET (1 .. n), S # {}
  PROVE  Max(S) \in S /\ \A x \in S : x <= Max(S)
<1> DEFINE T == {n - x : x \in S}
<1>1. T \in SUBSET Nat /\ T # {}
  <2>1. \A x \in S : n - x \in Nat
    OBVIOUS
  <2>2. PICK x : x \in S
    OBVIOUS
  <2>3. n - x \in T
    BY <2>2
  <2> QED
    BY <2>1, <2>3
<1>2. PICK t \in T : \A u \in T : t <= u
  <2> HIDE DEF T
  <2> QED
    BY <1>1, LeastElement
<1>3. PICK x \in S : t = n - x
  BY <1>2
<1>4. \A y \in S : x >= y
  <2>1. ASSUME NEW y \in S  PROVE x >= y
    <3>1. n - y \in T /\ x \in 1 .. n /\ y \in 1 .. n
      OBVIOUS
    <3>2. n - x <= n - y
      BY <1>2, <1>3, <3>1
    <3> QED
      BY <3>1, <3>2
  <2> QED
    BY <2>1
<1>5. Max(S) \in S /\ \A y \in S : Max(S) >= y
  BY <1>3, <1>4, Zenon DEF Max
<1>6. \A y \in S : y \in Nat
  OBVIOUS
<1>7. PICK m \in Nat : m = Max(S) /\ m \in S /\ \A y \in S : m >= y
  BY <1>5, <1>6
<1>8. \A y \in S : y <= m
  BY <1>6, <1>7
<1> QED
  BY <1>7, <1>8

\* rep is how the outline puts the octets behind from, up to to, which are
\* those of an item or, in the last place, their beginning.
Written(item, rep, o, from, to, last) ==
  /\ IsItem(item)
  /\ to - from <= Len(RfcOctets(item))
  /\ \A j \in 1 .. to - from : o[from + j] = RfcOctets(item)[j]
  /\ IF item.rep.rep = "unholdable" \/ to - from = Len(RfcOctets(item))
       THEN rep = item.rep
       ELSE last /\ rep = [rep |-> "cut"]

\* Where item i of a block ends.
EndOf(b, o, i) == IF i < Len(b) THEN b[i + 1] ELSE Len(o)

\* s is the outline of the block o, whose representations start at b.
Laid(s, b, o) ==
  /\ o \in Text
  /\ IsSeq(s)
  /\ b \in Seq(Nat)
  /\ Len(b) = Len(s)
  /\ Len(s) = 0 => Len(o) = 0
  /\ Len(s) # 0 => b[1] = 0
  /\ \A i \in 1 .. Len(s) : b[i] < Len(o)
  /\ \A i \in 1 .. Len(s), j \in 1 .. Len(s) : i < j => b[i] < b[j]
  /\ \A i \in 1 .. Len(s) :
       \E item : Written(item, s[i], o, b[i], EndOf(b, o, i), i = Len(s))

\* An item starts behind those in front of it.
LEMMA StartsAre ==
  ASSUME NEW parts \in Seq(Text), NEW joined, IsJoin(joined, parts, Octet)
  PROVE  /\ StartsOf(parts) \in Seq(Nat) /\ Len(StartsOf(parts)) = Len(parts)
         /\ \A i \in 1 .. Len(parts) : StartsOf(parts)[i] = Len(joined[i - 1])
<1>1. PICK n \in Nat : n = Len(parts)
  OBVIOUS
<1>2. ASSUME NEW i \in 1 .. n
      PROVE  /\ Len(FlattenSeq(SubSeq(parts, 1, i - 1))) = Len(joined[i - 1])
             /\ Len(joined[i - 1]) \in Nat
  <2>1. i - 1 \in 0 .. n
    OBVIOUS
  <2>2. joined[i - 1] \in Text
    BY <1>1, <2>1 DEF IsJoin, Text
  <2> QED
    <3>1. FlattenSeq(SubSeq(parts, 1, i - 1)) = joined[i - 1]
      BY <1>1, <2>1, FlattenPrefix DEF Text
    <3>2. Len(joined[i - 1]) \in Nat
      BY <2>2 DEF Text
    <3> QED
      BY <3>1, <3>2
<1> DEFINE B(i) == Len(FlattenSeq(SubSeq(parts, 1, i - 1)))
<1>3. StartsOf(parts) = [i \in 1 .. n |-> B(i)]
  BY <1>1, Zenon DEF StartsOf
<1>4. \A i \in 1 .. n : B(i) \in Nat /\ B(i) = Len(joined[i - 1])
  BY <1>2
<1> HIDE DEF B
<1> QED
  BY <1>1, <1>3, <1>4

\* The lengths of what the parts make together, when none of them is empty.
LEMMA JoinLengths ==
  ASSUME NEW parts \in Seq(Text), NEW joined, IsJoin(joined, parts, Octet),
         \A i \in 1 .. Len(parts) : Len(parts[i]) \in Nat \ {0}
  PROVE  /\ joined[0] = <<>> /\ Len(joined[0]) = 0
         /\ \A i \in 0 .. Len(parts) : joined[i] \in Text /\ Len(joined[i]) \in Nat
         /\ \A i \in 1 .. Len(parts) :
              /\ Len(joined[i]) = Len(joined[i - 1]) + Len(parts[i])
              /\ \A j \in 1 .. Len(parts[i]) : joined[i][Len(joined[i - 1]) + j] = parts[i][j]
         /\ \A i \in 0 .. Len(parts), m \in 0 .. Len(parts) :
              i < m => Len(joined[i]) < Len(joined[m])
<1>1. PICK n \in Nat : n = Len(parts) /\ \A i \in 1 .. n : parts[i] \in Text
  OBVIOUS
<1>2. /\ joined \in [0 .. n -> Text] /\ joined[0] = <<>>
      /\ \A i \in 1 .. n : joined[i] = joined[i - 1] \o parts[i]
  BY <1>1 DEF IsJoin
<1>3. \A i \in 0 .. n : joined[i] \in Text /\ Len(joined[i]) \in Nat
  BY <1>2 DEF Text
<1>4. ASSUME NEW i \in 1 .. n
      PROVE  /\ Len(joined[i]) = Len(joined[i - 1]) + Len(parts[i])
             /\ \A j \in 1 .. Len(parts[i]) :
                  joined[i][Len(joined[i - 1]) + j] = parts[i][j]
             /\ Len(joined[i - 1]) < Len(joined[i])
  <2>1. i - 1 \in 0 .. n
    OBVIOUS
  <2>2. PICK b \in Text : b = joined[i - 1] /\ Len(b) \in Nat
    BY <1>3, <2>1
  <2>3. PICK c \in Text : c = parts[i] /\ Len(c) \in Nat \ {0}
    BY <1>1
  <2>4. joined[i] = b \o c
    BY <1>2, <2>2, <2>3
  <2>5. /\ Len(b \o c) = Len(b) + Len(c)
        /\ \A j \in 1 .. Len(c) : (b \o c)[Len(b) + j] = c[j]
    BY TextConcat
  <2>6. PICK x \in Nat, y \in Nat \ {0} : x = Len(b) /\ y = Len(c)
    BY <2>2, <2>3
  <2>7. x < x + y
    BY <2>6
  <2> QED
    BY <2>2, <2>3, <2>4, <2>5, <2>6, <2>7
<1>5. ASSUME NEW i \in 0 .. n, NEW m \in 0 .. n, i < m
      PROVE  Len(joined[i]) < Len(joined[m])
  <2>1. i + 1 \in 1 .. n /\ (i + 1) - 1 = i /\ i + 1 \in 0 .. n /\ m \in i + 1 .. n
    BY <1>5
  <2>2. Len(joined[i]) < Len(joined[i + 1])
    BY <1>4, <2>1
  <2>3. Len(joined[i + 1]) <= Len(joined[m])
    BY <1>1, <2>1, BlockGrows
  <2>4. Len(joined[i]) \in Nat /\ Len(joined[i + 1]) \in Nat /\ Len(joined[m]) \in Nat
    BY <1>3, <2>1
  <2> QED
    BY <2>2, <2>3, <2>4
<1>6. Len(joined[0]) = 0
  BY <1>2
<1> QED
  BY <1>1, <1>2, <1>3, <1>4, <1>5, <1>6

\* Place j of a part that begins after from places, among the first cut and the first l.
OfPart(j, size, from, cut, l) ==
  j \in 1 .. size /\ from + j \in 1 .. cut /\ from + j \in 1 .. l

\* A place of a part that has begun is in the part, in front of the cut.
LEMMA OfPartIs ==
  ASSUME NEW from \in Nat, NEW size \in Nat, NEW cut \in Nat, NEW e \in Nat,
         NEW l \in Nat, l = from + size, from < e /\ e <= l /\ e <= cut,
         NEW j \in 1 .. e - from
  PROVE  OfPart(j, size, from, cut, l)
  BY DEF OfPart

\* The parts are the octets of the items.
Spelled(items, parts) ==
  \A i \in 1 .. Len(parts) : IsItem(items[i]) /\ parts[i] = RfcOctets(items[i])

\* The first cut octets end in part m.
CutIn(joined, m, cut) ==
  /\ m = 0 => cut = 0
  /\ m # 0 => Len(joined[m - 1]) < cut /\ cut <= Len(joined[m])

\* What a reader sees of the m items that begin in front of the cut.
ReadOff(s, items, joined, m, cut) ==
  /\ IsSeq(s) /\ Len(s) = m
  /\ \A i \in 1 .. m :
       s[i] = IF i < m \/ cut = Len(joined[m]) \/ items[i].rep.rep = "unholdable"
                THEN items[i].rep ELSE [rep |-> "cut"]

\* A block begins with all that has been joined.
LEMMA BlockBegins ==
  ASSUME NEW parts \in Seq(Text), NEW joined, IsJoin(joined, parts, Octet)
  PROVE  \A i \in 0 .. Len(parts) :
           \A k \in 1 .. Len(joined[i]) : joined[Len(parts)][k] = joined[i][k]
<1>1. ASSUME NEW i \in 0 .. Len(parts)
      PROVE  \A k \in 1 .. Len(joined[i]) : joined[Len(parts)][k] = joined[i][k]
  <2>1. Len(parts) \in i .. Len(parts)
    OBVIOUS
  <2> QED
    BY <2>1, BlockGrows
<1> QED
  BY <1>1, Zenon

\* The first cut octets of a block of items, m of which have begun.
LEMMA LaidOut ==
  ASSUME NEW items, NEW parts \in Seq(Text), NEW joined, IsJoin(joined, parts, Octet),
         Spelled(items, parts),
         NEW m \in Nat, m <= Len(parts), NEW cut \in Nat, CutIn(joined, m, cut),
         NEW s, ReadOff(s, items, joined, m, cut)
  PROVE  Laid(s, SubSeq(StartsOf(parts), 1, m), SubSeq(FlattenSeq(parts), 1, cut))
<1>a. \A i \in 0 .. Len(parts) :
        \A k \in 1 .. Len(joined[i]) : joined[Len(parts)][k] = joined[i][k]
  BY BlockBegins
<1>0. /\ m \in 0 .. Len(parts)
      /\ \A i \in 1 .. Len(parts) : IsItem(items[i]) /\ parts[i] = RfcOctets(items[i])
      /\ m = 0 => cut = 0
      /\ m # 0 => Len(joined[m - 1]) < cut /\ cut <= Len(joined[m])
      /\ IsSeq(s) /\ Len(s) = m
      /\ \A i \in 1 .. m :
           s[i] = IF i < m \/ cut = Len(joined[m]) \/ items[i].rep.rep = "unholdable"
                    THEN items[i].rep ELSE [rep |-> "cut"]
  BY DEF Spelled, CutIn, ReadOff
<1> USE <1>0
<1>1. PICK n \in Nat : n = Len(parts) /\ m \in 0 .. n
  OBVIOUS
<1>2. \A i \in 1 .. n : parts[i] \in Text /\ Len(parts[i]) \in Nat \ {0}
  BY <1>1, RfcOctetsType
<1>3. PICK all : all = FlattenSeq(parts)
  OBVIOUS
<1>4. all = joined[n]
  BY <1>1, <1>3, FlattenIsJoin DEF Text
<1>5. /\ joined[0] = <<>> /\ Len(joined[0]) = 0
      /\ \A i \in 0 .. n : joined[i] \in Text /\ Len(joined[i]) \in Nat
      /\ \A i \in 1 .. n :
           /\ Len(joined[i]) = Len(joined[i - 1]) + Len(parts[i])
           /\ \A j \in 1 .. Len(parts[i]) : joined[i][Len(joined[i - 1]) + j] = parts[i][j]
      /\ \A i \in 0 .. n, k \in 0 .. n : i < k => Len(joined[i]) < Len(joined[k])
  <2>1. \A i \in 1 .. Len(parts) : Len(parts[i]) \in Nat \ {0}
    BY <1>1, <1>2
  <2>2. /\ joined[0] = <<>> /\ Len(joined[0]) = 0
        /\ \A i \in 0 .. Len(parts) : joined[i] \in Text /\ Len(joined[i]) \in Nat
        /\ \A i \in 1 .. Len(parts) :
             /\ Len(joined[i]) = Len(joined[i - 1]) + Len(parts[i])
             /\ \A j \in 1 .. Len(parts[i]) : joined[i][Len(joined[i - 1]) + j] = parts[i][j]
        /\ \A i \in 0 .. Len(parts), k \in 0 .. Len(parts) :
             i < k => Len(joined[i]) < Len(joined[k])
    BY <2>1, JoinLengths
  <2> QED
    BY <1>1, <2>2
<1>6. PICK len \in [0 .. n -> Nat] : \A i \in 0 .. n : len[i] = Len(joined[i])
  <2> DEFINE g == [i \in 0 .. n |-> Len(joined[i])]
  <2>1. g \in [0 .. n -> Nat] /\ \A i \in 0 .. n : g[i] = Len(joined[i])
    BY <1>5
  <2> HIDE DEF g
  <2> QED
    BY <2>1
<1>7. /\ len[0] = 0
      /\ \A i \in 1 .. n : len[i] = len[i - 1] + Len(parts[i])
      /\ \A i \in 0 .. n, k \in 0 .. n : i < k => len[i] < len[k]
  <2>1. \A i \in 1 .. n : i \in 0 .. n /\ i - 1 \in 0 .. n
    OBVIOUS
  <2>2. 0 \in 0 .. n
    BY <1>1
  <2> QED
    BY <1>5, <1>6, <2>1, <2>2
<1>8. /\ m = 0 => cut = 0
      /\ m # 0 => len[m - 1] < cut /\ cut <= len[m]
  <2>1. m # 0 => m - 1 \in 0 .. n
    BY <1>1
  <2>2. m \in 0 .. n
    BY <1>1
  <2> QED
    BY <1>6, <2>1, <2>2
<1>9. all \in Text /\ Len(all) = len[n] /\ cut <= len[n]
  <2>1. n \in 0 .. n
    OBVIOUS
  <2>2. len[m] <= len[n] /\ len[m] \in Nat /\ len[n] \in Nat
    <3>1. m \in 0 .. n /\ (m = n \/ m < n)
      BY <1>1
    <3>2. len[m] \in Nat /\ len[n] \in Nat
      BY <2>1, <3>1
    <3>3. m < n => len[m] < len[n]
      BY <1>7, <2>1, <3>1
    <3> QED
      BY <3>1, <3>2, <3>3
  <2> QED
    BY <1>1, <1>4, <1>5, <1>6, <1>7, <1>8, <2>1, <2>2
<1>10. PICK o : o = SubSeq(all, 1, cut)
  OBVIOUS
<1>11. o \in Text /\ Len(o) = cut /\ \A j \in 1 .. cut : o[j] = all[j]
  <2>1. \A j \in 1 .. cut : all[j] \in Octet
    BY <1>6, <1>9 DEF Text
  <2>2. len[n] \in Nat
    BY <1>1
  <2> QED
    BY <1>9, <1>10, <2>1, <2>2 DEF Text
<1>12. PICK b : b = SubSeq(StartsOf(parts), 1, m)
  OBVIOUS
<1>13. b \in Seq(Nat) /\ Len(b) = m /\ \A i \in 1 .. m : b[i] = len[i - 1]
  <2>0. PICK starts0 : starts0 = StartsOf(parts)
    OBVIOUS
  <2>1. /\ starts0 \in Seq(Nat) /\ Len(starts0) = n
        /\ \A i \in 1 .. n : starts0[i] = Len(joined[i - 1])
    BY <1>1, <2>0, StartsAre
  <2>2. \A i \in 1 .. n : i - 1 \in 0 .. n
    OBVIOUS
  <2>3. \A i \in 1 .. n : starts0[i] = len[i - 1]
    BY <1>6, <2>1, <2>2
  <2>4. b \in Seq(Nat) /\ Len(b) = m /\ \A i \in 1 .. m : b[i] = starts0[i]
    BY <1>1, <1>12, <2>0, <2>1
  <2>5. \A i \in 1 .. m : i \in 1 .. n
    BY <1>1
  <2> QED
    BY <2>3, <2>4, <2>5
<1>14. ASSUME NEW i \in 1 .. m
       PROVE  /\ i \in 1 .. n /\ i - 1 \in 0 .. n /\ i \in 0 .. n
              /\ EndOf(b, o, i) = IF i < m THEN len[i] ELSE cut
              /\ len[i - 1] < EndOf(b, o, i) /\ EndOf(b, o, i) <= len[i]
              /\ EndOf(b, o, i) \in Nat /\ EndOf(b, o, i) <= cut
  <2>1. i \in 1 .. n /\ i - 1 \in 0 .. n /\ i \in 0 .. n
    BY <1>1
  <2>2. CASE i < m
    <3>1. i + 1 \in 1 .. m /\ (i + 1) - 1 = i
      BY <1>1, <2>2
    <3>2. EndOf(b, o, i) = len[i]
      BY <1>13, <2>2, <3>1 DEF EndOf
    <3>3. len[i - 1] < len[i]
      BY <1>7, <2>1
    <3>4. len[i] <= len[m - 1] /\ m # 0
      <4>1. m - 1 \in 0 .. n /\ (i = m - 1 \/ i < m - 1) /\ m # 0
        BY <1>1, <2>2
      <4>2. len[m - 1] \in Nat /\ len[i] \in Nat
        BY <2>1, <4>1
      <4>3. i < m - 1 => len[i] < len[m - 1]
        BY <1>7, <2>1, <4>1
      <4> QED
        BY <4>1, <4>2, <4>3
    <3>5. len[i] \in Nat /\ len[m - 1] \in Nat
      <4>1. m - 1 \in 0 .. n
        BY <1>1, <3>4
      <4> QED
        BY <2>1, <4>1
    <3>6. len[i] <= cut
      BY <1>8, <3>4, <3>5
    <3> QED
      BY <2>1, <2>2, <3>2, <3>3, <3>5, <3>6
  <2>3. CASE i = m
    <3>1. m # 0 /\ EndOf(b, o, i) = cut
      BY <1>1, <1>11, <1>13, <2>3 DEF EndOf
    <3> QED
      BY <1>8, <2>1, <2>3, <3>1
  <2> QED
    BY <2>2, <2>3
<1>15. ASSUME NEW i \in 1 .. m
       PROVE  \E item : Written(item, s[i], o, b[i], EndOf(b, o, i), i = m)
  <2>1. PICK e \in Nat : /\ e = EndOf(b, o, i) /\ e <= len[i] /\ e <= cut /\ len[i - 1] < e
                         /\ e = IF i < m THEN len[i] ELSE cut
    BY <1>14
  <2>2. i \in 1 .. n /\ i - 1 \in 0 .. n /\ i \in 0 .. n
    BY <1>14
  <2>3. PICK from \in Nat, size \in Nat :
          from = len[i - 1] /\ size = Len(parts[i]) /\ len[i] = from + size
    <3>1. len[i - 1] \in Nat
      BY <2>2
    <3>2. Len(parts[i]) \in Nat
      BY <1>2, <2>2
    <3>3. len[i] = len[i - 1] + Len(parts[i])
      BY <1>7, <2>2
    <3> QED
      BY <3>1, <3>2, <3>3
  <2>4. b[i] = from
    <3>1. b[i] = len[i - 1]
      BY <1>13
    <3> QED
      BY <2>3, <3>1
  <2>5. IsItem(items[i]) /\ parts[i] = RfcOctets(items[i])
    BY <1>1, <2>2
  <2>6. e - from <= size /\ (e - from = size <=> e = len[i])
    <3>1. PICK l \in Nat : l = len[i] /\ l = from + size
      BY <2>3
    <3>2. e <= l
      BY <2>1, <3>1
    <3> QED
      BY <3>1, <3>2
  <2>7. ASSUME NEW j \in 1 .. e - from  PROVE o[from + j] = parts[i][j]
    <3>1. j \in 1 .. size /\ from + j \in 1 .. cut /\ from + j \in 1 .. len[i]
      <4>1. PICK l \in Nat : l = len[i] /\ l = from + size
        BY <2>3
      <4>2. from < e /\ e <= l /\ e <= cut
        BY <2>1, <2>3, <4>1
      <4>3. OfPart(j, size, from, cut, l)
        BY <4>1, <4>2, OfPartIs, Zenon
      <4> QED
        BY <4>1, <4>3 DEF OfPart
    <3>2. o[from + j] = all[from + j]
      BY <1>11, <3>1
    <3>3. all[from + j] = joined[i][from + j]
      <4>1. n = Len(parts) /\ i \in 0 .. n
        BY <1>1, <2>2
      <4>2. \A k \in 1 .. Len(joined[i]) : joined[n][k] = joined[i][k]
        BY <1>a, <4>1, Zenon
      <4> QED
        BY <1>4, <1>6, <2>2, <3>1, <4>2
    <3>4. joined[i][from + j] = parts[i][j]
      BY <1>5, <1>6, <2>2, <2>3, <3>1
    <3> QED
      BY <3>2, <3>3, <3>4
  <2>8. IF items[i].rep.rep = "unholdable" \/ e - from = size
          THEN s[i] = items[i].rep
          ELSE i = m /\ s[i] = [rep |-> "cut"]
    <3>1. m \in 0 .. n /\ len[m] = Len(joined[m])
      BY <1>1, <1>6
    <3>2. i < m => e = len[i]
      BY <2>1
    <3>3. i = m => (e = len[i] <=> cut = Len(joined[m]))
      BY <2>1, <3>1
    <3>4. i < m \/ i = m
      BY <1>1
    <3>5. i < m => ~ i = m
      BY <1>1
    <3>6. s[i] = IF i < m \/ cut = Len(joined[m]) \/ items[i].rep.rep = "unholdable"
                   THEN items[i].rep ELSE [rep |-> "cut"]
      OBVIOUS
    <3> QED
      BY <2>6, <3>2, <3>3, <3>4, <3>5, <3>6, Zenon
  <2>9. Written(items[i], s[i], o, from, e, i = m)
    BY <2>3, <2>5, <2>6, <2>7, <2>8 DEF Written
  <2> QED
    BY <2>1, <2>4, <2>9
<1>16. ASSUME NEW i \in 1 .. m  PROVE b[i] < Len(o)
  <2>1. PICK e \in Nat : e <= cut /\ len[i - 1] < e /\ i - 1 \in 0 .. n
    BY <1>14
  <2>2. PICK a \in Nat : a = len[i - 1]
    BY <2>1
  <2> QED
    BY <1>11, <1>13, <2>1, <2>2
<1>17. ASSUME NEW i \in 1 .. m, NEW j \in 1 .. m, i < j  PROVE b[i] < b[j]
  <2>1. i - 1 \in 0 .. n /\ j - 1 \in 0 .. n /\ i - 1 < j - 1
    BY <1>1, <1>17
  <2> QED
    BY <1>7, <1>13, <2>1
<1>18. m # 0 => b[1] = 0
  <2>1. m # 0 => 1 \in 1 .. m /\ 1 - 1 = 0
    BY <1>1
  <2> QED
    BY <1>7, <1>13, <2>1
<1>19. m = 0 => Len(o) = 0
  BY <1>8, <1>11
<1>20. Laid(s, b, o)
  BY <1>11, <1>13, <1>15, <1>16, <1>17, <1>18, <1>19 DEF Laid
<1> QED
  BY <1>3, <1>10, <1>12, <1>20

\* The block of a peer is laid out, wherever it is cut.
LEMMA PeerBlockLaid ==
  ASSUME PeerBlock
  PROVE  Laid(sent, starts, octets) /\ writer = "peer"
<1>0. PICK n \in 1 .. MaxItems : \E items \in [1 .. n -> Items] :
        LET parts == [i \in 1 .. n |-> RfcOctets(items[i])]
            all == FlattenSeq(parts)
            begin == StartsOf(parts)
        IN  \E cut \in {Len(all)} \cup IF Len(all) <= MaxCut THEN 1 .. Len(all) ELSE {} :
              LET begun == Max({i \in 1 .. n : begin[i] < cut})
                  whole == cut = begin[begun] + Len(parts[begun])
              IN  /\ octets = SubSeq(all, 1, cut)
                  /\ starts = SubSeq(begin, 1, begun)
                  /\ sent = [i \in 1 .. begun |->
                               IF i < begun \/ whole \/ items[i].rep.rep = "unholdable"
                                 THEN items[i].rep ELSE [rep |-> "cut"]]
                  /\ writer = "peer"
  BY Zenon DEF PeerBlock
<1>1. PICK items \in [1 .. n -> Items] :
        LET parts == [i \in 1 .. n |-> RfcOctets(items[i])]
            all == FlattenSeq(parts)
            begin == StartsOf(parts)
        IN  \E cut \in {Len(all)} \cup IF Len(all) <= MaxCut THEN 1 .. Len(all) ELSE {} :
              LET begun == Max({i \in 1 .. n : begin[i] < cut})
                  whole == cut = begin[begun] + Len(parts[begun])
              IN  /\ octets = SubSeq(all, 1, cut)
                  /\ starts = SubSeq(begin, 1, begun)
                  /\ sent = [i \in 1 .. begun |->
                               IF i < begun \/ whole \/ items[i].rep.rep = "unholdable"
                                 THEN items[i].rep ELSE [rep |-> "cut"]]
                  /\ writer = "peer"
  BY <1>0, Zenon
<1>2. n \in Nat \ {0}
  BY BoundsAssumption
<1>3. PICK parts : parts = [i \in 1 .. n |-> RfcOctets(items[i])]
  OBVIOUS
<1>4. PICK all : all = FlattenSeq(parts)
  OBVIOUS
<1>5. PICK begin : begin = StartsOf(parts)
  OBVIOUS
<1>6. PICK cut \in {Len(all)} \cup IF Len(all) <= MaxCut THEN 1 .. Len(all) ELSE {} :
        LET begun == Max({i \in 1 .. n : begin[i] < cut})
            whole == cut = begin[begun] + Len(parts[begun])
        IN  /\ octets = SubSeq(all, 1, cut)
            /\ starts = SubSeq(begin, 1, begun)
            /\ sent = [i \in 1 .. begun |->
                         IF i < begun \/ whole \/ items[i].rep.rep = "unholdable"
                           THEN items[i].rep ELSE [rep |-> "cut"]]
            /\ writer = "peer"
  BY <1>1, <1>3, <1>4, <1>5, Zenon
<1>7. PICK m : m = Max({i \in 1 .. n : begin[i] < cut})
  OBVIOUS
<1>8. /\ octets = SubSeq(all, 1, cut)
      /\ starts = SubSeq(begin, 1, m)
      /\ sent = [i \in 1 .. m |->
                   IF i < m \/ cut = begin[m] + Len(parts[m]) \/ items[i].rep.rep = "unholdable"
                     THEN items[i].rep ELSE [rep |-> "cut"]]
      /\ writer = "peer"
  BY <1>6, <1>7, Zenon
<1>9. \A i \in 1 .. n : IsItem(items[i])
  BY ItemsAssumption
<1>10. \A i \in 1 .. n : RfcOctets(items[i]) \in Text /\ Len(RfcOctets(items[i])) \in Nat \ {0}
  BY <1>9, RfcOctetsType
<1>11. /\ parts \in Seq(Text) /\ Len(parts) = n
       /\ \A i \in 1 .. n : parts[i] = RfcOctets(items[i]) /\ Len(parts[i]) \in Nat \ {0}
  <2> DEFINE P(i) == RfcOctets(items[i])
  <2>1. parts = [i \in 1 .. n |-> P(i)]
    BY <1>3
  <2>2. \A i \in 1 .. n : P(i) \in Text /\ Len(P(i)) \in Nat \ {0}
    BY <1>10
  <2> HIDE DEF P
  <2>3. parts \in Seq(Text) /\ Len(parts) = n /\ \A i \in 1 .. n : parts[i] = P(i)
    BY <1>2, <2>1, <2>2
  <2> QED
    BY <2>2, <2>3 DEF P
<1>12. PICK joined : IsJoin(joined, parts, Octet)
  BY <1>11, JoinExists DEF Text
<1>13. /\ joined[0] = <<>> /\ Len(joined[0]) = 0
       /\ \A i \in 0 .. n : joined[i] \in Text /\ Len(joined[i]) \in Nat
       /\ \A i \in 1 .. n : Len(joined[i]) = Len(joined[i - 1]) + Len(parts[i])
       /\ \A i \in 0 .. n, k \in 0 .. n : i < k => Len(joined[i]) < Len(joined[k])
  <2>1. \A i \in 1 .. Len(parts) : Len(parts[i]) \in Nat \ {0}
    BY <1>11
  <2>2. /\ joined[0] = <<>> /\ Len(joined[0]) = 0
        /\ \A i \in 0 .. Len(parts) : joined[i] \in Text /\ Len(joined[i]) \in Nat
        /\ \A i \in 1 .. Len(parts) :
             /\ Len(joined[i]) = Len(joined[i - 1]) + Len(parts[i])
             /\ \A j \in 1 .. Len(parts[i]) : joined[i][Len(joined[i - 1]) + j] = parts[i][j]
        /\ \A i \in 0 .. Len(parts), k \in 0 .. Len(parts) :
             i < k => Len(joined[i]) < Len(joined[k])
    BY <1>11, <1>12, <2>1, JoinLengths
  <2> QED
    BY <1>11, <2>2
<1>14. all = joined[n]
  BY <1>4, <1>11, <1>12, FlattenIsJoin DEF Text
<1>15. \A i \in 1 .. n : begin[i] = Len(joined[i - 1])
  <2>1. \A i \in 1 .. Len(parts) : StartsOf(parts)[i] = Len(joined[i - 1])
    BY <1>11, <1>12, StartsAre
  <2> QED
    BY <1>5, <1>11, <2>1
<1>16. cut \in Nat \ {0} /\ cut <= Len(all) /\ Len(all) = Len(joined[n]) /\ Len(all) \in Nat
  <2>1. n \in 0 .. n /\ 0 \in 0 .. n /\ 0 < n
    BY <1>2
  <2>2. Len(all) \in Nat \ {0}
    <3>1. Len(joined[0]) < Len(joined[n]) /\ Len(joined[n]) \in Nat
      BY <1>13, <2>1
    <3> QED
      BY <1>13, <1>14, <3>1
  <2>3. cut = Len(all) \/ cut \in 1 .. Len(all)
    BY <1>6
  <2> QED
    BY <1>14, <2>2, <2>3
<1> DEFINE S == {i \in 1 .. n : begin[i] < cut}
<1>17. m \in S /\ \A i \in S : i <= m
  <2>1. 1 \in S
    <3>1. 1 \in 1 .. n /\ 1 - 1 = 0
      BY <1>2
    <3>2. begin[1] = 0
      BY <1>13, <1>15, <3>1
    <3> QED
      BY <1>16, <3>1, <3>2
  <2>2. S \in SUBSET (1 .. n) /\ S # {}
    BY <2>1
  <2>3. Max(S) \in S /\ \A i \in S : i <= Max(S)
    <3> HIDE DEF S
    <3> QED
      BY <1>2, <2>2, MaxOf
  <2> QED
    BY <1>7, <2>3
<1>18. m \in 1 .. n /\ m \in 0 .. n /\ m # 0 /\ m - 1 \in 0 .. n
  BY <1>17
<1>19. Len(joined[m - 1]) < cut
  <2>1. begin[m] < cut
    BY <1>17
  <2> QED
    BY <1>15, <1>18, <2>1
<1>20. cut <= Len(joined[m])
  <2>1. CASE m = n
    BY <1>16, <2>1
  <2>2. CASE m # n
    <3>1. m + 1 \in 1 .. n /\ (m + 1) - 1 = m /\ ~ m + 1 <= m
      BY <1>18, <2>2
    <3>2. ~ begin[m + 1] < cut
      BY <1>17, <3>1
    <3>3. begin[m + 1] = Len(joined[m]) /\ Len(joined[m]) \in Nat
      BY <1>13, <1>15, <1>18, <3>1
    <3> QED
      BY <1>16, <3>2, <3>3
  <2> QED
    BY <2>1, <2>2
<1> HIDE DEF S
<1>21. begin[m] + Len(parts[m]) = Len(joined[m])
  BY <1>13, <1>15, <1>18
<1>22. /\ IsSeq(sent) /\ Len(sent) = m
       /\ \A i \in 1 .. m :
            sent[i] = IF i < m \/ cut = Len(joined[m]) \/ items[i].rep.rep = "unholdable"
                        THEN items[i].rep ELSE [rep |-> "cut"]
  <2> DEFINE R(i) == IF i < m \/ cut = Len(joined[m]) \/ items[i].rep.rep = "unholdable"
                       THEN items[i].rep ELSE [rep |-> "cut"]
  <2>1. sent = [i \in 1 .. m |-> R(i)]
    BY <1>8, <1>21, Zenon
  <2> HIDE DEF R
  <2>2. m \in Nat
    BY <1>18
  <2>3. \A i \in 1 .. m : sent[i] = R(i)
    BY <2>1
  <2>4. sent = [i \in 1 .. m |-> sent[i]]
    BY <2>1
  <2>5. IsSeq(sent) /\ Len(sent) = m
    BY <2>2, <2>4, SeqFunction
  <2> QED
    BY <2>3, <2>5 DEF R
<1>23. \A i \in 1 .. Len(parts) : IsItem(items[i]) /\ parts[i] = RfcOctets(items[i])
  BY <1>9, <1>11
<1>24. PICK s : s = sent
  OBVIOUS
<1>25. Laid(s, SubSeq(StartsOf(parts), 1, m), SubSeq(FlattenSeq(parts), 1, cut))
  <2>1. m \in 0 .. Len(parts) /\ cut \in Nat /\ (m = 0 => cut = 0)
    BY <1>11, <1>16, <1>18
  <2>2. m # 0 => Len(joined[m - 1]) < cut /\ cut <= Len(joined[m])
    BY <1>19, <1>20
  <2>3. /\ IsSeq(s) /\ Len(s) = m
        /\ \A i \in 1 .. m :
             s[i] = IF i < m \/ cut = Len(joined[m]) \/ items[i].rep.rep = "unholdable"
                      THEN items[i].rep ELSE [rep |-> "cut"]
    BY <1>22, <1>24
  <2>4. m \in Nat /\ m <= Len(parts) /\ cut \in Nat
    BY <1>11, <2>1
  <2>5. Spelled(items, parts) /\ CutIn(joined, m, cut) /\ ReadOff(s, items, joined, m, cut)
    BY <1>23, <2>1, <2>2, <2>3, Zenon DEF Spelled, CutIn, ReadOff
  <2> QED
    BY <1>11, <1>12, <2>4, <2>5, LaidOut, Zenon
<1> QED
  BY <1>4, <1>5, <1>8, <1>24, <1>25

\* The block of a request is laid out and is what RFC 7541 asks for.
LEMMA RequestBlockLaid ==
  ASSUME RequestBlock
  PROVE  Laid(sent, starts, octets) /\ writer = "hpack_encoder" /\ EncodedAsRfc
<1>1. PICK headers \in Requests :
        /\ octets = encode(headers)
        /\ sent = [i \in 1 .. Len(headers) |->
                     [rep |-> "without", index |-> 0,
                      name |-> headers[i].name, value |-> headers[i].value]]
        /\ starts = StartsOf([i \in 1 .. Len(headers) |-> encode_header(headers[i])])
        /\ writer = "hpack_encoder"
  BY Zenon DEF RequestBlock
<1>2. PICK n \in Nat : n = Len(headers) /\ \A i \in 1 .. n : headers[i] \in [name : Strings, value : Strings]
  <2>1. headers \in Seq([name : Strings, value : Strings])
    BY RequestsAssumption
  <2>2. Len(headers) \in Nat
    BY <2>1
  <2>3. \A i \in 1 .. Len(headers) : headers[i] \in [name : Strings, value : Strings]
    BY <2>1, ElementOfSeq
  <2> QED
    BY <2>2, <2>3
<1> DEFINE Item(i) == Plain(HeaderRep(headers[i]))
<1>3. PICK items : items = [i \in 1 .. n |-> Item(i)]
  OBVIOUS
<1>4. PICK parts : parts = [i \in 1 .. n |-> encode_header(headers[i])]
  OBVIOUS
<1>5. \A i \in 1 .. n :
        /\ items[i] = Item(i)
        /\ IsItem(Item(i))
        /\ Item(i).rep = HeaderRep(headers[i])
        /\ encode_header(headers[i]) = RfcOctets(Item(i))
  <2>1. \A i \in 1 .. n : items[i] = Item(i)
    BY <1>3
  <2>2. \A i \in 1 .. n : IsItem(Item(i)) /\ encode_header(headers[i]) = RfcOctets(Item(i))
    BY <1>2, PlainHeader, EncodesHeader
  <2>3. \A i \in 1 .. n : Item(i).rep = HeaderRep(headers[i])
    BY DEF Plain
  <2> QED
    BY <2>1, <2>2, <2>3
<1> HIDE DEF Item
<1>6. /\ parts \in Seq(Text) /\ Len(parts) = n
      /\ \A i \in 1 .. n : parts[i] = RfcOctets(Item(i)) /\ Len(parts[i]) \in Nat \ {0}
  <2> DEFINE P(i) == encode_header(headers[i])
  <2>1. parts = [i \in 1 .. n |-> P(i)]
    BY <1>4
  <2>2. \A i \in 1 .. n : P(i) = RfcOctets(Item(i)) /\ P(i) \in Text /\ Len(P(i)) \in Nat \ {0}
    BY <1>5, RfcOctetsType
  <2> HIDE DEF P
  <2> QED
    BY <2>1, <2>2
<1>7. octets = FlattenSeq(parts) /\ starts = StartsOf(parts)
  BY <1>1, <1>2, <1>4, Zenon DEF encode
<1>8. PICK joined : IsJoin(joined, parts, Octet)
  BY <1>6, JoinExists DEF Text
<1>9. /\ joined[0] = <<>> /\ Len(joined[0]) = 0
      /\ \A i \in 0 .. n : joined[i] \in Text /\ Len(joined[i]) \in Nat
      /\ \A i \in 0 .. n, k \in 0 .. n : i < k => Len(joined[i]) < Len(joined[k])
  <2>1. \A i \in 1 .. Len(parts) : Len(parts[i]) \in Nat \ {0}
    BY <1>6
  <2>2. /\ joined[0] = <<>> /\ Len(joined[0]) = 0
        /\ \A i \in 0 .. Len(parts) : joined[i] \in Text /\ Len(joined[i]) \in Nat
        /\ \A i \in 1 .. Len(parts) :
             /\ Len(joined[i]) = Len(joined[i - 1]) + Len(parts[i])
             /\ \A j \in 1 .. Len(parts[i]) : joined[i][Len(joined[i - 1]) + j] = parts[i][j]
        /\ \A i \in 0 .. Len(parts), k \in 0 .. Len(parts) :
             i < k => Len(joined[i]) < Len(joined[k])
    BY <1>6, <1>8, <2>1, JoinLengths
  <2> QED
    BY <1>6, <2>2
<1>10. PICK cut \in Nat : cut = Len(joined[n]) /\ FlattenSeq(parts) = joined[n]
  <2>1. n \in 0 .. n
    OBVIOUS
  <2> QED
    BY <1>6, <1>8, <1>9, <2>1, FlattenIsJoin DEF Text
<1>11. IsSeq(sent) /\ Len(sent) = n /\ \A i \in 1 .. n : sent[i] = HeaderRep(headers[i])
  <2>1. sent = [i \in 1 .. n |-> HeaderRep(headers[i])]
    BY <1>1, <1>2, Zenon DEF HeaderRep
  <2>2. \A i \in 1 .. n : sent[i] = HeaderRep(headers[i])
    BY <2>1
  <2>3. sent = [i \in 1 .. n |-> sent[i]]
    BY <2>1
  <2> QED
    BY <2>2, <2>3, SeqFunction
<1>12. PICK s : s = sent
  OBVIOUS
<1>13. Laid(s, SubSeq(StartsOf(parts), 1, n), SubSeq(FlattenSeq(parts), 1, cut))
  <2>1. \A i \in 1 .. Len(parts) : IsItem(items[i]) /\ parts[i] = RfcOctets(items[i])
    BY <1>5, <1>6
  <2>2. n \in 0 .. Len(parts) /\ (n = 0 => cut = 0)
    BY <1>6, <1>9, <1>10
  <2>3. n # 0 => Len(joined[n - 1]) < cut /\ cut <= Len(joined[n])
    <3>1. n # 0 => n - 1 \in 0 .. n /\ n \in 0 .. n /\ n - 1 < n
      OBVIOUS
    <3> QED
      BY <1>9, <1>10, <3>1
  <2>4. /\ IsSeq(s) /\ Len(s) = n
        /\ \A i \in 1 .. n :
             s[i] = IF i < n \/ cut = Len(joined[n]) \/ items[i].rep.rep = "unholdable"
                      THEN items[i].rep ELSE [rep |-> "cut"]
    BY <1>5, <1>10, <1>11, <1>12
  <2>5. n \in Nat /\ n <= Len(parts) /\ cut \in Nat
    BY <1>6, <1>10, <2>2
  <2>6. Spelled(items, parts) /\ CutIn(joined, n, cut) /\ ReadOff(s, items, joined, n, cut)
    BY <2>1, <2>2, <2>3, <2>4, Zenon DEF Spelled, CutIn, ReadOff
  <2> QED
    BY <1>6, <1>8, <2>5, <2>6, LaidOut, Zenon
<1>14. SubSeq(StartsOf(parts), 1, n) = StartsOf(parts)
  <2>1. StartsOf(parts) \in Seq(Nat) /\ Len(StartsOf(parts)) = n
    BY <1>6, <1>8, StartsAre
  <2> QED
    BY <2>1, SubSeqFull
<1>15. SubSeq(FlattenSeq(parts), 1, cut) = FlattenSeq(parts)
  <2>1. n \in 0 .. n
    OBVIOUS
  <2>2. FlattenSeq(parts) \in Seq(Octet)
    BY <1>9, <1>10, <2>1 DEF Text
  <2> QED
    BY <1>10, <2>2, SubSeqFull
<1>16. EncodedAsRfc
  <2>1. \A i \in 1 .. n : [rep |-> sent[i], pad |-> 0, huffman |-> FALSE] = Item(i)
    BY <1>11, Zenon DEF Item, Plain
  <2> DEFINE P(i) == encode_header(headers[i])
             Q(i) == RfcOctets([rep |-> sent[i], pad |-> 0, huffman |-> FALSE])
  <2>2. \A i \in 1 .. n : P(i) = Q(i)
    BY <1>5, <2>1
  <2>3. parts = [i \in 1 .. n |-> P(i)]
    BY <1>4
  <2> HIDE DEF P, Q
  <2>4. parts = [i \in 1 .. n |-> Q(i)]
    BY <2>2, <2>3
  <2> QED
    BY <1>7, <1>11, <2>4, Zenon DEF EncodedAsRfc, Q
<1> QED
  BY <1>1, <1>7, <1>12, <1>13, <1>14, <1>15, <1>16

-----------------------------------------------------------------------------
\* hpack_decoder::decode.

\* The inductive form of TypeOK: the octets are the items of the block, in a row.
Types ==
  /\ writer \in {"peer", "hpack_encoder"}
  /\ Laid(sent, starts, octets)
  /\ decode_pos \in 0 .. Len(octets)
  /\ decoder \in F!Decoders
  /\ phase \in {"decoding", "done", "thrown"}
  /\ phase = "thrown" <=> decoder.thrown

\* The top bits of an octet tell the representation.
LEMMA AnnouncedIs ==
  ASSUME NEW x \in Octet
  PROVE  /\ Announced(x).rep \in Kinds /\ Announced(x).bits \in PrefixBits
         /\ \A kind \in Kinds :
              x \in TopOf(kind) .. TopOf(kind) + 2^BitsOf(kind) - 1 =>
                Announced(x).rep = kind /\ Announced(x).bits = BitsOf(kind)
<1>1. \/ x \in 128 .. 255 \/ x \in 64 .. 127 \/ x \in 32 .. 63
      \/ x \in 16 .. 31 \/ x \in 0 .. 15
  BY DEF Octet
<1>2. Announced(x).rep \in Kinds /\ Announced(x).bits \in PrefixBits
  BY <1>1 DEF Announced, Kinds, PrefixBits
<1>3. /\ x \in 128 .. 255 => Announced(x) = [rep |-> "indexed", bits |-> 7]
      /\ x \in 64 .. 127 => Announced(x) = [rep |-> "incremental", bits |-> 6]
      /\ x \in 32 .. 63 => Announced(x) = [rep |-> "resize", bits |-> 5]
      /\ x \in 16 .. 31 => Announced(x) = [rep |-> "never", bits |-> 4]
      /\ x \in 0 .. 15 => Announced(x) = [rep |-> "without", bits |-> 4]
  <2>1. PICK t \in Nat : t = x
    BY DEF Octet
  <2>2. t \in 128 .. 255 => Announced(t) = [rep |-> "indexed", bits |-> 7]
    BY DEF Announced
  <2>3. t \in 64 .. 127 => Announced(t) = [rep |-> "incremental", bits |-> 6]
    BY DEF Announced
  <2>4. t \in 32 .. 63 => Announced(t) = [rep |-> "resize", bits |-> 5]
    BY DEF Announced
  <2>5. t \in 16 .. 31 => Announced(t) = [rep |-> "never", bits |-> 4]
    BY DEF Announced
  <2>6. t \in 0 .. 15 => Announced(t) = [rep |-> "without", bits |-> 4]
    BY DEF Announced
  <2> QED
    BY <2>1, <2>2, <2>3, <2>4, <2>5, <2>6
<1>4. ASSUME NEW kind \in Kinds, x \in TopOf(kind) .. TopOf(kind) + 2^BitsOf(kind) - 1
      PROVE  Announced(x).rep = kind /\ Announced(x).bits = BitsOf(kind)
  <2>1. CASE kind = "indexed"
    <3>1. TopOf(kind) = 128 /\ BitsOf(kind) = 7
      BY <2>1 DEF TopOf, BitsOf
    <3>2. x \in 128 .. 255
      BY <1>4, <3>1, PowersOfTwo
    <3> QED
      BY <1>3, <2>1, <3>1, <3>2
  <2>2. CASE kind = "incremental"
    <3>1. TopOf(kind) = 64 /\ BitsOf(kind) = 6
      BY <2>2 DEF TopOf, BitsOf
    <3>2. x \in 64 .. 127
      BY <1>4, <3>1, PowersOfTwo
    <3> QED
      BY <1>3, <2>2, <3>1, <3>2
  <2>3. CASE kind = "resize"
    <3>1. TopOf(kind) = 32 /\ BitsOf(kind) = 5
      BY <2>3 DEF TopOf, BitsOf
    <3>2. x \in 32 .. 63
      BY <1>4, <3>1, PowersOfTwo
    <3> QED
      BY <1>3, <2>3, <3>1, <3>2
  <2>4. CASE kind = "never"
    <3>1. TopOf(kind) = 16 /\ BitsOf(kind) = 4
      BY <2>4 DEF TopOf, BitsOf
    <3>2. x \in 16 .. 31
      BY <1>4, <3>1, PowersOfTwo
    <3> QED
      BY <1>3, <2>4, <3>1, <3>2
  <2>5. CASE kind = "without"
    <3>1. TopOf(kind) = 0 /\ BitsOf(kind) = 4
      BY <2>5 DEF TopOf, BitsOf
    <3>2. x \in 0 .. 15
      BY <1>4, <3>1, PowersOfTwo
    <3> QED
      BY <1>3, <2>5, <3>1, <3>2
  <2> QED
    BY <2>1, <2>2, <2>3, <2>4, <2>5 DEF Kinds
<1> QED
  BY <1>2, <1>4

\* A turn of the loop, whatever the octets.
LEMMA DecodeTypes ==
  ASSUME Types, DecodeRepresentation
  PROVE  /\ ~ decoder.thrown /\ phase = "decoding"
         /\ decoder' \in F!Decoders
         /\ decode_pos' \in 0 .. Len(octets)
         /\ IF decoder'.thrown THEN decode_pos' = decode_pos ELSE decode_pos' > decode_pos
         /\ phase' = IF decoder'.thrown THEN "thrown" ELSE "decoding"
<1>1. phase = "decoding" /\ ~ decoder.thrown
  BY DEF Types, DecodeRepresentation
<1>2. octets \in Text /\ decoder \in F!Decoders /\ decode_pos \in Nat /\ decode_pos <= Len(octets)
  BY DEF Types, Laid
<1>3. PICK L \in Nat : L = Len(octets)
  BY <1>2 DEF Text
<1>4. decode_pos < L
  BY <1>2, <1>3 DEF DecodeRepresentation, test_range, Below
<1>5. octets[decode_pos + 1] \in Octet
  BY <1>2, <1>3, <1>4 DEF Text
<1>6. PICK kind : kind = Announced(octets[decode_pos + 1])
  OBVIOUS
<1>7. kind.rep \in Kinds /\ kind.bits \in PrefixBits
  BY <1>5, <1>6, AnnouncedIs
<1>8. PICK junk \in Overflowed :
        LET integer == parse_integer_representation(decode_pos, kind.bits, junk)
        IN  IF integer.outcome = "thrown"
              THEN AddHeader(Thrown) /\ UNCHANGED decode_pos
              ELSE Apply(kind.rep, integer, junk)
  BY <1>6 DEF DecodeRepresentation
<1>9. junk \in Int
  BY OverflowedAssumption
<1>10. PICK integer : integer = parse_integer_representation(decode_pos, kind.bits, junk)
  OBVIOUS
<1>11. CASE integer = Thrown
  <2>1. AddHeader(Thrown) /\ decode_pos' = decode_pos
    BY <1>8, <1>10, <1>11 DEF Thrown
  <2>2. [name |-> <<>>, value |-> <<>>] \in F!Headers
    BY DEF F!Headers, Text
  <2>3. decoder' \in F!Decoders /\ decoder'.thrown
    BY <1>2, <2>1, <2>2, AddHeaderType
  <2> QED
    BY <1>1, <1>2, <1>3, <2>1, <2>3 DEF DecodeRepresentation
<1>12. ASSUME NEW v \in Int, NEW size \in Nat \ {0}, decode_pos + size <= Len(octets),
              integer = Parsed(v, size)
       PROVE  /\ decoder' \in F!Decoders
              /\ decode_pos' \in 0 .. Len(octets)
              /\ IF decoder'.thrown THEN decode_pos' = decode_pos ELSE decode_pos' > decode_pos
  <2>1. integer.outcome # "thrown"
    BY <1>12 DEF Parsed
  <2>2. Apply(kind.rep, Parsed(v, size), junk)
    BY <1>8, <1>10, <1>12, <2>1
  <2> QED
    BY <1>1, <1>2, <1>7, <1>9, <1>12, <2>2, ApplyTypes
<1>13. \/ integer = Thrown
       \/ \E v \in Int, size \in Nat \ {0} :
            decode_pos + size <= Len(octets) /\ integer = Parsed(v, size)
  BY <1>2, <1>7, <1>9, <1>10, IntegerType
<1>14. phase' = IF decoder'.thrown THEN "thrown" ELSE "decoding"
  BY <1>1 DEF DecodeRepresentation
<1>15. CASE integer # Thrown
  BY <1>1, <1>12, <1>13, <1>14, <1>15
<1> QED
  BY <1>11, <1>15

\* Types holds at every moment.
LEMMA TypesInductive == Spec => []Types
<1>1. Init => Types
  <2>1. SUFFICES ASSUME Init  PROVE Types
    OBVIOUS
  <2>2. Laid(sent, starts, octets) /\ writer \in {"peer", "hpack_encoder"}
    BY <2>1, PeerBlockLaid, RequestBlockLaid DEF Init
  <2>3. Len(octets) \in Nat
    BY <2>2 DEF Laid, Text
  <2>4. decoder = F!NewDecoder /\ decoder.thrown = FALSE
    BY <2>1, TablesOfTexts DEF Init, F!NewDecoder
  <2>5. decoder \in F!Decoders
    BY <2>4, TablesOfTexts, F!NewDecoderType
  <2> QED
    BY <2>1, <2>2, <2>3, <2>4, <2>5 DEF Init, Types
<1>2. Types /\ [Next]_vars => Types'
  <2>1. SUFFICES ASSUME Types, [Next]_vars  PROVE Types'
    OBVIOUS
  <2>2. CASE DecodeRepresentation
    <3>1. UNCHANGED <<writer, sent, starts, octets>>
      BY <2>2 DEF DecodeRepresentation
    <3> QED
      BY <2>1, <2>2, <3>1, DecodeTypes DEF Types
  <2>3. CASE DecodeEnd
    BY <2>1, <2>3 DEF DecodeEnd, Types
  <2>4. CASE UNCHANGED vars
    BY <2>1, <2>4 DEF vars, Types
  <2> QED
    BY <2>1, <2>2, <2>3, <2>4 DEF Next, Terminated
<1> QED
  BY <1>1, <1>2, PTL DEF Spec

\* The block and its outline, the position, the context and the list are always
\* what the module's declarations say of them: above all, the position is never
\* behind the end of the block and the table keeps within its bounds, whatever
\* octets the block consists of (hpack_decoder.cc:12-180).
THEOREM TypeOKAlways == Spec => []TypeOK
<1>1. Types => TypeOK
  <2>1. SUFFICES ASSUME Types  PROVE TypeOK
    OBVIOUS
  <2>2. octets \in Text /\ Len(starts) = Len(sent)
    BY <2>1 DEF Types, Laid
  <2>3. PICK d : d = decoder
    OBVIOUS
  <2>4. d \in [table : F!Tables, headers : Seq(F!Headers), thrown : BOOLEAN]
    BY <2>1, <2>3 DEF Types, F!Decoders
  <2>5. d.table \in Table!Tables /\ d.headers \in Seq(Table!Headers)
    BY <2>4, TablesOfTexts
  <2> QED
    BY <2>1, <2>2, <2>3, <2>5 DEF Types, TypeOK
<1> QED
  BY <1>1, TypesInductive, PTL

\* Whatever the octets, also integers that overflow, each turn of the loop moves
\* forward within the block or ends it (hpack_decoder.cc:83-93).
THEOREM AdvancesAlways == Spec => Advances
<1>1. Types /\ [Next]_vars => [phase' = "decoding" =>
                                 decode_pos' > decode_pos /\ decode_pos' <= Len(octets)]_vars
  <2>1. SUFFICES ASSUME Types, Next, phase' = "decoding"
                 PROVE  (decode_pos' > decode_pos /\ decode_pos' <= Len(octets)) \/ UNCHANGED vars
    OBVIOUS
  <2>2. CASE DecodeRepresentation
    <3>1. ~ decoder'.thrown
      BY <2>1, <2>2, DecodeTypes
    <3>2. decode_pos' \in 0 .. Len(octets) /\ decode_pos' > decode_pos
      BY <2>1, <2>2, <3>1, DecodeTypes
    <3>3. Len(octets) \in Nat
      BY <2>1 DEF Types, Laid, Text
    <3> QED
      BY <3>2, <3>3
  <2>3. CASE DecodeEnd
    BY <2>1, <2>3 DEF DecodeEnd
  <2> QED
    BY <2>1, <2>2, <2>3 DEF Next, Terminated
<1> QED
  BY <1>1, TypesInductive, PTL DEF Spec, Advances

\* Whatever headers a request has, the block that hpack_encoder writes is, octet
\* for octet, what RFC 7541 asks for (hpack_encoder.h:10-54).
THEOREM EncodedAsRfcAlways == Spec => []EncodedAsRfc
<1>1. Init => EncodedAsRfc
  <2>1. PeerBlock => EncodedAsRfc
    BY PeerBlockLaid DEF EncodedAsRfc
  <2> QED
    BY <2>1, RequestBlockLaid DEF Init
<1>2. EncodedAsRfc /\ [Next]_vars => EncodedAsRfc'
  <2>1. SUFFICES ASSUME EncodedAsRfc, [Next]_vars  PROVE EncodedAsRfc'
    OBVIOUS
  <2>2. UNCHANGED <<writer, sent, octets>>
    BY <2>1 DEF Next, DecodeRepresentation, DecodeEnd, Terminated, vars
  <2> QED
    BY <2>1, <2>2 DEF EncodedAsRfc
<1> QED
  BY <1>1, <1>2, PTL DEF Spec

-----------------------------------------------------------------------------
\* What the decoder reads of what an RFC 7541 encoder wrote.

\* The next m octets behind pos are the first of s.
Holds(o, pos, s, m) ==
  /\ pos + m <= Len(o)
  /\ \A j \in 1 .. m : o[pos + j] = s[j]

\* The first octet of an integer keeps the bits above its prefix.
LEMMA FirstOctet ==
  ASSUME NEW n, NEW top, IsTop(top, n), NEW i \in Numbers, NEW pad \in Nat
  PROVE  RfcInteger(top, n, i, pad)[1] \in top .. top + 2^n - 1
<1>1. PICK s : s = RfcInteger(top, n, i, pad)
  OBVIOUS
<1>2. \/ Short(s, top, n, i)
      \/ \E v \in Numbers, k \in 1 .. 4 : Long(s, top, n, i, pad, v, k)
  BY <1>1, RfcIntegerIs
<1>3. n \in PrefixBits /\ top \in Nat
  BY DEF IsTop
<1>4. PICK p \in {16, 32, 64, 128} : p = 2^n
  BY <1>3, MaskType
<1>5. i \in Nat
  BY NumbersAre
<1>6. CASE Short(s, top, n, i)
  <2>1. i < p - 1 /\ s[1] = top + i
    BY <1>4, <1>6 DEF Short
  <2> QED
    BY <1>1, <1>3, <1>4, <1>5, <2>1
<1>7. CASE \E v \in Numbers, k \in 1 .. 4 : Long(s, top, n, i, pad, v, k)
  <2>1. s[1] = top + p - 1
    BY <1>4, <1>7 DEF Long
  <2> QED
    BY <1>1, <1>3, <1>4, <2>1
<1> QED
  BY <1>2, <1>6, <1>7

\* The bits below the prefix.
LEMMA LowBits ==
  ASSUME NEW n, NEW top, IsTop(top, n), NEW q, q = 2^n, NEW x \in 0 .. q - 1,
         NEW y, y = top + x
  PROVE  y % q = x
<1>1. q \in {16, 32, 64, 128} /\ top \in Nat /\ top % q = 0
  BY MaskType DEF IsTop
<1>2. CASE q = 16
  BY <1>1, <1>2
<1>3. CASE q = 32
  BY <1>1, <1>3
<1>4. CASE q = 64
  BY <1>1, <1>4
<1>5. CASE q = 128
  BY <1>1, <1>5
<1> QED
  BY <1>1, <1>2, <1>3, <1>4, <1>5

\* An integer that is there is read as it was meant, and one that was cut is not
\* read.
LEMMA IntegerReads ==
  ASSUME octets \in Text, NEW n, NEW top, IsTop(top, n), NEW i \in Numbers, NEW pad \in Nat,
         NEW pos \in Nat, NEW m \in Nat, m <= Len(RfcInteger(top, n, i, pad)),
         Holds(octets, pos, RfcInteger(top, n, i, pad), m), NEW junk
  PROVE  LET s == RfcInteger(top, n, i, pad)
             p == parse_integer_representation(pos, n, junk)
         IN  /\ m = Len(s) => p = Parsed(i, Len(s))
             /\ m < Len(s) /\ pos + m = Len(octets) => p = Thrown
<1>1. PICK s : s = RfcInteger(top, n, i, pad)
  OBVIOUS
<1>2. /\ s \in Text /\ Len(s) \in Nat \ {0}
      /\ \/ Short(s, top, n, i)
         \/ \E v \in Numbers, k \in 1 .. 4 : Long(s, top, n, i, pad, v, k)
  BY <1>1, RfcIntegerIs, RfcIntegerLength
<1>3. n \in PrefixBits /\ top \in Nat /\ top % 2^n = 0
  BY DEF IsTop
<1>4. PICK q \in {16, 32, 64, 128} : q = 2^n
  BY <1>3, MaskType
<1>5. i \in Nat
  BY NumbersAre
<1>6. PICK L \in Nat : L = Len(octets)
  BY DEF Text
<1>7. pos + m <= L /\ \A j \in 1 .. m : octets[pos + j] = s[j]
  BY <1>1, <1>6 DEF Holds
<1> DEFINE first == octets[pos + 1] % q
           last == {k \in 1 .. L - pos - 1 : octets[pos + 1 + k] < 128}
           p == parse_integer_representation(pos, n, junk)
           digits(k) == SubSeq(octets, pos + 2, pos + 1 + k)
<1>8. p = IF ~ InView(pos) THEN Thrown
          ELSE IF first < q - 1 THEN Parsed(first, 1)
          ELSE IF last = {} THEN Thrown
          ELSE Parsed(Accumulated(q - 1, digits(Min(last)), junk), 1 + Min(last))
  BY <1>4, <1>6, Zenon DEF parse_integer_representation
<1>9. InView(pos) <=> pos < L
  BY <1>6 DEF InView, Below
<1> HIDE DEF p
<1>10. CASE m = 0
  <2>1. ~ m = Len(s)
    BY <1>2, <1>10
  <2>2. pos + m = Len(octets) => p = Thrown
    BY <1>6, <1>8, <1>9, <1>10
  <2> QED
    BY <1>1, <2>1, <2>2 DEF p
<1>11. CASE m # 0
  <2>1. pos < L /\ octets[pos + 1] = s[1]
    <3>1. 1 \in 1 .. m
      BY <1>11
    <3> QED
      BY <1>7, <3>1
  <2>2. CASE Short(s, top, n, i)
    <3>1. i < q - 1 /\ Len(s) = 1 /\ s[1] = top + i
      BY <1>4, <2>2 DEF Short
    <3>2. i \in 0 .. q - 1
      BY <1>4, <1>5, <3>1
    <3>3. first = i
      <4>1. PICK y : y = octets[pos + 1] /\ y = top + i
        BY <2>1, <3>1
      <4>2. y % q = i
        BY <1>4, <3>2, <4>1, LowBits
      <4> QED
        BY <4>1, <4>2
    <3>4. p = Parsed(i, 1)
      BY <1>8, <1>9, <2>1, <3>1, <3>3
    <3>5. ~ m < Len(s)
      BY <1>11, <3>1
    <3> QED
      BY <1>1, <3>1, <3>4, <3>5 DEF p
  <2>3. ASSUME NEW v \in Numbers, NEW k \in 1 .. 4, Long(s, top, n, i, pad, v, k)
        PROVE  /\ m = Len(s) => p = Parsed(i, Len(s))
               /\ m < Len(s) /\ pos + m = L => p = Thrown
    <3>1. PICK mask \in 0 .. 127 : mask = q - 1
      BY <1>4
    <3>2. PICK t \in Nat \ {0} : t = k + pad
      OBVIOUS
    <3>3. /\ i = mask + v /\ HasDigits(v, k) /\ Len(s) = 1 + t /\ s[1] = top + mask
          /\ \A j \in 1 .. t : s[1 + j] = DigitOf(v, k, j) + IF j < t THEN 128 ELSE 0
      <4>1. Len(s) = 1 + k + pad
        BY <2>3 DEF Long
      <4>2. s[1] = top + q - 1 /\ i = q - 1 + v /\ HasDigits(v, k)
        BY <1>4, <2>3 DEF Long
      <4>3. \A j \in 1 .. k + pad :
              s[1 + j] = DigitOf(v, k, j) + IF j < k + pad THEN 128 ELSE 0
        BY <2>3 DEF Long
      <4>4. Len(s) = 1 + t
        BY <3>2, <4>1
      <4>5. top + q - 1 = top + mask /\ q - 1 + v = mask + v
        BY <1>3, <1>4, <3>1
      <4> QED
        BY <3>2, <4>2, <4>3, <4>4, <4>5
    <3>4. first = mask
      <4>1. PICK y : y = octets[pos + 1] /\ y = top + mask
        BY <2>1, <3>3
      <4>2. mask \in 0 .. q - 1
        BY <1>4, <3>1
      <4>3. y % q = mask
        BY <1>4, <4>1, <4>2, LowBits
      <4> QED
        BY <4>1, <4>3
    <3>5. ASSUME NEW j \in 1 .. t
          PROVE  /\ j < t => ~ s[1 + j] < 128
                 /\ j = t => s[1 + j] < 128
      <4>1. j \in Nat \ {0}
        BY <3>2
      <4>2. DigitOf(v, k, j) \in 0 .. 127
        BY <4>1, DigitType
      <4>3. PICK d : d \in 0 .. 127 /\ d = DigitOf(v, k, j)
        BY <4>2
      <4>4. s[1 + j] = d + IF j < t THEN 128 ELSE 0
        BY <3>3, <4>3
      <4>5. d < 128 /\ ~ (d + 128 < 128) /\ d + 0 = d
        <5>1. d \in 0 .. 127
          BY <4>3
        <5> HIDE <4>3, <4>4
        <5> QED
          BY <5>1
      <4>6. j < t => s[1 + j] = d + 128
        BY <4>4
      <4>7. j = t => s[1 + j] = d
        BY <3>2, <4>4, <4>5
      <4> QED
        BY <4>5, <4>6, <4>7
    <3>6. ASSUME NEW j \in Nat \ {0}, 1 + j <= m
          PROVE  octets[pos + 1 + j] = s[1 + j]
      <4>1. 1 + j \in 1 .. m /\ pos + (1 + j) = pos + 1 + j
        BY <3>6
      <4> QED
        BY <1>7, <4>1
    <3>7. ASSUME m = Len(s)  PROVE p = Parsed(i, Len(s))
      <4>1. t \in last
        <5>1. t \in 1 .. L - pos - 1 /\ 1 + t <= m /\ t \in 1 .. t
          BY <1>7, <3>2, <3>3, <3>7
        <5>2. octets[pos + 1 + t] < 128
          BY <3>5, <3>6, <5>1
        <5> QED
          BY <5>1, <5>2
      <4>2. \A j \in last : t <= j
        <5>1. ASSUME NEW j \in last, j < t  PROVE FALSE
          <6>1. j \in Nat \ {0} /\ octets[pos + 1 + j] < 128
            OBVIOUS
          <6>2. 1 + j <= m /\ j \in 1 .. t
            BY <3>2, <3>3, <3>7, <5>1, <6>1
          <6>3. octets[pos + 1 + j] = s[1 + j]
            BY <3>6, <6>1, <6>2
          <6>4. ~ s[1 + j] < 128
            BY <3>5, <5>1, <6>2
          <6> QED
            BY <6>1, <6>3, <6>4
        <5>2. \A j \in last : j \in Nat
          OBVIOUS
        <5> HIDE DEF last
        <5> QED
          BY <5>1, <5>2
      <4>3. last \in SUBSET Nat
        OBVIOUS
      <4>4. Min(last) = t
        <5> HIDE DEF last
        <5> QED
          BY <4>1, <4>2, <4>3, MinIs
      <4>5. PICK d : d = digits(t)
        OBVIOUS
      <4>6. Carries(d, v, k, pad)
        <5>1. pos + 1 + t <= L
          BY <1>7, <3>3, <3>7
        <5>2. \A j \in 1 .. L : octets[j] \in Octet
          BY <1>6 DEF Text
        <5>3. d \in Seq(Octet) /\ Len(d) = t /\ \A j \in 1 .. t : d[j] = octets[pos + 1 + j]
          <6>1. pos + 2 \in Nat \ {0} /\ pos + 1 + t \in Nat /\ (pos + 1 + t) - (pos + 2) + 1 = t
            OBVIOUS
          <6>2. \A j \in pos + 2 .. pos + 1 + t : octets[j] \in Octet
            BY <5>1, <5>2
          <6>3. d \in Seq(Octet) /\ Len(d) = t
            BY <4>5, <6>1, <6>2
          <6>4. \A j \in 1 .. t : d[j] = octets[pos + 2 + j - 1]
            BY <4>5, <6>1
          <6>5. \A j \in 1 .. t : pos + 2 + j - 1 = pos + 1 + j
            OBVIOUS
          <6> QED
            BY <6>3, <6>4, <6>5
        <5>4. \A j \in 1 .. t : d[j] = s[1 + j]
          <6>1. ASSUME NEW j \in 1 .. t  PROVE d[j] = s[1 + j]
            <7>1. j \in Nat \ {0} /\ 1 + j <= m
              BY <3>3, <3>7
            <7>2. octets[pos + 1 + j] = s[1 + j]
              BY <3>6, <7>1
            <7>3. d[j] = octets[pos + 1 + j]
              BY <5>3
            <7> QED
              BY <7>2, <7>3
          <6> QED
            BY <6>1
        <5> QED
          <6>1. /\ d \in Text /\ Len(d) = k + pad
                /\ \A j \in 1 .. k + pad :
                     d[j] = DigitOf(v, k, j) + IF j < k + pad THEN 128 ELSE 0
            <7>1. d \in Text /\ Len(d) = t
              BY <5>3 DEF Text
            <7>2. \A j \in 1 .. t : d[j] = DigitOf(v, k, j) + IF j < t THEN 128 ELSE 0
              BY <3>3, <5>4
            <7> QED
              BY <3>2, <7>1, <7>2
          <6>2. v \in Numbers /\ k \in 1 .. 4 /\ HasDigits(v, k) /\ pad \in Nat
            BY <2>3, <3>3
          <6> QED
            BY <6>1, <6>2 DEF Carries
      <4>7. Accumulated(mask, d, junk) = i
        <5>2. mask \in 0 .. 127
          BY <3>1
        <5>3. Accumulated(mask, d, junk) = mask + v
          BY <4>6, <5>2, AccumulatedIs
        <5> QED
          BY <3>3, <5>3
      <4>8. last # {}
        BY <4>1
      <4>9. ~ first < q - 1
        BY <3>1, <3>4
      <4>10. p = Parsed(i, 1 + t)
        <5> HIDE DEF last, first, digits
        <5> QED
          BY <1>8, <1>9, <2>1, <3>1, <4>4, <4>5, <4>7, <4>8, <4>9
      <4> QED
        BY <3>3, <4>10
    <3>8. ASSUME m < Len(s), pos + m = L  PROVE p = Thrown
      <4>1. last = {}
        <5>1. ASSUME NEW j \in last  PROVE FALSE
          <6>0. j \in 1 .. L - pos - 1 /\ octets[pos + 1 + j] < 128
            BY <5>1
          <6>1. j \in Nat \ {0} /\ 1 + j <= m /\ j < t /\ j \in 1 .. t
            BY <3>2, <3>3, <3>8, <6>0
          <6>2. octets[pos + 1 + j] = s[1 + j]
            BY <3>6, <6>1
          <6>3. ~ s[1 + j] < 128
            BY <3>5, <6>1
          <6> QED
            BY <6>0, <6>2, <6>3
        <5> HIDE DEF last
        <5> QED
          BY <5>1
      <4>2. ~ first < q - 1
        BY <3>1, <3>4
      <4> HIDE DEF last, first, digits
      <4> QED
        BY <1>8, <4>1, <4>2
    <3> QED
      BY <3>7, <3>8
  <2> HIDE DEF p
  <2> QED
    BY <1>1, <1>2, <1>6, <2>2, <2>3 DEF p
<1> QED
  BY <1>10, <1>11

\* Octets that hold the beginning of two parts hold that of each.
LEMMA HoldsParts ==
  ASSUME NEW o \in Text, NEW pos \in Nat, NEW a \in Text, NEW b \in Text, NEW m \in Nat,
         m <= Len(a \o b), Holds(o, pos, a \o b, m)
  PROVE  /\ m <= Len(a) => Holds(o, pos, a, m)
         /\ m >= Len(a) => /\ Holds(o, pos, a, Len(a))
                           /\ m - Len(a) \in Nat /\ m - Len(a) <= Len(b)
                           /\ Holds(o, pos + Len(a), b, m - Len(a))
<1>0. Len(a) \in Nat /\ Len(b) \in Nat /\ Len(o) \in Nat
  BY DEF Text
<1>1. PICK x \in Nat, y \in Nat, L \in Nat : x = Len(a) /\ y = Len(b) /\ L = Len(o)
  BY <1>0
<1>2. PICK c : c = a \o b
  OBVIOUS
<1>3. /\ Len(c) = x + y
      /\ \A j \in 1 .. x : c[j] = a[j]
      /\ \A j \in 1 .. y : c[x + j] = b[j]
  BY <1>1, <1>2, TextConcat
<1>4. m <= x + y /\ pos + m <= L /\ \A j \in 1 .. m : o[pos + j] = c[j]
  BY <1>1, <1>2, <1>3 DEF Holds
<1>5. ASSUME m <= x  PROVE Holds(o, pos, a, m)
  <2>1. \A j \in 1 .. m : j \in 1 .. x
    BY <1>1, <1>5
  <2> QED
    BY <1>1, <1>3, <1>4, <2>1 DEF Holds
<1>6. ASSUME m >= x
      PROVE  /\ Holds(o, pos, a, x)
             /\ m - x \in Nat /\ m - x <= y
             /\ Holds(o, pos + x, b, m - x)
  <2>1. m - x \in Nat /\ m - x <= y /\ pos + x <= L /\ (pos + x) + (m - x) <= L
    BY <1>1, <1>4, <1>6
  <2>2. \A j \in 1 .. x : o[pos + j] = a[j]
    <3>1. \A j \in 1 .. x : j \in 1 .. m
      BY <1>1, <1>6
    <3> QED
      BY <1>3, <1>4, <3>1
  <2>3. ASSUME NEW j \in 1 .. m - x  PROVE o[(pos + x) + j] = b[j]
    <3>1. x + j \in 1 .. m /\ j \in 1 .. y /\ pos + (x + j) = (pos + x) + j
      BY <1>1, <1>4, <1>6
    <3> QED
      BY <1>3, <1>4, <3>1
  <2> QED
    BY <1>1, <2>1, <2>2, <2>3 DEF Holds
<1> QED
  BY <1>1, <1>5, <1>6

\* The top bit of a string tells whether it is coded.
LEMMA StringFirstOctet ==
  ASSUME NEW top \in {0, 128}, NEW l \in Numbers, NEW pad \in Nat
  PROVE  RfcInteger(top, 7, l, pad)[1] < 128 <=> top = 0
<1>1. PICK n : n = 7
  OBVIOUS
<1>2. IsTop(top, n)
  BY <1>1, PrefixesAre
<1>3. RfcInteger(top, n, l, pad)[1] \in top .. top + 2^n - 1
  BY <1>2, FirstOctet
<1>4. PICK x : x = RfcInteger(top, n, l, pad)[1]
  OBVIOUS
<1>5. 2^n = 128
  BY <1>1, PowersOfTwo
<1>6. x \in top .. top + 127
  BY <1>3, <1>4, <1>5
<1>7. x < 128 <=> top = 0
  BY <1>6
<1> QED
  BY <1>1, <1>4, <1>7

\* What is read of a string: an empty one throws.
Reading(s, n) == IF Len(s) > 0 THEN Parsed(s, n) ELSE Thrown

\* The same for a string, whether it is coded or not.
LEMMA StringReads ==
  ASSUME octets \in Text, NEW item, IsItem(item), NEW s, Sendable(s, item),
         NEW pos \in Nat, NEW m \in Nat, m <= Len(RfcString(s, item)),
         Holds(octets, pos, RfcString(s, item), m), NEW junk
  PROVE  LET x == RfcString(s, item)
             p == parse_string_literal_representation(pos, junk)
         IN  /\ m = Len(x) => p = Reading(s, Len(x))
             /\ m < Len(x) /\ pos + m = Len(octets) => p = Thrown
<1>0. item.pad \in Nat /\ item.huffman \in BOOLEAN /\ s \in Strings /\ (item.huffman => s \in Coded)
  BY ItemIs DEF Sendable
<1>1. PICK L \in Nat : L = Len(octets)
  BY DEF Text
<1>2. PICK top \in {0, 128} : top = IF item.huffman THEN 128 ELSE 0
  OBVIOUS
<1>3. PICK b : /\ b = Body(s, item) /\ b \in Text /\ Len(b) \in Numbers /\ Len(b) \in Nat
               /\ RfcString(s, item) = RfcInteger(top, 7, Len(b), item.pad) \o b
               /\ item.huffman => b \in DOMAIN HuffmanText /\ HuffmanText[b] = s /\ b # <<>>
               /\ ~ item.huffman => b = s
  BY <1>0, <1>2, BodyIs
<1>4. PICK l : l = Len(b) /\ l \in Numbers /\ l \in Nat
  BY <1>3
<1>5. PICK pad \in Nat : pad = item.pad
  BY <1>0
<1>6. IsTop(top, 7)
  BY <1>2, PrefixesAre
<1>7. PICK e : e = RfcInteger(top, 7, l, pad) /\ e \in Text /\ Len(e) \in Nat \ {0}
  BY <1>4, <1>5, <1>6, RfcIntegerLength
<1>8. PICK z \in Nat \ {0} : z = Len(e)
  BY <1>7
<1>9. PICK x : /\ x = RfcString(s, item) /\ x = e \o b /\ x \in Text /\ Len(x) = z + l
               /\ x[1] = e[1]
  <2>1. RfcString(s, item) = e \o b
    BY <1>3, <1>4, <1>5, <1>7
  <2>2. e \o b \in Text /\ Len(e \o b) = z + l
    BY <1>3, <1>4, <1>7, <1>8, TextConcat
  <2>3. (e \o b)[1] = e[1]
    BY <1>3, <1>7, <1>8, TextConcat
  <2> QED
    BY <2>1, <2>2, <2>3
<1>10. m <= z + l /\ Holds(octets, pos, e \o b, m)
  BY <1>9
<1>11. /\ m <= z => Holds(octets, pos, e, m)
       /\ m >= z => /\ Holds(octets, pos, e, z)
                    /\ m - z \in Nat /\ m - z <= l
                    /\ Holds(octets, pos + z, b, m - z)
  <2>1. m <= Len(e \o b)
    BY <1>9
  <2> QED
    BY <1>3, <1>4, <1>7, <1>8, <1>10, <2>1, HoldsParts
<1> DEFINE integer == parse_integer_representation(pos, 7, junk)
           p == parse_string_literal_representation(pos, junk)
<1>12. m >= z => integer = Parsed(l, z)
  <2>1. ASSUME m >= z  PROVE integer = Parsed(l, z)
    <3>1. Holds(octets, pos, e, z) /\ z \in Nat /\ z <= Len(e) /\ z = Len(e)
      BY <1>8, <1>11, <2>1
    <3> QED
      BY <1>4, <1>5, <1>6, <1>7, <3>1, IntegerReads
  <2> QED
    BY <2>1
<1>13. m < z /\ pos + m = L => integer = Thrown
  <2>1. ASSUME m < z, pos + m = L  PROVE integer = Thrown
    <3>1. Holds(octets, pos, e, m) /\ m <= Len(e) /\ m < Len(e) /\ pos + m = Len(octets)
      BY <1>1, <1>8, <1>11, <2>1
    <3> QED
      BY <1>4, <1>5, <1>6, <1>7, <3>1, IntegerReads
  <2> QED
    BY <2>1
<1> HIDE DEF p, integer
<1>14. ASSUME integer = Thrown  PROVE p = Thrown
  BY <1>14 DEF p, integer, parse_string_literal_representation, Thrown
<1>15. CASE m < z
  <2>1. ~ m = Len(x)
    BY <1>4, <1>9, <1>15
  <2> QED
    BY <1>1, <1>9, <1>13, <1>14, <1>15, <2>1 DEF p
<1>16. CASE ~ m < z
  <2>1. m >= z /\ integer = Parsed(l, z)
    BY <1>12, <1>16
  <2> DEFINE data == SubSeq(octets, pos + z + 1, pos + z + l)
  <2>2. p = IF ~ InView(pos) THEN Thrown
            ELSE IF l = 0 \/ ~ SubviewFits(pos + z, l) THEN Thrown
            ELSE IF octets[pos + 1] < 128 THEN Parsed(data, z + l)
            ELSE IF data \in DOMAIN HuffmanText THEN Parsed(HuffmanText[data], z + l)
            ELSE Thrown
    <3>1. /\ integer.outcome = "parsed" /\ integer.value = l /\ integer.size = z
          /\ integer.outcome # "thrown"
      BY <2>1 DEF Parsed
    <3> QED
      BY <3>1, Zenon DEF p, integer, parse_string_literal_representation
  <2>3. pos + m <= L /\ pos + z <= L
    <3>1. Holds(octets, pos, e, z)
      BY <1>11, <2>1
    <3> QED
      BY <1>1, <1>10, <3>1 DEF Holds
  <2>4. InView(pos) /\ octets[pos + 1] = e[1]
    <3>1. Holds(octets, pos, e, z) /\ 1 \in 1 .. z
      BY <1>11, <2>1
    <3>2. octets[pos + 1] = e[1]
      BY <3>1 DEF Holds
    <3>3. pos < L
      BY <2>3
    <3> QED
      BY <1>1, <3>2, <3>3 DEF InView, Below
  <2>5. SubviewFits(pos + z, l) <=> pos + z + l <= L
    BY <1>1, <1>4 DEF SubviewFits, Below
  <2>6. e[1] < 128 <=> ~ item.huffman
    <3>1. RfcInteger(top, 7, l, pad)[1] < 128 <=> top = 0
      <4>1. top \in {0, 128} /\ l \in Numbers /\ pad \in Nat
        BY <1>2, <1>4, <1>5
      <4> QED
        BY <4>1, StringFirstOctet
    <3> QED
      BY <1>0, <1>2, <1>7, <3>1
  <2>7. ASSUME m = z + l  PROVE p = Reading(s, z + l)
    <3>1. Holds(octets, pos + z, b, l)
      <4>1. m - z = l
        BY <1>4, <2>7
      <4> QED
        BY <1>11, <2>1, <4>1
    <3>2. pos + z + l <= L /\ pos + z \in Nat
      BY <1>4, <2>3, <2>7
    <3>3. data = b
      <4>1. \A j \in 1 .. L : octets[j] \in Octet
        BY <1>1 DEF Text
      <4>2. \A j \in pos + z + 1 .. pos + z + l : octets[j] \in Octet
        BY <1>4, <3>2, <4>1
      <4>3. data \in Seq(Octet) /\ Len(data) = l
        BY <1>4, <3>2, <4>2
      <4>4. ASSUME NEW j \in 1 .. l  PROVE data[j] = b[j]
        <5>0. /\ pos + z + 1 \in Nat \ {0} /\ pos + z + l \in Nat
              /\ (pos + z + l) - (pos + z + 1) + 1 = l
          BY <1>4
        <5>a. PICK lo \in Nat \ {0}, hi \in Nat :
                lo = pos + z + 1 /\ hi = pos + z + l /\ hi - lo + 1 = l
          BY <5>0
        <5>b. data = SubSeq(octets, lo, hi)
          BY <5>a
        <5>c. j \in 1 .. hi - lo + 1
          BY <5>a
        <5>d. SubSeq(octets, lo, hi)[j] = octets[lo + j - 1]
          BY <5>a, <5>c
        <5>1. data[j] = octets[lo + j - 1]
          BY <5>b, <5>d
        <5>2. lo + j - 1 = (pos + z) + j
          BY <1>4, <5>a
        <5>3. octets[(pos + z) + j] = b[j]
          BY <3>1 DEF Holds
        <5> QED
          BY <5>1, <5>2, <5>3
      <4> HIDE DEF data
      <4>5. b \in Seq(Octet) /\ Len(b) = l
        BY <1>3, <1>4 DEF Text
      <4> QED
        BY <4>3, <4>4, <4>5, SeqEqual
    <3> HIDE DEF data
    <3>4. CASE item.huffman
      <4>1. b \in DOMAIN HuffmanText /\ HuffmanText[b] = s /\ b # <<>>
        BY <1>3, <3>4
      <4>2. l # 0
        BY <1>3, <1>4, <4>1 DEF Text
      <4>3. Len(s) > 0
        <5>1. s # <<>> /\ s \in Text
          BY <1>0, <3>4 DEF Coded, Strings
        <5> QED
          BY <5>1 DEF Text
      <4>4. p = Parsed(s, z + l)
        BY <2>2, <2>4, <2>5, <2>6, <3>2, <3>3, <3>4, <4>1, <4>2
      <4> QED
        BY <4>3, <4>4 DEF Reading
    <3>5. CASE ~ item.huffman
      <4>1. b = s
        BY <1>3, <3>5
      <4>2. l = 0 => p = Thrown
        BY <2>2
      <4>3. l # 0 => p = Parsed(s, z + l)
        BY <2>2, <2>4, <2>5, <2>6, <3>2, <3>3, <3>5, <4>1
      <4>4. Len(s) > 0 <=> l # 0
        BY <1>4, <4>1
      <4> QED
        BY <4>2, <4>3, <4>4 DEF Reading
    <3> QED
      BY <3>4, <3>5
  <2>8. ASSUME m < z + l, pos + m = L  PROVE p = Thrown
    <3>1. ~ pos + z + l <= L
      BY <1>4, <2>8
    <3> HIDE DEF data
    <3> QED
      BY <2>2, <2>5, <3>1
  <2> QED
    BY <1>1, <1>9, <2>7, <2>8 DEF p
<1> QED
  BY <1>15, <1>16

\* A reading and what becomes of it.
LEMMA ReadingIs ==
  ASSUME NEW s \in Text, NEW n \in Nat
  PROVE  /\ Len(s) > 0 => /\ Reading(s, n).outcome # "thrown"
                          /\ Reading(s, n).value = s /\ Reading(s, n).size = n
         /\ ~ Len(s) > 0 => Reading(s, n).outcome = "thrown"
BY DEF Reading, Parsed, Thrown

\* The name, if there is one, and the value of a literal are read as they were
\* meant; what is cut throws.
LEMMA FetchReads ==
  ASSUME octets \in Text, NEW item, IsItem(item), item.rep.rep \in Literals,
         NEW t, NEW pos \in Nat, NEW m \in Nat, m <= Len(StringPart(item)),
         Holds(octets, pos, StringPart(item), m), NEW junk
  PROVE  LET f == fetch_header(t, item.rep.index, pos, junk)
             g == F!fetch_header(t, item.rep)
         IN  /\ m = Len(StringPart(item)) =>
                  f = IF g.outcome = "header" THEN Fetched(g.header, pos + m) ELSE Thrown
             /\ m < Len(StringPart(item)) /\ pos + m = Len(octets) => f = Thrown
<1>1. PICK L \in Nat : L = Len(octets)
  BY DEF Text
<1>2. PICK r : r = item.rep
  OBVIOUS
<1>3. /\ r.index \in Nat
      /\ r.index = 0 => Sendable(r.name, item)
      /\ Sendable(r.value, item)
  <2>1. r.rep # "unholdable" /\ r.rep # "indexed" /\ r.rep # "resize"
    BY <1>2 DEF Literals
  <2> QED
    BY <1>2, <2>1, ItemIs, NumbersAre
<1>4. PICK s \in Text : s = r.value /\ Len(s) \in Nat
  BY <1>3 DEF Sendable, Strings, Text
<1>5. PICK b \in Text : b = RfcString(s, item) /\ Len(b) \in Nat
  <2>1. RfcString(s, item) \in Text
    BY <1>3, <1>4, SendableType
  <2> QED
    BY <2>1 DEF Text
<1> DEFINE f == fetch_header(t, r.index, pos, junk)
           g == F!fetch_header(t, r)
           found == F!hpack_table_at(t, r.index)
           name == parse_string_literal_representation(pos, junk)
           value(p) == parse_string_literal_representation(p, junk)
<1>6. CASE r.index # 0
  <2>1. StringPart(item) = b
    <3>1. NamePart(item) = <<>>
      BY <1>2, <1>6 DEF NamePart
    <3>2. StringPart(item) = <<>> \o b
      BY <1>2, <1>4, <1>5, <3>1 DEF StringPart
    <3> QED
      BY <1>5, <3>2 DEF Text
  <2>2. f = IF found.outcome # "header" THEN Thrown
            ELSE IF value(pos).outcome = "thrown" THEN Thrown
            ELSE Fetched([name |-> found.header.name, value |-> value(pos).value],
                         pos + value(pos).size)
    BY <1>6, SameLookup, Zenon DEF fetch_header
  <2>3. g = IF found.outcome = "header" /\ Len(s) > 0
              THEN F!Found([name |-> found.header.name, value |-> s])
              ELSE F!Thrown
    <3>1. Lengths[s] = Len(s)
      BY DEF Lengths
    <3> QED
      BY <1>4, <1>6, <3>1, Zenon DEF F!fetch_header, F!StringParses
  <2>4. /\ m = Len(b) => value(pos) = Reading(s, m)
        /\ m < Len(b) /\ pos + m = L => value(pos) = Thrown
    <3>1. m <= Len(RfcString(s, item)) /\ Holds(octets, pos, RfcString(s, item), m)
      BY <1>5, <2>1
    <3>2. Sendable(s, item)
      BY <1>3, <1>4
    <3> QED
      BY <1>1, <1>5, <3>1, <3>2, StringReads
  <2> HIDE DEF f, g, found, value
  <2>5. m = Len(b) => f = IF g.outcome = "header" THEN Fetched(g.header, pos + m) ELSE Thrown
    <3>1. SUFFICES ASSUME m = Len(b)
                   PROVE  f = IF g.outcome = "header" THEN Fetched(g.header, pos + m) ELSE Thrown
      OBVIOUS
    <3>2. value(pos) = Reading(s, m)
      BY <2>4, <3>1
    <3>3. CASE Len(s) > 0
      <4>1. /\ value(pos).outcome # "thrown" /\ value(pos).value = s
            /\ value(pos).size = m
        BY <3>2, <3>3, ReadingIs
      <4> QED
        BY <2>2, <2>3, <3>3, <4>1 DEF F!Found, F!Thrown
    <3>4. CASE ~ Len(s) > 0
      <4>1. value(pos).outcome = "thrown"
        BY <3>2, <3>4, ReadingIs
      <4> QED
        BY <2>2, <2>3, <3>4, <4>1 DEF F!Thrown
    <3> QED
      BY <3>3, <3>4
  <2>6. m < Len(b) /\ pos + m = L => f = Thrown
    BY <2>2, <2>4 DEF Thrown
  <2> QED
    BY <1>1, <1>2, <2>1, <2>5, <2>6 DEF f, g
<1>7. CASE r.index = 0
  <2>1. PICK u \in Text : u = r.name /\ Sendable(u, item)
    BY <1>3, <1>7 DEF Sendable, Strings
  <2>2. PICK a \in Text : a = RfcString(u, item)
    BY <2>1, SendableType
  <2>3. PICK x \in Nat, y \in Nat : x = Len(a) /\ y = Len(b)
    BY <1>5 DEF Text
  <2>4. StringPart(item) = a \o b
    BY <1>2, <1>4, <1>5, <1>7, <2>1, <2>2 DEF StringPart, NamePart
  <2>5. Len(StringPart(item)) = x + y /\ m <= x + y
    <3>1. Len(a \o b) = x + y
      BY <2>3, TextConcat
    <3> QED
      BY <2>4, <3>1
  <2>6. /\ m <= x => Holds(octets, pos, a, m)
        /\ m >= x => /\ Holds(octets, pos, a, x)
                     /\ m - x \in Nat /\ m - x <= y
                     /\ Holds(octets, pos + x, b, m - x)
    <3>1. m <= Len(a \o b) /\ Holds(octets, pos, a \o b, m)
      BY <2>4
    <3> QED
      BY <2>3, <3>1, HoldsParts
  <2>7. f = IF name.outcome = "thrown" THEN Thrown
            ELSE IF value(pos + name.size).outcome = "thrown" THEN Thrown
            ELSE Fetched([name |-> name.value, value |-> value(pos + name.size).value],
                         pos + name.size + value(pos + name.size).size)
    BY <1>7, Zenon DEF fetch_header
  <2>8. g = IF Len(u) > 0 /\ Len(s) > 0
              THEN F!Found([name |-> u, value |-> s]) ELSE F!Thrown
    <3>1. Lengths[s] = Len(s) /\ Lengths[u] = Len(u)
      BY DEF Lengths
    <3> QED
      BY <1>4, <1>7, <2>1, <3>1, Zenon DEF F!fetch_header, F!StringParses
  <2>9. m >= x => name = Reading(u, x)
    <3>1. ASSUME m >= x  PROVE name = Reading(u, x)
      <4>1. Holds(octets, pos, RfcString(u, item), x) /\ x = Len(RfcString(u, item))
            /\ x <= Len(RfcString(u, item))
        BY <2>2, <2>3, <2>6, <3>1
      <4> QED
        BY <2>1, <4>1, StringReads
    <3> QED
      BY <3>1
  <2>10. m < x /\ pos + m = L => name = Thrown
    <3>1. ASSUME m < x, pos + m = L  PROVE name = Thrown
      <4>1. /\ Holds(octets, pos, RfcString(u, item), m) /\ pos + m = Len(octets)
            /\ m < Len(RfcString(u, item)) /\ m <= Len(RfcString(u, item))
        BY <1>1, <2>2, <2>3, <2>6, <3>1
      <4> QED
        BY <2>1, <4>1, StringReads
    <3> QED
      BY <3>1
  <2>11. ASSUME m >= x
         PROVE  /\ m = x + y => value(pos + x) = Reading(s, y)
                /\ m < x + y /\ pos + m = L => value(pos + x) = Thrown
    <3>1. PICK q \in Nat, k \in Nat : q = pos + x /\ k = m - x
      BY <2>6, <2>11
    <3>2. Holds(octets, q, RfcString(s, item), k) /\ k <= Len(RfcString(s, item))
      BY <1>5, <2>3, <2>6, <2>11, <3>1
    <3>3. Sendable(s, item)
      BY <1>3, <1>4
    <3>4. /\ k = y => value(q) = Reading(s, y)
          /\ k < y /\ q + k = L => value(q) = Thrown
      BY <1>1, <1>5, <2>3, <3>2, <3>3, StringReads
    <3>5. (m = x + y => k = y) /\ (m < x + y => k < y) /\ q + k = pos + m
      BY <2>11, <3>1
    <3> HIDE DEF value
    <3> QED
      BY <3>1, <3>4, <3>5
  <2> HIDE DEF f, g, name, value
  <2>12. CASE m < x
    <3>1. ~ m = x + y
      BY <2>12
    <3>2. pos + m = L => f = Thrown
      BY <2>7, <2>10, <2>12 DEF Thrown
    <3> QED
      BY <1>1, <1>2, <2>5, <3>1, <3>2 DEF f, g
  <2>13. CASE m >= x
    <3>1. name = Reading(u, x)
      BY <2>9, <2>13
    <3>2. CASE Len(u) > 0
      <4>1. name.outcome # "thrown" /\ name.value = u /\ name.size = x
        BY <3>1, <3>2, ReadingIs
      <4>2. f = IF value(pos + x).outcome = "thrown" THEN Thrown
                ELSE Fetched([name |-> u, value |-> value(pos + x).value],
                             pos + x + value(pos + x).size)
        BY <2>7, <4>1
      <4>3. m = x + y => f = IF g.outcome = "header" THEN Fetched(g.header, pos + m) ELSE Thrown
        <5>1. m = x + y => pos + x + y = pos + m
          OBVIOUS
        <5> QED
          BY <2>8, <2>11, <2>13, <3>2, <4>2, <5>1, ReadingIs DEF F!Found, F!Thrown
      <4>4. m < x + y /\ pos + m = L => f = Thrown
        BY <2>11, <2>13, <4>2 DEF Thrown
      <4> QED
        BY <1>1, <1>2, <2>5, <4>3, <4>4 DEF f, g
    <3>3. CASE ~ Len(u) > 0
      <4>1. f = Thrown
        BY <2>7, <3>1, <3>3, ReadingIs
      <4>2. g.outcome # "header"
        BY <2>8, <3>3 DEF F!Thrown
      <4> QED
        BY <1>1, <1>2, <2>5, <4>1, <4>2 DEF f, g
    <3> QED
      BY <3>2, <3>3
  <2> QED
    BY <2>12, <2>13
<1> QED
  BY <1>3, <1>6, <1>7

\* A decoder with the fields the lemmas below speak of.
DecoderType == [table : F!Tables, headers : Seq(F!Headers), thrown : BOOLEAN]

\* A decoder with other headers.
LEMMA WithHeaders ==
  ASSUME NEW d \in DecoderType, NEW h
  PROVE  [d EXCEPT !.headers = h] = [table |-> d.table, headers |-> h, thrown |-> d.thrown]
BY DEF DecoderType

\* A decoder with another table.
LEMMA WithTable ==
  ASSUME NEW d \in DecoderType, NEW t
  PROVE  [d EXCEPT !.table = t] = [table |-> t, headers |-> d.headers, thrown |-> d.thrown]
BY DEF DecoderType

\* A decoder with other headers and another table.
LEMMA WithBoth ==
  ASSUME NEW d \in DecoderType, NEW t, NEW h
  PROVE  [d EXCEPT !.headers = h, !.table = t] =
           [table |-> t, headers |-> h, thrown |-> d.thrown]
<1>1. PICK e : e = [d EXCEPT !.headers = h]
  OBVIOUS
<1>2. e = [table |-> d.table, headers |-> h, thrown |-> d.thrown]
  BY <1>1, WithHeaders
<1>3. [e EXCEPT !.table = t] = [table |-> t, headers |-> h, thrown |-> d.thrown]
  BY <1>2
<1>4. [d EXCEPT !.headers = h, !.table = t] = [e EXCEPT !.table = t]
  BY <1>1
<1> QED
  BY <1>3, <1>4

\* A decoder that has thrown, and a decoder as it is.
LEMMA WithThrown ==
  ASSUME NEW d \in DecoderType
  PROVE  /\ [d EXCEPT !.thrown = TRUE] =
              [table |-> d.table, headers |-> d.headers, thrown |-> TRUE]
         /\ d = [table |-> d.table, headers |-> d.headers, thrown |-> d.thrown]
<1>1. [d EXCEPT !.thrown = TRUE] = [table |-> d.table, headers |-> d.headers, thrown |-> TRUE]
  <2>1. PICK yes \in BOOLEAN : yes = TRUE
    OBVIOUS
  <2>2. [d EXCEPT !.thrown = yes] = [table |-> d.table, headers |-> d.headers, thrown |-> yes]
    BY Z3 DEF DecoderType
  <2> QED
    BY <2>1, <2>2, Zenon
<1>2. d = [table |-> d.table, headers |-> d.headers, thrown |-> d.thrown]
  BY Zenon DEF DecoderType
<1> QED
  BY <1>1, <1>2

\* One turn of the decoder of representations.
LEMMA DecodeNextIs ==
  ASSUME NEW d \in DecoderType,
         d.thrown = FALSE, NEW r
  PROVE  LET found == F!hpack_table_at(d.table, r.index)
             g == F!fetch_header(d.table, r)
         IN  /\ r.rep = "indexed" =>
                  /\ found.outcome = "header" =>
                       F!DecodeNext(d, r) = [d EXCEPT !.headers = Append(@, found.header)]
                  /\ found.outcome = "thrown" => F!DecodeNext(d, r) = [d EXCEPT !.thrown = TRUE]
                  /\ found.outcome = "nullopt" => F!DecodeNext(d, r) = d
             /\ r.rep = "resize" =>
                  F!DecodeNext(d, r) = [d EXCEPT !.table = F!set_maximum_table_size(@, r.size)]
             /\ r.rep \in Literals =>
                  /\ g.outcome = "header" =>
                       F!DecodeNext(d, r) =
                         [d EXCEPT !.headers = Append(@, g.header),
                                   !.table = IF r.rep = "incremental"
                                               THEN F!add(@, g.header) ELSE @]
                  /\ g.outcome # "header" => F!DecodeNext(d, r) = [d EXCEPT !.thrown = TRUE]
<1> DEFINE found == F!hpack_table_at(d.table, r.index)
           g == F!fetch_header(d.table, r)
           one == F!decode_representation(d.table, r)
           next == F!DecodeNext(d, r)
           hs == IF one.result.outcome = "header"
                   THEN Append(d.headers, one.result.header) ELSE d.headers
<1>1. next = [table |-> one.table, headers |-> hs, thrown |-> one.result.outcome = "thrown"]
  BY Zenon DEF F!DecodeNext
<1>2. \A h : F!Found(h).outcome = "header"
  BY DEF F!Found
<1>3. F!Thrown.outcome = "thrown" /\ F!Nullopt.outcome = "nullopt"
  BY DEF F!Thrown, F!Nullopt
<1>4. g.outcome = "header" \/ g.outcome = "thrown"
  BY <1>2, <1>3, Zenon DEF F!fetch_header
<1>5. /\ r.rep = "indexed" => one = [result |-> found, table |-> d.table]
      /\ r.rep \in Literals =>
           one = [result |-> g,
                  table |-> IF r.rep = "incremental" /\ g.outcome = "header"
                              THEN F!add(d.table, g.header) ELSE d.table]
      /\ r.rep = "resize" =>
           one = [result |-> F!Nullopt, table |-> F!set_maximum_table_size(d.table, r.size)]
  <2> HIDE DEF found, g
  <2> QED
    BY DEF F!decode_representation, found, g, F!Literals, Literals
<1> HIDE DEF found, g, one, next
<1>6. /\ one.result.outcome # "thrown" =>
           next = [table |-> one.table, headers |-> hs, thrown |-> d.thrown]
      /\ one.result.outcome = "thrown" =>
           next = [table |-> one.table, headers |-> hs, thrown |-> TRUE]
  <2>1. one.result.outcome # "thrown" => (one.result.outcome = "thrown") = d.thrown
    BY Zenon
  <2> HIDE DEF hs
  <2> QED
    BY <1>1, <2>1, Zenon
<1>7. CASE r.rep = "indexed"
  <2>1. one.result = found /\ one.table = d.table
    BY <1>5, <1>7
  <2>2. found.outcome = "header" => next = [d EXCEPT !.headers = Append(@, found.header)]
    <3>1. found.outcome = "header" => hs = Append(d.headers, found.header)
      BY <2>1
    <3> HIDE DEF hs
    <3> QED
      BY <1>6, <2>1, <3>1, WithHeaders
  <2>3. found.outcome # "header" => hs = d.headers
    BY <2>1
  <2> HIDE DEF hs
  <2>4. found.outcome = "thrown" => next = [d EXCEPT !.thrown = TRUE]
    BY <1>6, <2>1, <2>3, WithThrown
  <2>5. found.outcome = "nullopt" => next = d
    BY <1>6, <2>1, <2>3, WithThrown
  <2> QED
    BY <1>7, <2>2, <2>4, <2>5 DEF found, next, Literals
<1>8. CASE r.rep = "resize"
  <2>1. one.result.outcome = "nullopt" /\ one.table = F!set_maximum_table_size(d.table, r.size)
    BY <1>3, <1>5, <1>8
  <2>2. hs = d.headers
    BY <2>1
  <2>3. next = [d EXCEPT !.table = F!set_maximum_table_size(@, r.size)]
    <3> HIDE DEF hs
    <3> QED
      BY <1>6, <2>1, <2>2, WithTable
  <2> QED
    BY <1>8, <2>3 DEF next, Literals
<1>9. CASE r.rep \in Literals
  <2>1. one.result = g
    BY <1>5, <1>9
  <2>2. PICK t : t = IF r.rep = "incremental" THEN F!add(d.table, g.header) ELSE d.table
    OBVIOUS
  <2>3. /\ g.outcome = "header" => one.table = t
        /\ g.outcome # "header" => one.table = d.table
    BY <1>5, <1>9, <2>2
  <2>4. /\ g.outcome = "header" => hs = Append(d.headers, g.header)
        /\ g.outcome # "header" => hs = d.headers
    BY <2>1
  <2> HIDE DEF hs
  <2>5. g.outcome = "header" => next = [d EXCEPT !.headers = Append(@, g.header), !.table = t]
    <3>1. PICK h : h = Append(d.headers, g.header)
      OBVIOUS
    <3>2. [d EXCEPT !.headers = h, !.table = t] = [table |-> t, headers |-> h, thrown |-> d.thrown]
      BY WithBoth
    <3>3. g.outcome = "header" => next = [table |-> t, headers |-> h, thrown |-> d.thrown]
      BY <1>6, <2>1, <2>3, <2>4, <3>1
    <3> QED
      BY <3>1, <3>2, <3>3
  <2>6. g.outcome # "header" => next = [d EXCEPT !.thrown = TRUE]
    BY <1>4, <1>6, <2>1, <2>3, <2>4, WithThrown
  <2>7. r.rep # "indexed" /\ r.rep # "resize"
    BY <1>9 DEF Literals
  <2> QED
    BY <1>9, <2>2, <2>5, <2>6, <2>7 DEF g, next
<1> QED
  BY <1>7, <1>8, <1>9, Zenon DEF found, g, next

\* An item of a laid out block has a place of its own.
LEMMA EndsAre ==
  ASSUME NEW s, NEW b, NEW o, Laid(s, b, o), NEW i \in 1 .. Len(s)
  PROVE  /\ b[i] \in Nat /\ EndOf(b, o, i) \in Nat /\ b[i] < EndOf(b, o, i)
         /\ EndOf(b, o, i) <= Len(o)
         /\ i = Len(s) => EndOf(b, o, i) = Len(o)
<1>1. PICK n \in Nat : n = Len(s) /\ n = Len(b)
  <2>1. b \in Seq(Nat) /\ Len(b) = Len(s)
    BY DEF Laid
  <2> QED
    BY <2>1
<1>2. \A k \in 1 .. n : b[k] \in Nat
  BY <1>1 DEF Laid
<1>3. PICK L \in Nat : L = Len(o)
  BY DEF Laid, Text
<1>4. CASE i < n
  <2>1. i + 1 \in 1 .. n /\ i \in 1 .. n /\ i < i + 1
    BY <1>1, <1>4
  <2>2. b[i] < b[i + 1] /\ b[i + 1] < L
    BY <1>1, <1>3, <2>1 DEF Laid
  <2>3. EndOf(b, o, i) = b[i + 1]
    BY <1>1, <1>4 DEF EndOf
  <2>4. i # n
    BY <1>1, <1>4
  <2>5. PICK x \in Nat, y \in Nat : x = b[i] /\ y = b[i + 1]
    BY <1>2, <2>1
  <2> QED
    BY <1>1, <1>3, <2>2, <2>3, <2>4, <2>5
<1>5. CASE i = n
  <2>1. EndOf(b, o, i) = L
    BY <1>1, <1>3, <1>5 DEF EndOf
  <2>2. b[i] < L
    BY <1>3 DEF Laid
  <2> QED
    BY <1>1, <1>2, <1>3, <2>1, <2>2
<1> QED
  BY <1>1, <1>4, <1>5

\* The representation that is there is the one announced, and its integer is read
\* as it was meant; what is left of the m octets are its strings.
LEMMA TurnReads ==
  ASSUME octets \in Text, NEW item, IsItem(item), item.rep.rep # "unholdable",
         NEW pos \in Nat, NEW m \in Nat \ {0}, m <= Len(RfcOctets(item)),
         Holds(octets, pos, RfcOctets(item), m), NEW junk
  PROVE  LET kind == Announced(octets[pos + 1])
             integer == parse_integer_representation(pos, kind.bits, junk)
         IN  /\ kind.rep = item.rep.rep
             /\ \E z \in Nat \ {0} :
                  /\ Len(RfcOctets(item)) = z + Len(StringPart(item))
                  /\ m < z /\ pos + m = Len(octets) => integer = Thrown
                  /\ m >= z =>
                       /\ integer = Parsed(NumberOf(item.rep), z)
                       /\ m - z \in Nat /\ m - z <= Len(StringPart(item))
                       /\ Holds(octets, pos + z, StringPart(item), m - z)
<1>1. PICK rep \in Kinds, v \in Numbers, pad \in Nat, rest \in Text :
        /\ rep = item.rep.rep /\ v = NumberOf(item.rep) /\ rest = StringPart(item)
        /\ RfcOctets(item) = RfcInteger(TopOf(rep), BitsOf(rep), v, pad) \o rest
  BY OctetsAre
<1>2. PICK top \in Nat, n \in PrefixBits : top = TopOf(rep) /\ n = BitsOf(rep) /\ IsTop(top, n)
  BY KindIs DEF IsTop
<1>3. PICK e : e = RfcInteger(top, n, v, pad) /\ e \in Text /\ Len(e) \in Nat \ {0}
  BY <1>2, RfcIntegerLength
<1>4. PICK z \in Nat \ {0} : z = Len(e)
  BY <1>3
<1>5. PICK y \in Nat : y = Len(rest)
  BY DEF Text
<1>6. RfcOctets(item) = e \o rest
  BY <1>1, <1>2, <1>3
<1>7. /\ e \o rest \in Text /\ Len(e \o rest) = z + y
      /\ (e \o rest)[1] = e[1]
  BY <1>3, <1>4, <1>5, TextConcat
<1>8. PICK L \in Nat : L = Len(octets)
  BY DEF Text
<1>9. pos + m <= L /\ octets[pos + 1] = e[1]
  <2>1. 1 \in 1 .. m
    OBVIOUS
  <2>2. pos + m <= L /\ octets[pos + 1] = (e \o rest)[1]
    BY <1>6, <1>8, <2>1 DEF Holds
  <2> QED
    BY <1>7, <2>2
<1>10. /\ Announced(octets[pos + 1]).rep = rep
       /\ Announced(octets[pos + 1]).bits = n
  <2>1. RfcInteger(top, n, v, pad)[1] \in top .. top + 2^n - 1
    BY <1>2, FirstOctet
  <2>2. e[1] \in TopOf(rep) .. TopOf(rep) + 2^BitsOf(rep) - 1
    BY <1>2, <1>3, <2>1
  <2>3. e[1] \in Octet
    BY <1>3, <1>4 DEF Text
  <2>4. PICK x \in Octet : x = e[1] /\ x = octets[pos + 1]
    BY <1>9, <2>3
  <2>5. x \in TopOf(rep) .. TopOf(rep) + 2^BitsOf(rep) - 1
    BY <2>2, <2>4
  <2>6. Announced(x).rep = rep /\ Announced(x).bits = BitsOf(rep)
    BY <2>5, AnnouncedIs
  <2> QED
    BY <1>2, <2>4, <2>6
<1> DEFINE integer == parse_integer_representation(pos, n, junk)
<1>11. /\ m <= z => Holds(octets, pos, e, m)
       /\ m >= z => /\ Holds(octets, pos, e, z)
                    /\ m - z \in Nat /\ m - z <= y
                    /\ Holds(octets, pos + z, rest, m - z)
  <2>1. m <= Len(e \o rest) /\ Holds(octets, pos, e \o rest, m)
    BY <1>6
  <2> QED
    BY <1>3, <1>4, <1>5, <2>1, HoldsParts
<1>12. ASSUME m >= z  PROVE integer = Parsed(v, z)
  <2>1. /\ Holds(octets, pos, RfcInteger(top, n, v, pad), z)
        /\ z = Len(RfcInteger(top, n, v, pad)) /\ z <= Len(RfcInteger(top, n, v, pad))
    BY <1>3, <1>4, <1>11, <1>12
  <2> QED
    BY <1>2, <2>1, IntegerReads
<1>13. ASSUME m < z, pos + m = L  PROVE integer = Thrown
  <2>1. /\ Holds(octets, pos, RfcInteger(top, n, v, pad), m)
        /\ m < Len(RfcInteger(top, n, v, pad)) /\ m <= Len(RfcInteger(top, n, v, pad))
    BY <1>3, <1>4, <1>11, <1>13
  <2> QED
    BY <1>2, <1>8, <1>13, <2>1, IntegerReads
<1>14. /\ Len(RfcOctets(item)) = z + Len(StringPart(item))
       /\ m < z /\ pos + m = Len(octets) => integer = Thrown
       /\ m >= z =>
            /\ integer = Parsed(NumberOf(item.rep), z)
            /\ m - z \in Nat /\ m - z <= Len(StringPart(item))
            /\ Holds(octets, pos + z, StringPart(item), m - z)
  <2> HIDE DEF integer
  <2> QED
    BY <1>1, <1>5, <1>6, <1>7, <1>8, <1>11, <1>12, <1>13
<1> HIDE DEF integer
<1> QED
  BY <1>1, <1>10, <1>14 DEF integer

\* What is added when a lookup or a string comes back.
LEMMA AddHeaderIs ==
  ASSUME NEW d \in DecoderType, d = decoder, d.thrown = FALSE, NEW x, AddHeader(x)
  PROVE  /\ x.outcome = "header" => decoder' = [d EXCEPT !.headers = Append(@, x.header)]
         /\ x.outcome = "thrown" => decoder' = [d EXCEPT !.thrown = TRUE]
         /\ x.outcome = "nullopt" => decoder' = d
<1> DEFINE hs == IF x.outcome = "header" THEN Append(d.headers, x.header) ELSE d.headers
<1>1. decoder' = [d EXCEPT !.headers = hs, !.thrown = (x.outcome = "thrown")]
  BY Zenon DEF AddHeader
<1>2. (x.outcome = "thrown") \in BOOLEAN
  OBVIOUS
<1>3. ASSUME NEW t \in BOOLEAN, NEW h
      PROVE  [d EXCEPT !.headers = h, !.thrown = t] =
               [table |-> d.table, headers |-> h, thrown |-> t]
  <2>1. PICK e : e = [d EXCEPT !.headers = h]
    OBVIOUS
  <2>2. e = [table |-> d.table, headers |-> h, thrown |-> d.thrown]
    BY <2>1, WithHeaders
  <2>3. [e EXCEPT !.thrown = t] = [table |-> d.table, headers |-> h, thrown |-> t]
    BY <2>2, Z3
  <2>4. [d EXCEPT !.headers = h, !.thrown = t] = [e EXCEPT !.thrown = t]
    BY <2>1
  <2> QED
    BY <2>3, <2>4
<1>4. decoder' = [table |-> d.table, headers |-> hs, thrown |-> x.outcome = "thrown"]
  <2> HIDE DEF hs
  <2> QED
    BY <1>1, <1>2, <1>3, Zenon
<1>5. x.outcome # "thrown" => (x.outcome = "thrown") = d.thrown
  BY Zenon
<1>6. x.outcome # "thrown" => decoder' = [table |-> d.table, headers |-> hs, thrown |-> d.thrown]
  <2> HIDE DEF hs
  <2> QED
    BY <1>4, <1>5, Zenon
<1>7. x.outcome = "thrown" => decoder' = [table |-> d.table, headers |-> hs, thrown |-> TRUE]
  <2> HIDE DEF hs
  <2> QED
    BY <1>4, Zenon
<1>8. x.outcome = "header" => decoder' = [d EXCEPT !.headers = Append(@, x.header)]
  <2>1. x.outcome = "header" => hs = Append(d.headers, x.header)
    OBVIOUS
  <2> HIDE DEF hs
  <2> QED
    BY <1>6, <2>1, WithHeaders
<1>9. x.outcome # "header" => hs = d.headers
  OBVIOUS
<1> HIDE DEF hs
<1>10. x.outcome = "thrown" => decoder' = [d EXCEPT !.thrown = TRUE]
  BY <1>7, <1>9, WithThrown
<1>11. x.outcome = "nullopt" => decoder' = d
  BY <1>6, <1>9, WithThrown
<1> QED
  BY <1>8, <1>10, <1>11

\* What a turn of the loop makes of the first m octets of an item at pos.
Turned(d, item, pos, m) ==
  /\ m = Len(RfcOctets(item)) =>
       /\ decoder' = F!DecodeNext(d, item.rep)
       /\ decode_pos' = IF decoder'.thrown THEN pos ELSE pos + m
  /\ m < Len(RfcOctets(item)) /\ pos + m = Len(octets) =>
       decoder' = [d EXCEPT !.thrown = TRUE] /\ decode_pos' = pos

\* One turn of the loop decodes the representation that is there, or throws
\* because a part of it is missing.
LEMMA TurnDecodes ==
  ASSUME octets \in Text, NEW item, IsItem(item), item.rep.rep # "unholdable",
         NEW d \in DecoderType, d = decoder, d.thrown = FALSE, F!Consistent(d.table),
         NEW pos \in Nat, pos = decode_pos,
         NEW m \in Nat \ {0}, m <= Len(RfcOctets(item)),
         Holds(octets, pos, RfcOctets(item), m), DecodeRepresentation
  PROVE  Turned(d, item, pos, m)
<1> DEFINE r == item.rep
<1>1. PICK kind : kind = Announced(octets[pos + 1])
  OBVIOUS
<1>2. PICK junk \in Overflowed :
        LET integer == parse_integer_representation(pos, kind.bits, junk)
        IN  IF integer.outcome = "thrown"
              THEN AddHeader(Thrown) /\ decode_pos' = pos
              ELSE Apply(kind.rep, integer, junk)
  BY <1>1 DEF DecodeRepresentation
<1>3. PICK integer : integer = parse_integer_representation(pos, kind.bits, junk)
  OBVIOUS
<1>4. /\ kind.rep = r.rep
      /\ \E z \in Nat \ {0} :
           /\ Len(RfcOctets(item)) = z + Len(StringPart(item))
           /\ m < z /\ pos + m = Len(octets) => integer = Thrown
           /\ m >= z =>
                /\ integer = Parsed(NumberOf(r), z)
                /\ m - z \in Nat /\ m - z <= Len(StringPart(item))
                /\ Holds(octets, pos + z, StringPart(item), m - z)
  BY <1>1, <1>3, TurnReads
<1>5. PICK z \in Nat \ {0} :
        /\ Len(RfcOctets(item)) = z + Len(StringPart(item))
        /\ m < z /\ pos + m = Len(octets) => integer = Thrown
        /\ m >= z =>
             /\ integer = Parsed(NumberOf(r), z)
             /\ m - z \in Nat /\ m - z <= Len(StringPart(item))
             /\ Holds(octets, pos + z, StringPart(item), m - z)
  BY <1>4
<1>6. r.rep \in Kinds /\ StringPart(item) \in Text /\ NumberOf(r) \in Nat
  BY OctetsAre, NumbersAre
<1>7. PICK y \in Nat : y = Len(StringPart(item))
  BY <1>6 DEF Text
<1>8. PICK L \in Nat : L = Len(octets)
  BY DEF Text
<1>9. [d EXCEPT !.thrown = TRUE].thrown /\ d.thrown = FALSE
  BY DEF DecoderType
<1>10. \A h, t : /\ [d EXCEPT !.headers = h].thrown = FALSE
                 /\ [d EXCEPT !.table = t].thrown = FALSE
                 /\ [d EXCEPT !.headers = h, !.table = t].thrown = FALSE
  BY DEF DecoderType
<1>11. CASE m < z
  <2>1. ~ m = z + y
    BY <1>11
  <2>2. ASSUME pos + m = L  PROVE decoder' = [d EXCEPT !.thrown = TRUE] /\ decode_pos' = pos
    <3>1. AddHeader(Thrown) /\ decode_pos' = pos
      BY <1>2, <1>3, <1>5, <1>8, <1>11, <2>2 DEF Thrown
    <3>2. Thrown.outcome = "thrown"
      BY DEF Thrown
    <3> QED
      BY <3>1, <3>2, AddHeaderIs
  <2> QED
    BY <1>5, <1>7, <1>8, <2>1, <2>2 DEF Turned
<1>12. CASE m >= z
  <2>1. PICK v \in Nat : v = NumberOf(r)
    BY <1>6
  <2>2. PICK rep \in Kinds : rep = r.rep
    BY <1>6
  <2>3. Apply(rep, Parsed(v, z), junk)
    BY <1>2, <1>3, <1>4, <1>5, <1>12, <2>1, <2>2 DEF Parsed
  <2>4. PICK q \in Nat, k \in Nat : q = pos + z /\ k = m - z /\ k <= y /\ m = z + k
    BY <1>5, <1>7, <1>12
  <2>5. Holds(octets, q, StringPart(item), k) /\ k <= Len(StringPart(item))
    BY <1>5, <1>7, <1>12, <2>4
  <2> DEFINE found == Table!hpack_table_at(d.table, v)
             fetched == fetch_header(d.table, v, q, junk)
             g == F!fetch_header(d.table, r)
             next == F!DecodeNext(d, r)
  <2>6. /\ rep = "indexed" =>
             AddHeader(found) /\ decode_pos' = IF found.outcome = "thrown" THEN pos ELSE q
        /\ rep = "resize" =>
             /\ decoder' = [d EXCEPT !.table = Table!set_maximum_table_size(@, AsSize(v))]
             /\ decode_pos' = q
        /\ rep \in Literals =>
             IF fetched.outcome = "thrown"
               THEN AddHeader(fetched) /\ decode_pos' = pos
               ELSE /\ decoder' = [d EXCEPT
                                    !.headers = Append(@, fetched.header),
                                    !.table = IF rep = "incremental"
                                                THEN Table!add(@, fetched.header) ELSE @]
                    /\ decode_pos' = fetched.pos
    BY <2>3, <2>4 DEF Apply, Parsed, Literals
  <2>7. CASE rep = "indexed"
    <3>1. StringPart(item) = <<>> /\ y = 0
      <4>1. StringPart(item) = <<>>
        BY <2>2, <2>7 DEF StringPart, Literals
      <4> QED
        BY <1>7, <4>1
    <3>2. m = z /\ q = pos + m /\ ~ m < z + y
      <4>1. k = 0 /\ z + 0 = z
        BY <2>4, <3>1
      <4>2. m = z
        BY <2>4, <4>1
      <4>3. y = 0
        BY <3>1
      <4> QED
        BY <2>4, <4>1, <4>2, <4>3
    <3>3. v = r.index /\ found = F!hpack_table_at(d.table, r.index)
      <4>1. v = r.index
        BY <2>1, <2>2, <2>7 DEF NumberOf
      <4> QED
        BY <4>1, SameLookup
    <3>4. /\ found.outcome = "header" => next = [d EXCEPT !.headers = Append(@, found.header)]
          /\ found.outcome = "thrown" => next = [d EXCEPT !.thrown = TRUE]
          /\ found.outcome = "nullopt" => next = d
      <4> HIDE DEF found
      <4> QED
        BY <2>2, <2>7, <3>3, DecodeNextIs
    <3>5. found.outcome \in {"header", "nullopt", "thrown"}
      <4>1. \/ \E h \in F!Headers : found = F!Found(h)
            \/ found = F!Nullopt \/ found = F!Thrown
        BY LookupOutcome
      <4> HIDE DEF found
      <4> QED
        BY <4>1 DEF F!Found, F!Nullopt, F!Thrown
    <3> HIDE DEF found, next
    <3>6. /\ found.outcome = "header" => decoder' = [d EXCEPT !.headers = Append(@, found.header)]
          /\ found.outcome = "thrown" => decoder' = [d EXCEPT !.thrown = TRUE]
          /\ found.outcome = "nullopt" => decoder' = d
      BY <2>6, <2>7, AddHeaderIs
    <3>7. decoder' = next /\ (decoder'.thrown <=> found.outcome = "thrown")
      BY <1>9, <1>10, <3>4, <3>5, <3>6
    <3>8. decode_pos' = IF decoder'.thrown THEN pos ELSE pos + m
      BY <2>6, <2>7, <3>2, <3>7
    <3> QED
      BY <1>5, <1>7, <3>2, <3>7, <3>8 DEF next, Turned
  <2>8. CASE rep = "resize"
    <3>1. StringPart(item) = <<>> /\ y = 0
      <4>1. StringPart(item) = <<>>
        BY <2>2, <2>8 DEF StringPart, Literals
      <4> QED
        BY <1>7, <4>1
    <3>2. m = z /\ q = pos + m /\ ~ m < z + y
      <4>1. k = 0 /\ z + 0 = z
        BY <2>4, <3>1
      <4>2. m = z
        BY <2>4, <4>1
      <4>3. y = 0
        BY <3>1
      <4> QED
        BY <2>4, <4>1, <4>2, <4>3
    <3>3. AsSize(v) = r.size
      <4>1. v = r.size
        BY <2>1, <2>2, <2>8 DEF NumberOf
      <4> QED
        BY <4>1 DEF AsSize
    <3>4. next = [d EXCEPT !.table = F!set_maximum_table_size(@, r.size)]
      <4>1. r.rep = "resize"
        BY <2>2, <2>8
      <4> QED
        BY <4>1, DecodeNextIs, Zenon
    <3> HIDE DEF next
    <3>5. decoder' = next /\ decode_pos' = q
      BY <2>6, <2>8, <3>3, <3>4, SameResize
    <3>6. ~ decoder'.thrown
      BY <1>10, <3>4, <3>5
    <3> QED
      BY <1>5, <1>7, <3>2, <3>5, <3>6 DEF next, Turned
  <2>9. CASE rep \in Literals
    <3>1. v = r.index
      BY <2>1, <2>2, <2>9 DEF NumberOf, Literals
    <3>2. /\ k = y => fetched = IF g.outcome = "header" THEN Fetched(g.header, q + k) ELSE Thrown
          /\ k < y /\ q + k = L => fetched = Thrown
      <4>1. item.rep.rep \in Literals
        BY <2>2, <2>9
      <4>0. PICK t : t = d.table
        OBVIOUS
      <4> DEFINE f == fetch_header(t, item.rep.index, q, junk)
                 h == F!fetch_header(t, item.rep)
      <4>2. /\ k = Len(StringPart(item)) =>
                 f = IF h.outcome = "header" THEN Fetched(h.header, q + k) ELSE Thrown
            /\ k < Len(StringPart(item)) /\ q + k = Len(octets) => f = Thrown
        BY <2>5, <4>1, FetchReads
      <4>3. fetched = f /\ g = h
        BY <3>1, <4>0
      <4> HIDE DEF f, h, fetched, g
      <4> QED
        BY <1>7, <1>8, <4>2, <4>3
    <3>3. IF fetched.outcome = "thrown"
            THEN AddHeader(fetched) /\ decode_pos' = pos
            ELSE /\ decoder' = [d EXCEPT
                                 !.headers = Append(@, fetched.header),
                                 !.table = IF rep = "incremental"
                                             THEN Table!add(@, fetched.header) ELSE @]
                 /\ decode_pos' = fetched.pos
      BY <2>6, <2>9
    <3>4. /\ g.outcome = "header" =>
               next = [d EXCEPT !.headers = Append(@, g.header),
                                !.table = IF rep = "incremental" THEN F!add(@, g.header) ELSE @]
          /\ g.outcome # "header" => next = [d EXCEPT !.thrown = TRUE]
      <4>1. r.rep \in Literals
        BY <2>2, <2>9
      <4>2. /\ g.outcome = "header" =>
                 next = [d EXCEPT !.headers = Append(@, g.header),
                                  !.table = IF r.rep = "incremental"
                                              THEN F!add(@, g.header) ELSE @]
            /\ g.outcome # "header" => next = [d EXCEPT !.thrown = TRUE]
        BY <4>1, DecodeNextIs, Zenon
      <4> HIDE DEF g, next
      <4> QED
        BY <2>2, <4>2
    <3> HIDE DEF fetched, g, next
    <3>5. ASSUME fetched = Thrown
          PROVE  decoder' = [d EXCEPT !.thrown = TRUE] /\ decode_pos' = pos
      <4>1. Thrown.outcome = "thrown"
        BY DEF Thrown
      <4> QED
        BY <3>3, <3>5, <4>1, AddHeaderIs
    <3>6. ASSUME k = y
          PROVE  decoder' = next /\ decode_pos' = IF decoder'.thrown THEN pos ELSE pos + m
      <4>1. CASE g.outcome = "header"
        <5>1. fetched = Fetched(g.header, q + k)
          BY <3>2, <3>6, <4>1
        <5>2. /\ fetched.outcome # "thrown" /\ fetched.header = g.header
              /\ fetched.pos = q + k
          BY <5>1 DEF Fetched
        <5>3. PICK t : t = IF rep = "incremental" THEN F!add(d.table, g.header) ELSE d.table
          OBVIOUS
        <5>4. decoder' = [d EXCEPT !.headers = Append(@, g.header), !.table = t]
          BY <3>3, <5>2, <5>3, SameAdd
        <5>5. next = [d EXCEPT !.headers = Append(@, g.header), !.table = t]
          BY <3>4, <4>1, <5>3
        <5>6. decode_pos' = pos + m
          <6>1. q + k = pos + m
            BY <2>4
          <6>2. decode_pos' = fetched.pos
            BY <3>3, <5>2
          <6> QED
            BY <5>2, <6>1, <6>2
        <5>7. ~ decoder'.thrown
          BY <1>10, <5>4
        <5> QED
          BY <5>4, <5>5, <5>6, <5>7
      <4>2. CASE g.outcome # "header"
        <5>1. fetched = Thrown
          BY <3>2, <3>6, <4>2
        <5> QED
          BY <1>9, <3>4, <3>5, <4>2, <5>1
      <4> QED
        BY <4>1, <4>2
    <3>7. ASSUME m < z + y, pos + m = L
          PROVE  decoder' = [d EXCEPT !.thrown = TRUE] /\ decode_pos' = pos
      <4>1. k < y /\ q + k = L
        BY <2>4, <3>7
      <4> QED
        BY <3>2, <3>5, <4>1
    <3>8. m = z + y => k = y
      BY <2>4
    <3> QED
      BY <1>5, <1>7, <1>8, <3>6, <3>7, <3>8 DEF next, Turned
  <2> QED
    BY <2>7, <2>8, <2>9 DEF Kinds, Literals
<1> QED
  BY <1>11, <1>12

-----------------------------------------------------------------------------
\* What is decoded lies before the position.

\* HpackBlock decodes a representation as HpackDecode does.
LEMMA SameDecode ==
  ASSUME NEW d, NEW r, r.rep \in Kinds
  PROVE  Block!DecodeNext(d, r) = F!DecodeNext(d, r)
<1>1. ASSUME NEW t, NEW h  PROVE Block!add(t, h) = F!add(t, h)
  BY Zenon DEF Block!add, F!add, Block!evict, F!evict, Block!EvictionStops, F!EvictionStops,
               Block!Removed, F!Removed, Block!EntrySizes, F!EntrySizes, Block!entry_size,
               F!entry_size, Block!PartialSums, F!PartialSums
<1>2. ASSUME NEW t, NEW n
      PROVE  Block!set_maximum_table_size(t, n) = F!set_maximum_table_size(t, n)
  BY Zenon DEF Block!set_maximum_table_size, F!set_maximum_table_size, Block!evict, F!evict,
               Block!EvictionStops, F!EvictionStops, Block!Removed, F!Removed,
               Block!EntrySizes, F!EntrySizes, Block!entry_size, F!entry_size,
               Block!PartialSums, F!PartialSums
<1>3. ASSUME NEW t, NEW i  PROVE Block!hpack_table_at(t, i) = F!hpack_table_at(t, i)
  BY Zenon DEF Block!hpack_table_at, F!hpack_table_at, Block!Nullopt, F!Nullopt,
               Block!hpack_static_table_at, F!hpack_static_table_at, Block!StaticSize,
               F!StaticSize, Block!at, F!at, Block!Thrown, F!Thrown, Block!Found, F!Found
<1>4. ASSUME NEW t  PROVE Block!fetch_header(t, r) = F!fetch_header(t, r)
  BY <1>3, Zenon DEF Block!fetch_header, F!fetch_header, Block!StringParses, F!StringParses,
                     Block!Found, F!Found, Block!Thrown, F!Thrown
<1>5. ASSUME NEW t  PROVE Block!decode_representation(t, r) = F!decode_representation(t, r)
  <2>1. CASE r.rep = "indexed"
    <3>1. /\ Block!decode_representation(t, r) =
               [result |-> Block!hpack_table_at(t, r.index), table |-> t]
          /\ F!decode_representation(t, r) =
               [result |-> F!hpack_table_at(t, r.index), table |-> t]
      BY <2>1 DEF Block!decode_representation, F!decode_representation,
                  Block!Literals, F!Literals
    <3> QED
      BY <1>3, <3>1
  <2>2. CASE r.rep \in {"incremental", "without", "never"}
    <3>1. /\ Block!decode_representation(t, r) =
               [result |-> Block!fetch_header(t, r),
                table |-> IF r.rep = "incremental" /\ Block!fetch_header(t, r).outcome = "header"
                            THEN Block!add(t, Block!fetch_header(t, r).header) ELSE t]
          /\ F!decode_representation(t, r) =
               [result |-> F!fetch_header(t, r),
                table |-> IF r.rep = "incremental" /\ F!fetch_header(t, r).outcome = "header"
                            THEN F!add(t, F!fetch_header(t, r).header) ELSE t]
      BY <2>2 DEF Block!decode_representation, F!decode_representation,
                  Block!Literals, F!Literals
    <3>2. PICK h : h = F!fetch_header(t, r) /\ h = Block!fetch_header(t, r)
      BY <1>4
    <3>3. Block!add(t, h.header) = F!add(t, h.header)
      BY <1>1
    <3> QED
      BY <3>1, <3>2, <3>3
  <2>3. CASE r.rep = "resize"
    <3>1. /\ Block!decode_representation(t, r) =
               [result |-> Block!Nullopt, table |-> Block!set_maximum_table_size(t, r.size)]
          /\ F!decode_representation(t, r) =
               [result |-> F!Nullopt, table |-> F!set_maximum_table_size(t, r.size)]
      BY <2>3 DEF Block!decode_representation, F!decode_representation,
                  Block!Literals, F!Literals
    <3>2. Block!Nullopt = F!Nullopt
      BY DEF Block!Nullopt, F!Nullopt
    <3> QED
      BY <1>2, <3>1, <3>2
  <2> QED
    BY <2>1, <2>2, <2>3 DEF Kinds
<1> QED
  BY <1>5, Zenon DEF Block!DecodeNext, F!DecodeNext

\* HpackBlock begins with the same decoder.
LEMMA SameNewDecoder == Block!NewDecoder = F!NewDecoder
BY Zenon DEF Block!NewDecoder, F!NewDecoder, Block!EmptyTable, F!EmptyTable

\* The places that are before a position.
Before(b, pos) == Cardinality({i \in 1 .. Len(b) : b[i] < pos})

\* The number of items that begin in front of a position grows with it.
LEMMA BeforeType ==
  ASSUME NEW b \in Seq(Nat), NEW pos \in Nat, NEW end \in Nat, pos <= end
  PROVE  Before(b, pos) \in Nat /\ Before(b, end) \in Nat /\ Before(b, pos) <= Before(b, end)
<1> DEFINE S == {i \in 1 .. Len(b) : b[i] < pos}
           T == {i \in 1 .. Len(b) : b[i] < end}
<1>1. IsFiniteSet(1 .. Len(b))
  BY FS_Interval
<1>2. T \subseteq 1 .. Len(b)
  OBVIOUS
<1>3. S \subseteq T
  BY DEF S, T
<1> HIDE DEF S, T
<1>4. IsFiniteSet(T)
  BY <1>1, <1>2, FS_Subset
<1>5. Cardinality(T) \in Nat
  BY <1>4, FS_CardinalityType
<1>6. Cardinality(S) <= Cardinality(T) /\ IsFiniteSet(S)
  BY <1>3, <1>4, FS_Subset
<1>7. Cardinality(S) \in Nat
  BY <1>6, FS_CardinalityType
<1> QED
  BY <1>5, <1>6, <1>7 DEF Before, S, T

\* The position is where the i-th representation starts, or at the end.
Place(b, o, pos, i) ==
  /\ i \in 1 .. Len(b) + 1
  /\ pos = IF i <= Len(b) THEN b[i] ELSE Len(o)

\* In front of item i there are i - 1 items.
LEMMA BeforePlace ==
  ASSUME NEW s, NEW b, NEW o, Laid(s, b, o), NEW pos \in Nat, NEW i, Place(b, o, pos, i)
  PROVE  Before(b, pos) = i - 1
<1>1. PICK n \in Nat : n = Len(s) /\ n = Len(b)
  <2>1. b \in Seq(Nat) /\ Len(b) = Len(s)
    BY DEF Laid
  <2> QED
    BY <2>1
<1>2. PICK L \in Nat : L = Len(o)
  BY DEF Laid, Text
<1>3. /\ \A k \in 1 .. n : b[k] \in Nat /\ b[k] < L
      /\ \A k \in 1 .. n, l \in 1 .. n : k < l => b[k] < b[l]
  BY <1>1, <1>2 DEF Laid
<1>4. i \in 1 .. n + 1 /\ pos = IF i <= n THEN b[i] ELSE L
  BY <1>1, <1>2 DEF Place
<1>5. ASSUME NEW k \in 1 .. n  PROVE b[k] < pos <=> k \in 1 .. i - 1
  <2>1. CASE i <= n
    <3>1. i \in 1 .. n /\ pos = b[i]
      BY <1>4, <2>1
    <3>2. \/ k < i /\ b[k] < b[i]
          \/ k = i
          \/ i < k /\ b[i] < b[k]
      BY <1>3, <3>1
    <3>3. b[k] \in Nat /\ b[i] \in Nat
      BY <1>3, <3>1
    <3> QED
      BY <3>1, <3>2, <3>3
  <2>2. CASE ~ i <= n
    <3>1. i = n + 1 /\ pos = L
      BY <1>4, <2>2
    <3> QED
      BY <1>3, <3>1
  <2> QED
    BY <2>1, <2>2
<1>6. \A k \in 1 .. i - 1 : k \in 1 .. n
  BY <1>4
<1>7. {k \in 1 .. n : b[k] < pos} = 1 .. i - 1
  BY <1>5, <1>6
<1>8. Cardinality(1 .. i - 1) = i - 1
  <2>1. i - 1 \in Nat /\ 1 \in Int /\ i - 1 \in Int
    BY <1>4
  <2> QED
    BY <2>1, FS_Interval
<1> QED
  BY <1>1, <1>7, <1>8 DEF Before

\* Behind the start of item i at least i items have begun.
LEMMA BeforeBeyond ==
  ASSUME NEW s, NEW b, NEW o, Laid(s, b, o), NEW i \in 1 .. Len(b), NEW pos \in Nat,
         b[i] < pos
  PROVE  Before(b, pos) \in Nat /\ i <= Before(b, pos)
<1>1. PICK n \in Nat : n = Len(s) /\ n = Len(b) /\ b \in Seq(Nat)
  <2>1. b \in Seq(Nat) /\ Len(b) = Len(s)
    BY DEF Laid
  <2> QED
    BY <2>1
<1>2. /\ \A k \in 1 .. n : b[k] \in Nat
      /\ \A k \in 1 .. n, l \in 1 .. n : k < l => b[k] < b[l]
  BY <1>1 DEF Laid
<1>3. i \in 1 .. n
  BY <1>1
<1>4. PICK at \in Nat : at = b[i]
  BY <1>2, <1>3
<1>5. Place(b, o, at, i)
  BY <1>1, <1>3, <1>4 DEF Place
<1>6. Before(b, at) = i - 1
  BY <1>5, BeforePlace
<1> DEFINE S == {k \in 1 .. n : b[k] < at}
           T == {k \in 1 .. n : b[k] < pos}
<1>7. IsFiniteSet(1 .. n)
  BY FS_Interval
<1>8. T \subseteq 1 .. n
  OBVIOUS
<1>9. S \cup {i} \subseteq T /\ i \notin S
  <2>1. i \in T /\ i \notin S
    BY <1>3, <1>4
  <2>2. \A k \in S : k \in T
    BY <1>2, <1>4
  <2> QED
    BY <2>1, <2>2
<1> HIDE DEF S, T
<1>10. IsFiniteSet(T)
  BY <1>7, <1>8, FS_Subset
<1>11. IsFiniteSet(S)
  BY <1>9, <1>10, FS_Subset
<1>12. Cardinality(S \cup {i}) = Cardinality(S) + 1
  BY <1>9, <1>11, FS_AddElement
<1>13. Cardinality(S \cup {i}) <= Cardinality(T)
  BY <1>9, <1>10, FS_Subset
<1>14. Cardinality(T) \in Nat
  BY <1>10, FS_CardinalityType
<1>15. Cardinality(S) = i - 1 /\ Cardinality(T) = Before(b, pos)
  BY <1>1, <1>6 DEF Before, S, T
<1>16. i <= Cardinality(T)
  BY <1>3, <1>12, <1>13, <1>14, <1>15
<1> QED
  BY <1>14, <1>15, <1>16

\* What is left of a sequence from its i-th element on.
LEMMA RestIs ==
  ASSUME NEW s, IsSeq(s), NEW i \in 1 .. Len(s) + 1
  PROVE  /\ i <= Len(s) => /\ SubSeq(s, i, Len(s)) # <<>>
                           /\ Head(SubSeq(s, i, Len(s))) = s[i]
                           /\ Tail(SubSeq(s, i, Len(s))) = SubSeq(s, i + 1, Len(s))
         /\ ~ i <= Len(s) => SubSeq(s, i, Len(s)) = <<>>
         /\ SubSeq(s, 1, Len(s)) = s
<1>1. PICK S : s \in Seq(S)
  BY DEF IsSeq
<1>2. PICK n \in Nat : n = Len(s)
  BY <1>1
<1>3. ASSUME i <= n
      PROVE  /\ SubSeq(s, i, n) # <<>>
             /\ Head(SubSeq(s, i, n)) = s[i]
             /\ Tail(SubSeq(s, i, n)) = SubSeq(s, i + 1, n)
  <2>1. i \in 1 .. Len(s) /\ n \in i .. Len(s) /\ i \in Int /\ n \in Int
    BY <1>2, <1>3
  <2>2. \A k \in i .. n : s[k] \in S
    BY <1>1, <1>2
  <2>3. Len(SubSeq(s, i, n)) = n - i + 1
    BY <1>3, <2>1, <2>2, SubSeqProperties
  <2>4. Len(SubSeq(s, i, n)) # 0
    BY <1>3, <2>1, <2>3
  <2>5. SubSeq(s, i, n) # <<>>
    BY <2>4, SeqEmpty, Zenon
  <2> QED
    BY <1>1, <2>1, <2>5, HeadTailOfSubSeq
<1>4. ASSUME ~ i <= n  PROVE SubSeq(s, i, n) = <<>>
  <2>1. n < i /\ i \in Int /\ n \in Int
    BY <1>2, <1>4
  <2> QED
    BY <2>1, SubSeqEmpty
<1>5. SubSeq(s, 1, n) = s
  BY <1>1, <1>2, SubSeqFull
<1> QED
  BY <1>2, <1>3, <1>4, <1>5

\* Begun counts the items that begin in front of the position.
LEMMA BegunIs ==
  ASSUME Types
  PROVE  Begun = Before(starts, decode_pos) /\ Begun \in Nat
<1>1. starts \in Seq(Nat) /\ decode_pos \in Nat /\ decode_pos <= decode_pos
  BY DEF Types, Laid
<1>2. Before(starts, decode_pos) \in Nat
  BY <1>1, BeforeType
<1> QED
  BY <1>2 DEF Begun, Before

\* A turn begins no fewer representations, and one that throws none more.
LEMMA BegunMoves ==
  ASSUME Types, DecodeRepresentation
  PROVE  /\ Begun \in Nat /\ Begun' \in Nat /\ Begun <= Begun'
         /\ Begun' = Before(starts, decode_pos')
         /\ decoder'.thrown => Begun' = Begun /\ decode_pos' = decode_pos
         /\ ~ decoder'.thrown => decode_pos' > decode_pos
         /\ decode_pos' \in Nat
<1>1. starts \in Seq(Nat) /\ decode_pos \in Nat /\ Len(octets) \in Nat
  BY DEF Types, Laid, Text
<1>2. /\ decode_pos' \in 0 .. Len(octets)
      /\ IF decoder'.thrown THEN decode_pos' = decode_pos ELSE decode_pos' > decode_pos
  BY DecodeTypes
<1>3. decode_pos' \in Nat /\ decode_pos <= decode_pos'
  BY <1>1, <1>2
<1>4. /\ Before(starts, decode_pos) \in Nat /\ Before(starts, decode_pos') \in Nat
      /\ Before(starts, decode_pos) <= Before(starts, decode_pos')
  BY <1>1, <1>3, BeforeType
<1>5. starts' = starts
  BY DEF DecodeRepresentation
<1>6. Begun = Before(starts, decode_pos)
  BY BegunIs
<1>7. Begun' = Before(starts, decode_pos')
  BY <1>5 DEF Begun, Before
<1> QED
  BY <1>2, <1>3, <1>4, <1>6, <1>7

\* A representation that cannot be held and has been begun, or throws.
LEMMA UndefinedIs ==
  ASSUME Types, DecodeRepresentation
  PROVE  /\ Undefined <=> \E i \in 1 .. Begun :
                            i <= Len(sent) /\ sent[i].rep = "unholdable"
         /\ Undefined' <=> \E i \in 1 .. Begun' + (IF decoder'.thrown THEN 1 ELSE 0) :
                             i <= Len(sent) /\ sent[i].rep = "unholdable"
<1>1. phase = "decoding" /\ phase' = IF decoder'.thrown THEN "thrown" ELSE "decoding"
  BY DecodeTypes
<1>2. sent' = sent
  BY DEF DecodeRepresentation
<1>3. Begun \in Nat /\ Begun + 0 = Begun
  BY BegunMoves
<1>4. (IF phase = "thrown" THEN 1 ELSE 0) = 0
  BY <1>1
<1>5. (IF phase' = "thrown" THEN 1 ELSE 0) = IF decoder'.thrown THEN 1 ELSE 0
  BY <1>1
<1>6. Undefined <=> \E i \in 1 .. Begun :
                      i <= Len(sent) /\ sent[i].rep = "unholdable"
  BY <1>3, <1>4 DEF Undefined
<1>7. Undefined' <=> \E i \in 1 .. Begun' + (IF phase' = "thrown" THEN 1 ELSE 0) :
                       i <= Len(sent') /\ sent'[i].rep = "unholdable"
  BY DEF Undefined
<1> QED
  BY <1>2, <1>5, <1>6, <1>7

\* An item that has begun stays begun.
LEMMA StillWithin ==
  ASSUME NEW a \in Nat, NEW b \in Nat, a <= b, NEW k \in 1 .. a, NEW c \in {0, 1}
  PROVE  k \in 1 .. b + c
OBVIOUS

\* What is undefined stays undefined.
LEMMA UndefinedStays ==
  ASSUME Types, Undefined, [Next]_vars
  PROVE  Undefined'
<1>1. CASE DecodeRepresentation
  <2>1. PICK i \in 1 .. Begun : i <= Len(sent) /\ sent[i].rep = "unholdable"
    BY <1>1, UndefinedIs
  <2>2. Begun \in Nat /\ Begun' \in Nat /\ Begun <= Begun'
    BY <1>1, BegunMoves
  <2>3. i \in 1 .. Begun' + (IF decoder'.thrown THEN 1 ELSE 0)
    <3>1. PICK more \in {0, 1} : more = IF decoder'.thrown THEN 1 ELSE 0
      OBVIOUS
    <3>3. i \in 1 .. Begun' + more
      BY <2>2, StillWithin
    <3> QED
      BY <3>1, <3>3
  <2> QED
    BY <1>1, <2>1, <2>3, UndefinedIs
<1>2. CASE DecodeEnd
  <2>1. /\ phase = "decoding" /\ phase' = "done"
        /\ UNCHANGED <<starts, sent, decode_pos>>
    BY <1>2 DEF DecodeEnd
  <2> QED
    BY <2>1 DEF Undefined, Begun
<1>3. CASE UNCHANGED vars
  BY <1>3 DEF vars, Undefined, Begun
<1> QED
  BY <1>1, <1>2, <1>3 DEF Next, Terminated

\* What HpackBlock sees of the state.
Left == SubSeq(sent, Begun + 1, Len(sent))

\* What HpackBlock sees of the phase.
Shown == IF Undefined THEN "undefined" ELSE phase

\* The steps of HpackBlock, in what it sees.
LEMMA BlockSteps ==
  ASSUME Shown = "decoding", Left # <<>>
  PROVE  /\ /\ Head(Left).rep \in Kinds
            /\ decoder' = Block!DecodeNext(decoder, Head(Left))
            /\ IF decoder'.thrown THEN Shown' = "thrown" /\ Left' = Left
                                  ELSE Left' = Tail(Left) /\ Shown' = Shown
            => Block!Decode
         /\ /\ Head(Left).rep = "cut"
            /\ decoder' = [decoder EXCEPT !.thrown = TRUE]
            /\ Shown' = "thrown" /\ Left' = Left
            => Block!ThrowCut
         /\ Head(Left).rep = "unholdable" /\ Shown' = "undefined" => Block!LeaveDefined
<1>1. Block!Literals \cup {"indexed", "resize"} = Kinds
  BY DEF Block!Literals, Kinds
<1>2. /\ Head(Left).rep \in Kinds
      /\ decoder' = Block!DecodeNext(decoder, Head(Left))
      /\ IF decoder'.thrown THEN Shown' = "thrown" /\ Left' = Left
                            ELSE Left' = Tail(Left) /\ Shown' = Shown
      => Block!Decode
  BY <1>1, Zenon DEF Block!Decode, Block!NextIs, Left, Shown
<1>3. /\ Head(Left).rep = "cut"
      /\ decoder' = [decoder EXCEPT !.thrown = TRUE]
      /\ Shown' = "thrown" /\ Left' = Left
      => Block!ThrowCut
  BY Zenon DEF Block!ThrowCut, Block!NextIs, Left, Shown
<1>4. Head(Left).rep = "unholdable" /\ Shown' = "undefined" => Block!LeaveDefined
  BY Zenon DEF Block!LeaveDefined, Block!NextIs, Left, Shown
<1> QED
  BY <1>2, <1>3, <1>4

\* A turn of the loop that no undefined behaviour came before decodes what is
\* next, and leaves the position at the start of what comes then.
LEMMA TurnRefines ==
  ASSUME Types, ~ Undefined, DecodeRepresentation,
         NEW i, Place(starts, octets, decode_pos, i)
  PROVE  /\ Undefined' \/ \E k : Place(starts, octets, decode_pos', k)
         /\ Block!Next
<1>1. /\ phase = "decoding" /\ ~ decoder.thrown
      /\ phase' = IF decoder'.thrown THEN "thrown" ELSE "decoding"
  BY DecodeTypes
<1>2. Laid(sent, starts, octets) /\ octets \in Text /\ IsSeq(sent) /\ Len(starts) = Len(sent)
  BY DEF Types, Laid
<1>3. PICK n \in Nat : n = Len(sent) /\ n = Len(starts)
  <2>1. starts \in Seq(Nat)
    BY <1>2 DEF Laid
  <2> QED
    BY <1>2, <2>1
<1>4. PICK L \in Nat : L = Len(octets)
  BY <1>2 DEF Text
<1>5. PICK pos \in Nat : pos = decode_pos /\ pos < L
  BY <1>4 DEF Types, DecodeRepresentation, test_range, Below
<1>6. i \in 1 .. n /\ pos = starts[i]
  BY <1>3, <1>4, <1>5 DEF Place
<1>7. Begun = i - 1
  BY <1>2, <1>5, BeforePlace, BegunIs
<1>8. Left # <<>> /\ Head(Left) = sent[i] /\ Tail(Left) = SubSeq(sent, i + 1, n)
  <2>1. i \in 1 .. Len(sent) + 1 /\ i <= Len(sent) /\ (i - 1) + 1 = i
    BY <1>3, <1>6
  <2>2. Left = SubSeq(sent, i, Len(sent))
    BY <1>7, <2>1 DEF Left
  <2> QED
    BY <1>2, <1>3, <2>1, <2>2, RestIs
<1>9. Shown = "decoding"
  BY <1>1 DEF Shown
<1>10. PICK e \in Nat : /\ e = EndOf(starts, octets, i) /\ pos < e /\ e <= L
                        /\ i = n => e = L
                        /\ i < n => e = starts[i + 1]
  <2>1. i \in 1 .. Len(sent)
    BY <1>3, <1>6
  <2>2. i < n => EndOf(starts, octets, i) = starts[i + 1]
    BY <1>3 DEF EndOf
  <2>3. /\ EndOf(starts, octets, i) \in Nat /\ starts[i] < EndOf(starts, octets, i)
        /\ EndOf(starts, octets, i) <= Len(octets)
        /\ i = Len(sent) => EndOf(starts, octets, i) = Len(octets)
    BY <1>2, <2>1, EndsAre
  <2>4. PICK e \in Nat : e = EndOf(starts, octets, i)
    BY <2>3
  <2>5. pos < e /\ e <= L /\ (i = n => e = L) /\ (i < n => e = starts[i + 1])
    BY <1>3, <1>4, <1>6, <2>2, <2>3, <2>4
  <2> QED
    BY <2>4, <2>5
<1>11. PICK item : Written(item, sent[i], octets, pos, e, i = n)
  BY <1>2, <1>3, <1>6, <1>10 DEF Laid
<1>12. PICK m \in Nat \ {0} : m = e - pos /\ pos + m = e
  BY <1>10
<1>13. /\ IsItem(item) /\ m <= Len(RfcOctets(item))
       /\ \A j \in 1 .. m : octets[pos + j] = RfcOctets(item)[j]
       /\ IF item.rep.rep = "unholdable" \/ m = Len(RfcOctets(item))
            THEN sent[i] = item.rep
            ELSE i = n /\ sent[i] = [rep |-> "cut"]
  BY <1>11, <1>12 DEF Written
<1>14. \A j \in 1 .. i - 1 : sent[j].rep # "unholdable"
  <2>1. \A j \in 1 .. i - 1 : j <= Len(sent)
    BY <1>3, <1>6
  <2> QED
    BY <1>7, <2>1, UndefinedIs
<1>15. /\ Begun' \in Nat /\ Begun' = Before(starts, decode_pos') /\ decode_pos' \in Nat
       /\ decoder'.thrown => Begun' = i - 1 /\ decode_pos' = pos
       /\ ~ decoder'.thrown => decode_pos' > pos
  BY <1>5, <1>7, BegunMoves
<1>16. sent' = sent
  BY DEF DecodeRepresentation
<1>17. CASE item.rep.rep = "unholdable"
  <2>1. sent[i].rep = "unholdable"
    BY <1>13, <1>17
  <2>2. i \in 1 .. Begun' + (IF decoder'.thrown THEN 1 ELSE 0)
    <3>1. CASE decoder'.thrown
      <4>1. i \in 1 .. (i - 1) + 1
        BY <1>6
      <4> QED
        BY <1>15, <3>1, <4>1
    <3>2. CASE ~ decoder'.thrown
      <4>1. i <= Begun'
        BY <1>2, <1>3, <1>6, <1>15, <3>2, BeforeBeyond
      <4>2. i \in 1 .. Begun' + 0
        BY <1>6, <1>15, <4>1
      <4> QED
        BY <3>2, <4>2
    <3> QED
      BY <3>1, <3>2
  <2>3. Undefined'
    <3>1. i <= Len(sent)
      BY <1>3, <1>6
    <3> QED
      BY <2>1, <2>2, <3>1, UndefinedIs
  <2>4. Shown' = "undefined"
    BY <2>3 DEF Shown
  <2>5. Block!LeaveDefined
    BY <1>8, <1>9, <2>1, <2>4, BlockSteps
  <2> QED
    BY <2>3, <2>5 DEF Block!Next
<1>18. CASE item.rep.rep # "unholdable"
  <2>1. Holds(octets, pos, RfcOctets(item), m)
    BY <1>4, <1>10, <1>12, <1>13 DEF Holds
  <2>2. PICK d \in DecoderType : d = decoder /\ d.thrown = FALSE /\ F!Consistent(d.table)
    BY <1>1 DEF Types, F!Decoders, DecoderType
  <2>3. /\ m = Len(RfcOctets(item)) =>
             /\ decoder' = F!DecodeNext(d, item.rep)
             /\ decode_pos' = IF decoder'.thrown THEN pos ELSE pos + m
        /\ m < Len(RfcOctets(item)) /\ pos + m = Len(octets) =>
             decoder' = [d EXCEPT !.thrown = TRUE] /\ decode_pos' = pos
    <3>1. octets \in Text /\ IsItem(item) /\ item.rep.rep # "unholdable"
      BY <1>2, <1>13, <1>18
    <3>2. d = decoder /\ d.thrown = FALSE /\ F!Consistent(d.table) /\ pos = decode_pos
      BY <1>5, <2>2
    <3>3. m <= Len(RfcOctets(item))
      BY <1>13
    <3>4. Turned(d, item, pos, m)
      BY <2>1, <3>1, <3>2, <3>3, TurnDecodes, Zenon
    <3> QED
      BY <3>4 DEF Turned
  <2>4. sent[i].rep # "unholdable"
    BY <1>13, <1>18
  <2>5. ASSUME decoder'.thrown
        PROVE  ~ Undefined' /\ Shown' = "thrown" /\ Left' = Left
    <3>1. \A j \in 1 .. (i - 1) + 1 : j = i \/ j \in 1 .. i - 1
      BY <1>6
    <3>2. ~ Undefined'
      BY <1>14, <1>15, <2>4, <2>5, <3>1, UndefinedIs
    <3>3. Left' = Left
      BY <1>7, <1>15, <1>16, <2>5 DEF Left
    <3> QED
      BY <1>1, <2>5, <3>2, <3>3 DEF Shown
  <2>6. CASE m = Len(RfcOctets(item))
    <3>1. sent[i] = item.rep
      BY <1>13, <2>6
    <3>2. sent[i].rep \in Kinds
      BY <1>13, <1>18, <3>1, OctetsAre
    <3>3. decoder' = Block!DecodeNext(decoder, Head(Left))
      BY <1>8, <2>2, <2>3, <2>6, <3>1, <3>2, SameDecode
    <3>4. CASE decoder'.thrown
      <4>1. Block!Decode
        BY <1>8, <1>9, <2>5, <3>2, <3>3, <3>4, BlockSteps
      <4>2. Place(starts, octets, decode_pos', i)
        BY <1>5, <1>15, <3>4
      <4> QED
        BY <4>1, <4>2 DEF Block!Next
    <3>5. CASE ~ decoder'.thrown
      <4>1. decode_pos' = e
        BY <1>12, <2>3, <2>6, <3>5
      <4>2. Place(starts, octets, decode_pos', i + 1)
        <5>1. i + 1 \in 1 .. n + 1 /\ (i + 1 <= n <=> i < n) /\ (i < n \/ i = n)
          BY <1>6
        <5> QED
          BY <1>3, <1>4, <1>10, <4>1, <5>1 DEF Place
      <4>3. Begun' = i
        <5>1. Before(starts, decode_pos') = (i + 1) - 1
          BY <1>2, <1>15, <4>2, BeforePlace
        <5>2. (i + 1) - 1 = i
          BY <1>6
        <5> QED
          BY <1>15, <5>1, <5>2
      <4>4. ~ Undefined'
        <5>1. \A j \in 1 .. i + 0 : j = i \/ j \in 1 .. i - 1
          BY <1>6
        <5> QED
          BY <1>14, <2>4, <3>5, <4>3, <5>1, UndefinedIs
      <4>5. Left' = Tail(Left)
        BY <1>3, <1>8, <1>16, <4>3 DEF Left
      <4>6. Shown' = Shown
        BY <1>1, <1>9, <3>5, <4>4 DEF Shown
      <4>7. Block!Decode
        BY <1>8, <1>9, <3>2, <3>3, <3>5, <4>5, <4>6, BlockSteps
      <4> QED
        BY <4>2, <4>7 DEF Block!Next
    <3> QED
      BY <3>4, <3>5
  <2>7. CASE m # Len(RfcOctets(item))
    <3>1. i = n /\ sent[i] = [rep |-> "cut"]
      BY <1>13, <1>18, <2>7
    <3>2. m < Len(RfcOctets(item)) /\ pos + m = Len(octets)
      <4>1. Len(RfcOctets(item)) \in Nat
        BY <1>13, RfcOctetsType
      <4> QED
        BY <1>4, <1>10, <1>12, <1>13, <2>7, <3>1, <4>1
    <3>3. decoder' = [decoder EXCEPT !.thrown = TRUE]
      BY <2>2, <2>3, <3>2
    <3>4. decoder'.thrown
      BY <2>2, <3>3 DEF DecoderType
    <3>5. Head(Left).rep = "cut"
      BY <1>8, <3>1
    <3>6. Block!ThrowCut
      BY <1>8, <1>9, <2>5, <3>3, <3>4, <3>5, BlockSteps
    <3>7. Place(starts, octets, decode_pos', i)
      BY <1>5, <1>15, <3>4
    <3> QED
      BY <3>6, <3>7 DEF Block!Next
  <2> QED
    BY <2>6, <2>7
<1> QED
  BY <1>17, <1>18

\* The position is where an item starts or at the end, as long as that is defined.
Placed == Undefined \/ \E i : Place(starts, octets, decode_pos, i)

\* At the start everything is left.
LEMMA BlockStart ==
  ASSUME Types, Init
  PROVE  Block!Init /\ Placed
<1>1. Laid(sent, starts, octets) /\ IsSeq(sent) /\ Len(starts) = Len(sent)
  BY DEF Types, Laid
<1>2. decode_pos = 0 /\ decoder = F!NewDecoder /\ phase = "decoding"
  BY TablesOfTexts DEF Init, F!NewDecoder
<1>3. PICK n \in Nat : n = Len(sent) /\ n = Len(starts)
  <2>1. starts \in Seq(Nat)
    BY <1>1 DEF Laid
  <2> QED
    BY <1>1, <2>1
<1>4. Place(starts, octets, decode_pos, 1)
  <2>1. n = 0 => Len(octets) = 0
    BY <1>1, <1>3 DEF Laid
  <2>2. n # 0 => starts[1] = 0
    BY <1>1, <1>3 DEF Laid
  <2> QED
    BY <1>2, <1>3, <2>1, <2>2 DEF Place
<1>5. Begun = 0
  BY <1>1, <1>2, <1>4, BeforePlace, BegunIs
<1>6. ~ Undefined
  BY <1>2, <1>5 DEF Undefined
<1>7. Left = sent
  <2>1. 1 \in 1 .. Len(sent) + 1 /\ 0 + 1 = 1
    BY <1>3
  <2> QED
    BY <1>1, <1>5, <2>1, RestIs DEF Left
<1>8. Shown = "decoding"
  BY <1>2, <1>6 DEF Shown
<1>9. ASSUME NEW i \in DOMAIN Left  PROVE Left[i].rep \in Block!Representation
  <2>1. i \in 1 .. n
    <3>1. PICK S : sent \in Seq(S)
      BY <1>1 DEF IsSeq
    <3>2. DOMAIN sent = 1 .. Len(sent)
      BY <3>1
    <3> QED
      BY <1>3, <1>7, <3>2
  <2>2. PICK item : Written(item, sent[i], octets, starts[i], EndOf(starts, octets, i), i = n)
    BY <1>1, <1>3, <2>1 DEF Laid
  <2>3. sent[i] = item.rep \/ sent[i] = [rep |-> "cut"]
    BY <2>2 DEF Written
  <2>4. IsItem(item)
    BY <2>2 DEF Written
  <2>5. item.rep.rep \in Kinds \/ item.rep.rep = "unholdable"
    BY <2>4, OctetsAre
  <2>6. sent[i].rep \in Kinds \/ sent[i].rep = "unholdable" \/ sent[i].rep = "cut"
    BY <2>3, <2>5
  <2> QED
    BY <1>7, <2>6 DEF Block!Representation, Block!Literals, Kinds
<1>10. Block!Init
  <2>1. decoder = Block!NewDecoder
    BY <1>2, SameNewDecoder
  <2> QED
    BY <1>8, <1>9, <2>1 DEF Block!Init, Left, Shown
<1> QED
  BY <1>4, <1>10 DEF Placed

\* Every step of the decoder is one of HpackBlock, or none it sees.
LEMMA BlockStep ==
  ASSUME Types, Placed, [Next]_vars
  PROVE  Placed' /\ [Block!Next]_(Block!blockVars)
<1>1. CASE Undefined
  <2>1. Undefined'
    BY <1>1, UndefinedStays
  <2>2. Shown = "undefined" /\ Shown' = "undefined"
    BY <1>1, <2>1 DEF Shown
  <2>3. Block!Anything
    BY <2>2 DEF Block!Anything, Shown
  <2> QED
    BY <2>1, <2>3 DEF Placed, Block!Next
<1>2. CASE ~ Undefined
  <2>1. PICK i : Place(starts, octets, decode_pos, i)
    BY <1>2 DEF Placed
  <2>2. CASE DecodeRepresentation
    <3>1. Undefined' \/ \E k : Place(starts, octets, decode_pos', k)
      BY <1>2, <2>1, <2>2, TurnRefines
    <3>2. Block!Next
      BY <1>2, <2>1, <2>2, TurnRefines
    <3>3. starts' = starts /\ octets' = octets
      BY <2>2 DEF DecodeRepresentation
    <3> QED
      BY <3>1, <3>2, <3>3 DEF Placed
  <2>3. CASE DecodeEnd
    <3>1. /\ phase = "decoding" /\ phase' = "done"
          /\ UNCHANGED <<writer, sent, starts, octets, decode_pos, decoder>>
      BY <2>3 DEF DecodeEnd
    <3>2. Placed'
      BY <2>1, <3>1 DEF Placed
    <3>3. Laid(sent, starts, octets) /\ IsSeq(sent) /\ Len(starts) = Len(sent)
      BY DEF Types, Laid
    <3>4. PICK n \in Nat : n = Len(sent) /\ n = Len(starts)
      <4>1. starts \in Seq(Nat)
        BY <3>3 DEF Laid
      <4> QED
        BY <3>3, <4>1
    <3>5. PICK L \in Nat : L = Len(octets)
      BY <3>3 DEF Laid, Text
    <3>6. decode_pos \in Nat /\ ~ decode_pos < L
      BY <2>3, <3>5 DEF Types, DecodeEnd, test_range, Below
    <3>7. i = n + 1
      <4>1. i \in 1 .. n + 1 /\ (i <= n => decode_pos = starts[i])
        BY <2>1, <3>4 DEF Place
      <4>2. i \in 1 .. n => starts[i] < L
        BY <3>3, <3>4, <3>5 DEF Laid
      <4> QED
        BY <3>6, <4>1, <4>2
    <3>8. Begun + 1 = n + 1
      <4>1. Begun = i - 1
        BY <2>1, <3>3, <3>6, BeforePlace, BegunIs
      <4> QED
        BY <3>7, <4>1
    <3>9. Left = <<>> /\ Left' = Left
      <4>1. n + 1 \in 1 .. Len(sent) + 1 /\ ~ n + 1 <= Len(sent)
        BY <3>4
      <4>2. Left = SubSeq(sent, n + 1, Len(sent))
        BY <3>8, Zenon DEF Left
      <4>3. Left = <<>>
        BY <3>3, <4>1, <4>2, RestIs
      <4>4. Left' = Left
        BY <3>1 DEF Left, Begun
      <4> QED
        BY <4>3, <4>4
    <3>10. ~ Undefined'
      BY <1>2, <3>1 DEF Undefined, Begun
    <3>11. Shown = "decoding" /\ Shown' = "done"
      BY <1>2, <3>1, <3>10 DEF Shown
    <3>12. Block!End
      BY <3>1, <3>9, <3>11 DEF Block!End, Left, Shown
    <3> QED
      BY <3>2, <3>12 DEF Block!Next
  <2>4. CASE UNCHANGED vars
    <3>1. UNCHANGED <<sent, starts, octets, decode_pos, decoder, phase>>
      BY <2>4 DEF vars
    <3>2. Placed'
      BY <2>1, <3>1 DEF Placed
    <3>3. UNCHANGED <<Left, decoder, Shown>>
      BY <3>1 DEF Left, Shown, Undefined, Begun
    <3> QED
      BY <3>2, <3>3 DEF Block!blockVars, Left, Shown
  <2> QED
    BY <2>2, <2>3, <2>4 DEF Next, Terminated
<1> QED
  BY <1>1, <1>2

\* Whatever block an RFC 7541 encoder writes, however it writes its integers and
\* strings, and wherever the block is cut, the decoder of octets implements the
\* decoder of representations: what it has decoded is exactly what lies before
\* its position, and what is cut throws (hpack_decoder.cc:12-64 and 98-180).
THEOREM DecodesBlockAlways == Spec => DecodesBlock
<1>1. Types /\ Init => Block!Init /\ Placed
  BY BlockStart
<1>2. Types /\ Placed /\ [Next]_vars => Placed' /\ [Block!Next]_(Block!blockVars)
  BY BlockStep
<1> QED
  BY <1>1, <1>2, TypesInductive, PTL DEF Spec, DecodesBlock, Block!Spec

=============================================================================
