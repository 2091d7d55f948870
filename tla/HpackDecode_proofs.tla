------------------------- MODULE HpackDecode_proofs -------------------------
(***************************************************************************)
(* Facts about the operations of hpack_dynamic_table as functions from     *)
(* tables to tables: whatever the entries, they keep the tracked size      *)
(* right, leave the table within its maximum, and keep the entries that    *)
(* RFC 7541 keeps.  Then facts about decode(): its loop as a function, and *)
(* that from well-formed representations it makes headers, whatever they   *)
(* refer to.                                                               *)
(***************************************************************************)
EXTENDS HpackDecode, SequenceSums_proofs

-----------------------------------------------------------------------------
\* Sizes of entries.

\* A table whose tracked size is the size of its entries.
Consistent(t) == t \in Tables /\ t.current_table_size = calc_table_size(t)

LEMMA EntrySizeType ==
  ASSUME NEW h \in Headers
  PROVE  entry_size(h) \in Nat
<1>1. h.name \in Names /\ h.value \in Values
  BY DEF Headers
<1>2. NameSize[h.name] \in Nat /\ ValueSize[h.value] \in Nat
  BY <1>1, SizesAssumption
<1> QED
  BY <1>2 DEF entry_size

LEMMA EntrySizesType ==
  ASSUME NEW s \in Seq(Headers)
  PROVE  /\ EntrySizes(s) \in Seq(Nat)
         /\ Len(EntrySizes(s)) = Len(s)
         /\ \A i \in 1 .. Len(s) : EntrySizes(s)[i] = entry_size(s[i])
<1>1. \A i \in 1 .. Len(s) : entry_size(s[i]) \in Nat
  BY EntrySizeType
<1>2. Len(s) \in Nat
  OBVIOUS
<1> QED
  BY <1>1, <1>2 DEF EntrySizes

LEMMA EntrySizesAppend ==
  ASSUME NEW s \in Seq(Headers), NEW h \in Headers
  PROVE  EntrySizes(Append(s, h)) = Append(EntrySizes(s), entry_size(h))
<1>1. /\ Append(s, h) \in Seq(Headers)
      /\ Len(Append(s, h)) = Len(s) + 1 /\ Append(s, h)[Len(s) + 1] = h
      /\ \A i \in 1 .. Len(s) : Append(s, h)[i] = s[i]
  OBVIOUS
<1> DEFINE t == Append(EntrySizes(s), entry_size(h))
<1>2. /\ t \in Seq(Nat) /\ Len(t) = Len(s) + 1 /\ t[Len(s) + 1] = entry_size(h)
      /\ \A i \in 1 .. Len(s) : t[i] = EntrySizes(s)[i]
  <2>1. EntrySizes(s) \in Seq(Nat) /\ Len(EntrySizes(s)) = Len(s) /\ entry_size(h) \in Nat
    BY EntrySizesType, EntrySizeType
  <2> QED
    BY <2>1
<1> HIDE DEF t
<1>3. /\ EntrySizes(Append(s, h)) \in Seq(Nat)
      /\ Len(EntrySizes(Append(s, h))) = Len(s) + 1
      /\ \A i \in 1 .. Len(s) + 1 :
           EntrySizes(Append(s, h))[i] = entry_size(Append(s, h)[i])
  BY <1>1, EntrySizesType
<1>4. \A i \in 1 .. Len(s) : EntrySizes(s)[i] = entry_size(s[i])
  BY EntrySizesType
<1>5. Len(s) \in Nat
  OBVIOUS
<1>6. \A i \in 1 .. Len(s) + 1 : EntrySizes(Append(s, h))[i] = t[i]
  BY <1>1, <1>2, <1>3, <1>4, <1>5
<1>7. EntrySizes(Append(s, h)) = t
  BY <1>2, <1>3, <1>6, SeqEqual
<1> QED
  BY <1>7 DEF t

LEMMA EntrySizesDrop ==
  ASSUME NEW s \in Seq(Headers), NEW k \in 0 .. Len(s)
  PROVE  /\ SubSeq(s, k + 1, Len(s)) \in Seq(Headers)
         /\ EntrySizes(SubSeq(s, k + 1, Len(s)))
              = SubSeq(EntrySizes(s), k + 1, Len(EntrySizes(s)))
<1>1. PICK u : u = SubSeq(s, k + 1, Len(s))
  OBVIOUS
<1>2. PICK z \in Seq(Nat) : z = EntrySizes(s) /\ Len(z) = Len(s)
  BY EntrySizesType
<1>3. PICK v : v = SubSeq(z, k + 1, Len(z))
  OBVIOUS
<1>4. PICK L \in Nat : L = Len(s)
  OBVIOUS
<1>5. k \in Nat /\ k <= L /\ L - k \in Nat /\ L - (k + 1) + 1 = L - k
      /\ k + 1 \in Int /\ L \in Int
  BY <1>4
<1>6. /\ u \in Seq(Headers) /\ Len(u) = L - k
      /\ \A i \in 1 .. L - k : u[i] = s[(k + 1) + i - 1]
  <2>1. \A i \in k + 1 .. L : s[i] \in Headers
    BY <1>4, <1>5
  <2>2. /\ u \in Seq(Headers)
        /\ Len(u) = IF k + 1 <= L THEN L - (k + 1) + 1 ELSE 0
        /\ \A i \in 1 .. L - (k + 1) + 1 : u[i] = s[(k + 1) + i - 1]
    BY <1>1, <1>4, <1>5, <2>1, SubSeqProperties
  <2> QED
    BY <2>2, <1>5
<1>7. /\ v \in Seq(Nat) /\ Len(v) = L - k
      /\ \A i \in 1 .. L - k : v[i] = z[(k + 1) + i - 1]
  <2>1. \A i \in k + 1 .. L : z[i] \in Nat
    BY <1>2, <1>4, <1>5
  <2>2. /\ v \in Seq(Nat)
        /\ Len(v) = IF k + 1 <= L THEN L - (k + 1) + 1 ELSE 0
        /\ \A i \in 1 .. L - (k + 1) + 1 : v[i] = z[(k + 1) + i - 1]
    BY <1>2, <1>3, <1>4, <1>5, <2>1, SubSeqProperties
  <2> QED
    BY <2>2, <1>5
<1>8. /\ EntrySizes(u) \in Seq(Nat) /\ Len(EntrySizes(u)) = L - k
      /\ \A i \in 1 .. L - k : EntrySizes(u)[i] = entry_size(u[i])
  BY <1>6, EntrySizesType
<1>9. \A i \in 1 .. L - k : EntrySizes(u)[i] = v[i]
  <2>1. \A i \in 1 .. L - k : (k + 1) + i - 1 \in 1 .. L
    BY <1>5
  <2>2. \A j \in 1 .. L : z[j] = entry_size(s[j])
    BY <1>2, <1>4, EntrySizesType
  <2> QED
    BY <1>6, <1>7, <1>8, <2>1, <2>2
<1>10. EntrySizes(u) = v
  BY <1>7, <1>8, <1>9, SeqEqual
<1> QED
  BY <1>1, <1>2, <1>3, <1>6, <1>10

-----------------------------------------------------------------------------
\* Eviction.

\* Any number of remove_tail() calls keeps the tracked size right.
LEMMA RemovedConsistent ==
  ASSUME NEW t, Consistent(t), NEW k \in 0 .. Len(t.entries)
  PROVE  /\ Consistent(Removed(t, k))
         /\ Removed(t, k).max_size = t.max_size
         /\ k = Len(t.entries) => Removed(t, k).current_table_size = 0
<1>1. /\ t \in Tables /\ t.entries \in Seq(Headers) /\ t.max_size \in Nat
      /\ t.current_table_size = SumSeq(EntrySizes(t.entries))
  BY DEF Consistent, Tables, calc_table_size
<1>2. PICK z \in Seq(Nat) : z = EntrySizes(t.entries) /\ Len(z) = Len(t.entries)
  BY <1>1, EntrySizesType
<1>3. PICK u \in Seq(Nat) :
           /\ u = SubSeq(z, k + 1, Len(z))
           /\ Len(u) = Len(z) - k
           /\ \A i \in 0 .. Len(u) :
                PartialSums(u)[i] = PartialSums(z)[k + i] - PartialSums(z)[k]
  BY <1>2, PartialSumsDrop
<1>4. /\ SubSeq(t.entries, k + 1, Len(t.entries)) \in Seq(Headers)
      /\ EntrySizes(SubSeq(t.entries, k + 1, Len(t.entries))) = u
  BY <1>1, <1>2, <1>3, EntrySizesDrop
<1>5. SumSeq(u) = SumSeq(z) - PartialSums(z)[k]
  <2>1. PICK L \in Nat : L = Len(z)
    OBVIOUS
  <2>2. k \in Nat /\ Len(u) \in 0 .. Len(u) /\ k + Len(u) = L
    BY <1>2, <1>3, <2>1
  <2>3. PartialSums(u)[Len(u)] = PartialSums(z)[L] - PartialSums(z)[k]
    BY <1>3, <2>2
  <2> QED
    BY <2>1, <2>3 DEF SumSeq
<1>6. SumSeq(u) \in Nat
  BY SumSeqType
<1>7. Removed(t, k) = [entries |-> SubSeq(t.entries, k + 1, Len(t.entries)),
                       max_size |-> t.max_size,
                       current_table_size |-> SumSeq(u)]
  BY <1>1, <1>2, <1>5 DEF Removed, Tables
<1>8. Consistent(Removed(t, k))
  BY <1>1, <1>4, <1>6, <1>7 DEF Consistent, Tables, calc_table_size
<1>9. ASSUME k = Len(t.entries)  PROVE SumSeq(u) = 0
  BY <1>5, <1>9, <1>1, <1>2, SumSeqType DEF SumSeq
<1> QED
  BY <1>7, <1>8, <1>9

\* evict() ends with a consistent table within its maximum.
LEMMA EvictCorrect ==
  ASSUME NEW t, Consistent(t)
  PROVE  /\ Consistent(evict(t))
         /\ evict(t).max_size = t.max_size
         /\ calc_table_size(evict(t)) <= evict(t).max_size
<1> DEFINE L == Len(t.entries)
           Stop == {k \in 0 .. L : EvictionStops(t, k)}
           P(k) == EvictionStops(t, k) /\ \A j \in 0 .. k - 1 : ~ EvictionStops(t, j)
<1>1. t.entries \in Seq(Headers) /\ t.max_size \in Nat /\ L \in Nat
  BY DEF Consistent, Tables
<1>2. \E k \in 0 .. L : P(k)
  <2>1. L \in Stop
    BY <1>1 DEF EvictionStops
  <2>2. Stop \in SUBSET Nat /\ Stop # {}
    BY <2>1
  <2>3. PICK k \in Stop : \A y \in Stop : k <= y
    <3> HIDE DEF Stop
    <3> QED
      BY <2>2, LeastElement
  <2>4. \A j \in 0 .. k - 1 : j \in 0 .. L /\ ~ (k <= j)
    BY <1>1, <2>3
  <2> QED
    BY <2>3, <2>4
<1>3. PICK k \in 0 .. L : P(k) /\ evict(t) = Removed(t, k)
  <2> DEFINE c == CHOOSE k \in 0 .. L : P(k)
  <2>1. c \in 0 .. L /\ P(c)
    BY <1>2
  <2>2. evict(t) = Removed(t, c)
    BY DEF evict
  <2> QED
    BY <2>1, <2>2
<1>4. /\ Consistent(Removed(t, k)) /\ Removed(t, k).max_size = t.max_size
      /\ k = L => Removed(t, k).current_table_size = 0
  BY RemovedConsistent
<1>5. Removed(t, k).current_table_size <= t.max_size
  BY <1>1, <1>3, <1>4 DEF EvictionStops
<1> QED
  BY <1>3, <1>4, <1>5 DEF Consistent

\* add() hands evict() a consistent table.
LEMMA AddEvicts ==
  ASSUME NEW t, Consistent(t), NEW h \in Headers
  PROVE  \E u : /\ Consistent(u)
                /\ u.entries = Append(t.entries, h) /\ u.max_size = t.max_size
                /\ add(t, h) = evict(u)
<1> DEFINE u == [entries |-> Append(t.entries, h), max_size |-> t.max_size,
                 current_table_size |-> t.current_table_size + entry_size(h)]
<1>1. /\ t \in Tables /\ t.entries \in Seq(Headers) /\ t.current_table_size \in Nat
      /\ t.current_table_size = SumSeq(EntrySizes(t.entries))
  BY DEF Consistent, Tables, calc_table_size
<1>2. Append(t.entries, h) \in Seq(Headers) /\ entry_size(h) \in Nat
      /\ EntrySizes(t.entries) \in Seq(Nat)
  BY <1>1, EntrySizeType, EntrySizesType
<1>3. SumSeq(EntrySizes(Append(t.entries, h))) = t.current_table_size + entry_size(h)
  <2>1. EntrySizes(Append(t.entries, h)) = Append(EntrySizes(t.entries), entry_size(h))
    BY <1>1, EntrySizesAppend
  <2> QED
    BY <1>1, <1>2, <2>1, SumSeqAppend
<1>4. Consistent(u)
  BY <1>1, <1>2, <1>3 DEF Consistent, Tables, calc_table_size
<1>5. add(t, h) = evict(u)
  BY DEF add
<1>6. u.entries = Append(t.entries, h) /\ u.max_size = t.max_size
  OBVIOUS
<1> HIDE DEF u
<1> QED
  BY <1>4, <1>5, <1>6

LEMMA AddCorrect ==
  ASSUME NEW t, Consistent(t), NEW h \in Headers
  PROVE  /\ Consistent(add(t, h))
         /\ calc_table_size(add(t, h)) <= add(t, h).max_size
BY AddEvicts, EvictCorrect

\* So does set_maximum_table_size().
LEMMA ResizeCorrect ==
  ASSUME NEW t, Consistent(t), NEW size \in Nat
  PROVE  /\ Consistent(set_maximum_table_size(t, size))
         /\ calc_table_size(set_maximum_table_size(t, size))
              <= set_maximum_table_size(t, size).max_size
<1> DEFINE u == [t EXCEPT !.max_size = size]
<1>1. Consistent(u)
  BY DEF Consistent, Tables, calc_table_size
<1>2. set_maximum_table_size(t, size) = evict(u)
  BY DEF set_maximum_table_size
<1> HIDE DEF u
<1> QED
  BY <1>1, <1>2, EvictCorrect

-----------------------------------------------------------------------------
\* Reversed sequences.

\* The elements of a reversed sequence.
LEMMA ReverseProperties ==
  ASSUME NEW S, NEW s \in Seq(S)
  PROVE  /\ Reverse(s) \in Seq(S)
         /\ Len(Reverse(s)) = Len(s)
         /\ \A i \in 1 .. Len(s) : Reverse(s)[i] = s[Len(s) - i + 1]
<1>1. PICK L \in Nat : L = Len(s)
  OBVIOUS
<1>2. \A i \in 1 .. L : L - i + 1 \in 1 .. L
  BY <1>1
<1>3. \A i \in 1 .. L : s[L - i + 1] \in S
  BY <1>1, <1>2
<1> QED
  BY <1>1, <1>3 DEF Reverse

\* The elements of a sequence with another one in front.
LEMMA PrependProperties ==
  ASSUME NEW S, NEW s \in Seq(S), NEW e \in S
  PROVE  /\ <<e>> \o s \in Seq(S)
         /\ Len(<<e>> \o s) = Len(s) + 1
         /\ (<<e>> \o s)[1] = e
         /\ \A i \in 1 .. Len(s) : (<<e>> \o s)[i + 1] = s[i]
<1>1. <<e>> \in Seq(S) /\ Len(<<e>>) = 1 /\ <<e>>[1] = e /\ Len(s) \in Nat
  OBVIOUS
<1>2. /\ <<e>> \o s \in Seq(S)
      /\ Len(<<e>> \o s) = 1 + Len(s)
      /\ \A i \in 1 .. 1 + Len(s) :
           (<<e>> \o s)[i] = IF i <= 1 THEN <<e>>[i] ELSE s[i - 1]
  <2>1. /\ <<e>> \o s \in Seq(S)
        /\ Len(<<e>> \o s) = Len(<<e>>) + Len(s)
        /\ \A i \in 1 .. Len(<<e>>) + Len(s) :
             (<<e>> \o s)[i] = IF i <= Len(<<e>>) THEN <<e>>[i] ELSE s[i - Len(<<e>>)]
    BY <1>1, ConcatProperties, Zenon
  <2> QED
    BY <1>1, <2>1, Zenon
<1> DEFINE t == <<e>> \o s
<1> HIDE DEF t
<1>3. /\ t \in Seq(S) /\ Len(t) = Len(s) + 1 /\ t[1] = e
      /\ \A i \in 1 .. Len(s) : t[i + 1] = s[i]
  <2>1. /\ t \in Seq(S) /\ Len(t) = 1 + Len(s)
        /\ \A i \in 1 .. 1 + Len(s) : t[i] = IF i <= 1 THEN <<e>>[i] ELSE s[i - 1]
    BY <1>2 DEF t
  <2>2. t[1] = e
    BY <1>1, <2>1
  <2>3. ASSUME NEW i \in 1 .. Len(s)  PROVE t[i + 1] = s[i]
    <3>1. i + 1 \in 1 .. 1 + Len(s) /\ ~ (i + 1 <= 1) /\ (i + 1) - 1 = i
      BY <1>1
    <3> QED
      BY <2>1, <3>1
  <2> QED
    BY <1>1, <2>1, <2>2, <2>3
<1> QED
  BY <1>3 DEF t

\* Read from its other end, a sequence has the partial sums that are left.
LEMMA PartialSumsReverse ==
  ASSUME NEW s \in Seq(Nat)
  PROVE  \A j \in 0 .. Len(s) :
           PartialSums(Reverse(s))[j] = SumSeq(s) - PartialSums(s)[Len(s) - j]
<1>0. PICK L \in Nat : L = Len(s)
  OBVIOUS
<1>a. \A i \in 1 .. Len(s) : s[i] \in Nat
  OBVIOUS
<1>1. PICK p \in [0 .. L -> Nat] :
           p = PartialSums(s) /\ \A m \in 1 .. L : p[m] = p[m - 1] + s[m] /\ s[m] \in Nat
  BY <1>0, <1>a, PartialSumsStep, Zenon
<1>2. \A i \in 0 .. L : p[i] <= p[L]
  <2>1. \A i \in 0 .. L : L \in i .. L
    BY <1>0
  <2> QED
    BY <1>0, <1>1, <2>1, PartialSumsMonotone
<1>3. PICK r \in Seq(Nat) :
           /\ r = Reverse(s) /\ Len(r) = L
           /\ \A i \in 1 .. L : r[i] = s[L - i + 1]
  BY <1>0, ReverseProperties
<1> DEFINE f == [j \in 0 .. L |-> p[L] - p[L - j]]
<1>4. p[L] \in Nat /\ \A j \in 0 .. L : L - j \in 0 .. L /\ p[L - j] \in Nat
  BY <1>1
<1>5. f \in [0 .. L -> Nat] /\ f[0] = 0
  BY <1>2, <1>4
<1>6. ASSUME NEW j \in 1 .. L  PROVE f[j] = f[j - 1] + r[j]
  <2>1. /\ j - 1 \in 0 .. L /\ L - j + 1 \in 1 .. L /\ (L - j + 1) - 1 = L - j
        /\ L - (j - 1) = L - j + 1 /\ L - j \in 0 .. L /\ j \in 0 .. L
    OBVIOUS
  <2>2. p[L - j + 1] = p[L - j] + r[j] /\ r[j] \in Nat
    BY <1>1, <1>3, <2>1
  <2>3. f[j] = p[L] - p[L - j] /\ f[j - 1] = p[L] - p[L - j + 1]
    BY <2>1
  <2>4. \A a, b, c \in Nat : a - b = (a - (b + c)) + c
    OBVIOUS
  <2>5. /\ p[L] \in Nat /\ p[L - j] \in Nat
        /\ p[L] - p[L - j] = (p[L] - (p[L - j] + r[j])) + r[j]
    BY <1>4, <2>1, <2>2, <2>4
  <2> HIDE DEF f
  <2> QED
    BY <2>2, <2>3, <2>5
<1>7. PartialSums(r) = f
  <2> HIDE DEF f
  <2> QED
    BY <1>3, <1>5, <1>6, PartialSumsAre
<1>8. SumSeq(s) = p[L]
  BY <1>0, <1>1 DEF SumSeq
<1> QED
  BY <1>0, <1>1, <1>3, <1>7, <1>8

\* Dropping the oldest entries is keeping a prefix of the reversed table.
LEMMA ReverseDrop ==
  ASSUME NEW S, NEW s \in Seq(S), NEW k \in 0 .. Len(s)
  PROVE  Reverse(SubSeq(s, k + 1, Len(s))) = SubSeq(Reverse(s), 1, Len(s) - k)
<1>1. PICK L \in Nat : L = Len(s)
  OBVIOUS
<1>2. k \in Nat /\ k <= L /\ L - k \in Nat
  BY <1>1
<1>3. PICK u \in Seq(S) :
           /\ u = SubSeq(s, k + 1, Len(s)) /\ Len(u) = L - k
           /\ \A i \in 1 .. L - k : u[i] = s[k + i]
  <2> DEFINE u == SubSeq(s, k + 1, Len(s))
  <2>1. \A i \in k + 1 .. L : s[i] \in S
    BY <1>1, <1>2
  <2>2. /\ u \in Seq(S)
        /\ Len(u) = IF k + 1 <= L THEN L - (k + 1) + 1 ELSE 0
        /\ \A i \in 1 .. L - (k + 1) + 1 : u[i] = s[(k + 1) + i - 1]
    BY <1>1, <1>2, <2>1, SubSeqProperties
  <2>3. L - (k + 1) + 1 = L - k /\ \A i \in 1 .. L - k : (k + 1) + i - 1 = k + i
    BY <1>2
  <2> HIDE DEF u
  <2>4. Len(u) = L - k /\ \A i \in 1 .. L - k : u[i] = s[k + i]
    BY <1>2, <2>2, <2>3
  <2> QED
    BY <2>2, <2>4 DEF u
<1>4. /\ Reverse(u) \in Seq(S) /\ Len(Reverse(u)) = L - k
      /\ \A i \in 1 .. L - k : Reverse(u)[i] = u[(L - k) - i + 1]
  <2>1. /\ Reverse(u) \in Seq(S) /\ Len(Reverse(u)) = Len(u)
        /\ \A i \in 1 .. Len(u) : Reverse(u)[i] = u[Len(u) - i + 1]
    BY ReverseProperties
  <2>2. Len(u) = L - k
    BY <1>3
  <2> QED
    BY <2>1, <2>2
<1>5. PICK r \in Seq(S) : /\ r = Reverse(s) /\ Len(r) = L
                          /\ \A i \in 1 .. L : r[i] = s[L - i + 1]
  BY <1>1, ReverseProperties
<1>6. /\ SubSeq(r, 1, L - k) \in Seq(S) /\ Len(SubSeq(r, 1, L - k)) = L - k
      /\ \A i \in 1 .. L - k : SubSeq(r, 1, L - k)[i] = r[i]
  <2>1. \A i \in 1 .. L - k : r[i] \in S
    BY <1>2, <1>5
  <2>2. /\ SubSeq(r, 1, L - k) \in Seq(S)
        /\ Len(SubSeq(r, 1, L - k)) = IF 1 <= L - k THEN (L - k) - 1 + 1 ELSE 0
        /\ \A i \in 1 .. (L - k) - 1 + 1 : SubSeq(r, 1, L - k)[i] = r[1 + i - 1]
    BY <1>2, <2>1, SubSeqProperties
  <2> QED
    BY <1>2, <2>2
<1>7. ASSUME NEW i \in 1 .. L - k  PROVE Reverse(u)[i] = SubSeq(r, 1, L - k)[i]
  <2>1. /\ (L - k) - i + 1 \in 1 .. L - k /\ i \in 1 .. L
        /\ k + ((L - k) - i + 1) = L - i + 1
    BY <1>2
  <2>2. Reverse(u)[i] = u[(L - k) - i + 1]
    BY <1>4
  <2>3. u[(L - k) - i + 1] = s[L - i + 1]
    BY <1>3, <2>1
  <2>4. SubSeq(r, 1, L - k)[i] = s[L - i + 1]
    BY <1>5, <1>6, <2>1
  <2> QED
    BY <2>2, <2>3, <2>4
<1>8. Reverse(u) = SubSeq(r, 1, L - k)
  BY <1>4, <1>6, <1>7, SeqEqual
<1> QED
  BY <1>1, <1>3, <1>5, <1>8
LEMMA ReverseAppend ==
  ASSUME NEW S, NEW s \in Seq(S), NEW e \in S
  PROVE  Reverse(Append(s, e)) = <<e>> \o Reverse(s)
<1>1. PICK L \in Nat : L = Len(s)
  OBVIOUS
<1> PICK t : t = Append(s, e)
  OBVIOUS
<1>2. /\ t = Append(s, e) /\ t \in Seq(S) /\ Len(t) = L + 1 /\ t[L + 1] = e
      /\ \A i \in 1 .. L : t[i] = s[i]
  BY <1>1, AppendProperties
<1> PICK a : a = Reverse(t)
  OBVIOUS
<1>3. /\ a = Reverse(t) /\ a \in Seq(S) /\ Len(a) = L + 1
      /\ \A i \in 1 .. L + 1 : a[i] = t[(L + 1) - i + 1]
  <2>1. /\ a \in Seq(S) /\ Len(a) = Len(t)
        /\ \A i \in 1 .. Len(t) : a[i] = t[Len(t) - i + 1]
    BY <1>2, ReverseProperties
  <2>2. Len(t) = L + 1
    BY <1>2
  <2> QED
    BY <2>1, <2>2
<1>4. PICK r \in Seq(S) : /\ r = Reverse(s) /\ Len(r) = L
                          /\ \A i \in 1 .. L : r[i] = s[L - i + 1]
  BY <1>1, ReverseProperties
<1> PICK b : b = <<e>> \o r
  OBVIOUS
<1>5. /\ b = <<e>> \o r /\ b \in Seq(S) /\ Len(b) = L + 1 /\ b[1] = e
      /\ \A i \in 1 .. L : b[i + 1] = r[i]
  BY <1>4, PrependProperties
<1>6. ASSUME NEW i \in 1 .. L + 1  PROVE a[i] = b[i]
  <2>1. CASE i = 1
    BY <1>2, <1>3, <1>5, <2>1
  <2>2. CASE i # 1
    <3>1. /\ i - 1 \in 1 .. L /\ (i - 1) + 1 = i
          /\ (L + 1) - i + 1 = L - (i - 1) + 1 /\ L - (i - 1) + 1 \in 1 .. L
      BY <2>2
    <3>2. b[i] = s[L - (i - 1) + 1]
      BY <1>4, <1>5, <3>1
    <3>3. a[i] = s[L - (i - 1) + 1]
      BY <1>2, <1>3, <3>1
    <3> QED
      BY <3>2, <3>3
  <2> QED
    BY <2>1, <2>2
<1>7. a = b
  BY <1>3, <1>5, <1>6, SeqEqual
<1> QED
  BY <1>2, <1>3, <1>4, <1>5, <1>7

LEMMA EntrySizesReverse ==
  ASSUME NEW s \in Seq(Headers)
  PROVE  EntrySizes(Reverse(s)) = Reverse(EntrySizes(s))
<1>1. PICK L \in Nat : L = Len(s)
  OBVIOUS
<1>2. /\ Reverse(s) \in Seq(Headers) /\ Len(Reverse(s)) = L
      /\ \A i \in 1 .. L : Reverse(s)[i] = s[L - i + 1]
  BY <1>1, ReverseProperties
<1>3. /\ EntrySizes(s) \in Seq(Nat) /\ Len(EntrySizes(s)) = L
      /\ \A i \in 1 .. L : EntrySizes(s)[i] = entry_size(s[i])
  BY <1>1, EntrySizesType
<1>4. /\ Reverse(EntrySizes(s)) \in Seq(Nat) /\ Len(Reverse(EntrySizes(s))) = L
      /\ \A i \in 1 .. L : Reverse(EntrySizes(s))[i] = EntrySizes(s)[L - i + 1]
  BY <1>3, ReverseProperties
<1>5. /\ EntrySizes(Reverse(s)) \in Seq(Nat) /\ Len(EntrySizes(Reverse(s))) = L
      /\ \A i \in 1 .. L : EntrySizes(Reverse(s))[i] = entry_size(Reverse(s)[i])
  BY <1>2, EntrySizesType
<1>6. \A i \in 1 .. L : L - i + 1 \in 1 .. L
  BY <1>1
<1>7. \A i \in 1 .. L : EntrySizes(Reverse(s))[i] = Reverse(EntrySizes(s))[i]
  BY <1>2, <1>3, <1>4, <1>5, <1>6
<1> QED
  BY <1>4, <1>5, <1>7, SeqEqual

-----------------------------------------------------------------------------
\* What eviction keeps.

\* The longest prefix of s that takes at most room octets (Rfc7541Table).
Newest(s, room) ==
  SubSeq(s, 1, CHOOSE k \in 0 .. Len(s) :
                 /\ PartialSums(EntrySizes(s))[k] <= room
                 /\ k = Len(s) \/ PartialSums(EntrySizes(s))[k + 1] > room)

\* Newest keeps j entries if they fit and one more would not.
LEMMA NewestIs ==
  ASSUME NEW s \in Seq(Headers), NEW room \in Nat, NEW j \in 0 .. Len(s),
         PartialSums(EntrySizes(s))[j] <= room,
         j = Len(s) \/ PartialSums(EntrySizes(s))[j + 1] > room
  PROVE  Newest(s, room) = SubSeq(s, 1, j)
<1>1. PICK L \in Nat : L = Len(s)
  OBVIOUS
<1>2. PICK z \in Seq(Nat) : z = EntrySizes(s) /\ Len(z) = L
  BY <1>1, EntrySizesType
<1>3. PICK p \in [0 .. L -> Nat] : p = PartialSums(z)
  BY <1>2, PartialSumsStep
<1> DEFINE Q(k) == p[k] <= room /\ (k = L \/ p[k + 1] > room)
<1>4. ASSUME NEW k \in 0 .. L, NEW m \in 0 .. L, Q(k), Q(m)  PROVE ~ (k < m)
  <2>1. SUFFICES ASSUME k < m PROVE FALSE
    OBVIOUS
  <2>2. k + 1 \in 0 .. L /\ m \in k + 1 .. L
    BY <2>1
  <2>3. p[k + 1] <= p[m]
    BY <1>2, <1>3, <2>2, PartialSumsMonotone
  <2>4. p[k + 1] > room /\ p[m] <= room /\ p[m] \in Nat /\ p[k + 1] \in Nat
    BY <1>4, <2>1, <2>2
  <2> QED
    BY <2>3, <2>4
<1>5. j \in 0 .. L /\ Q(j)
  BY <1>1, <1>2, <1>3
<1>6. (CHOOSE k \in 0 .. L : Q(k)) = j
  <2> DEFINE c == CHOOSE k \in 0 .. L : Q(k)
  <2>1. c \in 0 .. L /\ Q(c)
    BY <1>5
  <2> HIDE DEF c
  <2>2. ~ (c < j) /\ ~ (j < c)
    <3> HIDE DEF Q
    <3> QED
      BY <1>4, <1>5, <2>1
  <2>3. c = j
    BY <1>5, <2>1, <2>2
  <2> QED
    BY <2>3 DEF c
<1> QED
  BY <1>1, <1>2, <1>3, <1>6 DEF Newest

\* What evict() leaves is, newest first, what the RFC keeps.
LEMMA EvictIsNewest ==
  ASSUME NEW t, Consistent(t)
  PROVE  Reverse(evict(t).entries) = Newest(Reverse(t.entries), t.max_size)
<1> DEFINE e == t.entries
<1>1. e \in Seq(Headers) /\ t.max_size \in Nat /\ t.current_table_size = SumSeq(EntrySizes(e))
  BY DEF Consistent, Tables, calc_table_size
<1>2. PICK L \in Nat : L = Len(e)
  BY <1>1
<1>3. PICK z \in Seq(Nat) : z = EntrySizes(e) /\ Len(z) = L
  BY <1>1, <1>2, EntrySizesType
<1>4. PICK p \in [0 .. L -> Nat] : p = PartialSums(z) /\ SumSeq(z) = p[L] /\ p[0] = 0
  <2>1. PartialSums(z) \in [0 .. L -> Nat] /\ PartialSums(z)[0] = 0
    BY <1>3, PartialSumsStep
  <2>2. SumSeq(z) = PartialSums(z)[L]
    BY <1>3 DEF SumSeq
  <2> QED
    BY <2>1, <2>2
<1>5. ASSUME NEW k \in 0 .. L
      PROVE  EvictionStops(t, k) <=> k = L \/ p[L] - p[k] <= t.max_size
  BY <1>1, <1>2, <1>3, <1>4, <1>5 DEF EvictionStops, Removed
<1>6. PICK k \in 0 .. L : /\ evict(t) = Removed(t, k)
                          /\ EvictionStops(t, k)
                          /\ \A i \in 0 .. k - 1 : ~ EvictionStops(t, i)
  <2> DEFINE P(k) == EvictionStops(t, k) /\ \A i \in 0 .. k - 1 : ~ EvictionStops(t, i)
             Stop == {k \in 0 .. L : EvictionStops(t, k)}
  <2>1. Stop \in SUBSET Nat /\ L \in Stop
    BY <1>5
  <2>2. PICK k \in Stop : \A y \in Stop : k <= y
    <3> HIDE DEF Stop
    <3> QED
      BY <2>1, LeastElement
  <2>3. k \in 0 .. L /\ P(k)
    <3>1. k \in 0 .. L /\ EvictionStops(t, k)
      OBVIOUS
    <3>2. ASSUME NEW i \in 0 .. k - 1  PROVE ~ EvictionStops(t, i)
      <4>1. i \in 0 .. L /\ ~ (k <= i)
        BY <3>1
      <4> QED
        BY <2>2, <4>1
    <3> QED
      BY <3>1, <3>2
  <2> DEFINE c == CHOOSE k_1 \in 0 .. L : P(k_1)
  <2>4. c \in 0 .. L /\ P(c)
    <3> HIDE DEF P
    <3> QED
      BY <2>3
  <2>5. evict(t) = Removed(t, c)
    BY <1>2 DEF evict
  <2> HIDE DEF c
  <2> QED
    BY <2>4, <2>5
<1>7. p[L] - p[k] <= t.max_size
  <2>1. p[L] \in Nat
    OBVIOUS
  <2>2. CASE k = L
    BY <1>1, <2>1, <2>2
  <2>3. CASE k # L
    BY <1>5, <1>6, <2>3
  <2> QED
    BY <2>2, <2>3
<1>8. k = 0 \/ p[L] - p[k - 1] > t.max_size
  <2>1. SUFFICES ASSUME k # 0 PROVE p[L] - p[k - 1] > t.max_size
    OBVIOUS
  <2>2. k - 1 \in 0 .. k - 1 /\ k - 1 \in 0 .. L /\ k - 1 # L
    BY <2>1
  <2>3. ~ (p[L] - p[k - 1] <= t.max_size)
    BY <1>5, <1>6, <2>2
  <2>4. p[L] \in Nat /\ p[k - 1] \in Nat
    BY <2>2
  <2> QED
    BY <1>1, <2>3, <2>4
<1>9. /\ Reverse(e) \in Seq(Headers) /\ Len(Reverse(e)) = L
      /\ \A j \in 0 .. L : PartialSums(EntrySizes(Reverse(e)))[j] = p[L] - p[L - j]
  <2>1. Reverse(e) \in Seq(Headers) /\ Len(Reverse(e)) = L
    BY <1>1, <1>2, ReverseProperties
  <2>2. EntrySizes(Reverse(e)) = Reverse(z)
    BY <1>1, <1>3, EntrySizesReverse
  <2> HIDE DEF e
  <2> QED
    BY <1>3, <1>4, <2>1, <2>2, PartialSumsReverse
<1>10. PICK j \in 0 .. L : j = L - k
  OBVIOUS
<1>11. Newest(Reverse(e), t.max_size) = SubSeq(Reverse(e), 1, j)
  <2>1. PartialSums(EntrySizes(Reverse(e)))[j] <= t.max_size
    <3>1. L - j = k
      BY <1>10
    <3> QED
      BY <1>7, <1>9, <3>1
  <2>2. j = L \/ PartialSums(EntrySizes(Reverse(e)))[j + 1] > t.max_size
    <3>1. SUFFICES ASSUME j # L PROVE PartialSums(EntrySizes(Reverse(e)))[j + 1] > t.max_size
      OBVIOUS
    <3>2. j + 1 \in 0 .. L /\ L - (j + 1) = k - 1 /\ k # 0
      BY <1>10, <3>1
    <3> QED
      BY <1>8, <1>9, <3>2
  <2> QED
    BY <1>1, <1>9, <2>1, <2>2, NewestIs
<1>12. Removed(t, k).entries = SubSeq(e, k + 1, Len(e))
  BY DEF Removed
<1>13. Reverse(SubSeq(e, k + 1, Len(e))) = SubSeq(Reverse(e), 1, j)
  BY <1>1, <1>2, <1>10, ReverseDrop
<1> QED
  BY <1>6, <1>11, <1>12, <1>13

\* Some prefix fits and cannot be longer.
LEMMA NewestExists ==
  ASSUME NEW s \in Seq(Headers), NEW room \in Nat
  PROVE  \E j \in 0 .. Len(s) :
           /\ PartialSums(EntrySizes(s))[j] <= room
           /\ j = Len(s) \/ PartialSums(EntrySizes(s))[j + 1] > room
<1>1. PICK L \in Nat : L = Len(s)
  OBVIOUS
<1>2. PICK p \in [0 .. L -> Nat] : p = PartialSums(EntrySizes(s)) /\ p[0] = 0
  BY <1>1, EntrySizesType, PartialSumsStep
<1> DEFINE Full == {k \in 0 .. L : k = L \/ p[k + 1] > room}
<1>3. Full \in SUBSET Nat /\ L \in Full
  OBVIOUS
<1>4. PICK j \in Full : \A y \in Full : j <= y
  <2> HIDE DEF Full
  <2> QED
    BY <1>3, LeastElement
<1>5. p[j] <= room
  <2>1. CASE j = 0
    BY <1>2, <2>1
  <2>2. CASE j # 0
    <3>1. j - 1 \in 0 .. L /\ ~ (j <= j - 1) /\ (j - 1) + 1 = j
      BY <2>2
    <3>2. j - 1 \notin Full
      BY <1>4, <3>1
    <3>3. p[j] \in Nat
      OBVIOUS
    <3> QED
      BY <3>1, <3>2, <3>3
  <2> QED
    BY <2>1, <2>2
<1> QED
  BY <1>1, <1>2, <1>5

\* Making room and then inserting, as the RFC has it, keeps what inserting and
\* then making room keeps.
LEMMA NewestPrepend ==
  ASSUME NEW s \in Seq(Headers), NEW h \in Headers, NEW room \in Nat
  PROVE  Newest(<<h>> \o s, room) =
           IF entry_size(h) > room THEN <<>>
           ELSE <<h>> \o Newest(s, room - entry_size(h))
<1>1. PICK L \in Nat : L = Len(s)
  OBVIOUS
<1>2. PICK z \in Seq(Nat) : /\ z = EntrySizes(s) /\ Len(z) = L
                            /\ \A i \in 1 .. L : z[i] = entry_size(s[i])
  BY <1>1, EntrySizesType
<1>3. PICK p \in [0 .. L -> Nat] :
           p = PartialSums(z) /\ p[0] = 0 /\ \A i \in 1 .. L : p[i] = p[i - 1] + z[i]
  BY <1>2, PartialSumsStep
<1>4. PICK n \in Nat : n = entry_size(h)
  BY EntrySizeType
<1> PICK t : t = <<h>> \o s
  OBVIOUS
<1>5. /\ t = <<h>> \o s /\ t \in Seq(Headers) /\ Len(t) = L + 1 /\ t[1] = h
      /\ \A i \in 1 .. L : t[i + 1] = s[i]
  BY <1>1, PrependProperties
<1>6. PICK y \in Seq(Nat) : /\ y = EntrySizes(t) /\ Len(y) = L + 1
                            /\ \A i \in 1 .. L + 1 : y[i] = entry_size(t[i])
  BY <1>5, EntrySizesType
<1>7. y[1] = n /\ \A i \in 1 .. L : y[i + 1] = z[i]
  <2>1. 1 \in 1 .. L + 1 /\ \A i \in 1 .. L : i + 1 \in 1 .. L + 1
    BY <1>1
  <2>2. y[1] = n
    BY <1>4, <1>5, <1>6, <2>1
  <2>3. ASSUME NEW i \in 1 .. L  PROVE y[i + 1] = z[i]
    <3>1. y[i + 1] = entry_size(t[i + 1])
      BY <1>6, <2>1
    <3>2. t[i + 1] = s[i] /\ z[i] = entry_size(s[i])
      BY <1>2, <1>5
    <3> QED
      BY <3>1, <3>2
  <2> QED
    BY <2>2, <2>3
<1> PICK q : q = PartialSums(y)
  OBVIOUS
<1>8. /\ q = PartialSums(y) /\ q \in [0 .. L + 1 -> Nat] /\ q[0] = 0
      /\ \A i \in 1 .. L + 1 : q[i] = q[i - 1] + y[i]
  BY <1>6, PartialSumsStep
<1>9. \A j \in 0 .. L : q[j + 1] = n + p[j]
  <2> DEFINE S == {j \in Nat : j <= L => q[j + 1] = n + p[j]}
  <2>1. 0 \in S
    <3>1. q[1] = q[0] + y[1]
      BY <1>8
    <3> QED
      BY <1>3, <1>7, <1>8, <3>1
  <2>2. ASSUME NEW j \in Nat, j \in S  PROVE j + 1 \in S
    <3>1. SUFFICES ASSUME j + 1 <= L PROVE q[(j + 1) + 1] = n + p[j + 1]
      OBVIOUS
    <3>2. /\ (j + 1) + 1 \in 1 .. L + 1 /\ j + 1 \in 1 .. L /\ (j + 1) - 1 = j
          /\ ((j + 1) + 1) - 1 = j + 1 /\ j \in 0 .. L
      BY <3>1
    <3>3. q[(j + 1) + 1] = q[j + 1] + z[j + 1] /\ p[j + 1] = p[j] + z[j + 1]
      BY <1>3, <1>7, <1>8, <3>2
    <3>4. q[j + 1] = n + p[j] /\ p[j] \in Nat
      BY <2>2, <3>1, <3>2
    <3>5. z[j + 1] \in Nat
      BY <1>2, <3>2
    <3> QED
      BY <3>3, <3>4, <3>5, SMTT(30)
  <2>3. Nat \subseteq S
    <3> HIDE DEF S
    <3> QED
      BY <2>1, <2>2, SetInduction
  <2> QED
    BY <2>3
<1>10. CASE n > room
  <2>1. q[0] <= room /\ q[0 + 1] > room /\ 0 \in 0 .. L /\ p[0] = 0
    BY <1>3, <1>8, <1>9, <1>10
  <2>2. Newest(t, room) = SubSeq(t, 1, 0)
    <3>1. PICK m \in 0 .. Len(t) : m = 0
      BY <1>5
    <3>2. PartialSums(EntrySizes(t)) = q
      BY <1>6, <1>8
    <3>3. PartialSums(EntrySizes(t))[m] <= room /\ PartialSums(EntrySizes(t))[m + 1] > room
      BY <2>1, <3>1, <3>2
    <3>4. Newest(t, room) = SubSeq(t, 1, m)
      BY <1>5, <3>3, NewestIs
    <3> QED
      BY <3>1, <3>4
  <2>3. SubSeq(t, 1, 0) = <<>>
    BY SubSeqEmpty
  <2> QED
    BY <1>4, <1>5, <1>10, <2>2, <2>3
<1>11. CASE n <= room
  <2>1. PICK space \in Nat : space = room - n
    BY <1>11
  <2>2. PICK j \in 0 .. L : p[j] <= space /\ (j = L \/ p[j + 1] > space)
    BY <1>1, <1>2, <1>3, NewestExists
  <2>3. Newest(s, space) = SubSeq(s, 1, j)
    BY <1>1, <1>2, <1>3, <2>2, NewestIs
  <2>4. j + 1 \in 0 .. L + 1 /\ q[j + 1] <= room
    BY <1>9, <2>1, <2>2, SMTT(30)
  <2>5. j + 1 = L + 1 \/ q[(j + 1) + 1] > room
    <3>1. SUFFICES ASSUME j # L PROVE q[(j + 1) + 1] > room
      OBVIOUS
    <3>2. j + 1 \in 0 .. L /\ p[j + 1] > space /\ p[j + 1] \in Nat
      BY <2>2, <3>1
    <3>3. q[(j + 1) + 1] = n + p[j + 1]
      BY <1>9, <3>2
    <3> QED
      BY <2>1, <3>2, <3>3
  <2>6. Newest(t, room) = SubSeq(t, 1, j + 1)
    <3>1. PICK m \in 0 .. Len(t) : m = j + 1
      BY <1>5
    <3>2. PartialSums(EntrySizes(t)) = q /\ Len(t) = L + 1
      BY <1>5, <1>6, <1>8
    <3>3. /\ PartialSums(EntrySizes(t))[m] <= room
          /\ m = Len(t) \/ PartialSums(EntrySizes(t))[m + 1] > room
      BY <2>4, <2>5, <3>1, <3>2
    <3>4. Newest(t, room) = SubSeq(t, 1, m)
      BY <1>5, <3>3, NewestIs
    <3> QED
      BY <3>1, <3>4
  <2>7. SubSeq(t, 1, j + 1) = <<h>> \o SubSeq(s, 1, j)
    <3>1. /\ SubSeq(s, 1, j) \in Seq(Headers) /\ Len(SubSeq(s, 1, j)) = j
          /\ \A i \in 1 .. j : SubSeq(s, 1, j)[i] = s[i]
      BY <1>1, SMTT(30)
    <3>2. PICK a \in Seq(Headers) : a = SubSeq(s, 1, j) /\ Len(a) = j
                                    /\ \A i \in 1 .. j : a[i] = s[i]
      BY <3>1
    <3>3. PICK b \in Seq(Headers) : b = SubSeq(t, 1, j + 1) /\ Len(b) = j + 1
                                    /\ \A i \in 1 .. j + 1 : b[i] = t[i]
      <4>1. j + 1 \in 1 .. Len(t)
        BY <1>5
      <4>2. /\ SubSeq(t, 1, j + 1) \in Seq(Headers) /\ Len(SubSeq(t, 1, j + 1)) = j + 1
            /\ \A i \in 1 .. j + 1 : SubSeq(t, 1, j + 1)[i] = t[i]
        BY <4>1
      <4> QED
        BY <4>2, Zenon
    <3> PICK c : c = <<h>> \o a
      OBVIOUS
    <3>4. /\ c = <<h>> \o a /\ c \in Seq(Headers) /\ Len(c) = j + 1 /\ c[1] = h
          /\ \A i \in 1 .. j : c[i + 1] = a[i]
      BY <3>2, PrependProperties
    <3>5. ASSUME NEW i \in 1 .. j + 1  PROVE b[i] = c[i]
      <4>1. CASE i = 1
        BY <1>5, <3>3, <3>4, <4>1
      <4>2. CASE i # 1
        <5>1. i - 1 \in 1 .. j /\ i - 1 \in 1 .. L /\ (i - 1) + 1 = i
          BY <4>2
        <5> QED
          BY <1>5, <3>2, <3>3, <3>4, <5>1
      <4> QED
        BY <4>1, <4>2
    <3>6. b = c
      BY <3>3, <3>4, <3>5, SeqEqual
    <3> QED
      BY <3>2, <3>3, <3>4, <3>6
  <2>8. Newest(t, room) = <<h>> \o Newest(s, space)
    BY <2>3, <2>6, <2>7, Zenon
  <2>9. ~ (entry_size(h) > room) /\ room - entry_size(h) = space
    BY <1>4, <1>11, <2>1
  <2> QED
    BY <1>5, <2>8, <2>9
<1> QED
  BY <1>4, <1>10, <1>11

\* A prefix has the type of the whole.
LEMMA NewestType ==
  ASSUME NEW S, S \subseteq Headers, NEW s \in Seq(S), NEW room \in Nat
  PROVE  Newest(s, room) \in Seq(S)
<1>1. s \in Seq(Headers)
  OBVIOUS
<1>2. PICK j \in 0 .. Len(s) : /\ PartialSums(EntrySizes(s))[j] <= room
                               /\ j = Len(s) \/ PartialSums(EntrySizes(s))[j + 1] > room
  BY <1>1, NewestExists
<1>3. Newest(s, room) = SubSeq(s, 1, j)
  BY <1>1, <1>2, NewestIs
<1> QED
  BY <1>3

\* add() keeps what making room first and inserting in front keeps.
LEMMA AddKeepsNewest ==
  ASSUME NEW t, Consistent(t), NEW h \in Headers
  PROVE  /\ add(t, h).max_size = t.max_size
         /\ Reverse(add(t, h).entries) =
              IF entry_size(h) > t.max_size THEN <<>>
              ELSE <<h>> \o Newest(Reverse(t.entries), t.max_size - entry_size(h))
<1>1. PICK room \in Nat : room = t.max_size
  BY DEF Consistent, Tables
<1>2. t.entries \in Seq(Headers)
  BY DEF Consistent, Tables
<1>3. PICK u : /\ Consistent(u)
               /\ u.entries = Append(t.entries, h) /\ u.max_size = room
               /\ add(t, h) = evict(u)
  BY <1>1, AddEvicts
<1>4. add(t, h).max_size = room
  BY <1>3, EvictCorrect
<1>5. Reverse(add(t, h).entries) = Newest(<<h>> \o Reverse(t.entries), room)
  BY <1>2, <1>3, EvictIsNewest, ReverseAppend
<1>6. Reverse(t.entries) \in Seq(Headers)
  BY <1>2, ReverseProperties
<1> QED
  BY <1>1, <1>4, <1>5, <1>6, NewestPrepend

\* A new maximum keeps the newest entries that fit.
LEMMA ResizeKeepsNewest ==
  ASSUME NEW t, Consistent(t), NEW size \in Nat
  PROVE  /\ set_maximum_table_size(t, size).max_size = size
         /\ Reverse(set_maximum_table_size(t, size).entries) = Newest(Reverse(t.entries), size)
<1> DEFINE u == [t EXCEPT !.max_size = size]
<1>1. Consistent(u) /\ u.max_size = size /\ u.entries = t.entries
  BY DEF Consistent, Tables, calc_table_size
<1>2. set_maximum_table_size(t, size) = evict(u)
  BY DEF set_maximum_table_size
<1> HIDE DEF u
<1> QED
  BY <1>1, <1>2, EvictCorrect, EvictIsNewest

-----------------------------------------------------------------------------
\* decode().

Decoders == {d \in [table : Tables, headers : Seq(Headers), thrown : BOOLEAN] :
               Consistent(d.table)}

\* A lookup yields a header, std::nullopt or an exception.
LEMMA LookupType ==
  ASSUME NEW t, Consistent(t), NEW i \in Nat
  PROVE  \/ \E h \in Headers : hpack_table_at(t, i) = Found(h)
         \/ hpack_table_at(t, i) = Nullopt
         \/ hpack_table_at(t, i) = Thrown
<1>1. t.entries \in Seq(Headers)
  BY DEF Consistent, Tables
<1>2. PICK n \in Nat : n = Len(t.entries) /\ \A j \in 1 .. n : t.entries[j] \in Headers
  BY <1>1
<1>3. PICK m \in Nat : m = Len(StaticTable) /\ \A j \in 1 .. m : StaticTable[j] \in Headers
  BY StaticTableAssumption
<1>4. StaticSize = m + 1
  BY <1>3 DEF StaticSize
<1>5. CASE i = 0
  BY <1>4, <1>5 DEF hpack_table_at
<1>6. CASE i \in 1 .. m + 1
  <2>1. hpack_table_at(t, i) = hpack_static_table_at(i)
    BY <1>2, <1>4, <1>6 DEF hpack_table_at
  <2> QED
    BY <1>3, <1>4, <1>6, <2>1 DEF hpack_static_table_at
<1>7. CASE i \in m + 2 .. m + 1 + n
  <2>1. hpack_table_at(t, i) = at(t, i - (m + 1) - 1)
    BY <1>2, <1>4, <1>7 DEF hpack_table_at
  <2>2. i - (m + 1) - 1 \in Nat /\ n - (i - (m + 1) - 1) \in 1 .. n
    BY <1>7
  <2>3. ~ (i - (m + 1) - 1 >= n)
    BY <1>7
  <2>4. at(t, i - (m + 1) - 1) = Found(t.entries[n - (i - (m + 1) - 1)])
    BY <1>2, <2>3 DEF at
  <2> QED
    BY <1>2, <2>1, <2>2, <2>4
<1>8. CASE i > m + 1 + n
  BY <1>2, <1>4, <1>8 DEF hpack_table_at
<1> QED
  BY <1>5, <1>6, <1>7, <1>8

\* A literal yields a header or an exception.
LEMMA FetchType ==
  ASSUME NEW t, Consistent(t),
         NEW r \in AllRepresentations, r.rep \in Literals
  PROVE  \/ \E h \in Headers : fetch_header(t, r) = Found(h)
         \/ fetch_header(t, r) = Thrown
<1>1. r.value \in Values
  BY DEF AllRepresentations, Literals
<1>2. CASE r.index = 0
  <2>1. r.name \in Names
    BY <1>2 DEF AllRepresentations, Literals
  <2>2. [name |-> r.name, value |-> r.value] \in Headers
    BY <1>1, <2>1 DEF Headers
  <2> QED
    BY <1>2, <2>2 DEF fetch_header
<1>3. CASE r.index # 0
  <2>1. r.index \in Nat
    BY <1>3 DEF AllRepresentations, Literals
  <2>2. CASE \E h \in Headers : hpack_table_at(t, r.index) = Found(h)
    <3>1. PICK h \in Headers : hpack_table_at(t, r.index) = Found(h)
      BY <2>2
    <3>2. [name |-> h.name, value |-> r.value] \in Headers
      BY <1>1 DEF Headers
    <3>3. hpack_table_at(t, r.index).header.name = h.name
      BY <3>1 DEF Found
    <3> QED
      BY <1>3, <3>2, <3>3 DEF fetch_header
  <2>3. CASE hpack_table_at(t, r.index) \in {Nullopt, Thrown}
    BY <1>3, <2>3 DEF fetch_header, Nullopt, Thrown
  <2> QED
    BY <2>1, <2>2, <2>3, LookupType
<1> QED
  BY <1>2, <1>3

\* One turn of the loop.
LEMMA DecodeNextType ==
  ASSUME NEW d \in Decoders, NEW r \in AllRepresentations
  PROVE  DecodeNext(d, r) \in Decoders
<1> DEFINE one == decode_representation(d.table, r)
<1>1. /\ Consistent(d.table) /\ d.headers \in Seq(Headers)
  BY DEF Decoders
<1>2. /\ Consistent(one.table)
      /\ \/ \E h \in Headers : one.result = Found(h)
         \/ one.result = Nullopt
         \/ one.result = Thrown
  <2>1. CASE r.rep = "indexed"
    <3>1. r.index \in Nat
      BY <2>1 DEF AllRepresentations, Literals
    <3>2. one = [result |-> hpack_table_at(d.table, r.index), table |-> d.table]
      BY <2>1 DEF decode_representation, Literals
    <3> QED
      BY <1>1, <3>1, <3>2, LookupType
  <2>2. CASE r.rep \in Literals
    <3> DEFINE f == fetch_header(d.table, r)
    <3>1. one = [result |-> f,
                 table |-> IF r.rep = "incremental" /\ f.outcome = "header"
                             THEN add(d.table, f.header) ELSE d.table]
      BY <2>2 DEF decode_representation, Literals
    <3>2. (\E h \in Headers : f = Found(h)) \/ f = Thrown
      BY <1>1, <2>2, FetchType
    <3>3. f.outcome = "header" => f.header \in Headers
      <4>1. CASE \E h \in Headers : f = Found(h)
        <5> HIDE DEF f
        <5> QED
          BY <4>1 DEF Found
      <4>2. CASE f = Thrown
        <5> HIDE DEF f
        <5> QED
          BY <4>2 DEF Thrown
      <4> QED
        BY <3>2, <4>1, <4>2
    <3> HIDE DEF f
    <3>4. Consistent(one.table)
      BY <1>1, <3>1, <3>3, AddCorrect
    <3> QED
      BY <3>1, <3>2, <3>4
  <2>3. CASE r.rep = "resize"
    <3>1. r.size \in Nat
      BY <2>3 DEF AllRepresentations, Literals
    <3>2. one = [result |-> Nullopt, table |-> set_maximum_table_size(d.table, r.size)]
      BY <2>3 DEF decode_representation, Literals
    <3> QED
      BY <1>1, <3>1, <3>2, ResizeCorrect
  <2> QED
    BY <2>1, <2>2, <2>3 DEF AllRepresentations, Literals
<1> HIDE DEF one
<1>3. DecodeNext(d, r) =
        [table   |-> one.table,
         headers |-> IF one.result.outcome = "header"
                       THEN Append(d.headers, one.result.header) ELSE d.headers,
         thrown  |-> one.result.outcome = "thrown"]
  BY DEF DecodeNext, one
<1>4. one.result.outcome = "header" => one.result.header \in Headers
  <2>1. CASE \E h \in Headers : one.result = Found(h)
    BY <2>1 DEF Found
  <2>2. CASE one.result = Nullopt \/ one.result = Thrown
    BY <2>2 DEF Nullopt, Thrown
  <2> QED
    BY <1>2, <2>1, <2>2
<1>5. (IF one.result.outcome = "header"
         THEN Append(d.headers, one.result.header) ELSE d.headers) \in Seq(Headers)
  BY <1>1, <1>4
<1>6. (one.result.outcome = "thrown") \in BOOLEAN
  OBVIOUS
<1> QED
  BY <1>2, <1>3, <1>5, <1>6 DEF Decoders, Consistent

LEMMA NewDecoderType == NewDecoder \in Decoders
<1>1. /\ EmptyTable.entries = <<>> /\ EmptyTable.max_size = DefaultMaxSize
      /\ EmptyTable.current_table_size = 0 /\ EmptyTable \in Tables
  BY DefaultMaxSizeAssumption DEF EmptyTable, Tables
<1>2. EntrySizes(<<>>) = <<>>
  <2>1. <<>> \in Seq(Headers) /\ Len(<<>>) = 0
    OBVIOUS
  <2>2. EntrySizes(<<>>) \in Seq(Nat) /\ Len(EntrySizes(<<>>)) = 0
    BY <2>1, EntrySizesType
  <2> QED
    BY <2>2
<1>3. Consistent(EmptyTable)
  BY <1>1, <1>2, SumSeqEmpty DEF Consistent, calc_table_size
<1> QED
  BY <1>1, <1>3 DEF NewDecoder, Decoders

\* The loop of decode() as a function from the number of turns to the decoder.
IsRun(run, block) ==
  /\ run \in [0 .. Len(block) -> Decoders]
  /\ run[0] = NewDecoder
  /\ \A i \in 1 .. Len(block) :
       run[i] = IF run[i - 1].thrown THEN run[i - 1] ELSE DecodeNext(run[i - 1], block[i])

LEMMA RunExists ==
  ASSUME NEW block \in Seq(AllRepresentations)
  PROVE  \E run : IsRun(run, block)
<1>0. PICK n \in Nat : n = Len(block) /\ \A i \in 1 .. n : block[i] \in AllRepresentations
  OBVIOUS
<1> DEFINE next(i, d) == IF d.thrown THEN d ELSE DecodeNext(d, block[i])
<1>1. ASSUME NEW i \in 1 .. n, NEW d \in Decoders  PROVE next(i, d) \in Decoders
  BY <1>0, DecodeNextType
<1>2. PICK step \in Steps(n, Decoders) :
           \A i \in 1 .. n, d \in Decoders : step[i][d] = next(i, d)
  <2> HIDE DEF next
  <2> DEFINE t == [i \in 1 .. n |-> [d \in Decoders |-> next(i, d)]]
  <2>1. t \in [1 .. n -> [Decoders -> Decoders]]
    BY <1>1
  <2>2. \A i \in 1 .. n, d \in Decoders : t[i][d] = next(i, d)
    OBVIOUS
  <2> HIDE DEF t
  <2> QED
    BY <2>1, <2>2 DEF Steps
<1>3. PICK run : IsRecursion(run, n, Decoders, NewDecoder, step)
  BY NewDecoderType, RecursionExists
<1>4. ASSUME NEW i \in 1 .. n  PROVE run[i] = next(i, run[i - 1])
  <2> HIDE DEF next
  <2>1. run[i - 1] \in Decoders /\ run[i] = step[i][run[i - 1]]
    BY <1>3 DEF IsRecursion
  <2> QED
    BY <1>2, <2>1
<1>5. run \in [0 .. n -> Decoders] /\ run[0] = NewDecoder
  BY <1>3 DEF IsRecursion
<1> QED
  BY <1>0, <1>4, <1>5 DEF IsRun

\* after is the recursive function in decode(block).
IsAfter(after, block) ==
  after = [i \in 0 .. Len(block) |->
             IF i = 0
               THEN {NewDecoder}
               ELSE {IF d.thrown THEN d ELSE DecodeNext(d, block[i]) : d \in after[i - 1]}]

\* decode() ends where its loop ends.
LEMMA DecodeIsRun ==
  ASSUME NEW block \in Seq(AllRepresentations), NEW run, IsRun(run, block)
  PROVE  decode(block) = run[Len(block)]
<1> DEFINE next(i, d) == IF d.thrown THEN d ELSE DecodeNext(d, block[i])
<1>0. PICK n \in Nat : n = Len(block)
  OBVIOUS
<1>1. /\ run[0] = NewDecoder /\ run \in [0 .. n -> Decoders]
      /\ \A i \in 1 .. n : run[i] = next(i, run[i - 1])
  BY <1>0 DEF IsRun
<1> DEFINE good == [i \in 0 .. n |-> {run[i]}]
<1>2. IsAfter(good, block)
  <2> HIDE DEF next
  <2>1. ASSUME NEW i \in 1 .. n
        PROVE  good[i] = {next(i, d) : d \in good[i - 1]}
    <3>1. good[i] = {run[i]} /\ good[i - 1] = {run[i - 1]}
      OBVIOUS
    <3>2. run[i] = next(i, run[i - 1])
      BY <1>1
    <3> HIDE DEF good
    <3> QED
      BY <3>1, <3>2
  <2>2. good[0] = {NewDecoder}
    BY <1>1
  <2>3. good = [i \in 0 .. n |-> good[i]]
    OBVIOUS
  <2> HIDE DEF good
  <2>4. \A i \in 0 .. n : i # 0 => i \in 1 .. n
    OBVIOUS
  <2>5. good = [i \in 0 .. n |-> IF i = 0 THEN {NewDecoder}
                                ELSE {next(i, d) : d \in good[i - 1]}]
    BY <2>1, <2>2, <2>3, <2>4
  <2> QED
    BY <1>0, <2>5 DEF IsAfter, next
<1> DEFINE after == CHOOSE f : IsAfter(f, block)
<1>3. IsAfter(after, block)
  <2> HIDE DEF good
  <2> QED
    BY <1>2, Zenon
<1>4. decode(block) = CHOOSE d \in after[Len(block)] : TRUE
  BY Zenon DEF decode, IsAfter
<1>5. \A i \in 0 .. n : after[i] = {run[i]}
  <2> HIDE DEF after, next, good
  <2> DEFINE S == {i \in Nat : i <= n => after[i] = {run[i]}}
  <2>1. after[0] = {NewDecoder}
    BY <1>0, <1>3 DEF IsAfter
  <2>2. ASSUME NEW i \in 1 .. n  PROVE after[i] = {next(i, d) : d \in after[i - 1]}
    BY <1>0, <1>3 DEF IsAfter, next
  <2>3. 0 \in S
    BY <1>1, <2>1
  <2>4. ASSUME NEW i \in Nat, i \in S  PROVE i + 1 \in S
    <3>1. SUFFICES ASSUME i + 1 <= n PROVE after[i + 1] = {run[i + 1]}
      OBVIOUS
    <3>2. after[i] = {run[i]} /\ i + 1 \in 1 .. n /\ (i + 1) - 1 = i
      BY <2>4, <3>1
    <3>3. run[i + 1] = next(i + 1, run[i])
      BY <1>1, <3>2
    <3>4. after[i + 1] = {next(i + 1, d) : d \in {run[i]}}
      BY <2>2, <3>2
    <3> QED
      BY <3>3, <3>4
  <2>5. Nat \subseteq S
    <3> HIDE DEF S
    <3> QED
      BY <2>3, <2>4, SetInduction
  <2> QED
    BY <2>5
<1>6. after[n] = {run[n]}
  BY <1>5
<1> HIDE DEF after
<1> QED
  BY <1>0, <1>4, <1>6

\* What decode() returns, whatever the representations refer to.
LEMMA DecodeType ==
  ASSUME NEW block \in Seq(AllRepresentations)
  PROVE  decode(block) \in Decoders
<1>1. PICK run : IsRun(run, block)
  BY RunExists
<1>2. Len(block) \in 0 .. Len(block)
  OBVIOUS
<1> QED
  BY <1>1, <1>2, DecodeIsRun DEF IsRun

=============================================================================
