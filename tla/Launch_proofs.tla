---------------------------- MODULE Launch_proofs ----------------------------
(***************************************************************************)
(* A run of the program, for every set of command lines, URLs and          *)
(* responses: what is read from a stream that comes in pieces and may end  *)
(* anywhere, and what the options and the exit status mean.                *)
(***************************************************************************)
EXTENDS Launch, SequenceSums_proofs, FiniteSetTheorems

-----------------------------------------------------------------------------
\* The stream.

\* The octets of o behind pos and up to end are in the buffer b and on the wire w.
Holds(o, b, w, pos, end) ==
  /\ b \in Seq(Octets) /\ w \in Seq(Octets)
  /\ Len(o) \in Nat /\ pos \in Nat /\ end \in 0 .. Len(o)
  /\ pos + Len(b) + Len(w) = end
  /\ \A i \in 1 .. Len(b) : b[i] = o[pos + i]
  /\ \A i \in 1 .. Len(w) : w[i] = o[pos + Len(b) + i]

\* Taking n elements from the front of a sequence.
LEMMA Cut ==
  ASSUME NEW S, NEW q \in Seq(S), NEW n \in 0 .. Len(q)
  PROVE  /\ SubSeq(q, 1, n) \in Seq(S) /\ Len(SubSeq(q, 1, n)) = n
         /\ \A i \in 1 .. n : SubSeq(q, 1, n)[i] = q[i]
         /\ SubSeq(q, n + 1, Len(q)) \in Seq(S)
         /\ Len(SubSeq(q, n + 1, Len(q))) = Len(q) - n
         /\ \A i \in 1 .. Len(q) - n : SubSeq(q, n + 1, Len(q))[i] = q[n + i]
<1>1. PICK l \in Nat : l = Len(q)
  OBVIOUS
<1>2. \A i \in 1 .. l : q[i] \in S
  BY <1>1
<1>3. /\ SubSeq(q, 1, n) \in Seq(S) /\ Len(SubSeq(q, 1, n)) = n
      /\ \A i \in 1 .. n : SubSeq(q, 1, n)[i] = q[i]
  BY <1>1, <1>2
<1>4. /\ SubSeq(q, n + 1, l) \in Seq(S) /\ Len(SubSeq(q, n + 1, l)) = l - n
      /\ \A i \in 1 .. l - n : SubSeq(q, n + 1, l)[i] = q[n + i]
  BY <1>1, <1>2
<1> QED
  BY <1>1, <1>3, <1>4

\* Holds, with the lengths as numbers.
Held(o, b, w, pos, end, l, k) ==
  /\ l \in Nat /\ l = Len(b) /\ k \in Nat /\ k = Len(w)
  /\ Len(o) \in Nat /\ pos \in Nat /\ end \in 0 .. Len(o) /\ pos + l + k = end
  /\ b \in Seq(Octets) /\ w \in Seq(Octets)
  /\ \A i \in 1 .. l : b[i] = o[pos + i]
  /\ \A i \in 1 .. k : w[i] = o[pos + l + i]

LEMMA HoldsHeld ==
  ASSUME NEW o, NEW b, NEW w, NEW pos, NEW end
  PROVE  Holds(o, b, w, pos, end) <=> \E l, k : Held(o, b, w, pos, end, l, k)
<1>1. ASSUME Holds(o, b, w, pos, end)  PROVE Held(o, b, w, pos, end, Len(b), Len(w))
  BY <1>1 DEF Holds, Held
<1>2. ASSUME NEW l, NEW k, Held(o, b, w, pos, end, l, k)  PROVE Holds(o, b, w, pos, end)
  BY <1>2 DEF Holds, Held
<1> QED
  BY <1>1, <1>2

LEMMA HoldsConsume ==
  ASSUME NEW o, NEW b, NEW w, NEW pos, NEW end, Holds(o, b, w, pos, end),
         NEW n \in 0 .. Len(b)
  PROVE  Holds(o, SubSeq(b, n + 1, Len(b)), w, pos + n, end)
<1>1. PICK l, k : Held(o, b, w, pos, end, l, k)
  BY HoldsHeld
<1> DEFINE c == SubSeq(b, n + 1, Len(b))
<1>2. c \in Seq(Octets) /\ Len(c) = l - n /\ \A i \in 1 .. l - n : c[i] = b[n + i]
  BY <1>1, Cut DEF Held
<1> HIDE DEF c
<1>3. /\ n \in 0 .. l /\ l \in Nat /\ k \in Nat
      /\ pos \in Nat /\ end \in Nat /\ pos + l + k = end
  BY <1>1 DEF Held
<1>4. /\ l - n \in Nat /\ pos + n \in Nat /\ (pos + n) + (l - n) + k = end
      /\ \A i \in 1 .. l - n : n + i \in 1 .. l /\ pos + (n + i) = (pos + n) + i
      /\ \A i \in 1 .. k : pos + l + i = (pos + n) + (l - n) + i
  BY <1>3
<1>5. Held(o, c, w, pos + n, end, l - n, k)
  BY <1>1, <1>2, <1>4 DEF Held
<1> QED
  BY <1>5, HoldsHeld DEF c

LEMMA HoldsDeliver ==
  ASSUME NEW o, NEW b, NEW w, NEW pos, NEW end, Holds(o, b, w, pos, end),
         NEW n \in 1 .. Len(w)
  PROVE  Holds(o, b \o SubSeq(w, 1, n), SubSeq(w, n + 1, Len(w)), pos, end)
<1>1. PICK l, k : Held(o, b, w, pos, end, l, k)
  BY HoldsHeld
<1> DEFINE h == SubSeq(w, 1, n)
           t == SubSeq(w, n + 1, Len(w))
           c == b \o h
<1>2. /\ n \in 1 .. k /\ n \in 0 .. Len(w) /\ l \in Nat /\ k \in Nat
      /\ pos \in Nat /\ end \in Nat /\ pos + l + k = end
  BY <1>1 DEF Held
<1>3. /\ h \in Seq(Octets) /\ Len(h) = n /\ \A i \in 1 .. n : h[i] = w[i]
      /\ t \in Seq(Octets) /\ Len(t) = k - n /\ \A i \in 1 .. k - n : t[i] = w[n + i]
  BY <1>1, <1>2, Cut DEF Held
<1> HIDE DEF h, t
<1>4. b \in Seq(Octets) /\ l = Len(b) /\ IsSeq(b) /\ IsSeq(h)
  BY <1>1, <1>3 DEF Held, IsSeq
<1>5. /\ c \in Seq(Octets) /\ Len(c) = l + n
      /\ \A i \in 1 .. l : c[i] = b[i]
      /\ \A i \in 1 .. n : c[l + i] = h[i]
  <2>1. c \in Seq(Octets)
    BY <1>3, <1>4
  <2>2. /\ Len(c) = Len(b) + Len(h) /\ \A i \in 1 .. Len(b) : c[i] = b[i]
        /\ \A i \in 1 .. Len(h) : c[Len(b) + i] = h[i]
    BY <1>4, SeqConcat
  <2> QED
    BY <2>1, <2>2, <1>3, <1>4
<1> HIDE DEF c
<1>6. /\ l + n \in Nat /\ k - n \in Nat /\ pos + (l + n) + (k - n) = end
      /\ \A i \in 1 .. l + n :
           i \in 1 .. l \/ \E j \in 1 .. n : i = l + j /\ j \in 1 .. k /\ pos + i = pos + l + j
      /\ \A i \in 1 .. k - n : n + i \in 1 .. k /\ pos + l + (n + i) = pos + (l + n) + i
  <2>1. ASSUME NEW i \in 1 .. l + n, i \notin 1 .. l
        PROVE  \E j \in 1 .. n : i = l + j /\ j \in 1 .. k /\ pos + i = pos + l + j
    <3>1. i - l \in 1 .. n /\ i = l + (i - l) /\ i - l \in 1 .. k /\ pos + i = pos + l + (i - l)
      BY <1>2, <2>1
    <3> QED
      BY <3>1
  <2> QED
    BY <1>2, <2>1
<1>7. \A i \in 1 .. l + n : c[i] = o[pos + i]
  <2>1. /\ \A i \in 1 .. l : b[i] = o[pos + i]
        /\ \A i \in 1 .. k : w[i] = o[pos + l + i]
    BY <1>1 DEF Held
  <2>2. ASSUME NEW i \in 1 .. l + n  PROVE c[i] = o[pos + i]
    <3>1. CASE i \in 1 .. l
      BY <1>5, <2>1, <3>1
    <3>2. CASE \E j \in 1 .. n : i = l + j /\ j \in 1 .. k /\ pos + i = pos + l + j
      <4>1. PICK j \in 1 .. n : i = l + j /\ j \in 1 .. k /\ pos + i = pos + l + j
        BY <3>2
      <4>2. c[i] = h[j] /\ h[j] = w[j] /\ w[j] = o[pos + i]
        BY <1>3, <1>5, <2>1, <4>1
      <4> QED
        BY <4>2
    <3> QED
      BY <1>6, <3>1, <3>2
  <2> QED
    BY <2>2
<1>8. \A i \in 1 .. k - n : t[i] = o[pos + (l + n) + i]
  <2>1. \A i \in 1 .. k : w[i] = o[pos + l + i]
    BY <1>1 DEF Held
  <2> QED
    BY <1>3, <1>6, <2>1
<1>9. Held(o, c, t, pos, end, l + n, k - n)
  BY <1>1, <1>3, <1>5, <1>6, <1>7, <1>8 DEF Held
<1> QED
  BY <1>9, HoldsHeld DEF c, h, t

LEMMA HoldsClose ==
  ASSUME NEW o, NEW b, NEW w, NEW pos, NEW end, Holds(o, b, w, pos, end),
         NEW n \in 0 .. Len(w)
  PROVE  \E e \in pos .. end : Holds(o, b, SubSeq(w, 1, n), pos, e)
<1>1. PICK l, k : Held(o, b, w, pos, end, l, k)
  BY HoldsHeld
<1> DEFINE h == SubSeq(w, 1, n)
<1>2. h \in Seq(Octets) /\ Len(h) = n /\ \A i \in 1 .. n : h[i] = w[i]
  BY <1>1, Cut DEF Held
<1> HIDE DEF h
<1>3. /\ n \in 0 .. k /\ l \in Nat /\ k \in Nat
      /\ pos \in Nat /\ end \in Nat /\ pos + l + k = end
  BY <1>1 DEF Held
<1>4. PICK e \in Nat : e = pos + l + n
  BY <1>3
<1>5. /\ e \in pos .. end /\ \A i \in 1 .. n : i \in 1 .. k
      /\ n \in Nat
  BY <1>3, <1>4
<1>6. e \in 0 .. Len(o)
  BY <1>1, <1>3, <1>5 DEF Held
<1>7. Held(o, b, h, pos, e, l, n)
  BY <1>1, <1>2, <1>4, <1>5, <1>6 DEF Held
<1> QED
  BY <1>5, <1>7, HoldsHeld DEF h

-----------------------------------------------------------------------------
\* Lines.

LEMMA LeastIs ==
  ASSUME NEW E, E \subseteq Int, NEW n \in E, \A j \in E : n <= j
  PROVE  (CHOOSE i \in E : \A j \in E : i <= j) = n
<1> DEFINE c == CHOOSE i \in E : \A j \in E : i <= j
<1>1. c \in E /\ \A j \in E : c <= j
  OBVIOUS
<1> HIDE DEF c
<1>2. c = n
  BY <1>1
<1> QED
  BY <1>2 DEF c

\* A line is found once its three octets are in the buffer.
LEMMA FindsLine ==
  ASSUME NEW pos, NEW end, Holds(message.octets, receive_buffer, wire, pos, end),
         NEW line, LineAt(message.octets, pos, line)
  PROVE  /\ Reader!HasLine <=> 3 <= Len(receive_buffer)
         /\ Reader!HasLine => Reader!LineLength = 1 /\ Reader!Line = <<line>>
<1> DEFINE o == message.octets
           b == receive_buffer
<1>1. PICK l, k : Held(o, b, wire, pos, end, l, k)
  BY HoldsHeld
<1>2. /\ l \in Nat /\ l = Len(b) /\ pos \in Nat /\ b \in Seq(Octets)
      /\ \A i \in 1 .. l : b[i] = o[pos + i]
  BY <1>1 DEF Held
<1>3. o[pos + 1] = line /\ o[pos + 2] = "CR" /\ o[pos + 3] = "LF"
  BY DEF LineAt
<1> HIDE DEF o, b
<1>4. Reader!LineEnds = {i \in 1 .. l - 1 : b[i] = "CR" /\ b[i + 1] = "LF"}
  BY <1>2 DEF Reader!LineEnds, b
<1>5. ASSUME NEW i \in Reader!LineEnds  PROVE i \in 2 .. l - 1
  <2>1. i \in 1 .. l - 1 /\ b[i + 1] = "LF"
    BY <1>4, <1>5
  <2>2. 2 <= l => b[2] = "CR"
    BY <1>2, <1>3
  <2>3. i # 1
    BY <1>2, <2>1, <2>2
  <2> QED
    BY <2>1, <2>3
<1>6. 3 <= l => 2 \in Reader!LineEnds
  <2>1. 3 <= l => /\ 2 \in 1 .. l - 1 /\ 2 \in 1 .. l /\ 3 \in 1 .. l /\ 2 + 1 = 3
    BY <1>2
  <2> QED
    BY <1>2, <1>3, <1>4, <2>1
<1>7. Reader!HasLine <=> 3 <= l
  BY <1>2, <1>5, <1>6 DEF Reader!HasLine
<1>8. ASSUME 3 <= l  PROVE Reader!LineLength = 1 /\ Reader!Line = <<line>>
  <2>1. Reader!LineEnds \subseteq Int /\ \A j \in Reader!LineEnds : 2 <= j
    BY <1>2, <1>5
  <2>2. (CHOOSE i \in Reader!LineEnds : \A j \in Reader!LineEnds : i <= j) = 2
    BY <1>6, <1>8, <2>1, LeastIs
  <2>3. Reader!LineLength = 1
    BY <2>2 DEF Reader!LineLength
  <2>4. 1 \in 1 .. l /\ 1 \in 0 .. Len(b)
    BY <1>2, <1>8
  <2>5. SubSeq(b, 1, 1) = <<line>>
    <3>1. /\ SubSeq(b, 1, 1) \in Seq(Octets) /\ Len(SubSeq(b, 1, 1)) = 1
          /\ SubSeq(b, 1, 1)[1] = b[1]
      BY <1>2, <2>4, Cut
    <3>2. b[1] = line /\ line \in Octets
      BY <1>2, <1>3, <2>4
    <3>3. <<line>> \in Seq(Octets) /\ Len(<<line>>) = 1 /\ <<line>>[1] = line
      BY <3>2
    <3>4. \A i \in 1 .. 1 : SubSeq(b, 1, 1)[i] = <<line>>[i]
      BY <3>1, <3>2, <3>3
    <3> QED
      BY <3>1, <3>3, <3>4, SeqEqual
  <2> QED
    BY <2>3, <2>5 DEF Reader!Line, b
<1> QED
  BY <1>2, <1>7, <1>8 DEF b

LEMMA FindsEmptyLine ==
  ASSUME NEW pos, NEW end, Holds(message.octets, receive_buffer, wire, pos, end),
         message.octets[pos + 1] = "CR", message.octets[pos + 2] = "LF"
  PROVE  /\ Reader!HasLine <=> 2 <= Len(receive_buffer)
         /\ Reader!HasLine => Reader!LineLength = 0 /\ Reader!Line = <<>>
<1> DEFINE o == message.octets
           b == receive_buffer
<1>1. PICK l, k : Held(o, b, wire, pos, end, l, k)
  BY HoldsHeld
<1>2. /\ l \in Nat /\ l = Len(b) /\ pos \in Nat /\ b \in Seq(Octets)
      /\ \A i \in 1 .. l : b[i] = o[pos + i]
      /\ o[pos + 1] = "CR" /\ o[pos + 2] = "LF"
  BY <1>1 DEF Held
<1> HIDE DEF o, b
<1>4. Reader!LineEnds = {i \in 1 .. l - 1 : b[i] = "CR" /\ b[i + 1] = "LF"}
  BY <1>2 DEF Reader!LineEnds, b
<1>5. Reader!LineEnds \subseteq 1 .. l - 1
  BY <1>4
<1>6. 2 <= l => 1 \in Reader!LineEnds
  <2>1. 2 <= l => /\ 1 \in 1 .. l - 1 /\ 1 \in 1 .. l /\ 2 \in 1 .. l /\ 1 + 1 = 2
    BY <1>2
  <2> QED
    BY <1>2, <1>4, <2>1
<1>7. Reader!HasLine <=> 2 <= l
  <2>1. ASSUME NEW i \in Reader!LineEnds  PROVE 2 <= l
    BY <1>2, <1>5, <2>1
  <2> QED
    BY <1>6, <2>1 DEF Reader!HasLine
<1>8. ASSUME 2 <= l  PROVE Reader!LineLength = 0 /\ Reader!Line = <<>>
  <2>1. Reader!LineEnds \subseteq Int /\ \A j \in Reader!LineEnds : 1 <= j
    BY <1>2, <1>5
  <2>2. (CHOOSE i \in Reader!LineEnds : \A j \in Reader!LineEnds : i <= j) = 1
    BY <1>6, <1>8, <2>1, LeastIs
  <2>3. Reader!LineLength = 0
    BY <2>2 DEF Reader!LineLength
  <2>4. SubSeq(b, 1, 0) = <<>>
    BY <1>2
  <2> QED
    BY <2>3, <2>4 DEF Reader!Line, b
<1> QED
  BY <1>2, <1>7, <1>8 DEF b

-----------------------------------------------------------------------------
\* Messages.

LEMMA MessageType ==
  ASSUME NEW m \in Messages
  PROVE  /\ m.octets \in Seq(Octets) /\ Len(m.octets) \in Nat
         /\ m.body \in Seq(Octets) /\ Len(m.body) \in Nat
         /\ Len(m.headers) \in Nat /\ HeadSize(m) = 3 * Len(m.headers) + 5
         /\ m.headers \in Seq(Range(m.headers))
         /\ HasHead(m) /\ HasBody(m)
<1>1. m.octets \in Seq(Octets) /\ m.body \in Seq(Octets) /\ m.headers \in Seq(Range(m.headers))
  BY MessagesAssumption
<1>2. Len(m.octets) \in Nat /\ Len(m.body) \in Nat /\ Len(m.headers) \in Nat
  BY <1>1
<1> QED
  BY <1>1, <1>2, MessagesAssumption DEF HeadSize

LEMMA ValueOfNone == \A m, f : ValueAfter(m, 0, f) = {}
<1>1. 1 .. 0 = {}
  OBVIOUS
<1> QED
  BY <1>1 DEF ValueAfter

\* A header with a value for f takes the place of those before.
LEMMA ValueOfNext ==
  ASSUME NEW m, NEW f, NEW i \in Nat
  PROVE  ValueAfter(m, i + 1, f) =
           IF m.headers[i + 1] \in DOMAIN f THEN {f[m.headers[i + 1]]} ELSE ValueAfter(m, i, f)
<1> DEFINE LastWith(n) == {k \in 1 .. n : /\ m.headers[k] \in DOMAIN f
                                      /\ \A l \in k + 1 .. n : m.headers[l] \notin DOMAIN f}
<1>1. CASE m.headers[i + 1] \in DOMAIN f
  <2>1. \A k \in 1 .. i : i + 1 \in k + 1 .. i + 1
    OBVIOUS
  <2>2. i + 1 \in 1 .. i + 1 /\ (i + 1) + 1 .. i + 1 = {}
    OBVIOUS
  <2>3. \A k \in 1 .. i + 1 : k \in 1 .. i \/ k = i + 1
    OBVIOUS
  <2>4. LastWith(i + 1) = {i + 1}
    BY <1>1, <2>1, <2>2, <2>3
  <2> QED
    BY <1>1, <2>4 DEF ValueAfter
<1>2. CASE m.headers[i + 1] \notin DOMAIN f
  <2>1. \A k \in 1 .. i + 1 : k \in 1 .. i \/ k = i + 1
    OBVIOUS
  <2>2. \A k \in 1 .. i : /\ k \in 1 .. i + 1
                          /\ \A l \in k + 1 .. i + 1 : l \in k + 1 .. i \/ l = i + 1
                          /\ \A l \in k + 1 .. i : l \in k + 1 .. i + 1
    OBVIOUS
  <2>3. LastWith(i + 1) = LastWith(i)
    BY <1>2, <2>1, <2>2
  <2> QED
    BY <1>2, <2>3 DEF ValueAfter
<1> QED
  BY <1>1, <1>2

LEMMA ValueOne ==
  ASSUME NEW m, NEW f, NEW i \in Nat, NEW v \in ValueAfter(m, i, f)
  PROVE  ValueAfter(m, i, f) = {v}
<1>1. ASSUME NEW j \in 1 .. i, NEW k \in 1 .. i,
             m.headers[j] \in DOMAIN f, m.headers[k] \in DOMAIN f,
             \A l \in j + 1 .. i : m.headers[l] \notin DOMAIN f,
             \A l \in k + 1 .. i : m.headers[l] \notin DOMAIN f
      PROVE  j = k
  <2>1. j < k => k \in j + 1 .. i
    OBVIOUS
  <2>2. k < j => j \in k + 1 .. i
    OBVIOUS
  <2>3. j < k \/ k < j \/ j = k
    OBVIOUS
  <2> QED
    BY <1>1, <2>1, <2>2, <2>3
<1> QED
  BY <1>1 DEF ValueAfter

-----------------------------------------------------------------------------
\* The reader's invariant.

\* i headers are read.
HeadersRead(i) ==
  /\ i \in 0 .. Len(message.headers)
  /\ code_ = message.code /\ headers_ = SubSeq(message.headers, 1, i)
  /\ content_length = LengthAfter(message, i)
  /\ transfer_encoding = CodingAfter(message, i)

AllHeaders == code_ = message.code /\ headers_ = message.headers

\* The body read so far.
Part(k) == payload_ = SubSeq(message.body, 1, k)

Chunking(n, ends) ==
  /\ n \in Nat /\ ends \in [0 .. n -> 0 .. Len(message.body)]
  /\ InChunks(message, n, ends)
  /\ AllHeaders /\ transfer_encoding = {"chunked"}

\* Where chunk j + 1 starts.
ChunkStart(ends, j) == HeadSize(message) + 5 * j + ends[j]

CutShort == eof = "eof" /\ wire = <<>>

\* What the program knows once it has taken pos octets of the end that arrive.
Place(pos, end) ==
  /\ pc = "status" => /\ pos = 0 /\ headers_ = <<>> /\ payload_ = <<>>
                      /\ content_length = {} /\ transfer_encoding = {}
  /\ pc = "header" => /\ payload_ = <<>>
                      /\ \/ \E i : HeadersRead(i) /\ pos = 3 * (i + 1)
                         \/ /\ CutShort /\ ~ Reader!HasLine
                            /\ content_length = {} /\ transfer_encoding = {}
  /\ pc = "identity" =>
       /\ payload_ = <<>> /\ transfer_encoding \in {{}, {"identity"}}
       /\ \/ /\ AllHeaders /\ content_length = {Len(message.body)}
             /\ pos = HeadSize(message) /\ DataAt(message.octets, pos, message.body)
          \/ CutShort /\ end < HeadSize(message) /\ \E n \in Nat : content_length = {n}
  /\ pc = "chunk_size" =>
       \/ /\ CutShort /\ ~ Reader!HasLine
          /\ payload_ = <<>> /\ transfer_encoding = {"chunked"}
       \/ \E n, ends : /\ Chunking(n, ends)
                       /\ \E j \in 0 .. n : pos = ChunkStart(ends, j) /\ Part(ends[j])
  /\ pc = "chunk_data" =>
       \E n, ends : /\ Chunking(n, ends)
                    /\ \E j \in 0 .. n - 1 : /\ pos = ChunkStart(ends, j) + 3 /\ Part(ends[j])
                                             /\ chunk_size = ends[j + 1] - ends[j]
                                             /\ ends[j] < ends[j + 1]
  /\ pc = "chunk_end" =>
       \E n, ends : /\ Chunking(n, ends)
                    /\ \E j \in 1 .. n : pos = ChunkStart(ends, j) - 2 /\ Part(ends[j])
                    /\ chunk_size > 0
  /\ pc = "last_line" => AllHeaders /\ payload_ = message.body
  /\ pc = "done" => \/ AllHeaders /\ payload_ = message.body
                    \/ eof = "eof" /\ transfer_encoding = {"chunked"} /\ ~ Reader!HasLine
                    \/ Reader!HeadersForBody
  /\ pc \in {"done", "failed"} => Reader!HeadersForBody \/ \E k \in 0 .. Len(message.body) : Part(k)
  /\ pc = "failed" => eof # "open"

ReaderStates == {"status", "header", "identity", "chunk_size", "chunk_data", "chunk_end",
                 "last_line", "done", "failed"}

ReaderTypes ==
  /\ pc \in ReaderStates /\ message \in Messages /\ eof \in {"open", "eof", "error"}
  /\ content_length \subseteq Nat /\ chunk_size \in Nat

Stream(pos, end) ==
  /\ Holds(message.octets, receive_buffer, wire, pos, end)
  /\ eof = "open" => end = Len(message.octets)

Reading == ReaderTypes /\ \E pos, end : Stream(pos, end) /\ Place(pos, end)

LEMMA ReadingInitially == ASSUME Reader!Init  PROVE Reading
<1>1. /\ pc = "status" /\ message \in Messages /\ wire = message.octets /\ eof = "open"
      /\ receive_buffer = <<>> /\ headers_ = <<>> /\ payload_ = <<>>
      /\ content_length = {} /\ transfer_encoding = {} /\ chunk_size = 0
  BY DEF Reader!Init
<1>2. ReaderTypes
  BY <1>1 DEF ReaderTypes, ReaderStates
<1> DEFINE n == Len(message.octets)
<1>3. n \in Nat /\ message.octets \in Seq(Octets)
  BY <1>1, MessageType
<1>4. <<>> \in Seq(Octets) /\ Len(<<>>) = 0 /\ 1 .. 0 = {}
  OBVIOUS
<1>5. \A i \in 1 .. n : 0 + 0 + i = i
  BY <1>3
<1>6. Stream(0, n)
  BY <1>1, <1>3, <1>4, <1>5 DEF Stream, Holds
<1>7. Place(0, n)
  BY <1>1 DEF Place
<1> QED
  BY <1>2, <1>6, <1>7 DEF Reading

\* What the reader's actions do to the stream.

LEMMA StreamType ==
  ASSUME NEW pos, NEW end, Stream(pos, end)
  PROVE  /\ receive_buffer \in Seq(Octets) /\ Len(receive_buffer) \in Nat
         /\ pos \in Nat /\ end \in Nat /\ end <= Len(message.octets)
         /\ pos + Len(receive_buffer) <= end
         /\ wire = <<>> => pos + Len(receive_buffer) = end
         /\ \A i \in 1 .. Len(receive_buffer) : receive_buffer[i] = message.octets[pos + i]
<1>1. PICK l, k : Held(message.octets, receive_buffer, wire, pos, end, l, k)
  BY HoldsHeld DEF Stream
<1>2. /\ receive_buffer \in Seq(Octets) /\ l = Len(receive_buffer) /\ k = Len(wire)
      /\ l \in Nat /\ k \in Nat /\ pos \in Nat /\ end \in 0 .. Len(message.octets)
      /\ Len(message.octets) \in Nat /\ pos + l + k = end
      /\ \A i \in 1 .. l : receive_buffer[i] = message.octets[pos + i]
  BY <1>1 DEF Held
<1>3. end \in Nat /\ end <= Len(message.octets) /\ pos + l <= end
  BY <1>2
<1>4. wire = <<>> => k = 0
  BY <1>2
<1>5. wire = <<>> => pos + l = end
  BY <1>2, <1>4
<1> QED
  BY <1>2, <1>3, <1>5

LEMMA StreamKept ==
  ASSUME NEW pos, NEW end, Stream(pos, end), UNCHANGED <<message, wire, eof, receive_buffer>>
  PROVE  Stream(pos, end)'
BY DEF Stream

LEMMA StreamTaken ==
  ASSUME NEW pos, NEW end, Stream(pos, end), NEW n \in 0 .. Len(receive_buffer),
         Reader!consume(n), UNCHANGED <<message, wire, eof>>
  PROVE  Stream(pos + n, end)'
<1>1. Holds(message.octets, SubSeq(receive_buffer, n + 1, Len(receive_buffer)), wire, pos + n, end)
  BY HoldsConsume DEF Stream
<1> QED
  BY <1>1 DEF Stream, Reader!consume

\* Octets that arrive, and the end of the stream, change nothing of what is read.
LEMMA PlaceKept ==
  ASSUME NEW pos, NEW end, Place(pos, end), NEW e,
         UNCHANGED <<pc, message, code_, headers_, payload_, content_length, transfer_encoding,
                     chunk_size>>,
         ~ CutShort, eof = "open" \/ (eof' = eof /\ pc \notin {"done", "failed"})
  PROVE  Place(pos, e)'
<1>1. CASE pc \in {"status", "last_line", "failed"}
  BY <1>1 DEF Place, AllHeaders
<1>2. CASE pc = "header"
  <2>1. payload_ = <<>> /\ \E i : HeadersRead(i) /\ pos = 3 * (i + 1)
    BY <1>2 DEF Place
  <2>2. \A i : HeadersRead(i) => HeadersRead(i)'
    BY DEF HeadersRead
  <2> QED
    BY <1>2, <2>1, <2>2 DEF Place
<1>3. CASE pc = "identity"
  BY <1>3 DEF Place, AllHeaders
<1>4. CASE pc \in {"chunk_size", "chunk_data", "chunk_end"}
  <2>1. \A n, ends : Chunking(n, ends) => Chunking(n, ends)'
    BY DEF Chunking, AllHeaders
  <2>2. /\ \A ends, j : ChunkStart(ends, j)' = ChunkStart(ends, j)
        /\ \A k : Part(k) => Part(k)'
    BY DEF ChunkStart, Part
  <2>3. CASE pc = "chunk_size"
    <3>1. \E n, ends : /\ Chunking(n, ends)
                       /\ \E j \in 0 .. n : pos = ChunkStart(ends, j) /\ Part(ends[j])
      BY <2>3 DEF Place
    <3> QED
      BY <2>1, <2>2, <2>3, <3>1 DEF Place
  <2>4. CASE pc = "chunk_data"
    <3>1. \E n, ends : /\ Chunking(n, ends)
                       /\ \E j \in 0 .. n - 1 : /\ pos = ChunkStart(ends, j) + 3 /\ Part(ends[j])
                                                /\ chunk_size = ends[j + 1] - ends[j]
                                                /\ ends[j] < ends[j + 1]
      BY <2>4 DEF Place
    <3> QED
      BY <2>1, <2>2, <2>4, <3>1 DEF Place
  <2>5. CASE pc = "chunk_end"
    <3>1. \E n, ends : /\ Chunking(n, ends)
                       /\ \E j \in 1 .. n : pos = ChunkStart(ends, j) - 2 /\ Part(ends[j])
                       /\ chunk_size > 0
      BY <2>5 DEF Place
    <3> QED
      BY <2>1, <2>2, <2>5, <3>1 DEF Place
  <2> QED
    BY <1>4, <2>3, <2>4, <2>5
<1>5. CASE pc = "done"
  <2>1. ~ Reader!HeadersForBody /\ AllHeaders /\ payload_ = message.body
    BY <1>5 DEF Place, Reader!HeadersForBody
  <2>2. \E k \in 0 .. Len(message.body) : Part(k)
    BY <1>5, <2>1 DEF Place
  <2>3. \E k \in 0 .. Len(message.body)' : Part(k)'
    BY <2>2 DEF Part
  <2> QED
    BY <1>5, <2>1, <2>3 DEF Place, AllHeaders
<1> QED
  <2>1. pc \notin {"status", "last_line", "failed", "header", "identity", "chunk_size",
                   "chunk_data", "chunk_end", "done"} => Place(pos, e)'
    BY DEF Place
  <2> QED
    BY <1>1, <1>2, <1>3, <1>4, <1>5, <2>1

LEMMA DeliverReads ==
  ASSUME Reading, NEW n \in 1 .. Len(wire), Reader!Deliver(n)
  PROVE  Reading'
<1>1. PICK pos, end : Stream(pos, end) /\ Place(pos, end)
  BY DEF Reading
<1>2. /\ receive_buffer' = receive_buffer \o SubSeq(wire, 1, n)
      /\ wire' = SubSeq(wire, n + 1, Len(wire))
      /\ UNCHANGED <<pc, message, eof, code_, headers_, payload_, content_length,
                     transfer_encoding, chunk_size>>
      /\ pc \notin {"done", "failed"}
  BY DEF Reader!Deliver, Reader!Blocked, Reader!ReadingLine, Reader!ReadingOctets,
         Reader!response, Reader!framing
<1>3. Stream(pos, end)'
  <2>1. Holds(message.octets, receive_buffer \o SubSeq(wire, 1, n),
              SubSeq(wire, n + 1, Len(wire)), pos, end)
    BY <1>1, HoldsDeliver DEF Stream
  <2> QED
    BY <1>1, <1>2, <2>1 DEF Stream
<1>4. ~ CutShort
  <2>1. wire # <<>>
    OBVIOUS
  <2> QED
    BY <2>1 DEF CutShort
<1>5. Place(pos, end)'
  BY <1>1, <1>2, <1>4, PlaceKept
<1>6. ReaderTypes'
  BY <1>2 DEF Reading, ReaderTypes
<1> QED
  BY <1>3, <1>5, <1>6 DEF Reading

LEMMA CloseReads ==
  ASSUME Reading, NEW how \in {"eof", "error"}, Reader!Close(how)
  PROVE  Reading'
<1>1. PICK pos, end : Stream(pos, end) /\ Place(pos, end)
  BY DEF Reading
<1>2. /\ eof = "open" /\ eof' = how
      /\ UNCHANGED <<pc, message, receive_buffer, code_, headers_, payload_, content_length,
                     transfer_encoding, chunk_size>>
  BY DEF Reader!Close, Reader!response, Reader!framing
<1>3. PICK n \in 0 .. Len(wire) : wire' = SubSeq(wire, 1, n)
  BY DEF Reader!Close
<1>4. PICK e \in pos .. end : Holds(message.octets, receive_buffer, SubSeq(wire, 1, n), pos, e)
  BY <1>1, HoldsClose DEF Stream
<1>5. Stream(pos, e)'
  BY <1>2, <1>3, <1>4 DEF Stream
<1>6. ~ CutShort
  BY <1>2 DEF CutShort
<1>7. Place(pos, e)'
  BY <1>1, <1>2, <1>6, PlaceKept
<1>8. ReaderTypes'
  BY <1>2 DEF Reading, ReaderTypes
<1> QED
  BY <1>5, <1>7, <1>8 DEF Reading

-----------------------------------------------------------------------------
\* The head of the message.

\* A line that is in the message is taken as it is.
LEMMA TakesLine ==
  ASSUME NEW pos, NEW end, Stream(pos, end), UNCHANGED <<message, wire, eof>>,
         NEW line, LineAt(message.octets, pos, line), Reader!ConsumeLine
  PROVE  Reader!Line = <<line>> /\ Stream(pos + 3, end)'
<1>1. /\ 3 <= Len(receive_buffer) /\ Reader!LineLength = 1 /\ Reader!Line = <<line>>
      /\ Reader!consume(Reader!LineLength + 2)
  BY FindsLine DEF Stream, Reader!ConsumeLine
<1>2. Reader!consume(3) /\ 3 \in 0 .. Len(receive_buffer)
  BY <1>1, StreamType
<1> QED
  BY <1>1, <1>2, StreamTaken

LEMMA TakesEmptyLine ==
  ASSUME NEW pos, NEW end, Stream(pos, end), UNCHANGED <<message, wire, eof>>,
         message.octets[pos + 1] = "CR", message.octets[pos + 2] = "LF", Reader!ConsumeLine
  PROVE  Reader!Line = <<>> /\ Stream(pos + 2, end)'
<1>1. /\ 2 <= Len(receive_buffer) /\ Reader!LineLength = 0 /\ Reader!Line = <<>>
      /\ Reader!consume(Reader!LineLength + 2)
  BY FindsEmptyLine DEF Stream, Reader!ConsumeLine
<1>2. Reader!consume(2) /\ 2 \in 0 .. Len(receive_buffer)
  BY <1>1, StreamType
<1> QED
  BY <1>1, <1>2, StreamTaken

LEMMA StatusReads == ASSUME Reading, Reader!ReadStatusLine  PROVE Reading'
<1>1. PICK pos, end : Stream(pos, end) /\ Place(pos, end)
  BY DEF Reading
<1>2. /\ pc = "status" /\ pc' = "header" /\ code_' = StatusCodes[Reader!Line[1]]
      /\ Reader!ConsumeLine
      /\ UNCHANGED <<message, wire, eof, headers_, payload_, content_length,
                     transfer_encoding, chunk_size>>
  BY DEF Reader!ReadStatusLine, Reader!framing
<1>3. /\ pos = 0 /\ headers_ = <<>> /\ payload_ = <<>>
      /\ content_length = {} /\ transfer_encoding = {}
  BY <1>1, <1>2 DEF Place
<1>4. message \in Messages
  BY DEF Reading, ReaderTypes
<1> DEFINE line == message.octets[1]
<1>5. LineAt(message.octets, 0, line) /\ message.code = StatusCodes[line]
  BY <1>4, MessageType DEF HasHead
<1>6. Reader!Line = <<line>> /\ Stream(0 + 3, end)'
  BY <1>1, <1>2, <1>3, <1>5, TakesLine
<1>7. HeadersRead(0)'
  <2>1. SubSeq(message.headers, 1, 0) = <<>> /\ Len(message.headers) \in Nat
    <3>1. message.headers \in Seq(Range(message.headers)) /\ Len(message.headers) \in Nat
      BY <1>4, MessageType
    <3> QED
      BY <3>1
  <2>2. LengthAfter(message, 0) = {} /\ CodingAfter(message, 0) = {}
    BY ValueOfNone DEF LengthAfter, CodingAfter
  <2>3. 0 \in 0 .. Len(message.headers)
    BY <2>1
  <2>4. code_' = message.code
    BY <1>2, <1>5, <1>6
  <2> QED
    BY <1>2, <1>3, <2>1, <2>2, <2>3, <2>4 DEF HeadersRead
<1>8. Place(3, end)'
  <2>1. 3 = 3 * (0 + 1)
    OBVIOUS
  <2> QED
    BY <1>2, <1>3, <1>7, <2>1 DEF Place
<1>9. ReaderTypes'
  BY <1>2 DEF Reading, ReaderTypes, ReaderStates
<1> QED
  BY <1>6, <1>8, <1>9 DEF Reading

\* What the end of the stream means to a read that is not satisfied.
LEMMA EndOfStream ==
  ASSUME Reader!AtEof, pc \in {"status", "header", "chunk_size", "last_line"}
  PROVE  CutShort /\ ~ Reader!HasLine
BY DEF Reader!AtEof, Reader!Blocked, Reader!ReadingOctets, CutShort

\* A part of the body is what has been read, unless headers pass for it.
LEMMA PartRead ==
  ASSUME Reading
  PROVE  Reader!HeadersForBody \/ \E k \in 0 .. Len(message.body) : Part(k)
<1>1. PICK pos, end : Stream(pos, end) /\ Place(pos, end)
  BY DEF Reading
<1>2. message \in Messages /\ pc \in ReaderStates
  BY DEF Reading, ReaderTypes
<1>3. message.body \in Seq(Octets) /\ Len(message.body) \in Nat
  BY <1>2, MessageType
<1>4. payload_ = <<>> => Part(0) /\ 0 \in 0 .. Len(message.body)
  BY <1>3 DEF Part
<1>5. payload_ = message.body => Part(Len(message.body)) /\ Len(message.body) \in 0 .. Len(message.body)
  BY <1>3 DEF Part
<1>6. ASSUME NEW n, NEW ends, Chunking(n, ends), NEW j \in 0 .. n, Part(ends[j])
      PROVE  \E k \in 0 .. Len(message.body) : Part(k)
  BY <1>6 DEF Chunking
<1>7. CASE pc \in {"status", "header", "identity", "last_line"}
  BY <1>1, <1>4, <1>5, <1>7 DEF Place
<1>8. CASE pc = "chunk_size"
  BY <1>1, <1>4, <1>6, <1>8 DEF Place
<1>9. CASE pc = "chunk_data"
  <2>1. PICK n, ends : /\ Chunking(n, ends)
                       /\ \E j \in 0 .. n - 1 : Part(ends[j])
    BY <1>1, <1>9 DEF Place
  <2>2. \A j \in 0 .. n - 1 : j \in 0 .. n
    BY <2>1 DEF Chunking
  <2> QED
    BY <1>6, <2>1, <2>2
<1>10. CASE pc = "chunk_end"
  <2>1. PICK n, ends : /\ Chunking(n, ends)
                       /\ \E j \in 1 .. n : Part(ends[j])
    BY <1>1, <1>10 DEF Place
  <2>2. \A j \in 1 .. n : j \in 0 .. n
    BY <2>1 DEF Chunking
  <2> QED
    BY <1>6, <2>1, <2>2
<1>11. CASE pc \in {"done", "failed"}
  BY <1>1, <1>11 DEF Place
<1> QED
  BY <1>2, <1>7, <1>8, <1>9, <1>10, <1>11 DEF ReaderStates

LEMMA FailedReads ==
  ASSUME Reading, pc \notin {"done", "failed"}, eof # "open", pc' = "failed",
         UNCHANGED <<message, wire, eof, receive_buffer, code_, headers_, payload_,
                     content_length, transfer_encoding, chunk_size>>
  PROVE  Reading'
<1>1. PICK pos, end : Stream(pos, end) /\ Place(pos, end)
  BY DEF Reading
<1>2. Stream(pos, end)'
  BY <1>1, StreamKept
<1>3. ~ Reader!HeadersForBody
  BY DEF Reader!HeadersForBody
<1>4. \E k \in 0 .. Len(message.body) : Part(k)
  BY <1>3, PartRead
<1>5. Place(pos, end)'
  BY <1>4 DEF Place, Part
<1>6. ReaderTypes'
  BY DEF Reading, ReaderTypes, ReaderStates
<1> QED
  BY <1>2, <1>5, <1>6 DEF Reading

LEMMA NoStatusReads == ASSUME Reading, Reader!NoStatusLine  PROVE Reading'
<1>1. pc = "status" /\ CutShort /\ ~ Reader!HasLine
  BY EndOfStream DEF Reader!NoStatusLine
<1>2. CASE Reader!Throw
  BY <1>1, <1>2, FailedReads DEF CutShort, Reader!Throw, Reader!response, Reader!framing
<1>3. CASE /\ pc' = "header"
           /\ UNCHANGED <<message, wire, eof, receive_buffer, code_, headers_, payload_,
                          content_length, transfer_encoding, chunk_size>>
  <2>1. PICK pos, end : Stream(pos, end) /\ Place(pos, end)
    BY DEF Reading
  <2>2. Stream(pos, end)'
    BY <1>3, <2>1, StreamKept
  <2>3. CutShort' /\ ~ Reader!HasLine'
    BY <1>1, <1>3 DEF CutShort, Reader!HasLine, Reader!LineEnds
  <2>4. payload_ = <<>> /\ content_length = {} /\ transfer_encoding = {}
    BY <1>1, <2>1 DEF Place
  <2>5. Place(pos, end)'
    BY <1>3, <2>3, <2>4 DEF Place
  <2>6. ReaderTypes'
    BY <1>3 DEF Reading, ReaderTypes, ReaderStates
  <2> QED
    BY <2>2, <2>5, <2>6 DEF Reading
<1> QED
  BY <1>2, <1>3 DEF Reader!NoStatusLine, Reader!response, Reader!framing

LEMMA OneMore ==
  ASSUME NEW S, NEW q \in Seq(S), NEW i \in 0 .. Len(q) - 1
  PROVE  Append(SubSeq(q, 1, i), q[i + 1]) = SubSeq(q, 1, i + 1)
<1> DEFINE s == SubSeq(q, 1, i)
           t == SubSeq(q, 1, i + 1)
           a == Append(s, q[i + 1])
<1>1. Len(q) \in Nat /\ i \in 0 .. Len(q) /\ i + 1 \in 0 .. Len(q) /\ i + 1 \in 1 .. Len(q)
  OBVIOUS
<1>2. s \in Seq(S) /\ Len(s) = i /\ \A j \in 1 .. i : s[j] = q[j]
  BY <1>1, Cut
<1>3. t \in Seq(S) /\ Len(t) = i + 1 /\ \A j \in 1 .. i + 1 : t[j] = q[j]
  BY <1>1, Cut
<1> HIDE DEF s, t
<1>4. q[i + 1] \in S
  BY <1>1
<1>5. /\ a \in Seq(S) /\ Len(a) = i + 1 /\ a[i + 1] = q[i + 1]
      /\ \A j \in 1 .. i : a[j] = s[j]
  BY <1>2, <1>4
<1> HIDE DEF a
<1>6. \A j \in 1 .. i + 1 : j \in 1 .. i \/ j = i + 1
  OBVIOUS
<1>7. \A j \in 1 .. i + 1 : a[j] = t[j]
  BY <1>2, <1>3, <1>5, <1>6
<1>8. a = t
  BY <1>3, <1>5, <1>7, SeqEqual
<1> QED
  BY <1>8 DEF a, s, t

\* One more header.
LEMMA HeaderReads ==
  ASSUME Reading, Reader!ReadHeader, NEW pos, NEW end, Stream(pos, end), Place(pos, end),
         NEW i, HeadersRead(i), pos = 3 * (i + 1), i < Len(message.headers)
  PROVE  Reading'
<1> DEFINE h == message.headers[i + 1]
<1>1. /\ pc = "header" /\ Reader!ConsumeLine
      /\ UNCHANGED <<message, wire, eof, code_, payload_, chunk_size>>
  BY DEF Reader!ReadHeader
<1>2. message \in Messages
  BY DEF Reading, ReaderTypes
<1>3. /\ Len(message.headers) \in Nat /\ message.headers \in Seq(Range(message.headers))
      /\ HasHead(message)
  BY <1>2, MessageType
<1>4. /\ i \in Nat /\ i + 1 \in 1 .. Len(message.headers)
      /\ i \in 0 .. Len(message.headers) - 1 /\ i + 1 \in 0 .. Len(message.headers)
  BY <1>3 DEF HeadersRead
<1>5. /\ LineAt(message.octets, pos, h)
      /\ h \in DOMAIN ContentLengths \cup DOMAIN TransferEncodings \cup OtherHeaders
  BY <1>3, <1>4 DEF HasHead
<1>6. Reader!Line = <<h>> /\ Stream(pos + 3, end)'
  BY <1>1, <1>5, TakesLine
<1> HIDE DEF h
<1>7. Reader!Line # <<>> /\ Reader!Line[1] = h
  BY <1>6
<1>8. /\ headers_' = Append(headers_, h) /\ pc' = "header"
      /\ content_length' = IF h \in DOMAIN ContentLengths
                             THEN {ContentLengths[h]} ELSE content_length
      /\ transfer_encoding' = IF h \in DOMAIN TransferEncodings
                                THEN {TransferEncodings[h]} ELSE transfer_encoding
  BY <1>1, <1>5, <1>7 DEF Reader!ReadHeader
<1>9. HeadersRead(i + 1)'
  <2>1. headers_' = SubSeq(message.headers, 1, i + 1)
    BY <1>3, <1>4, <1>8, OneMore DEF HeadersRead, h
  <2>2. /\ content_length' = LengthAfter(message, i + 1)
        /\ transfer_encoding' = CodingAfter(message, i + 1)
    BY <1>4, <1>8, ValueOfNext DEF HeadersRead, LengthAfter, CodingAfter, h
  <2> QED
    BY <1>1, <1>4, <2>1, <2>2 DEF HeadersRead
<1>10. Place(pos + 3, end)'
  <2>1. pos + 3 = 3 * ((i + 1) + 1)
    BY <1>4
  <2>2. payload_ = <<>>
    BY <1>1 DEF Place
  <2> QED
    BY <1>1, <1>8, <1>9, <2>1, <2>2 DEF Place
<1>11. ReaderTypes'
  <2>1. content_length' \subseteq Nat
    BY <1>8, SizesAssumption DEF Reading, ReaderTypes
  <2> QED
    BY <1>1, <1>8, <2>1 DEF Reading, ReaderTypes, ReaderStates
<1> QED
  BY <1>6, <1>10, <1>11 DEF Reading

\* The empty line behind the headers.
LEMMA HeadReads ==
  ASSUME Reading, Reader!ReadHeader, NEW pos, NEW end, Stream(pos, end), Place(pos, end),
         HeadersRead(Len(message.headers)), pos = 3 * (Len(message.headers) + 1)
  PROVE  Reading'
<1>1. /\ pc = "header" /\ Reader!ConsumeLine
      /\ UNCHANGED <<message, wire, eof, code_, payload_, chunk_size>>
  BY DEF Reader!ReadHeader
<1>2. message \in Messages /\ payload_ = <<>>
  BY <1>1 DEF Reading, ReaderTypes, Place
<1> DEFINE k == Len(message.headers)
<1>3. /\ k \in Nat /\ message.headers \in Seq(Range(message.headers))
      /\ message.body \in Seq(Octets) /\ Len(message.body) \in Nat
      /\ HeadSize(message) = 3 * k + 5 /\ HasHead(message) /\ HasBody(message)
  BY <1>2, MessageType
<1>4. pos + 2 = HeadSize(message) /\ HeadSize(message) - 2 = pos /\ pos \in Nat
  BY <1>3
<1>5. message.octets[pos + 1] = "CR" /\ message.octets[pos + 2] = "LF"
  <2>1. DataAt(message.octets, pos, <<"CR", "LF">>)
    BY <1>3, <1>4 DEF HasHead
  <2>2. Len(<<"CR", "LF">>) = 2 /\ <<"CR", "LF">>[1] = "CR" /\ <<"CR", "LF">>[2] = "LF"
    OBVIOUS
  <2> QED
    BY <2>1, <2>2 DEF DataAt
<1>6. Reader!Line = <<>> /\ Stream(pos + 2, end)'
  BY <1>1, <1>5, TakesEmptyLine
<1>7. /\ pc' = Reader!PayloadState
      /\ UNCHANGED <<headers_, content_length, transfer_encoding>>
  BY <1>1, <1>6 DEF Reader!ReadHeader
<1>8. /\ AllHeaders /\ AllHeaders'
      /\ content_length = LengthAfter(message, k) /\ transfer_encoding = CodingAfter(message, k)
  <2>1. SubSeq(message.headers, 1, k) = message.headers
    BY <1>3
  <2> QED
    BY <1>1, <1>7, <2>1 DEF HeadersRead, AllHeaders
<1>9. CASE transfer_encoding = {"chunked"}
  <2>1. pc' = "chunk_size"
    <3>1. "chunked" # "identity" /\ transfer_encoding # {} /\ transfer_encoding # {"identity"}
      BY <1>9
    <3> QED
      BY <1>7, <1>9, <3>1 DEF Reader!PayloadState
  <2>2. PICK n, ends : /\ n \in Nat /\ ends \in [0 .. n -> 0 .. Len(message.body)]
                       /\ InChunks(message, n, ends)
    <3>1. \E n \in 0 .. Len(message.body) : \E ends \in [0 .. n -> 0 .. Len(message.body)] :
            InChunks(message, n, ends)
      BY <1>3, <1>8, <1>9 DEF HasBody
    <3>2. 0 .. Len(message.body) \subseteq Nat
      BY <1>3
    <3> QED
      BY <3>1, <3>2, Zenon
  <2>3. Chunking(n, ends)'
    BY <1>1, <1>7, <1>8, <1>9, <2>2 DEF Chunking
  <2>4. 0 \in 0 .. n /\ ends[0] = 0
    BY <2>2 DEF InChunks
  <2>5. pos + 2 = ChunkStart(ends, 0)'
    BY <1>1, <1>3, <1>4, <2>4 DEF ChunkStart
  <2>6. Part(0)'
    <3>1. SubSeq(message.body, 1, 0) = <<>>
      BY <1>3
    <3> QED
      BY <1>1, <1>2, <3>1 DEF Part
  <2>7. Place(pos + 2, end)'
    BY <2>1, <2>3, <2>4, <2>5, <2>6 DEF Place
  <2>8. ReaderTypes'
    BY <1>1, <1>7, <2>1 DEF Reading, ReaderTypes, ReaderStates
  <2> QED
    BY <1>6, <2>7, <2>8 DEF Reading
<1>10. CASE transfer_encoding # {"chunked"}
  <2>1. /\ transfer_encoding \in {{}, {"identity"}} /\ content_length = {Len(message.body)}
        /\ DataAt(message.octets, HeadSize(message), message.body)
    BY <1>3, <1>8, <1>10 DEF HasBody
  <2>2. pc' = "identity"
    BY <1>7, <2>1 DEF Reader!PayloadState
  <2>3. Place(pos + 2, end)'
    BY <1>1, <1>2, <1>4, <1>7, <1>8, <2>1, <2>2 DEF Place
  <2>4. ReaderTypes'
    BY <1>1, <1>7, <2>2 DEF Reading, ReaderTypes, ReaderStates
  <2> QED
    BY <1>6, <2>3, <2>4 DEF Reading
<1> QED
  BY <1>9, <1>10

LEMMA HeaderLineReads == ASSUME Reading, Reader!ReadHeader  PROVE Reading'
<1>1. PICK pos, end : Stream(pos, end) /\ Place(pos, end)
  BY DEF Reading
<1>2. pc = "header" /\ Reader!HasLine
  BY DEF Reader!ReadHeader, Reader!ConsumeLine
<1>3. PICK i : HeadersRead(i) /\ pos = 3 * (i + 1)
  BY <1>1, <1>2 DEF Place
<1>4. i < Len(message.headers) \/ i = Len(message.headers)
  <2>1. Len(message.headers) \in Nat
    BY MessageType DEF Reading, ReaderTypes
  <2> QED
    BY <1>3, <2>1 DEF HeadersRead
<1> QED
  BY <1>1, <1>3, <1>4, HeaderReads, HeadReads

-----------------------------------------------------------------------------
\* The body.

LEMMA SuffixOf ==
  ASSUME NEW S, NEW s \in Seq(S), NEW t \in Seq(S), NEW pos \in Nat, pos + Len(s) = Len(t),
         \A i \in 1 .. Len(s) : s[i] = t[pos + i]
  PROVE  Reader!IsSuffix(s, t)
<1>1. PICK k \in Nat, l \in Nat : k = Len(s) /\ l = Len(t)
  OBVIOUS
<1> DEFINE a == [i \in 1 .. k |-> s[(k - i) + 1]]
           b == [i \in 1 .. l |-> t[(l - i) + 1]]
<1>2. a \in Seq(S) /\ Len(a) = k /\ \A i \in 1 .. k : a[i] = s[(k - i) + 1]
  <2>1. \A i \in 1 .. k : (k - i) + 1 \in 1 .. k
    OBVIOUS
  <2> QED
    BY <1>1, <2>1
<1>3. b \in Seq(S) /\ Len(b) = l /\ \A i \in 1 .. l : b[i] = t[(l - i) + 1]
  <2>1. \A i \in 1 .. l : (l - i) + 1 \in 1 .. l
    OBVIOUS
  <2> QED
    BY <1>1, <2>1
<1>4. a = Reader!Reverse(s) /\ b = Reader!Reverse(t)
  BY <1>1 DEF Reader!Reverse
<1> HIDE DEF a, b
<1>5. pos + k = l
  BY <1>1
<1>6. \A i \in 1 .. k : /\ i \in 1 .. l /\ (k - i) + 1 \in 1 .. k
                        /\ pos + ((k - i) + 1) = (l - i) + 1
  BY <1>5
<1>7. ASSUME NEW i \in 1 .. k  PROVE a[i] = b[i]
  <2>1. a[i] = s[(k - i) + 1] /\ b[i] = t[(l - i) + 1]
    BY <1>2, <1>3, <1>6
  <2>2. s[(k - i) + 1] = t[pos + ((k - i) + 1)]
    BY <1>1, <1>6
  <2> QED
    BY <1>6, <2>1, <2>2
<1>8. SubSeq(a, 1, k) = SubSeq(b, 1, k)
  <2>1. k \in 0 .. Len(a) /\ k \in 0 .. Len(b)
    BY <1>2, <1>3, <1>5
  <2>2. /\ SubSeq(a, 1, k) \in Seq(S) /\ Len(SubSeq(a, 1, k)) = k
        /\ \A i \in 1 .. k : SubSeq(a, 1, k)[i] = a[i]
    BY <1>2, <2>1, Cut
  <2>3. /\ SubSeq(b, 1, k) \in Seq(S) /\ Len(SubSeq(b, 1, k)) = k
        /\ \A i \in 1 .. k : SubSeq(b, 1, k)[i] = b[i]
    BY <1>3, <2>1, Cut
  <2>4. \A i \in 1 .. k : SubSeq(a, 1, k)[i] = SubSeq(b, 1, k)[i]
    BY <1>7, <2>2, <2>3
  <2> QED
    BY <2>2, <2>3, <2>4, SeqEqual
<1>9. k <= l
  BY <1>5
<1> QED
  BY <1>2, <1>3, <1>4, <1>8, <1>9 DEF Reader!IsSuffix, Reader!IsPrefix

LEMMA Parts ==
  ASSUME NEW S, NEW q \in Seq(S), NEW n \in 0 .. Len(q)
  PROVE  SubSeq(q, 1, n) \o SubSeq(q, n + 1, Len(q)) = q
<1>1. /\ 1 \in 1 .. Len(q) + 1 /\ n \in 1 - 1 .. Len(q) /\ Len(q) \in n .. Len(q)
  OBVIOUS
<1>2. SubSeq(q, 1, n) \o SubSeq(q, n + 1, Len(q)) = SubSeq(q, 1, Len(q))
  BY <1>1, ConcatAdjacentSubSeq
<1> QED
  BY <1>2, SubSeqFull

\* Before the end of the head there is no empty line.
LEMMA NoEmptyLine ==
  ASSUME NEW m \in Messages, NEW n \in Nat, n < HeadSize(m), n <= Len(m.octets),
         NEW i \in 1 .. n - 3
  PROVE  SubSeq(m.octets, i, i + 3) # <<"CR", "LF", "CR", "LF">>
<1> DEFINE k == Len(m.headers)
           o == m.octets
<1>1. /\ k \in Nat /\ HeadSize(m) = 3 * k + 5 /\ HasHead(m)
      /\ o \in Seq(Octets) /\ Len(o) \in Nat
  BY MessageType
<1>2. ASSUME NEW j \in 0 .. k  PROVE o[3 * j + 2] = "CR" /\ o[3 * j + 3] = "LF"
  <2>1. CASE j = 0
    <3>1. LineAt(o, 0, o[1])
      BY <1>1 DEF HasHead
    <3>2. 3 * j + 2 = 0 + 2 /\ 3 * j + 3 = 0 + 3
      BY <2>1
    <3> QED
      BY <3>1, <3>2 DEF LineAt
  <2>2. CASE j \in 1 .. k
    BY <1>1, <2>2 DEF HasHead, LineAt
  <2> QED
    BY <1>1, <2>1, <2>2
<1> HIDE DEF o, k
<1>3. SUFFICES ASSUME o[i] = "CR", o[i + 1] = "LF", o[i + 3] = "LF"  PROVE FALSE
  <2>1. i \in Nat /\ 1 <= i /\ i + 3 <= Len(o) /\ i + 3 \in Nat
    BY <1>1 DEF o
  <2> DEFINE s == SubSeq(o, i, i + 3)
  <2>2. Len(s) = 4 /\ s[1] = o[i] /\ s[2] = o[i + 1] /\ s[4] = o[i + 3]
    <3>1. \A j \in 1 .. 4 : s[j] = o[i + j - 1]
      BY <1>1, <2>1
    <3>2. Len(s) = 4
      BY <1>1, <2>1
    <3>3. 1 \in 1 .. 4 /\ 2 \in 1 .. 4 /\ 4 \in 1 .. 4 /\ i + 1 - 1 = i /\ i + 2 - 1 = i + 1
          /\ i + 4 - 1 = i + 3
      BY <2>1
    <3> QED
      BY <3>1, <3>2, <3>3
  <2> HIDE DEF s
  <2>3. s = <<"CR", "LF", "CR", "LF">> => s[1] = "CR" /\ s[2] = "LF" /\ s[4] = "LF"
    OBVIOUS
  <2> QED
    BY <1>3, <2>2, <2>3 DEF s, o
<1>4. i \in Nat \ {0} /\ i <= 3 * k + 1
  BY <1>1
<1>5. PICK j \in Nat : i = 3 * j + 1 \/ i = 3 * j + 2 \/ i = 3 * j + 3
  <2>1. (i - 1) \div 3 \in Nat
    BY <1>4
  <2>2. \/ i = 3 * ((i - 1) \div 3) + 1 \/ i = 3 * ((i - 1) \div 3) + 2
        \/ i = 3 * ((i - 1) \div 3) + 3
    BY <1>4
  <2> QED
    BY <2>1, <2>2
<1>6. CASE i = 3 * j + 1
  <2>1. j \in 0 .. k /\ i + 1 = 3 * j + 2
    BY <1>1, <1>4, <1>6
  <2> QED
    BY <1>2, <1>3, <2>1
<1>7. CASE i = 3 * j + 2
  <2>1. j + 1 \in 0 .. k /\ i + 3 = 3 * (j + 1) + 2
    BY <1>1, <1>4, <1>7
  <2> QED
    BY <1>2, <1>3, <2>1
<1>8. CASE i = 3 * j + 3
  <2>1. j \in 0 .. k
    BY <1>1, <1>4, <1>8
  <2> QED
    BY <1>2, <1>3, <1>8, <2>1
<1> QED
  BY <1>5, <1>6, <1>7, <1>8

\* The stream ended in the header section.
LEMMA HeadCutShort ==
  ASSUME Reading, NEW pos, NEW end, Stream(pos, end), CutShort, ~ Reader!HasLine,
         NEW i, HeadersRead(i), pos = 3 * (i + 1)
  PROVE  end < HeadSize(message)
<1> DEFINE k == Len(message.headers)
           l == Len(receive_buffer)
<1>1. /\ k \in Nat /\ HeadSize(message) = 3 * k + 5 /\ HasHead(message)
  BY MessageType DEF Reading, ReaderTypes
<1>2. i \in 0 .. k /\ l \in Nat /\ pos + l = end /\ pos \in Nat
  BY StreamType DEF HeadersRead, CutShort
<1>3. CASE i = k
  <2>1. DataAt(message.octets, HeadSize(message) - 2, <<"CR", "LF">>)
    BY <1>1 DEF HasHead
  <2>2. HeadSize(message) - 2 = pos
    BY <1>1, <1>2, <1>3
  <2>3. Len(<<"CR", "LF">>) = 2 /\ <<"CR", "LF">>[1] = "CR" /\ <<"CR", "LF">>[2] = "LF"
    OBVIOUS
  <2>4. message.octets[pos + 1] = "CR" /\ message.octets[pos + 2] = "LF"
    BY <2>1, <2>2, <2>3 DEF DataAt
  <2>5. ~ (2 <= l)
    BY <2>4, FindsEmptyLine DEF Stream
  <2> QED
    BY <1>1, <1>2, <1>3, <2>5
<1>4. CASE i # k
  <2>1. i + 1 \in 1 .. k
    BY <1>1, <1>2, <1>4
  <2>2. LineAt(message.octets, pos, message.headers[i + 1])
    BY <1>1, <2>1 DEF HasHead
  <2>3. ~ (3 <= l)
    BY <2>2, FindsLine DEF Stream
  <2> QED
    BY <1>1, <1>2, <2>1, <2>3
<1> QED
  BY <1>3, <1>4

LEMMA HeadersCutShortReads == ASSUME Reading, Reader!HeadersCutShort  PROVE Reading'
<1>1. PICK pos, end : Stream(pos, end) /\ Place(pos, end)
  BY DEF Reading
<1>2. /\ pc = "header" /\ pc' = Reader!PayloadState /\ CutShort /\ ~ Reader!HasLine
      /\ UNCHANGED <<message, wire, eof, receive_buffer, code_, headers_, payload_,
                     content_length, transfer_encoding, chunk_size>>
  BY EndOfStream DEF Reader!HeadersCutShort, Reader!response, Reader!framing
<1>3. Stream(pos, end)'
  BY <1>1, <1>2, StreamKept
<1>4. payload_ = <<>>
  BY <1>1, <1>2 DEF Place
<1>5. CASE Reader!PayloadState = "identity"
  <2>1. transfer_encoding \in {{}, {"identity"}} /\ content_length # {}
    BY <1>5 DEF Reader!PayloadState
  <2>2. PICK i : HeadersRead(i) /\ pos = 3 * (i + 1)
    BY <1>1, <1>2, <2>1 DEF Place
  <2>3. end < HeadSize(message)
    BY <1>1, <1>2, <2>2, HeadCutShort
  <2>4. PICK n : n \in content_length
    BY <2>1
  <2>5. n \in Nat /\ content_length = {n}
    <3>1. i \in Nat /\ content_length = ValueAfter(message, i, ContentLengths)
      BY <2>2 DEF HeadersRead, LengthAfter
    <3>2. n \in Nat
      BY <2>4 DEF Reading, ReaderTypes
    <3> QED
      BY <2>4, <3>1, <3>2, ValueOne
  <2>6. CutShort' /\ end < HeadSize(message)'
    BY <1>2, <2>3 DEF CutShort
  <2>7. Place(pos, end)'
    BY <1>2, <1>4, <1>5, <2>1, <2>5, <2>6 DEF Place
  <2>8. ReaderTypes'
    BY <1>2, <1>5 DEF Reading, ReaderTypes, ReaderStates
  <2> QED
    BY <1>3, <2>7, <2>8 DEF Reading
<1>6. CASE Reader!PayloadState = "chunk_size"
  <2>1. transfer_encoding = {"chunked"}
    BY <1>6 DEF Reader!PayloadState
  <2>2. CutShort' /\ ~ Reader!HasLine'
    BY <1>2 DEF CutShort, Reader!HasLine, Reader!LineEnds
  <2>3. Place(pos, end)'
    BY <1>2, <1>4, <1>6, <2>1, <2>2 DEF Place
  <2>4. ReaderTypes'
    BY <1>2, <1>6 DEF Reading, ReaderTypes, ReaderStates
  <2> QED
    BY <1>3, <2>3, <2>4 DEF Reading
<1>7. CASE Reader!PayloadState = "failed"
  <2>1. eof # "open"
    BY <1>2 DEF CutShort
  <2> QED
    BY <1>2, <1>7, <2>1, FailedReads
<1> QED
  BY <1>5, <1>6, <1>7 DEF Reader!PayloadState

LEMMA IdentityReads == ASSUME Reading, Reader!ReadIdentity  PROVE Reading'
<1>1. PICK pos, end : Stream(pos, end) /\ Place(pos, end)
  BY DEF Reading
<1> DEFINE b == receive_buffer
<1>a. PICK n : n = Reader!Wanted
  OBVIOUS
<1>2. /\ pc = "identity" /\ pc' = "done" /\ Reader!Filled(n)
      /\ payload_' = SubSeq(b, 1, n) /\ Reader!consume(n)
      /\ UNCHANGED <<message, wire, eof, code_, headers_, content_length,
                     transfer_encoding, chunk_size>>
  BY <1>a DEF Reader!ReadIdentity, Reader!framing
<1>3. message \in Messages
  BY DEF Reading, ReaderTypes
<1>4. /\ message.body \in Seq(Octets) /\ Len(message.body) \in Nat
      /\ message.octets \in Seq(Octets) /\ Len(message.octets) \in Nat
  BY <1>3, MessageType
<1>5. \A k : content_length = {k} => n = k
  BY <1>a, <1>2 DEF Reader!Wanted
<1>6. n \in Nat /\ content_length = {n} /\ transfer_encoding \in {{}, {"identity"}}
  BY <1>1, <1>2, <1>4, <1>5 DEF Place
<1>7. /\ b \in Seq(Octets) /\ Len(b) \in Nat /\ pos \in Nat /\ end \in Nat
      /\ n <= Len(b) /\ n \in 0 .. Len(b) /\ end <= Len(message.octets)
      /\ wire = <<>> => pos + Len(b) = end
      /\ \A i \in 1 .. Len(b) : b[i] = message.octets[pos + i]
  BY <1>1, <1>2, <1>6, StreamType DEF Reader!Filled
<1>8. Stream(pos + n, end)'
  <2>1. Stream(pos, end) /\ n \in 0 .. Len(receive_buffer) /\ Reader!consume(n)
        /\ UNCHANGED <<message, wire, eof>>
    BY <1>1, <1>2, <1>7
  <2> QED
    BY <2>1, StreamTaken
<1>9. payload_' \in Seq(Octets) /\ Len(payload_') = n /\ \A i \in 1 .. n : payload_'[i] = b[i]
  BY <1>2, <1>7, Cut
<1>10. ReaderTypes'
  BY <1>2 DEF Reading, ReaderTypes, ReaderStates
<1>11. ASSUME AllHeaders, content_length = {Len(message.body)}, pos = HeadSize(message),
              DataAt(message.octets, pos, message.body)
       PROVE  Place(pos + n, end)'
  <2>1. n = Len(message.body)
    BY <1>5, <1>11
  <2>2. \A i \in 1 .. n : payload_'[i] = message.body[i]
    BY <1>7, <1>9, <1>11, <2>1, SMTT(30) DEF DataAt
  <2>3. payload_' = message.body
    BY <1>4, <1>9, <2>1, <2>2, SeqEqual
  <2>4. AllHeaders'
    BY <1>2, <1>11 DEF AllHeaders
  <2>5. n \in 0 .. Len(message.body) /\ payload_' = SubSeq(message.body, 1, n)
    BY <1>4, <1>6, <2>1, <2>3
  <2>6. \E k \in 0 .. Len(message.body)' : Part(k)'
    BY <1>2, <2>5 DEF Part
  <2> QED
    BY <1>2, <2>3, <2>4, <2>6 DEF Place
<1>12. ASSUME CutShort, end < HeadSize(message)
       PROVE  Place(pos + n, end)'
  <2> DEFINE s == SubSeq(message.octets, 1, end)
  <2>1. s \in Seq(Octets) /\ Len(s) = end /\ \A i \in 1 .. end : s[i] = message.octets[i]
    BY <1>4, <1>7, Cut
  <2>2. pos + Len(b) = end
    BY <1>7, <1>12 DEF CutShort
  <2>3. \A i \in 1 .. Len(b) : b[i] = s[pos + i]
    <3>1. \A i \in 1 .. Len(b) : pos + i \in 1 .. end
      BY <1>7, <2>2
    <3> QED
      BY <1>7, <2>1, <3>1
  <2>4. Reader!IsSuffix(b, s)
    BY <1>7, <2>1, <2>2, <2>3, SuffixOf
  <2>5. payload_' \o receive_buffer' = b
    BY <1>2, <1>7, Parts DEF Reader!consume
  <2>6. \A i \in 1 .. end - 3 :
          SubSeq(message.octets, i, i + 3) # <<"CR", "LF", "CR", "LF">>
    BY <1>3, <1>7, <1>12, NoEmptyLine
  <2>7. end \in 0 .. Len(message.octets)
    BY <1>4, <1>7
  <2>8. eof = "eof"
    BY <1>12 DEF CutShort
  <2>9. Reader!HeadersForBody'
    <3>1. /\ message' = message /\ pc' = "done" /\ eof' = "eof"
          /\ content_length' = {Len(payload_')} /\ transfer_encoding' \in {{}, {"identity"}}
      BY <1>2, <1>6, <1>9, <2>8
    <3>2. Reader!IsSuffix(payload_' \o receive_buffer', SubSeq(message.octets, 1, end))
      BY <2>4, <2>5
    <3> QED
      BY <2>6, <2>7, <3>1, <3>2, Zenon DEF Reader!HeadersForBody
  <2> QED
    BY <1>2, <2>9 DEF Place
<1>13. Place(pos + n, end)'
  BY <1>1, <1>2, <1>11, <1>12 DEF Place
<1> QED
  BY <1>8, <1>10, <1>13 DEF Reading

LEMMA ChunkSizeReads == ASSUME Reading, Reader!ReadChunkSize  PROVE Reading'
<1>1. PICK pos, end : Stream(pos, end) /\ Place(pos, end)
  BY DEF Reading
<1>2. /\ pc = "chunk_size" /\ Reader!ConsumeLine /\ Reader!HasLine
      /\ UNCHANGED <<message, wire, eof, code_, headers_, payload_, content_length,
                     transfer_encoding>>
  BY DEF Reader!ReadChunkSize, Reader!ConsumeLine, Reader!response
<1>3. PICK n, ends, j : /\ Chunking(n, ends) /\ j \in 0 .. n
                        /\ pos = ChunkStart(ends, j) /\ Part(ends[j])
  BY <1>1, <1>2 DEF Place
<1> DEFINE line == message.octets[pos + 1]
<1>4. /\ LineAt(message.octets, pos, line) /\ line \in DOMAIN ChunkSizes
      /\ j = n => ChunkSizes[line] = 0
      /\ j # n => ends[j] < ends[j + 1] /\ ChunkSizes[line] = ends[j + 1] - ends[j]
  BY <1>3 DEF Chunking, InChunks, ChunkStart
<1>5. Reader!Line = <<line>> /\ Stream(pos + 3, end)'
  BY <1>1, <1>2, <1>4, TakesLine
<1> HIDE DEF line
<1>6. Reader!Line # <<>> /\ Reader!Line[1] = line
  BY <1>5
<1>7. /\ chunk_size' = ChunkSizes[line]
      /\ pc' = IF chunk_size' = 0 THEN "last_line" ELSE "chunk_data"
  BY <1>4, <1>6 DEF Reader!ReadChunkSize
<1>8. ReaderTypes'
  <2>1. ChunkSizes[line] \in Nat
    BY <1>4, SizesAssumption
  <2>2. pc' \in ReaderStates
    BY <1>7 DEF ReaderStates
  <2> QED
    BY <1>2, <1>7, <2>1, <2>2 DEF Reading, ReaderTypes
<1>9. Chunking(n, ends)' /\ message' = message
  BY <1>2, <1>3 DEF Chunking, AllHeaders
<1>10. /\ n \in Nat /\ ends \in [0 .. n -> 0 .. Len(message.body)] /\ AllHeaders
       /\ message.body \in Seq(Octets) /\ Len(message.body) \in Nat
       /\ ends[n] = Len(message.body)
  BY <1>3, MessageType DEF Reading, ReaderTypes, Chunking, InChunks
<1>11. CASE j = n
  <2>1. pc' = "last_line"
    BY <1>4, <1>7, <1>11
  <2>2. payload_ = message.body
    BY <1>3, <1>10, <1>11 DEF Part
  <2>3. Place(pos + 3, end)'
    BY <1>2, <1>10, <2>1, <2>2 DEF Place, AllHeaders
  <2> QED
    BY <1>5, <1>8, <2>3 DEF Reading
<1>12. CASE j # n
  <2>1. j \in 0 .. n - 1 /\ j + 1 \in 0 .. n
    BY <1>3, <1>10, <1>12
  <2>2. ends[j] \in Nat /\ ends[j + 1] \in Nat
    BY <1>3, <1>10, <2>1
  <2>3. pc' = "chunk_data" /\ chunk_size' = ends[j + 1] - ends[j] /\ ends[j] < ends[j + 1]
    BY <1>4, <1>7, <1>12, <2>2
  <2>4. pos + 3 = ChunkStart(ends, j)' + 3 /\ Part(ends[j])'
    BY <1>2, <1>3 DEF ChunkStart, Part
  <2>5. Place(pos + 3, end)'
    BY <1>9, <2>1, <2>3, <2>4 DEF Place
  <2> QED
    BY <1>5, <1>8, <2>5 DEF Reading
<1> QED
  BY <1>11, <1>12

LEMMA ChunksCutShortReads == ASSUME Reading, Reader!ChunksCutShort  PROVE Reading'
<1>1. PICK pos, end : Stream(pos, end) /\ Place(pos, end)
  BY DEF Reading
<1>2. /\ pc = "chunk_size" /\ pc' = "done" /\ CutShort /\ ~ Reader!HasLine
      /\ UNCHANGED <<message, wire, eof, receive_buffer, code_, headers_, payload_,
                     content_length, transfer_encoding, chunk_size>>
  BY EndOfStream DEF Reader!ChunksCutShort, Reader!response, Reader!framing
<1>3. Stream(pos, end)'
  BY <1>1, <1>2, StreamKept
<1>4. message.body \in Seq(Octets) /\ Len(message.body) \in Nat
  BY MessageType DEF Reading, ReaderTypes
<1>5. transfer_encoding = {"chunked"}
  BY <1>1, <1>2 DEF Place, Chunking
<1>6. \E k \in 0 .. Len(message.body) : Part(k)
  <2>1. CASE payload_ = <<>>
    BY <1>4, <2>1 DEF Part
  <2>2. CASE payload_ # <<>>
    <3>1. PICK n, ends, j : Chunking(n, ends) /\ j \in 0 .. n /\ Part(ends[j])
      BY <1>1, <1>2, <2>2 DEF Place
    <3>2. ends[j] \in 0 .. Len(message.body)
      BY <3>1 DEF Chunking
    <3> QED
      BY <3>1, <3>2
  <2> QED
    BY <2>1, <2>2
<1>7. eof' = "eof" /\ ~ Reader!HasLine' /\ \E k \in 0 .. Len(message.body)' : Part(k)'
  BY <1>2, <1>6 DEF CutShort, Reader!HasLine, Reader!LineEnds, Part
<1>8. Place(pos, end)'
  BY <1>2, <1>5, <1>7 DEF Place
<1>9. ReaderTypes'
  BY <1>2 DEF Reading, ReaderTypes, ReaderStates
<1> QED
  BY <1>3, <1>8, <1>9 DEF Reading

LEMMA ChunkDataReads == ASSUME Reading, Reader!ReadChunkData  PROVE Reading'
<1>1. PICK pos, end : Stream(pos, end) /\ Place(pos, end)
  BY DEF Reading
<1>a. PICK s : s = chunk_size
  OBVIOUS
<1>2. /\ pc = "chunk_data" /\ pc' = "chunk_end" /\ Reader!Filled(s)
      /\ payload_' = payload_ \o SubSeq(receive_buffer, 1, s) /\ Reader!consume(s)
      /\ UNCHANGED <<message, wire, eof, code_, headers_, content_length,
                     transfer_encoding, chunk_size>>
  BY <1>a DEF Reader!ReadChunkData, Reader!framing
<1>3. PICK n, ends, j : /\ Chunking(n, ends) /\ j \in 0 .. n - 1
                        /\ pos = ChunkStart(ends, j) + 3 /\ Part(ends[j])
                        /\ s = ends[j + 1] - ends[j] /\ ends[j] < ends[j + 1]
  BY <1>a, <1>1, <1>2 DEF Place
<1>4. /\ n \in Nat /\ ends \in [0 .. n -> 0 .. Len(message.body)]
      /\ message.body \in Seq(Octets) /\ Len(message.body) \in Nat
      /\ HeadSize(message) \in Nat
  <2>1. message \in Messages
    BY DEF Reading, ReaderTypes
  <2>2. HeadSize(message) \in Nat
    BY <2>1, MessageType
  <2> QED
    BY <1>3, <2>1, <2>2, MessageType DEF Chunking
<1>5. PICK c, d : c = ends[j] /\ d = ends[j + 1]
  OBVIOUS
<1>6. /\ c \in 0 .. Len(message.body) /\ d \in 0 .. Len(message.body) /\ c < d
      /\ j \in Nat /\ j + 1 \in 1 .. n /\ j \in 0 .. n /\ j # n /\ s = d - c
  BY <1>3, <1>4, <1>5, SMTT(30)
<1>7. s \in Nat /\ s > 0 /\ s <= Len(receive_buffer)
  BY <1>2, <1>6 DEF Reader!Filled
<1>8. /\ receive_buffer \in Seq(Octets) /\ Len(receive_buffer) \in Nat /\ pos \in Nat
      /\ \A i \in 1 .. Len(receive_buffer) : receive_buffer[i] = message.octets[pos + i]
  BY <1>1, StreamType
<1>9. s \in 0 .. Len(receive_buffer)
  BY <1>7, <1>8
<1>10. Stream(pos + s, end)'
  BY <1>1, <1>2, <1>9, StreamTaken
<1> DEFINE part == SubSeq(message.body, c + 1, d)
           taken == SubSeq(receive_buffer, 1, s)
<1>11. part \in Seq(Octets) /\ Len(part) = s
  BY <1>4, <1>6
<1>12. taken \in Seq(Octets) /\ Len(taken) = s /\ \A i \in 1 .. s : taken[i] = receive_buffer[i]
  BY <1>8, <1>9, Cut
<1>13. \A i \in 1 .. s : receive_buffer[i] = part[i]
  <2>1. DataAt(message.octets, pos, part)
    BY <1>3, <1>5, <1>6 DEF Chunking, InChunks, ChunkStart
  <2>2. \A i \in 1 .. s : message.octets[pos + i] = part[i]
    BY <1>11, <2>1 DEF DataAt
  <2>3. \A i \in 1 .. s : i \in 1 .. Len(receive_buffer)
    BY <1>7, <1>8
  <2> QED
    BY <1>8, <2>2, <2>3
<1>14. taken = part
  <2> HIDE DEF part, taken
  <2> QED
    BY <1>11, <1>12, <1>13, SeqEqual
<1>15. payload_' = SubSeq(message.body, 1, d)
  <2>1. 1 \in 1 .. Len(message.body) + 1 /\ c \in 1 - 1 .. Len(message.body)
        /\ d \in c .. Len(message.body)
    BY <1>4, <1>6
  <2>2. SubSeq(message.body, 1, c) \o SubSeq(message.body, c + 1, d) = SubSeq(message.body, 1, d)
    BY <1>4, <2>1, ConcatAdjacentSubSeq
  <2>3. payload_ = SubSeq(message.body, 1, c)
    BY <1>3, <1>5 DEF Part
  <2> QED
    BY <1>2, <1>14, <2>2, <2>3
<1>16. pos + s = ChunkStart(ends, j + 1)' - 2
  <2>1. pos = HeadSize(message) + 5 * j + c + 3
    BY <1>3, <1>5 DEF ChunkStart
  <2>2. ChunkStart(ends, j + 1)' = HeadSize(message) + 5 * (j + 1) + d
    BY <1>2, <1>5 DEF ChunkStart
  <2>3. \A h \in Nat : (h + 5 * j + c + 3) + s = (h + 5 * (j + 1) + d) - 2
    BY <1>4, <1>6
  <2> QED
    BY <1>4, <2>1, <2>2, <2>3
<1>17. Chunking(n, ends)' /\ Part(ends[j + 1])' /\ chunk_size' > 0
  BY <1>a, <1>2, <1>3, <1>5, <1>7, <1>15 DEF Chunking, AllHeaders, Part
<1>18. Place(pos + s, end)'
  BY <1>2, <1>6, <1>16, <1>17 DEF Place
<1>19. ReaderTypes'
  BY <1>2 DEF Reading, ReaderTypes, ReaderStates
<1> QED
  BY <1>10, <1>18, <1>19 DEF Reading

LEMMA ChunkEndReads == ASSUME Reading, Reader!ReadChunkEnd  PROVE Reading'
<1>1. PICK pos, end : Stream(pos, end) /\ Place(pos, end)
  BY DEF Reading
<1>2. /\ pc = "chunk_end" /\ pc' = "chunk_size" /\ Reader!Filled(2) /\ Reader!consume(2)
      /\ UNCHANGED <<message, wire, eof, code_, headers_, payload_, content_length,
                     transfer_encoding, chunk_size>>
  BY DEF Reader!ReadChunkEnd, Reader!response, Reader!framing
<1>3. PICK n, ends, j : /\ Chunking(n, ends) /\ j \in 1 .. n
                        /\ pos = ChunkStart(ends, j) - 2 /\ Part(ends[j])
  BY <1>1, <1>2 DEF Place
<1>4. Len(receive_buffer) \in Nat /\ pos \in Nat
  BY <1>1, StreamType
<1>5. 2 \in 0 .. Len(receive_buffer)
  BY <1>2, <1>4 DEF Reader!Filled
<1>6. Stream(pos + 2, end)'
  BY <1>1, <1>2, <1>5, StreamTaken
<1>7. j \in 0 .. n /\ ends[j] \in Nat /\ HeadSize(message) \in Nat /\ j \in Nat
  <2>1. n \in Nat /\ ends \in [0 .. n -> 0 .. Len(message.body)]
    BY <1>3 DEF Chunking
  <2>2. message \in Messages
    BY DEF Reading, ReaderTypes
  <2>3. HeadSize(message) \in Nat
    BY <2>2, MessageType
  <2>4. j \in 0 .. n /\ j \in Nat
    BY <1>3, <2>1
  <2> QED
    BY <2>1, <2>3, <2>4
<1>8. pos + 2 = ChunkStart(ends, j)
  BY <1>3, <1>7 DEF ChunkStart
<1>9. Chunking(n, ends)' /\ Part(ends[j])' /\ ChunkStart(ends, j)' = ChunkStart(ends, j)
  BY <1>2, <1>3 DEF Chunking, AllHeaders, Part, ChunkStart
<1>10. Place(pos + 2, end)'
  BY <1>2, <1>7, <1>8, <1>9 DEF Place
<1>11. ReaderTypes'
  BY <1>2 DEF Reading, ReaderTypes, ReaderStates
<1> QED
  BY <1>6, <1>10, <1>11 DEF Reading

\* A line and its end are in the buffer.
LEMMA LineInBuffer ==
  ASSUME receive_buffer \in Seq(Octets), Reader!HasLine
  PROVE  Reader!LineLength + 2 \in 0 .. Len(receive_buffer)
<1>1. Len(receive_buffer) \in Nat /\ Reader!LineEnds \subseteq 1 .. Len(receive_buffer) - 1
  BY DEF Reader!LineEnds
<1>2. PICK n \in Reader!LineEnds : \A j \in Reader!LineEnds : n <= j
  <2>1. PICK T : T = Reader!LineEnds
    OBVIOUS
  <2>2. T \in SUBSET Nat /\ T # {}
    BY <1>1, <2>1 DEF Reader!HasLine
  <2> QED
    BY <2>1, <2>2, LeastElement
<1>3. (CHOOSE i \in Reader!LineEnds : \A j \in Reader!LineEnds : i <= j) = n
  <2>1. PICK E : E = Reader!LineEnds
    OBVIOUS
  <2>2. E \subseteq Int /\ n \in E /\ \A j \in E : n <= j
    BY <1>1, <1>2, <2>1
  <2>3. (CHOOSE i \in E : \A j \in E : i <= j) = n
    BY <2>2, LeastIs
  <2> QED
    BY <2>1, <2>3
<1>4. n \in 1 .. Len(receive_buffer) - 1
  BY <1>1, <1>2
<1>5. (n - 1) + 2 \in 0 .. Len(receive_buffer)
  BY <1>1, <1>4
<1> QED
  BY <1>3, <1>5 DEF Reader!LineLength

LEMMA LastLineReads == ASSUME Reading, Reader!ReadLastLine  PROVE Reading'
<1>1. PICK pos, end : Stream(pos, end) /\ Place(pos, end)
  BY DEF Reading
<1>2. /\ pc = "last_line" /\ pc' = "done"
      /\ UNCHANGED <<message, wire, eof, code_, headers_, payload_, content_length,
                     transfer_encoding, chunk_size>>
      /\ IF Reader!AtEof THEN UNCHANGED receive_buffer ELSE Reader!ConsumeLine
  BY DEF Reader!ReadLastLine, Reader!response, Reader!framing
<1>3. \E p : Stream(p, end)'
  <2>1. CASE Reader!AtEof
    BY <1>1, <1>2, <2>1, StreamKept
  <2>2. CASE ~ Reader!AtEof
    <3>1. PICK n : n = Reader!LineLength + 2
      OBVIOUS
    <3>2. Reader!HasLine /\ Reader!consume(n)
      BY <1>2, <2>2, <3>1 DEF Reader!ConsumeLine
    <3>3. n \in 0 .. Len(receive_buffer)
      BY <1>1, <3>1, <3>2, LineInBuffer, StreamType
    <3> QED
      BY <1>1, <1>2, <3>2, <3>3, StreamTaken
  <2> QED
    BY <2>1, <2>2
<1>4. AllHeaders /\ payload_ = message.body
  BY <1>1, <1>2 DEF Place
<1>5. message.body \in Seq(Octets) /\ Len(message.body) \in Nat
  BY MessageType DEF Reading, ReaderTypes
<1>6. \E k \in 0 .. Len(message.body)' : Part(k)'
  <2>1. Len(message.body) \in 0 .. Len(message.body)
        /\ message.body = SubSeq(message.body, 1, Len(message.body))
    BY <1>5
  <2> QED
    BY <1>2, <1>4, <2>1 DEF Part
<1>7. \A p : Place(p, end)'
  BY <1>2, <1>4, <1>6 DEF Place, AllHeaders
<1>8. ReaderTypes'
  BY <1>2 DEF Reading, ReaderTypes, ReaderStates
<1> QED
  BY <1>3, <1>7, <1>8 DEF Reading

LEMMA FailReads == ASSUME Reading, Reader!ReadFails  PROVE Reading'
<1>1. pc \notin {"done", "failed"} /\ eof # "open" /\ Reader!Throw
  BY DEF Reader!ReadFails, Reader!Blocked, Reader!ReadingLine, Reader!ReadingOctets
<1> QED
  BY <1>1, FailedReads DEF Reader!Throw, Reader!response, Reader!framing

LEMMA StillReads ==
  ASSUME Reading,
         UNCHANGED <<pc, message, wire, eof, receive_buffer, code_, headers_, payload_,
                     content_length, transfer_encoding, chunk_size>>
  PROVE  Reading'
<1>1. PICK pos, end : Stream(pos, end) /\ Place(pos, end)
  BY DEF Reading
<1>2. Stream(pos, end)'
  BY <1>1, StreamKept
<1>3. ReaderTypes'
  BY DEF Reading, ReaderTypes
<1>4. Reader!HasLine' = Reader!HasLine /\ Reader!HeadersForBody' = Reader!HeadersForBody
  BY DEF Reader!HasLine, Reader!LineEnds, Reader!HeadersForBody
<1>5. /\ \A i : HeadersRead(i)' = HeadersRead(i)
      /\ AllHeaders' = AllHeaders /\ CutShort' = CutShort
      /\ \A k : Part(k)' = Part(k)
      /\ \A ends, j : ChunkStart(ends, j)' = ChunkStart(ends, j)
  BY DEF HeadersRead, AllHeaders, Part, ChunkStart, CutShort
<1>6. \A n, ends : Chunking(n, ends)' = Chunking(n, ends)
  BY <1>5 DEF Chunking
<1>7. Place(pos, end)'
  BY <1>1, <1>4, <1>5, <1>6 DEF Place
<1> QED
  BY <1>2, <1>3, <1>7 DEF Reading

LEMMA ReaderStep == ASSUME Reading, Reader!Next  PROVE Reading'
<1>1. CASE Reader!Program
  BY <1>1, StatusReads, NoStatusReads, HeaderLineReads, HeadersCutShortReads, IdentityReads,
     ChunkSizeReads, ChunksCutShortReads, ChunkDataReads, ChunkEndReads, LastLineReads,
     FailReads DEF Reader!Program
<1>2. CASE \E n \in 1 .. Len(wire) : Reader!Deliver(n)
  <2>1. PICK n, s : s = 1 .. Len(wire) /\ n \in s /\ Reader!Deliver(n)
    BY <1>2
  <2> QED
    BY <2>1, DeliverReads
<1>3. CASE \E how \in {"eof", "error"} : Reader!Close(how)
  BY <1>3, CloseReads
<1>4. CASE Reader!Terminated
  BY <1>4, StillReads DEF Reader!Terminated, Reader!vars
<1> QED
  BY <1>1, <1>2, <1>3, <1>4 DEF Reader!Next

-----------------------------------------------------------------------------
\* What the invariant says of the response.

LEMMA PrefixOf ==
  ASSUME NEW S, NEW q \in Seq(S), NEW n \in 0 .. Len(q)
  PROVE  Reader!IsPrefix(SubSeq(q, 1, n), q)
<1> DEFINE s == SubSeq(q, 1, n)
<1>1. s \in Seq(S) /\ Len(s) = n /\ n <= Len(q) /\ n \in Nat
  BY Cut
<1>2. SubSeq(s, 1, n) = s
  <2> HIDE DEF s
  <2> QED
    BY <1>1, SubSeqFull
<1> QED
  BY <1>1, <1>2 DEF Reader!IsPrefix

LEMMA ReadingExact == ASSUME Reading  PROVE ResponseExact /\ InexactOnlyAtEof
<1>1. message.body \in Seq(Octets)
  BY MessageType DEF Reading, ReaderTypes
<1>2. Reader!IsPrefix(payload_, message.body) \/ Reader!HeadersForBody
  BY <1>1, PartRead, PrefixOf DEF Part
<1>3. pc = "done" => \/ AllHeaders /\ payload_ = message.body
                     \/ eof = "eof" /\ transfer_encoding = {"chunked"} /\ ~ Reader!HasLine
                     \/ Reader!HeadersForBody
  BY DEF Reading, Place
<1>4. Reader!HeadersForBody => eof = "eof"
  BY DEF Reader!HeadersForBody
<1> QED
  BY <1>2, <1>3, <1>4 DEF ResponseExact, InexactOnlyAtEof, Reader!ResponseExact,
     Reader!InexactOnlyAtEof, AllHeaders

\* What is buffered and in flight is the end of the message.
LEMMA StreamSuffix ==
  ASSUME message \in Messages, NEW pos, NEW end, Stream(pos, end), eof = "open"
  PROVE  Reader!IsSuffix(receive_buffer \o wire, message.octets)
<1> DEFINE o == message.octets
           r == receive_buffer \o wire
<1>1. PICK l, k : Held(o, receive_buffer, wire, pos, end, l, k)
  BY HoldsHeld DEF Stream
<1>2. /\ receive_buffer \in Seq(Octets) /\ wire \in Seq(Octets)
      /\ l = Len(receive_buffer) /\ k = Len(wire) /\ l \in Nat /\ k \in Nat
      /\ pos \in Nat /\ end = Len(o) /\ pos + l + k = end
      /\ \A i \in 1 .. l : receive_buffer[i] = o[pos + i]
      /\ \A i \in 1 .. k : wire[i] = o[pos + l + i]
  BY <1>1 DEF Held, Stream
<1>3. o \in Seq(Octets)
  BY MessageType
<1>4. /\ r \in Seq(Octets) /\ Len(r) = l + k
      /\ \A i \in 1 .. l : r[i] = receive_buffer[i]
      /\ \A i \in 1 .. k : r[l + i] = wire[i]
  <2>1. IsSeq(receive_buffer) /\ IsSeq(wire) /\ r \in Seq(Octets)
    BY <1>2 DEF IsSeq
  <2>2. /\ Len(r) = Len(receive_buffer) + Len(wire)
        /\ \A i \in 1 .. Len(receive_buffer) : r[i] = receive_buffer[i]
        /\ \A i \in 1 .. Len(wire) : r[Len(receive_buffer) + i] = wire[i]
    <3>1. PICK b, w : b = receive_buffer /\ w = wire /\ IsSeq(b) /\ IsSeq(w)
      BY <2>1
    <3>2. /\ Len(b \o w) = Len(b) + Len(w)
          /\ \A i \in 1 .. Len(b) : (b \o w)[i] = b[i]
          /\ \A i \in 1 .. Len(w) : (b \o w)[Len(b) + i] = w[i]
      BY <3>1, SeqConcat
    <3> QED
      BY <3>1, <3>2
  <2> QED
    BY <1>2, <2>1, <2>2
<1> HIDE DEF r, o
<1>5. ASSUME NEW i \in 1 .. l + k  PROVE r[i] = o[pos + i]
  <2>1. CASE i \in 1 .. l
    BY <1>2, <1>4, <2>1
  <2>2. CASE i \notin 1 .. l
    <3>1. PICK j \in 1 .. k : i = l + j
      <4>1. i - l \in 1 .. k /\ i = l + (i - l)
        BY <1>2, <2>2
      <4> QED
        BY <4>1
    <3>2. pos + i = pos + l + j
      BY <1>2, <3>1
    <3> QED
      BY <1>2, <1>4, <3>1, <3>2
  <2> QED
    BY <2>1, <2>2
<1>6. pos + Len(r) = Len(o) /\ \A i \in 1 .. Len(r) : r[i] = o[pos + i]
  BY <1>2, <1>4, <1>5
<1>7. Reader!IsSuffix(r, o)
  BY <1>2, <1>3, <1>4, <1>6, SuffixOf
<1> QED
  BY <1>7 DEF r, o

LEMMA ReadingType == ASSUME Reading  PROVE Reader!TypeOK
<1>1. PICK pos, end : Stream(pos, end) /\ Place(pos, end)
  BY DEF Reading
<1>2. message \in Messages /\ pc \in ReaderStates
  BY DEF Reading, ReaderTypes
<1>3. eof = "open" => Reader!IsSuffix(receive_buffer \o wire, message.octets)
  BY <1>1, <1>2, StreamSuffix
<1>4. pc = "identity" => content_length # {}
  BY <1>1 DEF Place
<1>5. pc \in {"chunk_data", "chunk_end"} => chunk_size > 0
  <2>1. CASE pc = "chunk_data"
    <3>1. PICK n, ends, j : /\ Chunking(n, ends) /\ j \in 0 .. n - 1
                            /\ chunk_size = ends[j + 1] - ends[j] /\ ends[j] < ends[j + 1]
      BY <1>1, <2>1 DEF Place
    <3>2. n \in Nat /\ ends \in [0 .. n -> 0 .. Len(message.body)] /\ Len(message.body) \in Nat
      BY <1>2, <3>1, MessageType DEF Chunking
    <3>3. ends[j] \in Nat /\ ends[j + 1] \in Nat
      <4>1. j \in 0 .. n /\ j + 1 \in 0 .. n
        BY <3>1, <3>2
      <4> QED
        BY <3>2, <4>1
    <3> QED
      BY <3>1, <3>3
  <2>2. CASE pc = "chunk_end"
    BY <1>1, <2>2 DEF Place
  <2> QED
    BY <2>1, <2>2
<1> QED
  BY <1>3, <1>4, <1>5 DEF Reading, ReaderTypes, ReaderStates, Reader!TypeOK

-----------------------------------------------------------------------------
\* The command line.

LEMMA ArgvType ==
  ASSUME \E s \in Scenarios : argv = s.argv
  PROVE  /\ argv \in Seq(Range(argv)) /\ Len(argv) \in Nat
         /\ opt_argc \in 0 .. Len(argv)
         /\ argv = <<>> => url = <<>>
<1>1. argv \in Seq(Range(argv)) /\ Len(argv) \in Nat
  BY ScenariosAssumption
<1>2. argv # <<>> => Len(argv) - 1 \in 0 .. Len(argv)
  BY <1>1
<1> QED
  BY <1>1, <1>2 DEF opt_argc, url, UrlGiven

\* isOption satisfies its recursion equation.
LEMMA OptionsAre ==
  ASSUME \E s \in Scenarios : argv = s.argv, NEW i \in 1 .. Len(argv)
  PROVE  isOption[i] <=> /\ IsOption(argv[i])
                         /\ ~ (i > 1 /\ isOption[i - 1] /\ TakesArgument(argv[i - 1]))
<1>1. PICK n \in Nat : n = Len(argv)
  BY ArgvType
<1> DEFINE P(j) == IsOption(argv[j])
           Q(j) == j > 1 /\ TakesArgument(argv[j - 1])
           Eq(f) == f = [j \in 1 .. n |-> P(j) /\ ~ (j > 1 /\ f[j - 1] /\ TakesArgument(argv[j - 1]))]
           step == [j \in 1 .. n |-> [b \in BOOLEAN |-> P(j) /\ ~ (b /\ Q(j))]]
<1>2. isOption = CHOOSE f : Eq(f)
  BY <1>1, Zenon DEF isOption
<1>3. step \in Steps(n, BOOLEAN) /\ \A j \in 1 .. n, b \in BOOLEAN : step[j][b] = (P(j) /\ ~ (b /\ Q(j)))
  BY Zenon DEF Steps, IsOption
<1> HIDE DEF step
<1>4. PICK s : s = step
  OBVIOUS
<1>5. PICK run : IsRecursion(run, n, BOOLEAN, FALSE, s)
  BY <1>1, <1>3, <1>4, RecursionExists
<1>6. /\ run \in [0 .. n -> BOOLEAN]
      /\ \A j \in 1 .. n : run[j] = step[j][run[j - 1]]
  BY <1>4, <1>5 DEF IsRecursion
<1>7. \A j \in 1 .. n : j - 1 \in 0 .. n /\ (j > 1 => j - 1 \in 1 .. n)
  BY <1>1
<1>8. \A j \in 1 .. n : run[j] = (P(j) /\ ~ (run[j - 1] /\ Q(j)))
  BY <1>3, <1>6, <1>7, Zenon
<1> DEFINE f == [j \in 1 .. n |-> run[j]]
<1>9. Eq(f)
  <2>1. \A j \in 1 .. n : f[j] = run[j]
    OBVIOUS
  <2>2. \A j \in 1 .. n : run[j] = (P(j) /\ ~ (j > 1 /\ f[j - 1] /\ TakesArgument(argv[j - 1])))
    BY <1>7, <1>8, <2>1, Zenon
  <2>3. f = [j \in 1 .. n |-> run[j]]
    OBVIOUS
  <2> HIDE DEF f, P
  <2>4. [j \in 1 .. n |-> run[j]] =
          [j \in 1 .. n |-> P(j) /\ ~ (j > 1 /\ f[j - 1] /\ TakesArgument(argv[j - 1]))]
    BY <2>2, Zenon
  <2> QED
    BY <2>3, <2>4, Zenon
<1> HIDE DEF f, P
<1>10. Eq(isOption)
  <2> HIDE DEF Eq
  <2> QED
    BY <1>2, <1>9, Zenon
<1>11. isOption[i] = (P(i) /\ ~ (i > 1 /\ isOption[i - 1] /\ TakesArgument(argv[i - 1])))
  BY <1>1, <1>10, Zenon
<1> QED
  BY <1>11, Zenon DEF P

Before(k) == {i \in OptionAt : i < k}

Known(i) ==
  /\ argv[i][1] \in {"-v", "--http2", "--keylog", "-H", "-k"}
  /\ TakesArgument(argv[i]) => i < opt_argc

\* What the options in front of position k have set.
OptionsSet(k) ==
  /\ settings = [use_http2 |-> settings.use_http2, g_verify_cert |-> settings.g_verify_cert,
                 g_keylog_file |-> settings.g_keylog_file, headers |-> settings.headers]
  /\ settings.use_http2 \in BOOLEAN /\ settings.g_verify_cert \in BOOLEAN
  /\ settings.use_http2 <=> \E i \in Before(k) : argv[i][1] = "--http2"
  /\ ~ settings.g_verify_cert <=> \E i \in Before(k) : argv[i][1] = "-k"
  /\ \A i \in Before(k) : Known(i)

\* Position k is not that of the argument of an option.
AtOption(k) == k > 1 => ~ (isOption[k - 1] /\ TakesArgument(argv[k - 1]))

OptionsRead ==
  /\ optind \in 1 .. Len(argv) + 1
  /\ OptionsSet(optind)
  /\ IF stage = "options" THEN optind <= opt_argc + 1 /\ AtOption(optind) ELSE optind > opt_argc

\* What depends on the command line alone.
LEMMA CommandLineKept ==
  ASSUME UNCHANGED argv
  PROVE  /\ url' = url /\ opt_argc' = opt_argc /\ components' = components
         /\ OptionAt' = OptionAt /\ isOption' = isOption /\ UsesTls' = UsesTls
         /\ Legal' = Legal
         /\ \A name : Given(name)' = Given(name)
         /\ \A k : Before(k)' = Before(k) /\ AtOption(k)' = AtOption(k) /\ Known(k)' = Known(k)
<1>1. url' = url /\ opt_argc' = opt_argc
  BY DEF url, opt_argc, UrlGiven
<1>2. components' = components
  BY <1>1 DEF components
<1>3. isOption' = isOption
  BY DEF isOption
<1>4. OptionAt' = OptionAt
  BY <1>1, <1>3 DEF OptionAt
<1>5. UsesTls' = UsesTls
  BY <1>2 DEF UsesTls
<1>6. Legal' = Legal
  BY <1>1, <1>4 DEF Legal
<1>7. \A name : Given(name)' = Given(name)
  BY <1>4 DEF Given
<1>8. \A k : Before(k)' = Before(k) /\ AtOption(k)' = AtOption(k) /\ Known(k)' = Known(k)
  BY <1>1, <1>3, <1>4 DEF Before, AtOption, Known
<1> QED
  BY <1>1, <1>2, <1>3, <1>4, <1>5, <1>6, <1>7, <1>8

LEMMA OptionsSetKept ==
  ASSUME UNCHANGED <<argv, settings>>, NEW k, OptionsSet(k)
  PROVE  OptionsSet(k)'
BY CommandLineKept DEF OptionsSet

\* A position that is that of no option changes nothing.
LEMMA NoOption ==
  ASSUME NEW k \in Nat, OptionsSet(k), k \notin OptionAt
  PROVE  OptionsSet(k + 1)
<1>1. OptionAt \subseteq Int
  BY DEF OptionAt
<1>2. Before(k + 1) = Before(k)
  <2>1. \A i \in OptionAt : i < k + 1 <=> i < k
    BY <1>1
  <2> QED
    BY <2>1, Zenon DEF Before
<1> QED
  BY <1>2 DEF OptionsSet

\* An option sets what it says.
LEMMA OneOption ==
  ASSUME NEW k \in OptionAt, OptionsSet(k), Known(k), UNCHANGED argv,
         NEW arg, settings' = ApplyOption(argv[k][1], arg)
  PROVE  OptionsSet(k + 1)'
<1>1. OptionAt \subseteq Int
  BY DEF OptionAt
<1>2. Before(k + 1) = Before(k) \cup {k}
  <2>1. \A i \in OptionAt : i < k + 1 <=> i < k \/ i = k
    BY <1>1
  <2> QED
    BY <2>1, Zenon DEF Before
<1> DEFINE name == argv[k][1]
<1>3. name \in {"-v", "--http2", "--keylog", "-H", "-k"}
  BY DEF Known
<1>4. \A i \in Before(k + 1) : Known(i)
  BY <1>2 DEF OptionsSet
<1>5. /\ (\E i \in Before(k + 1) : argv[i][1] = "--http2") <=>
           ((\E i \in Before(k) : argv[i][1] = "--http2") \/ name = "--http2")
      /\ (\E i \in Before(k + 1) : argv[i][1] = "-k") <=>
           ((\E i \in Before(k) : argv[i][1] = "-k") \/ name = "-k")
  BY <1>2
<1>6. PICK h, v, f, l :
        /\ h \in BOOLEAN /\ v \in BOOLEAN
        /\ settings = [use_http2 |-> h, g_verify_cert |-> v, g_keylog_file |-> f, headers |-> l]
  BY DEF OptionsSet
<1>7. PICK m : /\ name = "--http2" => settings' = [settings EXCEPT !.use_http2 = TRUE]
               /\ name = "--keylog" => settings' = [settings EXCEPT !.g_keylog_file = {arg}]
               /\ name = "-H" => settings' = [settings EXCEPT !.headers = m]
               /\ name = "-k" => settings' = [settings EXCEPT !.g_verify_cert = FALSE]
               /\ name = "-v" => settings' = settings
  BY <1>3 DEF ApplyOption
<1> HIDE DEF name
<1>8. /\ settings' = [use_http2 |-> settings'.use_http2, g_verify_cert |-> settings'.g_verify_cert,
                      g_keylog_file |-> settings'.g_keylog_file, headers |-> settings'.headers]
      /\ settings'.use_http2 \in BOOLEAN /\ settings'.g_verify_cert \in BOOLEAN
      /\ settings'.use_http2 <=> settings.use_http2 \/ name = "--http2"
      /\ ~ settings'.g_verify_cert <=> ~ settings.g_verify_cert \/ name = "-k"
  <2>1. CASE name = "--http2"
    BY <1>6, <1>7, <2>1
  <2>2. CASE name = "--keylog"
    BY <1>6, <1>7, <2>2
  <2>3. CASE name = "-H"
    BY <1>6, <1>7, <2>3
  <2>4. CASE name = "-k"
    BY <1>6, <1>7, <2>4
  <2>5. CASE name = "-v"
    BY <1>6, <1>7, <2>5
  <2> QED
    BY <1>3, <2>1, <2>2, <2>3, <2>4, <2>5
<1>9. /\ settings.use_http2 <=> \E i \in Before(k) : argv[i][1] = "--http2"
      /\ ~ settings.g_verify_cert <=> \E i \in Before(k) : argv[i][1] = "-k"
  BY DEF OptionsSet
<1>10. /\ Before(k + 1)' = Before(k + 1)
       /\ (\A i \in Before(k + 1) : Known(i)) => \A i \in Before(k + 1) : Known(i)'
  BY CommandLineKept
<1>11. /\ settings'.use_http2 <=> \E i \in Before(k + 1) : argv'[i][1] = "--http2"
       /\ ~ settings'.g_verify_cert <=> \E i \in Before(k + 1) : argv'[i][1] = "-k"
  BY <1>5, <1>8, <1>9
<1> QED
  BY <1>4, <1>8, <1>10, <1>11 DEF OptionsSet

-----------------------------------------------------------------------------
\* The URL.

UrlLegal == url \in DOMAIN Urls /\ Urls[url].scheme \in {"http", "https"}

LEMMA ComponentsOf ==
  ASSUME NEW text \in DOMAIN Urls
  PROVE  /\ parse_url(text).scheme = Urls[text].scheme
         /\ parse_url(text).host = Urls[text].host
         /\ parse_url(text).port \in 0 .. 2^16 - 1
         /\ \A p \in Urls[text].port : p < 2^16 => parse_url(text).port = p
         /\ Urls[text].port = Absent =>
              parse_url(text).port = IF Urls[text].scheme = "http" THEN 80 ELSE 443
<1> DEFINE c == Urls[text]
           port == IF c.port # Absent THEN CHOOSE p \in c.port : TRUE
                   ELSE IF c.scheme = "http" THEN 80 ELSE 443
<1>1. /\ parse_url(text).scheme = c.scheme /\ parse_url(text).host = c.host
      /\ parse_url(text).port = port % 2^16
  BY DEF parse_url
<1>2. \A p, q \in c.port : p \in Nat /\ p = q
  BY UrlsAssumption
<1>3. \A p \in c.port : port = p
  BY <1>2 DEF Absent
<1>4. port \in Nat
  BY <1>2, <1>3 DEF Absent
<1>5. \A n \in Nat : n % 2^16 \in 0 .. 2^16 - 1
  OBVIOUS
<1>6. \A n \in Nat : n < 2^16 => n % 2^16 = n
  OBVIOUS
<1>7. c.port = Absent => port % 2^16 = IF c.scheme = "http" THEN 80 ELSE 443
  OBVIOUS
<1> HIDE DEF port
<1>8. ASSUME NEW p \in c.port, p < 2^16  PROVE port % 2^16 = p
  <2>1. port = p /\ p \in Nat
    BY <1>2, <1>3, Zenon
  <2>2. p % 2^16 = p
    BY <1>6, <1>8, <2>1, Zenon
  <2> QED
    BY <2>1, <2>2, Zenon
<1>9. port % 2^16 \in 0 .. 2^16 - 1
  BY <1>4, <1>5, Zenon
<1> QED
  BY <1>1, <1>7, <1>8, <1>9, ZenonT(30)

-----------------------------------------------------------------------------
\* The invariant of the program.

Stages == {"options", "url", "resolve", "connect", "handshake", "alpn", "session",
           "answer", "request", "response", "print", "over"}

\* The response of an HTTP/2 session, none of which went through the reader.
Answered ==
  /\ ReaderTypes /\ \E pos, end : Stream(pos, end)
  /\ pc = "status" /\ eof = "open" /\ payload_ = message.body
  /\ stage \in {"print", "over"}

\* What is known of the connection behind its making.
LinkedAsAsked(c) ==
  /\ c.host = components.host /\ c.port = components.port
  /\ c.offered <=> Http2Chosen
  /\ c.tls <=> UsesTls
  /\ c.tls => c.valid \/ ~ settings.g_verify_cert
  /\ c.selected => Http2Chosen
  /\ stage \in {"session", "answer", "print"} /\ Http2Chosen => c.selected

Connected ==
  /\ stage \in {"options", "url", "resolve", "connect"} => connection = Absent
  /\ stage = "handshake" => UsesTls /\ connection = {NewConnection}
  /\ stage \in {"alpn", "session", "answer"} => Http2Chosen
  /\ stage \in {"request", "response"} => ~ Http2Chosen
  /\ stage \in {"alpn", "session", "answer", "request", "response", "print"} =>
       \E c : connection = {c} /\ LinkedAsAsked(c)

Going ==
  /\ exit = Absent
  /\ stage \notin {"response", "print"} => Reading /\ pc = "status" /\ eof = "open"
  /\ stage = "response" => Reading
  /\ stage = "print" => Answered \/ (Reading /\ pc = "done")
  /\ OptionsRead
  /\ stage \notin {"options", "url"} => UrlLegal
  /\ Connected

Types ==
  /\ \E s \in Scenarios : argv = s.argv
  /\ stage \in Stages
  /\ optind \in 1 .. Len(argv) + 1
  /\ settings.use_http2 \in BOOLEAN /\ settings.g_verify_cert \in BOOLEAN

PortsInRange == \A c \in connection : c.port \in 0 .. 2^16 - 1

IInv ==
  /\ Types
  /\ Reading \/ Answered
  /\ IF stage = "over"
       THEN exit # Absent /\ PortsInRange /\ ConnectsAsAsked /\ ExitReports
       ELSE Going

ReaderSame ==
  UNCHANGED <<pc, message, wire, eof, receive_buffer, code_, headers_, payload_,
              content_length, transfer_encoding, chunk_size>>

LEMMA ReaderUnchanged == ASSUME UNCHANGED reader PROVE ReaderSame
BY DEF reader, response, ReaderSame

LEMMA AnsweredKept ==
  ASSUME Answered, ReaderSame, stage' \in {"print", "over"}
  PROVE  Answered'
<1>1. PICK pos, end : Stream(pos, end)
  BY DEF Answered
<1>2. Stream(pos, end)'
  BY <1>1, StreamKept DEF ReaderSame
<1> QED
  BY <1>2 DEF Answered, ReaderTypes, ReaderSame

\* The options are read, and the command line is what usage() describes.
LEMMA OptionsKnown ==
  ASSUME Types, OptionsRead, stage # "options"
  PROVE  /\ settings.use_http2 <=> Given("--http2")
         /\ ~ settings.g_verify_cert <=> Given("-k")
         /\ UrlLegal => Legal
<1>1. OptionAt \subseteq 1 .. opt_argc /\ opt_argc \in Nat /\ optind \in Nat
  BY ArgvType DEF OptionAt, Types
<1>2. optind > opt_argc
  BY DEF OptionsRead
<1>3. \A i \in OptionAt : i < optind
  BY <1>1, <1>2
<1>4. Before(optind) = OptionAt
  BY <1>3 DEF Before
<1> QED
  BY <1>4 DEF OptionsRead, OptionsSet, Known, Legal, UrlLegal, Given

LEMMA ConnectionAsAsked ==
  ASSUME Types, Going, stage # "over"
  PROVE  ConnectsAsAsked /\ PortsInRange
<1>1. CASE connection = Absent
  BY <1>1 DEF ConnectsAsAsked, PortsInRange, Absent
<1>2. CASE connection # Absent
  <2>1. stage \notin {"options", "url", "resolve", "connect"}
    BY <1>2 DEF Going, Connected
  <2>2. UrlLegal /\ OptionsRead
    BY <2>1 DEF Going
  <2>3. Legal /\ (settings.use_http2 <=> Given("--http2"))
    BY <2>1, <2>2, OptionsKnown
  <2>4. /\ components.scheme = Urls[url].scheme /\ components.host = Urls[url].host
        /\ components.port \in 0 .. 2^16 - 1
        /\ \A p \in Urls[url].port : p < 2^16 => components.port = p
        /\ Urls[url].port = Absent =>
             components.port = IF Urls[url].scheme = "http" THEN 80 ELSE 443
    <3>1. PICK u : u = url
      OBVIOUS
    <3>2. u \in DOMAIN Urls
      BY <2>2, <3>1 DEF UrlLegal
    <3> QED
      BY <3>1, <3>2, ComponentsOf DEF components
  <2>5. /\ Http2Chosen <=> Given("--http2") /\ Urls[url].scheme = "https"
        /\ UsesTls <=> Urls[url].scheme = "https"
    BY <2>3, <2>4 DEF Http2Chosen, UsesTls
  <2>6. stage = "handshake" \/ stage \in {"alpn", "session", "answer", "request", "response", "print"}
    BY <2>1 DEF Types, Stages
  <2>7. \E c : /\ connection = {c}
               /\ c.host = components.host /\ c.port = components.port
               /\ c.offered <=> Http2Chosen
               /\ stage # "handshake" => (c.tls <=> UsesTls)
    <3>1. CASE stage = "handshake"
      BY <3>1 DEF Going, Connected, NewConnection
    <3>2. CASE stage \in {"alpn", "session", "answer", "request", "response", "print"}
      BY <3>2 DEF Going, Connected, LinkedAsAsked
    <3> QED
      BY <2>6, <3>1, <3>2
  <2>8. PICK c : /\ connection = {c}
                 /\ c.host = components.host /\ c.port = components.port
                 /\ c.offered <=> Http2Chosen
                 /\ stage # "handshake" => (c.tls <=> UsesTls)
    BY <2>7
  <2> QED
    BY <2>3, <2>4, <2>5, <2>8 DEF ConnectsAsAsked, PortsInRange
<1> QED
  BY <1>1, <1>2

LEMMA OptionsReadKept ==
  ASSUME OptionsRead, UNCHANGED <<argv, optind, settings>>, optind > opt_argc, stage' # "options"
  PROVE  OptionsRead'
<1>1. OptionsSet(optind) /\ optind \in 1 .. Len(argv) + 1
  BY DEF OptionsRead
<1>2. PICK k : k = optind
  OBVIOUS
<1>3. OptionsSet(k)'
  BY <1>1, <1>2, OptionsSetKept
<1>4. optind' = k /\ opt_argc' = opt_argc
  BY <1>2, CommandLineKept
<1> QED
  BY <1>1, <1>2, <1>3, <1>4 DEF OptionsRead

\* A step that goes on, towards the response.
LEMMA Onward ==
  ASSUME IInv, stage \notin {"response", "print", "over"}, UNCHANGED reader,
         UNCHANGED <<argv, settings, exit>>,
         stage' \in Stages \ {"options", "print", "over"},
         optind' = optind /\ optind > opt_argc,
         stage' # "url" => UrlLegal,
         Connected'
  PROVE  IInv'
<1>1. Going /\ Types
  BY DEF IInv
<1>2. ReaderSame
  BY ReaderUnchanged
<1>3. Reading' /\ pc' = "status" /\ eof' = "open"
  BY <1>1, <1>2, StillReads DEF Going, ReaderSame
<1>4. OptionsRead'
  BY <1>1, OptionsReadKept DEF Going
<1>5. stage' # "url" => UrlLegal'
  BY CommandLineKept DEF UrlLegal
<1>6. Types'
  BY <1>1 DEF Types
<1>7. Going'
  BY <1>1, <1>3, <1>4, <1>5 DEF Going
<1> QED
  BY <1>3, <1>6, <1>7 DEF IInv

\* The end of main.
LEMMA ExitEnds ==
  ASSUME IInv, stage # "over", UNCHANGED <<argv, optind, settings, connection>>,
         UNCHANGED reader, NEW status, NEW printed, Exit(status, printed), ExitReports'
  PROVE  IInv'
<1>1. Going /\ Types /\ stage' = "over" /\ exit' # Absent
  BY DEF IInv, Exit, Absent
<1>2. ReaderSame
  BY ReaderUnchanged
<1>3. Reading' \/ Answered'
  BY <1>1, <1>2, StillReads, AnsweredKept DEF IInv, ReaderSame
<1>4. Types'
  BY <1>1 DEF Types, Stages
<1>5. ConnectsAsAsked' /\ PortsInRange'
  <2>1. ConnectsAsAsked /\ PortsInRange
    BY <1>1, ConnectionAsAsked
  <2>2. url' = url /\ Legal' = Legal /\ (Given("--http2"))' = Given("--http2")
    BY CommandLineKept
  <2> QED
    BY <1>1, <2>1, <2>2 DEF ConnectsAsAsked, PortsInRange
<1> QED
  BY <1>1, <1>3, <1>4, <1>5 DEF IInv

\* Exit status 1 has a reason.
LEMMA Refuses ==
  ASSUME IInv, stage # "over", UNCHANGED reader, Refuse, ~ Legal \/ eof # "open"
  PROVE  IInv'
<1>1. /\ Exit(1, <<>>) /\ UNCHANGED <<argv, optind, settings, connection>>
  BY DEF Refuse
<1>2. ~ Legal' \/ eof' # "open"
  BY <1>1, ReaderUnchanged, CommandLineKept DEF ReaderSame
<1>3. ExitReports'
  BY <1>1, <1>2 DEF Exit, ExitReports
<1> QED
  BY <1>1, <1>3, ExitEnds

LEMMA Fails == ASSUME IInv, stage # "over", UNCHANGED reader, Fail  PROVE IInv'
<1>1. /\ Exit(1, <<>>) /\ UNCHANGED <<argv, optind, settings, connection>> /\ trouble' = TRUE
  BY DEF Fail
<1>2. ExitReports'
  BY <1>1 DEF Exit, ExitReports
<1> QED
  BY <1>1, <1>2, ExitEnds

\* Positions of options, where getopt_long is.
LEMMA AtPosition ==
  ASSUME IInv, TakeOption
  PROVE  /\ stage = "options" /\ UNCHANGED reader /\ Types /\ Going
         /\ OptionsSet(optind) /\ AtOption(optind)
         /\ opt_argc \in 0 .. Len(argv) /\ Len(argv) \in Nat
         /\ optind \in 1 .. opt_argc
         /\ isOption[optind] <=> IsOption(argv[optind])
         /\ optind \in OptionAt <=> IsOption(argv[optind])
         /\ IsOption(argv[optind]) /\ TakesArgument(argv[optind]) => optind + 1 \notin OptionAt
<1>1. /\ stage = "options" /\ UNCHANGED reader /\ optind <= opt_argc
      /\ Types /\ Going
  BY DEF TakeOption, IInv
<1>2. PICK k : k = optind
  OBVIOUS
<1> DEFINE text == argv[k]
<1>3. /\ OptionsSet(k) /\ AtOption(k) /\ opt_argc \in 0 .. Len(argv) /\ Len(argv) \in Nat
      /\ k \in 1 .. opt_argc /\ k \in 1 .. Len(argv) /\ k \in Nat
  <2>1. OptionsSet(k) /\ AtOption(k) /\ k \in 1 .. Len(argv) + 1 /\ k <= opt_argc
    BY <1>1, <1>2 DEF Going, OptionsRead
  <2>2. opt_argc \in 0 .. Len(argv) /\ Len(argv) \in Nat
    BY <1>1, ArgvType DEF Types
  <2> QED
    BY <2>1, <2>2
<1>4. /\ isOption[k] <=> IsOption(text)
      /\ k \in OptionAt <=> IsOption(text)
  <2>1. isOption[k] <=> IsOption(text)
    BY <1>1, <1>3, OptionsAre DEF Types, AtOption
  <2> QED
    BY <1>3, <2>1 DEF OptionAt
<1>5. ASSUME k + 1 \in OptionAt  PROVE ~ (IsOption(text) /\ TakesArgument(text))
  <2>1. (k + 1) - 1 = k /\ k + 1 > 1
    BY <1>3
  <2>2. PICK i \in 1 .. Len(argv) : i = k + 1 /\ isOption[i]
    BY <1>3, <1>5 DEF OptionAt
  <2>3. ~ (i > 1 /\ isOption[i - 1] /\ TakesArgument(argv[i - 1]))
    BY <1>1, <2>2, OptionsAre DEF Types
  <2> QED
    BY <1>4, <2>1, <2>2, <2>3
<1> QED
  BY <1>1, <1>2, <1>3, <1>4, <1>5

LEMMA TakeOptionStep == ASSUME IInv, TakeOption  PROVE IInv'
<1>1. /\ stage = "options" /\ UNCHANGED reader /\ optind <= opt_argc
      /\ Types /\ Going
  BY DEF TakeOption, IInv
<1>2. PICK k : k = optind
  OBVIOUS
<1> DEFINE text == argv[k]
<1>3. /\ OptionsSet(k) /\ opt_argc \in 0 .. Len(argv) /\ Len(argv) \in Nat
      /\ k \in 1 .. opt_argc /\ k \in 1 .. Len(argv) /\ k \in Nat
  BY <1>2, AtPosition
<1>4. /\ isOption[k] <=> IsOption(text)
      /\ k \in OptionAt <=> IsOption(text)
  BY <1>2, AtPosition
<1>5. IsOption(text) /\ TakesArgument(text) => k + 1 \notin OptionAt
  BY <1>2, AtPosition
\* What a case has to show.
<1>6. ASSUME NEW new, NEW n, Set(new, n), n \in k + 1 .. opt_argc + 1,
             OptionsSet(n)', AtOption(n)
      PROVE  IInv'
  <2>1. /\ settings' = new /\ optind' = n /\ stage' = "options"
        /\ UNCHANGED <<argv, trouble, exit, connection, request>>
    BY <1>6 DEF Set, GoTo
  <2>2. ReaderSame
    BY <1>1, ReaderUnchanged
  <2>3. Reading' /\ pc' = "status" /\ eof' = "open"
    BY <1>1, <2>2, StillReads DEF Going, ReaderSame
  <2>4. /\ opt_argc' = opt_argc /\ AtOption(n)'
    BY <1>6, <2>1, CommandLineKept
  <2>5. optind' \in 1 .. Len(argv)' + 1
    BY <1>3, <1>6, <2>1
  <2>6. OptionsRead'
    <3>1. n <= opt_argc + 1
      BY <1>3, <1>6
    <3> QED
      BY <1>6, <2>1, <2>4, <2>5, <3>1 DEF OptionsRead
  <2>7. Connected'
    BY <1>1, <2>1 DEF Going, Connected
  <2>8. Types'
    BY <1>1, <1>6, <2>1, <2>5 DEF Types, Stages, OptionsSet
  <2>9. Going'
    BY <1>1, <2>1, <2>3, <2>6, <2>7 DEF Going
  <2> QED
    BY <2>1, <2>3, <2>8, <2>9 DEF IInv
<1>7. CASE ~ IsOption(text)
  <2>1. Set(settings, k + 1)
    BY <1>1, <1>2, <1>7 DEF TakeOption
  <2>2. OptionsSet(k + 1)'
    BY <1>3, <1>4, <1>7, <2>1, NoOption, OptionsSetKept DEF Set, GoTo
  <2>3. AtOption(k + 1)
    <3>1. (k + 1) - 1 = k
      BY <1>3
    <3> QED
      BY <1>4, <1>7, <3>1 DEF AtOption
  <2>4. k + 1 \in k + 1 .. opt_argc + 1
    BY <1>3
  <2>5. PICK new, n : new = settings /\ n = k + 1
    OBVIOUS
  <2> QED
    BY <1>6, <2>1, <2>2, <2>3, <2>4, <2>5
<1>8. CASE IsOption(text) /\ TakesArgument(text) /\ k < opt_argc
  <2>1. Set(ApplyOption(text[1], argv[k + 1]), k + 2)
    BY <1>1, <1>2, <1>8 DEF TakeOption
  <2>2. PICK new, n : /\ new = ApplyOption(text[1], argv[k + 1]) /\ n = k + 2
                      /\ Set(new, n)
    BY <2>1
  <2>3. settings' = ApplyOption(text[1], argv[k + 1]) /\ argv' = argv
    BY <2>2 DEF Set, GoTo
  <2>4. Known(k)
    BY <1>8 DEF Known, TakesArgument
  <2>5. OptionsSet(k + 1)'
    <3>1. PICK arg : arg = argv[k + 1]
      OBVIOUS
    <3> QED
      BY <1>3, <1>4, <1>8, <2>3, <2>4, <3>1, OneOption
  <2>6. k + 1 \in 1 .. Len(argv) /\ (k + 2) - 1 = k + 1 /\ (k + 1) + 1 = k + 2 /\ k + 1 \in Nat
    BY <1>3, <1>8
  <2>7. ~ isOption[k + 1]
    BY <1>3, <1>5, <1>8 DEF OptionAt
  <2>8. AtOption(k + 2)
    BY <2>6, <2>7 DEF AtOption
  <2>9. OptionsSet(k + 2)'
    <3>1. k + 1 \notin OptionAt'
      BY <2>3, <2>7, CommandLineKept DEF OptionAt
    <3>2. Before(k + 2)' = Before(k + 1)'
      <4>1. \A i \in OptionAt' : i < k + 2 <=> i < k + 1
        <5>1. OptionAt' \subseteq Int
          BY DEF OptionAt
        <5> QED
          BY <1>3, <3>1, <5>1
      <4> QED
        BY <4>1, Zenon DEF Before
    <3> QED
      BY <2>5, <3>2 DEF OptionsSet
  <2>10. n \in k + 1 .. opt_argc + 1
    BY <1>3, <1>8, <2>2
  <2> QED
    BY <1>6, <2>2, <2>8, <2>9, <2>10
<1>9. CASE /\ IsOption(text) /\ ~ (TakesArgument(text) /\ k < opt_argc)
           /\ text[1] \in {"--http2", "-k", "-v"}
  <2>1. Set(ApplyOption(text[1], <<>>), k + 1)
    BY <1>1, <1>2, <1>9 DEF TakeOption
  <2>2. PICK new, n : /\ new = ApplyOption(text[1], <<>>) /\ n = k + 1
                      /\ Set(new, n)
    BY <2>1
  <2>3. settings' = ApplyOption(text[1], <<>>) /\ argv' = argv
    BY <2>2 DEF Set, GoTo
  <2>4. ~ TakesArgument(text)
    BY <1>9 DEF TakesArgument
  <2>5. Known(k)
    BY <1>9, <2>4 DEF Known
  <2>6. OptionsSet(k + 1)'
    <3>1. PICK arg : arg = <<>>
      OBVIOUS
    <3> QED
      BY <1>3, <1>4, <1>9, <2>3, <2>5, <3>1, OneOption
  <2>7. AtOption(k + 1)
    <3>1. (k + 1) - 1 = k
      BY <1>3
    <3> QED
      BY <2>4, <3>1 DEF AtOption
  <2>8. n \in k + 1 .. opt_argc + 1
    BY <1>3, <2>2
  <2> QED
    BY <1>6, <2>2, <2>6, <2>7, <2>8
<1>10. CASE /\ IsOption(text) /\ ~ (TakesArgument(text) /\ k < opt_argc)
            /\ text[1] \notin {"--http2", "-k", "-v"}
  <2>1. Refuse
    BY <1>1, <1>2, <1>10 DEF TakeOption
  <2>2. ~ Legal
    <3>1. k \in OptionAt
      BY <1>4, <1>10
    <3> QED
      BY <1>10, <3>1 DEF Legal, TakesArgument
  <2> QED
    BY <1>1, <2>1, <2>2, Refuses
<1> QED
  BY <1>7, <1>8, <1>9, <1>10

LEMMA OptionsEndStep == ASSUME IInv, OptionsEnd  PROVE IInv'
<1>1. /\ stage = "options" /\ UNCHANGED reader /\ optind > opt_argc
      /\ Types /\ Going
  BY DEF OptionsEnd, IInv
<1>2. CASE argv = <<>>
  <2>1. Refuse
    BY <1>2 DEF OptionsEnd
  <2>2. url \notin DOMAIN Urls
    BY <1>1, <1>2, ArgvType, UrlsAssumption DEF Types
  <2> QED
    BY <1>1, <2>1, <2>2, Refuses DEF Legal
<1>3. CASE argv # <<>>
  <2>1. stage' = "url" /\ UNCHANGED <<argv, optind, settings, connection, exit>>
    BY <1>3 DEF OptionsEnd, GoTo
  <2>2. Connected'
    BY <1>1, <2>1 DEF Going, Connected
  <2> QED
    BY <1>1, <2>1, <2>2, Onward DEF Stages
<1> QED
  BY <1>2, <1>3

LEMMA ParseUrlStep == ASSUME IInv, ParseUrl  PROVE IInv'
<1>1. /\ stage = "url" /\ UNCHANGED reader /\ Going /\ Types
      /\ optind > opt_argc
  BY DEF ParseUrl, IInv, Going, OptionsRead
<1>2. CASE ~ UrlLegal
  BY <1>1, <1>2, Refuses DEF ParseUrl, UrlLegal, Legal
<1>3. CASE UrlLegal
  <2>1. stage' = "resolve" /\ UNCHANGED <<argv, optind, settings, connection, exit>>
    BY <1>3 DEF ParseUrl, UrlLegal, GoTo
  <2>2. Connected'
    BY <1>1, <2>1 DEF Going, Connected
  <2> QED
    BY <1>1, <1>3, <2>1, <2>2, Onward DEF Stages
<1> QED
  BY <1>2, <1>3

\* What the later steps start from.
LEMMA BehindTheUrl ==
  ASSUME IInv, stage \in Stages \ {"options", "url", "over"}
  PROVE  Going /\ Types /\ optind > opt_argc /\ UrlLegal /\ Connected
BY DEF IInv, Going, OptionsRead

LEMMA ResolveStep == ASSUME IInv, Resolve  PROVE IInv'
<1>1. stage = "resolve" /\ UNCHANGED reader
  BY DEF Resolve
<1>2. Going /\ Types /\ optind > opt_argc /\ UrlLegal /\ Connected
  BY <1>1, BehindTheUrl DEF Stages
<1>3. CASE Fail
  BY <1>1, <1>3, Fails
<1>4. CASE GoTo("connect") /\ UNCHANGED <<optind, settings, connection, request>>
  <2>1. stage' = "connect" /\ UNCHANGED <<argv, optind, settings, connection, exit>>
    BY <1>4 DEF GoTo
  <2>2. Connected'
    BY <1>1, <1>2, <2>1 DEF Connected
  <2> QED
    BY <1>1, <1>2, <2>1, <2>2, Onward DEF Stages
<1> QED
  BY <1>3, <1>4 DEF Resolve

LEMMA TcpConnectStep == ASSUME IInv, TcpConnect  PROVE IInv'
<1>1. stage = "connect" /\ UNCHANGED reader
  BY DEF TcpConnect
<1>2. Going /\ Types /\ optind > opt_argc /\ UrlLegal /\ Connected
  BY <1>1, BehindTheUrl DEF Stages
<1>3. CASE Fail
  BY <1>1, <1>3, Fails
<1>4. CASE /\ connection' = {NewConnection}
           /\ GoTo(IF UsesTls THEN "handshake" ELSE "request")
           /\ UNCHANGED <<optind, settings, request>>
  <2>1. /\ connection' = {NewConnection} /\ UNCHANGED <<argv, optind, settings, exit>>
        /\ stage' = IF UsesTls THEN "handshake" ELSE "request"
    BY <1>4 DEF GoTo
  <2>2. components' = components /\ UsesTls' = UsesTls
    BY <2>1, CommandLineKept
  <2>3. Http2Chosen' = Http2Chosen /\ NewConnection' = NewConnection
    BY <2>1, <2>2 DEF Http2Chosen, NewConnection
  <2>4. ASSUME ~ UsesTls  PROVE stage' = "request" /\ ~ Http2Chosen /\ LinkedAsAsked(NewConnection)'
    <3>1. stage' = "request" /\ ~ Http2Chosen
      BY <2>1, <2>4 DEF UsesTls, Http2Chosen
    <3>2. /\ NewConnection.host = components.host /\ NewConnection.port = components.port
          /\ NewConnection.offered <=> Http2Chosen
          /\ ~ NewConnection.tls /\ ~ NewConnection.selected
      BY DEF NewConnection
    <3> QED
      BY <2>2, <2>3, <2>4, <3>1, <3>2 DEF LinkedAsAsked
  <2>5. PICK c : c = NewConnection /\ connection' = {c} /\ c = NewConnection'
    BY <2>1, <2>3
  <2>6. Connected'
    <3>1. CASE UsesTls
      BY <2>1, <2>2, <2>3, <3>1 DEF Connected
    <3>2. CASE ~ UsesTls
      <4>1. LinkedAsAsked(c)'
        BY <2>4, <2>5, <3>2
      <4> QED
        BY <2>3, <2>4, <2>5, <3>2, <4>1 DEF Connected
    <3> QED
      BY <3>1, <3>2
  <2>7. stage' \in Stages \ {"options", "url", "print", "over"}
    BY <2>1 DEF Stages
  <2> QED
    BY <1>1, <1>2, <2>1, <2>6, <2>7, Onward
<1> QED
  BY <1>3, <1>4 DEF TcpConnect

LEMMA HandshakeStep == ASSUME IInv, Handshake  PROVE IInv'
<1>1. stage = "handshake" /\ UNCHANGED reader
  BY DEF Handshake
<1>2. Going /\ Types /\ optind > opt_argc /\ UrlLegal /\ Connected
  BY <1>1, BehindTheUrl DEF Stages
<1>3. PICK valid \in BOOLEAN, selected \in BOOLEAN :
        /\ selected => Http2Chosen
        /\ IF settings.g_verify_cert /\ ~ valid
             THEN Fail
             ELSE /\ \A c \in connection :
                       connection' = {[c EXCEPT
                         !.tls = TRUE, !.valid = valid, !.selected = selected,
                         !.verify = settings.g_verify_cert,
                         !.sni = IF settings.g_verify_cert THEN {c.host} ELSE Absent]}
                  /\ GoTo(IF Http2Chosen THEN "alpn" ELSE "request")
                  /\ UNCHANGED <<optind, settings, request>>
  BY DEF Handshake
<1>4. CASE settings.g_verify_cert /\ ~ valid
  BY <1>1, <1>3, <1>4, Fails
<1>5. CASE ~ (settings.g_verify_cert /\ ~ valid)
  <2>1. /\ UsesTls /\ connection = {NewConnection}
    BY <1>1, <1>2 DEF Connected
  <2>2. PICK sni, verify :
          connection' = {[NewConnection EXCEPT !.tls = TRUE, !.valid = valid,
                            !.selected = selected, !.verify = verify, !.sni = sni]}
    <3>1. connection' = {[NewConnection EXCEPT !.tls = TRUE, !.valid = valid,
                            !.selected = selected, !.verify = settings.g_verify_cert,
                            !.sni = IF settings.g_verify_cert THEN {NewConnection.host} ELSE Absent]}
      BY <1>3, <1>5, <2>1
    <3> QED
      BY <3>1
  <2>3. PICK c : c = [NewConnection EXCEPT !.tls = TRUE, !.valid = valid,
                        !.selected = selected, !.verify = verify, !.sni = sni]
    OBVIOUS
  <2>4. /\ c.host = components.host /\ c.port = components.port
        /\ c.offered = Http2Chosen /\ c.tls = TRUE
        /\ c.valid = valid /\ c.selected = selected
    BY <2>3 DEF NewConnection
  <2>5. /\ UNCHANGED <<argv, optind, settings, exit>>
        /\ stage' = IF Http2Chosen THEN "alpn" ELSE "request"
    BY <1>3, <1>5 DEF GoTo
  <2>6. components' = components /\ UsesTls' = UsesTls
    BY <2>5, CommandLineKept
  <2>7. Http2Chosen' = Http2Chosen
    BY <2>5, <2>6 DEF Http2Chosen
  <2>8. LinkedAsAsked(c)'
    BY <1>3, <1>5, <2>1, <2>4, <2>5, <2>6, <2>7 DEF LinkedAsAsked
  <2>9. connection' = {c}
    BY <2>2, <2>3
  <2>10. Connected'
    <3>1. CASE Http2Chosen
      BY <2>5, <2>7, <2>8, <2>9, <3>1 DEF Connected
    <3>2. CASE ~ Http2Chosen
      BY <2>5, <2>7, <2>8, <2>9, <3>2 DEF Connected
    <3> QED
      BY <3>1, <3>2
  <2>11. stage' \in Stages \ {"options", "url", "print", "over"}
    BY <2>5 DEF Stages
  <2> QED
    BY <1>1, <1>2, <2>5, <2>10, <2>11, Onward
<1> QED
  BY <1>4, <1>5

\* From stage to stage over the same connection.
LEMMA LinkKept ==
  ASSUME Connected, UNCHANGED <<argv, settings, connection>>,
         NEW from \in {"alpn", "session", "answer", "request", "response", "print"},
         NEW to \in {"alpn", "session", "answer", "request", "response", "print"},
         stage = from, stage' = to,
         to \in {"alpn", "session", "answer"} => Http2Chosen,
         to \in {"request", "response"} => ~ Http2Chosen,
         \A c \in connection : to \in {"session", "answer", "print"} /\ Http2Chosen => c.selected
  PROVE  Connected'
<1>1. PICK c : connection = {c} /\ LinkedAsAsked(c)
  BY DEF Connected
<1>2. components' = components /\ UsesTls' = UsesTls
  BY CommandLineKept
<1>3. Http2Chosen' = Http2Chosen
  BY <1>2 DEF Http2Chosen
<1>4. LinkedAsAsked(c)'
  BY <1>1, <1>2, <1>3 DEF LinkedAsAsked
<1> QED
  BY <1>1, <1>3, <1>4 DEF Connected

LEMMA CheckAlpnStep == ASSUME IInv, CheckAlpn  PROVE IInv'
<1>1. stage = "alpn" /\ UNCHANGED reader
  BY DEF CheckAlpn
<1>2. Going /\ Types /\ optind > opt_argc /\ UrlLegal /\ Connected
  BY <1>1, BehindTheUrl DEF Stages
<1>3. CASE ~ \A c \in connection : c.selected
  BY <1>1, <1>3, Fails DEF CheckAlpn
<1>4. CASE \A c \in connection : c.selected
  <2>1. stage' = "session" /\ UNCHANGED <<argv, optind, settings, connection, exit>>
    BY <1>4 DEF CheckAlpn, GoTo
  <2>2. Http2Chosen
    BY <1>1, <1>2 DEF Connected
  <2>3. Connected'
    BY <1>1, <1>2, <1>4, <2>1, <2>2, LinkKept
  <2> QED
    BY <1>1, <1>2, <2>1, <2>3, Onward DEF Stages
<1> QED
  BY <1>3, <1>4

LEMMA WriteHttp2RequestStep == ASSUME IInv, WriteHttp2Request  PROVE IInv'
<1>1. stage = "session" /\ UNCHANGED reader
  BY DEF WriteHttp2Request
<1>2. Going /\ Types /\ optind > opt_argc /\ UrlLegal /\ Connected
  BY <1>1, BehindTheUrl DEF Stages
<1>3. CASE Fail
  BY <1>1, <1>3, Fails
<1>4. CASE ~ Fail
  <2>1. stage' = "answer" /\ UNCHANGED <<argv, optind, settings, connection, exit>>
    BY <1>4 DEF WriteHttp2Request, GoTo
  <2>2. Http2Chosen /\ \A c \in connection : c.selected
    BY <1>1, <1>2 DEF Connected, LinkedAsAsked
  <2>3. Connected'
    BY <1>1, <1>2, <2>1, <2>2, LinkKept
  <2> QED
    BY <1>1, <1>2, <2>1, <2>3, Onward DEF Stages
<1> QED
  BY <1>3, <1>4

LEMMA WriteRequestStep == ASSUME IInv, WriteRequest  PROVE IInv'
<1>1. stage = "request" /\ UNCHANGED reader
  BY DEF WriteRequest
<1>2. Going /\ Types /\ optind > opt_argc /\ UrlLegal /\ Connected
  BY <1>1, BehindTheUrl DEF Stages
<1>3. CASE Fail
  BY <1>1, <1>3, Fails
<1>4. CASE ~ Fail
  <2>1. stage' = "response" /\ UNCHANGED <<argv, optind, settings, connection, exit>>
    BY <1>4 DEF WriteRequest, GoTo
  <2>2. ~ Http2Chosen
    BY <1>1, <1>2 DEF Connected
  <2>3. Connected'
    BY <1>1, <1>2, <2>1, <2>2, LinkKept
  <2> QED
    BY <1>1, <1>2, <2>1, <2>3, Onward DEF Stages
<1> QED
  BY <1>3, <1>4

LEMMA Http2ResponseStep == ASSUME IInv, Http2Response  PROVE IInv'
<1>1. stage = "answer"
  BY DEF Http2Response
<1>2. Going /\ Types /\ optind > opt_argc /\ UrlLegal /\ Connected
  BY <1>1, BehindTheUrl DEF Stages
<1>3. CASE Fail /\ UNCHANGED reader
  BY <1>1, <1>3, Fails
<1>4. CASE ~ (Fail /\ UNCHANGED reader)
  <2>1. /\ payload_' = message.body /\ stage' = "print"
        /\ UNCHANGED <<argv, exit, optind, settings, connection, pc, message, wire, eof,
                       receive_buffer, content_length, transfer_encoding, chunk_size>>
    BY <1>4 DEF Http2Response, GoTo
  <2>2. Reading /\ pc = "status" /\ eof = "open"
    BY <1>1, <1>2 DEF Going
  <2>3. PICK pos, end : Stream(pos, end)
    BY <2>2 DEF Reading
  <2>4. Stream(pos, end)'
    BY <2>1, <2>3, StreamKept
  <2>5. Answered'
    BY <2>1, <2>2, <2>4 DEF Answered, Reading, ReaderTypes
  <2>6. OptionsRead'
    BY <1>2, <2>1, OptionsReadKept DEF Going
  <2>7. Http2Chosen /\ \A c \in connection : c.selected
    BY <1>1, <1>2 DEF Connected, LinkedAsAsked
  <2>8. Connected'
    BY <1>1, <1>2, <2>1, <2>7, LinkKept
  <2>9. UrlLegal'
    BY <1>2, <2>1, CommandLineKept DEF UrlLegal
  <2>10. Types'
    BY <1>2, <2>1 DEF Types, Stages
  <2>11. Going'
    BY <1>2, <2>1, <2>5, <2>6, <2>8, <2>9 DEF Going
  <2> QED
    BY <2>1, <2>5, <2>10, <2>11 DEF IInv
<1> QED
  BY <1>3, <1>4

LEMMA ReadResponseStep == ASSUME IInv, ReadResponse  PROVE IInv'
<1>1. /\ stage = "response" /\ Reader!Next
      /\ UNCHANGED <<argv, stage, optind, settings, connection, request, trouble, exit>>
  BY DEF ReadResponse, world
<1>2. Going /\ Types /\ optind > opt_argc /\ UrlLegal /\ Connected
  BY <1>1, BehindTheUrl DEF Stages
<1>3. Reading'
  BY <1>1, <1>2, ReaderStep DEF Going
<1>4. OptionsRead'
  BY <1>1, <1>2, OptionsReadKept DEF Going
<1>5. ~ Http2Chosen
  BY <1>1, <1>2 DEF Connected
<1>6. Connected'
  BY <1>1, <1>2, <1>5, LinkKept
<1>7. UrlLegal'
  BY <1>1, <1>2, CommandLineKept DEF UrlLegal
<1>8. Types'
  BY <1>1, <1>2 DEF Types
<1>9. Going'
  BY <1>1, <1>2, <1>3, <1>4, <1>6, <1>7 DEF Going
<1> QED
  BY <1>1, <1>3, <1>8, <1>9 DEF IInv

LEMMA ResponseReadStep == ASSUME IInv, ResponseRead  PROVE IInv'
<1>1. stage = "response" /\ UNCHANGED reader /\ pc \in {"done", "failed"}
  BY DEF ResponseRead
<1>2. Going /\ Types /\ optind > opt_argc /\ UrlLegal /\ Connected
  BY <1>1, BehindTheUrl DEF Stages
<1>3. Reading
  BY <1>1, <1>2 DEF Going
<1>4. CASE pc = "failed"
  <2>1. eof # "open"
    BY <1>3, <1>4 DEF Reading, Place
  <2>2. Refuse
    BY <1>4 DEF ResponseRead
  <2> QED
    BY <1>1, <2>1, <2>2, Refuses
<1>5. CASE pc = "done"
  <2>1. stage' = "print" /\ UNCHANGED <<argv, optind, settings, connection, exit>>
    BY <1>5 DEF ResponseRead, GoTo
  <2>2. Reading' /\ pc' = "done"
    BY <1>1, <1>3, <1>5, ReaderUnchanged, StillReads DEF ReaderSame
  <2>3. OptionsRead'
    BY <1>2, <2>1, OptionsReadKept DEF Going
  <2>4. ~ Http2Chosen
    BY <1>1, <1>2 DEF Connected
  <2>5. Connected'
    BY <1>1, <1>2, <2>1, <2>4, LinkKept
  <2>6. UrlLegal'
    BY <1>2, <2>1, CommandLineKept DEF UrlLegal
  <2>7. Types'
    BY <1>2, <2>1 DEF Types, Stages
  <2>8. Going'
    BY <1>2, <2>1, <2>2, <2>3, <2>5, <2>6 DEF Going
  <2> QED
    BY <2>1, <2>2, <2>7, <2>8 DEF IInv
<1> QED
  BY <1>1, <1>4, <1>5

LEMMA PrintPayloadStep == ASSUME IInv, PrintPayload  PROVE IInv'
<1>1. /\ stage = "print" /\ UNCHANGED reader /\ Exit(0, payload_)
      /\ UNCHANGED <<argv, optind, settings, connection>>
  BY DEF PrintPayload
<1>2. Going /\ Types /\ optind > opt_argc /\ UrlLegal /\ Connected
  BY <1>1, BehindTheUrl DEF Stages
<1>3. eof = "open" => payload_ = message.body
  <2>1. CASE Answered
    BY <2>1 DEF Answered
  <2>2. CASE Reading /\ pc = "done"
    BY <2>2, ReadingExact DEF ResponseExact, Reader!ResponseExact
  <2> QED
    BY <1>1, <1>2, <2>1, <2>2 DEF Going
<1>4. /\ Legal /\ (settings.use_http2 <=> Given("--http2"))
      /\ ~ settings.g_verify_cert <=> Given("-k")
  BY <1>1, <1>2, OptionsKnown DEF Going
<1>5. Http2Chosen <=> Given("--http2") /\ Urls[url].scheme = "https"
  <2>1. PICK u \in DOMAIN Urls : u = url
    BY <1>2 DEF UrlLegal
  <2>2. components.scheme = Urls[url].scheme
    BY <2>1, ComponentsOf DEF components
  <2> QED
    BY <1>4, <2>2 DEF Http2Chosen
<1>6. PICK c : connection = {c} /\ LinkedAsAsked(c)
  BY <1>1, <1>2 DEF Connected
<1>7. /\ c.tls => c.valid \/ Given("-k")
      /\ c.selected <=> Given("--http2") /\ Urls[url].scheme = "https"
  BY <1>1, <1>4, <1>5, <1>6 DEF LinkedAsAsked
<1>8. /\ Legal' = Legal /\ url' = url /\ (Given("-k"))' = Given("-k")
      /\ (Given("--http2"))' = Given("--http2")
  BY <1>1, CommandLineKept
<1>9. PICK e : e = [status |-> 0, printed |-> payload_] /\ exit' = {e}
  BY <1>1 DEF Exit
<1>10. /\ payload_' = payload_ /\ eof' = eof /\ message' = message
  BY <1>1, ReaderUnchanged DEF ReaderSame
<1>11. ExitReports'
  <2>1. e.status = 0 /\ e.printed = payload_
    BY <1>9
  <2>2. connection' = {c} /\ connection' # Absent
    BY <1>1, <1>6 DEF Absent
  <2> QED
    BY <1>3, <1>4, <1>7, <1>8, <1>9, <1>10, <2>1, <2>2 DEF ExitReports
<1> QED
  BY <1>1, <1>11, ExitEnds

LEMMA StillInvariant == ASSUME IInv, UNCHANGED vars  PROVE IInv'
<1>1. /\ UNCHANGED <<argv, stage, optind, settings, connection, request, trouble, exit>>
      /\ UNCHANGED reader
  BY DEF vars, world
<1>2. ReaderSame
  BY <1>1, ReaderUnchanged
<1>3. (Reading => Reading') /\ (Answered => Answered')
  BY <1>1, <1>2, StillReads, AnsweredKept DEF ReaderSame, Answered
<1>4. Types'
  BY <1>1 DEF IInv, Types
<1>5. CASE stage = "over"
  <2>1. /\ url' = url /\ Legal' = Legal /\ \A name : Given(name)' = Given(name)
    BY <1>1, CommandLineKept
  <2>2. ConnectsAsAsked' /\ ExitReports' /\ PortsInRange'
    BY <1>1, <1>2, <1>5, <2>1 DEF IInv, ConnectsAsAsked, ExitReports, PortsInRange, ReaderSame
  <2> QED
    BY <1>1, <1>3, <1>4, <1>5, <2>2 DEF IInv
<1>6. CASE stage # "over"
  <2>1. Going
    BY <1>6 DEF IInv
  <2>2. OptionsRead'
    <3>1. PICK k : k = optind
      OBVIOUS
    <3>2. OptionsSet(k)' /\ opt_argc' = opt_argc /\ AtOption(k)' = AtOption(k)
      BY <1>1, <2>1, <3>1, OptionsSetKept, CommandLineKept DEF Going, OptionsRead
    <3> QED
      BY <1>1, <2>1, <3>1, <3>2 DEF Going, OptionsRead
  <2>3. UrlLegal' = UrlLegal /\ components' = components /\ UsesTls' = UsesTls
    BY <1>1, CommandLineKept DEF UrlLegal
  <2>4. Http2Chosen' = Http2Chosen
    BY <1>1, <2>3 DEF Http2Chosen
  <2>5. NewConnection' = NewConnection /\ \A c : LinkedAsAsked(c)' = LinkedAsAsked(c)
    BY <1>1, <2>3, <2>4 DEF NewConnection, LinkedAsAsked
  <2>6. Connected'
    BY <1>1, <2>1, <2>3, <2>4, <2>5 DEF Going, Connected
  <2>7. Going'
    BY <1>1, <1>2, <1>3, <2>1, <2>2, <2>3, <2>6 DEF Going, ReaderSame
  <2> QED
    BY <1>1, <1>3, <1>4, <1>6, <2>7 DEF IInv
<1> QED
  BY <1>5, <1>6

LEMMA InvInitially == ASSUME Init  PROVE IInv
<1>1. /\ Reader!Init /\ \E s \in Scenarios : argv = s.argv
      /\ stage = "options" /\ optind = 1
      /\ settings = [use_http2 |-> FALSE, g_verify_cert |-> TRUE,
                     g_keylog_file |-> Absent, headers |-> <<>>]
      /\ connection = Absent /\ exit = Absent
  BY DEF Init
<1>2. Reading /\ pc = "status" /\ eof = "open"
  BY <1>1, ReadingInitially DEF Reader!Init
<1>3. /\ Len(argv) \in Nat /\ opt_argc \in 0 .. Len(argv)
  BY <1>1, ArgvType
<1>4. Before(1) = {}
  BY DEF Before, OptionAt
<1>5. OptionsSet(1) /\ AtOption(1)
  BY <1>1, <1>4 DEF OptionsSet, AtOption
<1>6. OptionsRead
  <2>1. 1 \in 1 .. Len(argv) + 1 /\ 1 <= opt_argc + 1
    BY <1>3
  <2> QED
    BY <1>1, <1>5, <2>1 DEF OptionsRead
<1>7. Types
  <2>1. 1 \in 1 .. Len(argv) + 1
    BY <1>3
  <2> QED
    BY <1>1, <2>1 DEF Types, Stages
<1> QED
  BY <1>1, <1>2, <1>6, <1>7 DEF IInv, Going, Connected

LEMMA InvStep == IInv /\ [Next]_vars => IInv'
<1>1. ASSUME IInv, Main  PROVE IInv'
  BY <1>1, TakeOptionStep, OptionsEndStep, ParseUrlStep, ResolveStep, TcpConnectStep,
     HandshakeStep, CheckAlpnStep, WriteHttp2RequestStep, Http2ResponseStep, WriteRequestStep,
     ResponseReadStep, PrintPayloadStep DEF Main
<1>2. ASSUME IInv, ReadResponse  PROVE IInv'
  BY <1>2, ReadResponseStep
<1>3. ASSUME IInv, Terminated \/ UNCHANGED vars  PROVE IInv'
  BY <1>3, StillInvariant DEF Terminated
<1> QED
  BY <1>1, <1>2, <1>3 DEF Next

LEMMA InvAlways == Spec => []IInv
<1>1. Init => IInv
  BY InvInitially
<1> QED
  BY <1>1, InvStep, PTL DEF Spec

LEMMA AnsweredMeans ==
  ASSUME Answered
  PROVE  ResponseExact /\ InexactOnlyAtEof /\ Reader!TypeOK
<1>1. message \in Messages /\ pc = "status" /\ eof = "open" /\ payload_ = message.body
  BY DEF Answered, ReaderTypes
<1>2. message.body \in Seq(Octets) /\ Len(message.body) \in Nat
  BY <1>1, MessageType
<1>3. Reader!IsPrefix(payload_, message.body)
  <2>1. PICK q \in Seq(Octets) : q = message.body
    BY <1>2
  <2>2. Len(q) \in 0 .. Len(q) /\ SubSeq(q, 1, Len(q)) = q
    BY <1>2, <2>1
  <2>3. Reader!IsPrefix(SubSeq(q, 1, Len(q)), q)
    BY <2>2, PrefixOf
  <2> QED
    BY <1>1, <2>1, <2>2, <2>3
<1>4. PICK pos, end : Stream(pos, end)
  BY DEF Answered
<1>5. Reader!IsSuffix(receive_buffer \o wire, message.octets)
  BY <1>1, <1>4, StreamSuffix
<1> QED
  BY <1>1, <1>3, <1>5 DEF Answered, ReaderTypes, ReaderStates, ResponseExact, InexactOnlyAtEof,
     Reader!ResponseExact, Reader!InexactOnlyAtEof, Reader!TypeOK

\* What the invariant says of every state.
LEMMA InvMeans ==
  ASSUME IInv
  PROVE  TypeOK /\ ConnectsAsAsked /\ ExitReports /\ ResponseExact /\ InexactOnlyAtEof
<1>1. ResponseExact /\ InexactOnlyAtEof /\ Reader!TypeOK
  BY ReadingExact, ReadingType, AnsweredMeans DEF IInv
<1>2. ConnectsAsAsked /\ PortsInRange /\ ExitReports
  <2>1. CASE stage = "over"
    BY <2>1 DEF IInv
  <2>2. CASE stage # "over"
    <3>1. Types /\ Going
      BY <2>2 DEF IInv
    <3>2. ExitReports
      BY <3>1 DEF Going, ExitReports, Absent
    <3> QED
      BY <2>2, <3>1, <3>2, ConnectionAsAsked
  <2> QED
    BY <2>1, <2>2
<1>3. exit # Absent <=> stage = "over"
  BY DEF IInv, Going
<1>4. pc # "status" => stage \in {"response", "print", "over"}
  BY DEF IInv, Going
<1> QED
  BY <1>1, <1>2, <1>3, <1>4 DEF IInv, Types, Stages, PortsInRange, TypeOK

-----------------------------------------------------------------------------
\* Copying.

\* Copied satisfies its recursion equation.
LEMMA CopiedStep ==
  ASSUME NEW S, NEW s \in Seq(S), NEW kept
  PROVE  /\ Copied(s, kept) \in [0 .. Len(s) -> Seq(S)]
         /\ Copied(s, kept)[0] = <<>>
         /\ \A i \in 1 .. Len(s) :
              Copied(s, kept)[i] = IF i \in kept THEN Append(Copied(s, kept)[i - 1], s[i])
                                   ELSE Copied(s, kept)[i - 1]
<1>1. PICK n \in Nat : n = Len(s) /\ \A i \in 1 .. n : s[i] \in S
  OBVIOUS
<1> DEFINE Eq(f) == f = [i \in 0 .. Len(s) |->
                           IF i = 0 THEN <<>>
                           ELSE IF i \in kept THEN Append(f[i - 1], s[i]) ELSE f[i - 1]]
           D == Seq(S)
           t == [i \in 1 .. n |-> [q \in D |-> IF i \in kept THEN Append(q, s[i]) ELSE q]]
<1>2. Copied(s, kept) = CHOOSE f : Eq(f)
  BY Zenon DEF Copied
<1>3. PICK step \in Steps(n, D) :
        \A i \in 1 .. n, q \in D : step[i][q] = IF i \in kept THEN Append(q, s[i]) ELSE q
  <2>1. t \in [1 .. n -> [D -> D]]
    BY <1>1
  <2>2. \A i \in 1 .. n, q \in D : t[i][q] = IF i \in kept THEN Append(q, s[i]) ELSE q
    OBVIOUS
  <2> HIDE DEF t, D
  <2> QED
    BY <2>1, <2>2 DEF Steps
<1> HIDE DEF t
<1>4. <<>> \in D
  OBVIOUS
<1> HIDE DEF D
<1>5. PICK run : IsRecursion(run, n, D, <<>>, step)
  BY <1>4, RecursionExists
<1>6. run \in [0 .. n -> D] /\ run[0] = <<>>
  BY <1>5 DEF IsRecursion
<1>7. \A i \in 1 .. n : run[i] = IF i \in kept THEN Append(run[i - 1], s[i]) ELSE run[i - 1]
  <2>1. ASSUME NEW i \in 1 .. n  PROVE run[i - 1] \in D /\ run[i] = step[i][run[i - 1]]
    BY <1>5 DEF IsRecursion
  <2> QED
    BY <1>3, <2>1
<1>8. Eq(run)
  <2>1. \A i \in 0 .. n : i # 0 => i \in 1 .. n
    OBVIOUS
  <2>2. \A i \in 0 .. n : run[i] = IF i = 0 THEN <<>>
                           ELSE IF i \in kept THEN Append(run[i - 1], s[i]) ELSE run[i - 1]
    BY <1>6, <1>7, <2>1, Zenon
  <2>3. run = [i \in 0 .. n |-> run[i]]
    BY <1>6
  <2>4. [i \in 0 .. n |-> run[i]] = [i \in 0 .. n |-> IF i = 0 THEN <<>>
                           ELSE IF i \in kept THEN Append(run[i - 1], s[i]) ELSE run[i - 1]]
    BY <2>2, Zenon
  <2> QED
    BY <1>1, <2>3, <2>4, Zenon
<1>9. PICK c : c = Copied(s, kept) /\ Eq(c)
  <2> HIDE DEF Eq
  <2> QED
    BY <1>2, <1>8, Zenon
<1>10. /\ c[0] = <<>>
       /\ \A i \in 1 .. n : c[i] = IF i \in kept THEN Append(c[i - 1], s[i]) ELSE c[i - 1]
       /\ c = [i \in 0 .. n |-> c[i]]
  <2>1. c = [i \in 0 .. n |-> IF i = 0 THEN <<>>
                           ELSE IF i \in kept THEN Append(c[i - 1], s[i]) ELSE c[i - 1]]
    BY <1>1, <1>9, Zenon
  <2>2. 0 \in 0 .. n /\ \A i \in 1 .. n : i \in 0 .. n /\ i # 0
    OBVIOUS
  <2>3. c[0] = <<>>
    BY <2>1, <2>2, Zenon
  <2>4. \A i \in 1 .. n : c[i] = IF i \in kept THEN Append(c[i - 1], s[i]) ELSE c[i - 1]
    BY <2>1, <2>2, Zenon
  <2>5. c = [i \in 0 .. n |-> c[i]]
    BY <2>1, Zenon
  <2> QED
    BY <2>3, <2>4, <2>5
<1> DEFINE N == {i \in Nat : i <= n => c[i] \in D}
<1>11. 0 \in N
  BY <1>4, <1>10
<1>12. ASSUME NEW i \in Nat, i \in N  PROVE i + 1 \in N
  <2>1. SUFFICES ASSUME i + 1 <= n  PROVE c[i + 1] \in D
    OBVIOUS
  <2>2. i + 1 \in 1 .. n /\ (i + 1) - 1 = i /\ i <= n
    BY <2>1
  <2>3. c[i] \in Seq(S) /\ s[i + 1] \in S
    BY <1>1, <1>12, <2>2 DEF D
  <2>4. c[i + 1] = Append(c[i], s[i + 1]) \/ c[i + 1] = c[i]
    BY <1>10, <2>2
  <2>5. PICK q \in Seq(S), e \in S : q = c[i] /\ e = s[i + 1]
    BY <2>3
  <2>6. Append(q, e) \in Seq(S)
    OBVIOUS
  <2>7. c[i + 1] \in Seq(S)
    BY <2>4, <2>5, <2>6
  <2> QED
    BY <2>7, Zenon DEF D
<1>13. Nat \subseteq N
  <2> HIDE DEF N
  <2> QED
    BY <1>11, <1>12, SetInduction
<1>14. c \in [0 .. n -> D]
  BY <1>10, <1>13
<1> QED
  BY <1>1, <1>9, <1>10, <1>14 DEF D

\* Nothing is copied behind the last position that is kept.
LEMMA CopiedSame ==
  ASSUME NEW S, NEW s \in Seq(S), NEW kept, NEW m \in 0 .. Len(s),
         \A i \in m + 1 .. Len(s) : i \notin kept
  PROVE  copy_if(s, kept) = Copied(s, kept)[m]
<1>1. PICK n \in Nat : n = Len(s)
  OBVIOUS
<1>2. PICK c : c = Copied(s, kept)
  OBVIOUS
<1> DEFINE N == {i \in Nat : m + i <= n => c[m + i] = c[m]}
<1>3. \A i \in 1 .. n : i \notin kept => c[i] = c[i - 1]
  <2>1. /\ Copied(s, kept) \in [0 .. Len(s) -> Seq(S)]
        /\ Copied(s, kept)[0] = <<>>
        /\ \A i \in 1 .. Len(s) :
             Copied(s, kept)[i] = IF i \in kept THEN Append(Copied(s, kept)[i - 1], s[i])
                                  ELSE Copied(s, kept)[i - 1]
    BY CopiedStep
  <2> QED
    BY <1>1, <1>2, <2>1
<1>4. m \in Nat /\ m <= n /\ n - m \in Nat /\ m + (n - m) = n
  BY <1>1
<1>5. 0 \in N
  BY <1>4
<1>6. ASSUME NEW i \in Nat, i \in N  PROVE i + 1 \in N
  <2>1. SUFFICES ASSUME m + (i + 1) <= n  PROVE c[m + (i + 1)] = c[m]
    OBVIOUS
  <2>2. /\ m + (i + 1) \in 1 .. n /\ (m + (i + 1)) - 1 = m + i /\ m + i <= n
        /\ m + (i + 1) \in m + 1 .. n
    BY <1>4, <2>1
  <2>3. c[m + (i + 1)] = c[m + i]
    BY <1>1, <1>3, <2>2
  <2> QED
    BY <1>6, <2>2, <2>3
<1>7. Nat \subseteq N
  <2> HIDE DEF N
  <2> QED
    BY <1>5, <1>6, SetInduction
<1>8. c[n] = c[m]
  <2>1. n - m \in N
    BY <1>4, <1>7
  <2> QED
    BY <1>4, <2>1
<1> QED
  BY <1>1, <1>2, <1>8 DEF copy_if

\* As long as everything is kept, what is copied is what there is.
LEMMA CopiedAll ==
  ASSUME NEW S, NEW s \in Seq(S), NEW kept, NEW m \in 0 .. Len(s),
         \A i \in 1 .. m : i \in kept
  PROVE  Copied(s, kept)[m] = SubSeq(s, 1, m)
<1>1. PICK n \in Nat : n = Len(s) /\ \A i \in 1 .. n : s[i] \in S
  OBVIOUS
<1>2. PICK c : c = Copied(s, kept)
  OBVIOUS
<1>3. c[0] = <<>> /\ \A i \in 1 .. n : i \in kept => c[i] = Append(c[i - 1], s[i])
  <2>1. /\ Copied(s, kept) \in [0 .. Len(s) -> Seq(S)]
        /\ Copied(s, kept)[0] = <<>>
        /\ \A i \in 1 .. Len(s) :
             Copied(s, kept)[i] = IF i \in kept THEN Append(Copied(s, kept)[i - 1], s[i])
                                  ELSE Copied(s, kept)[i - 1]
    BY CopiedStep
  <2> QED
    BY <1>1, <1>2, <2>1
<1> DEFINE Is(q, k) == q \in Seq(S) /\ Len(q) = k /\ \A j \in 1 .. k : q[j] = s[j]
           N == {i \in Nat : i <= m => Is(c[i], i)}
<1>4. 0 \in N
  <2>1. <<>> \in Seq(S) /\ Len(<<>>) = 0 /\ \A j \in 1 .. 0 : FALSE
    OBVIOUS
  <2> QED
    BY <1>3, <2>1
<1>5. ASSUME NEW i \in Nat, i \in N  PROVE i + 1 \in N
  <2>1. SUFFICES ASSUME i + 1 <= m  PROVE Is(c[i + 1], i + 1)
    OBVIOUS
  <2>2. i + 1 \in 1 .. m /\ i + 1 \in 1 .. n /\ (i + 1) - 1 = i /\ i <= m
    BY <1>1, <2>1
  <2>3. c[i + 1] = Append(c[i], s[i + 1]) /\ s[i + 1] \in S
    BY <1>1, <1>3, <2>2
  <2>4. Is(c[i], i)
    BY <1>5, <2>2
  <2>5. PICK q \in Seq(S) : q = c[i] /\ Len(q) = i /\ \A j \in 1 .. i : q[j] = s[j]
    BY <2>4
  <2>6. \A j \in 1 .. i + 1 : j \in 1 .. i \/ j = i + 1
    OBVIOUS
  <2>7. Append(q, s[i + 1]) \in Seq(S) /\ Len(Append(q, s[i + 1])) = i + 1
        /\ Append(q, s[i + 1])[i + 1] = s[i + 1] /\ \A j \in 1 .. i : Append(q, s[i + 1])[j] = q[j]
    BY <2>3, <2>5
  <2> QED
    BY <2>3, <2>5, <2>6, <2>7
<1>6. Nat \subseteq N
  <2> HIDE DEF N
  <2> QED
    BY <1>4, <1>5, SetInduction
<1>7. Is(c[m], m)
  BY <1>1, <1>6
<1>8. /\ SubSeq(s, 1, m) \in Seq(S) /\ Len(SubSeq(s, 1, m)) = m
      /\ \A j \in 1 .. m : SubSeq(s, 1, m)[j] = s[j]
  BY <1>1
<1>9. c[m] = SubSeq(s, 1, m)
  BY <1>1, <1>7, <1>8, SeqEqual
<1> QED
  BY <1>2, <1>9
-----------------------------------------------------------------------------
\* Trimming.

LEMMA LeastOf ==
  ASSUME NEW T \in SUBSET Nat, T # {}
  PROVE  Min(T) \in T /\ \A i \in T : Min(T) <= i
<1>1. \E x \in T : \A y \in T : x <= y
  BY LeastElement
<1> QED
  BY <1>1, Zenon DEF Min

LEMMA GreatestOf ==
  ASSUME NEW n \in Nat, NEW T \in SUBSET (1 .. n), T # {}
  PROVE  Max(T) \in T /\ \A i \in T : i <= Max(T)
<1> DEFINE U == {n - i : i \in T}
<1>1. U \in SUBSET Nat /\ U # {}
  <2>1. \A i \in T : n - i \in Nat
    OBVIOUS
  <2>2. PICK i \in T : n - i \in U
    BY Zenon
  <2> QED
    BY <2>1, <2>2, Zenon
<1> HIDE DEF U
<1>2. PICK x \in U : \A y \in U : x <= y
  BY <1>1, LeastElement
<1>3. PICK t \in T : x = n - t
  BY DEF U
<1>4. ASSUME NEW i \in T  PROVE t >= i
  <2>1. n - i \in U
    BY DEF U
  <2>2. n - t <= n - i
    BY <1>2, <1>3, <2>1
  <2> QED
    BY <2>2
<1>5. \E y \in T : \A i \in T : y >= i
  BY <1>4
<1>6. Max(T) \in T /\ \A i \in T : Max(T) >= i
  BY <1>5, Zenon DEF Max
<1> QED
  BY <1>6

\* A part of a sequence.
LEMMA PartOf ==
  ASSUME NEW S, NEW s \in Seq(S), NEW a \in 1 .. Len(s) + 1, NEW b \in a - 1 .. Len(s)
  PROVE  /\ SubSeq(s, a, b) \in Seq(S) /\ Len(SubSeq(s, a, b)) = b - a + 1
         /\ \A i \in 1 .. b - a + 1 : SubSeq(s, a, b)[i] = s[a - 1 + i]
<1>1. PICK n \in Nat : n = Len(s) /\ \A i \in 1 .. n : s[i] \in S
  OBVIOUS
<1>2. a \in Nat \ {0} /\ a <= n + 1 /\ b \in Nat /\ b <= n /\ a <= b + 1
  BY <1>1
<1> QED
  BY <1>1, <1>2

\* A part of a part.
LEMMA PartOfPart ==
  ASSUME NEW S, NEW s \in Seq(S), NEW a \in 1 .. Len(s) + 1, NEW b \in a - 1 .. Len(s),
         NEW c \in 1 .. b - a + 2, NEW d \in c - 1 .. b - a + 1
  PROVE  SubSeq(SubSeq(s, a, b), c, d) = SubSeq(s, a - 1 + c, a - 1 + d)
<1>1. PICK n \in Nat : n = Len(s)
  OBVIOUS
<1>2. PICK p : p = SubSeq(s, a, b)
  OBVIOUS
<1>3. p \in Seq(S) /\ Len(p) = b - a + 1 /\ \A i \in 1 .. b - a + 1 : p[i] = s[a - 1 + i]
  BY <1>2, PartOf
<1>4. /\ a \in Nat \ {0} /\ b \in Nat /\ c \in Nat \ {0} /\ d \in Nat
      /\ c <= d + 1 /\ d <= b - a + 1 /\ b <= n /\ a <= b + 1
  BY <1>1
<1>5. /\ SubSeq(p, c, d) \in Seq(S) /\ Len(SubSeq(p, c, d)) = d - c + 1
      /\ \A i \in 1 .. d - c + 1 : SubSeq(p, c, d)[i] = p[c - 1 + i]
  <2>1. c \in 1 .. Len(p) + 1 /\ d \in c - 1 .. Len(p)
    BY <1>3, <1>4
  <2> QED
    BY <1>3, <2>1, PartOf
<1>6. PICK x \in Nat, y \in Nat : x = a - 1 + c /\ y = a - 1 + d
  BY <1>4
<1>7. y - x + 1 = d - c + 1 /\ x \in 1 .. n + 1 /\ y \in x - 1 .. n
  BY <1>4, <1>6
<1>8. /\ SubSeq(s, x, y) \in Seq(S) /\ Len(SubSeq(s, x, y)) = y - x + 1
      /\ \A i \in 1 .. y - x + 1 : SubSeq(s, x, y)[i] = s[x - 1 + i]
  BY <1>1, <1>7, PartOf
<1>9. ASSUME NEW i \in 1 .. d - c + 1  PROVE SubSeq(p, c, d)[i] = SubSeq(s, x, y)[i]
  <2>1. /\ c - 1 + i \in 1 .. b - a + 1 /\ a - 1 + (c - 1 + i) = x - 1 + i
        /\ i \in 1 .. y - x + 1
    BY <1>4, <1>6
  <2>2. SubSeq(p, c, d)[i] = p[c - 1 + i] /\ p[c - 1 + i] = s[a - 1 + (c - 1 + i)]
    BY <1>3, <1>5, <2>1
  <2>3. SubSeq(s, x, y)[i] = s[x - 1 + i]
    BY <1>8, <2>1
  <2> QED
    BY <2>1, <2>2, <2>3
<1>10. SubSeq(p, c, d) = SubSeq(s, x, y)
  <2>1. d - c + 1 \in Nat
    BY <1>4
  <2> QED
    BY <1>5, <1>7, <1>8, <1>9, <2>1, SeqEqual
<1> QED
  BY <1>2, <1>6, <1>10

\* t is s without the blanks at its ends.
Trims(s, t) ==
  /\ t # <<>> /\ Head(t) # Blank /\ Last(t) # Blank
  /\ \E i \in 0 .. Len(s) - Len(t) :
       /\ t = SubSeq(s, i + 1, i + Len(t))
       /\ \A j \in (1 .. i) \cup (i + Len(t) + 1 .. Len(s)) : s[j] = Blank

LEMMA TrimTrims ==
  ASSUME NEW S, NEW s \in Seq(S), Others(s, Blank) # {}
  PROVE  trim(s, Blank) \in Seq(S) /\ Trims(s, trim(s, Blank))
<1>1. PICK n \in Nat : n = Len(s)
  OBVIOUS
<1>2. PICK a \in 1 .. n : a = Min(Others(s, Blank)) /\ s[a] # Blank /\ \A j \in 1 .. a - 1 : s[j] = Blank
  <2>1. Others(s, Blank) \in SUBSET Nat
    BY DEF Others
  <2>2. Min(Others(s, Blank)) \in Others(s, Blank) /\ \A i \in Others(s, Blank) : Min(Others(s, Blank)) <= i
    BY <2>1, LeastOf
  <2>3. PICK a : a = Min(Others(s, Blank))
    OBVIOUS
  <2>4. a \in 1 .. n /\ s[a] # Blank /\ \A i \in 1 .. n : s[i] # Blank => a <= i
    BY <1>1, <2>2, <2>3 DEF Others
  <2>5. \A j \in 1 .. a - 1 : s[j] = Blank
    BY <2>4
  <2> QED
    BY <2>3, <2>4, <2>5
<1>3. PICK l : l = SubSeq(s, a, n) /\ l = ltrim(s, Blank)
  BY <1>1, <1>2 DEF ltrim
<1>4. PICK k \in Nat : k = n - a + 1
  OBVIOUS
<1>5. l \in Seq(S) /\ Len(l) = k /\ \A i \in 1 .. k : l[i] = s[a - 1 + i]
  <2>1. PICK b \in a - 1 .. Len(s) : b = n
    BY <1>1
  <2>2. a \in 1 .. Len(s) + 1
    BY <1>1
  <2>3. /\ SubSeq(s, a, b) \in Seq(S) /\ Len(SubSeq(s, a, b)) = b - a + 1
        /\ \A i \in 1 .. b - a + 1 : SubSeq(s, a, b)[i] = s[a - 1 + i]
    BY <2>2, PartOf
  <2> QED
    BY <1>3, <1>4, <2>1, <2>3
<1>6. PICK m \in 1 .. k : /\ rtrim(l, Blank) = SubSeq(l, 1, m)
                          /\ l[m] # Blank /\ \A j \in m + 1 .. k : l[j] = Blank
  <2>1. Others(l, Blank) \in SUBSET (1 .. k)
    BY <1>5 DEF Others
  <2>2. Others(l, Blank) # {}
    <3>1. 1 \in 1 .. k /\ a - 1 + 1 = a
      BY <1>4
    <3>2. l[1] # Blank
      BY <1>2, <1>5, <3>1
    <3> QED
      BY <1>5, <3>1, <3>2 DEF Others
  <2>3. Max(Others(l, Blank)) \in Others(l, Blank) /\ \A i \in Others(l, Blank) : i <= Max(Others(l, Blank))
    BY <2>1, <2>2, GreatestOf
  <2>4. PICK m : m = Max(Others(l, Blank))
    OBVIOUS
  <2>5. m \in 1 .. k /\ l[m] # Blank /\ \A i \in 1 .. k : l[i] # Blank => i <= m
    BY <1>5, <2>3, <2>4 DEF Others
  <2>6. \A j \in m + 1 .. k : l[j] = Blank
    BY <2>5
  <2> QED
    BY <2>2, <2>4, <2>5, <2>6 DEF rtrim
<1>7. PICK t : t = trim(s, Blank) /\ t = SubSeq(l, 1, m)
  BY <1>3, <1>6 DEF trim
<1>8. t \in Seq(S) /\ Len(t) = m /\ \A i \in 1 .. m : t[i] = l[i]
  <2>1. 1 \in 1 .. Len(l) + 1 /\ m \in 1 - 1 .. Len(l) /\ m - 1 + 1 = m
        /\ \A i \in 1 .. m : 1 - 1 + i = i
    BY <1>5
  <2> QED
    BY <1>5, <1>7, <2>1, PartOf
<1>9. t = SubSeq(s, (a - 1) + 1, (a - 1) + Len(t))
  <2>1. a \in 1 .. Len(s) + 1 /\ n \in a - 1 .. Len(s) /\ 1 \in 1 .. n - a + 2 /\ m \in 1 - 1 .. n - a + 1
    BY <1>1, <1>4
  <2>2. PICK b : b = n
    OBVIOUS
  <2>3. SubSeq(SubSeq(s, a, b), 1, m) = SubSeq(s, a - 1 + 1, a - 1 + m)
    BY <2>1, <2>2, PartOfPart
  <2> QED
    BY <1>3, <1>7, <1>8, <2>2, <2>3
<1>10. a - 1 \in 0 .. Len(s) - Len(t)
  BY <1>1, <1>4, <1>8
<1>11. ASSUME NEW j \in (1 .. (a - 1)) \cup ((a - 1) + Len(t) + 1 .. Len(s))  PROVE s[j] = Blank
  <2>1. CASE j \in 1 .. a - 1
    BY <1>2, <2>1
  <2>2. CASE j \in (a - 1) + Len(t) + 1 .. Len(s)
    <3>1. j - (a - 1) \in m + 1 .. k /\ j - (a - 1) \in 1 .. k /\ a - 1 + (j - (a - 1)) = j
      BY <1>1, <1>4, <1>8, <2>2
    <3> QED
      BY <1>5, <1>6, <3>1
  <2> QED
    BY <2>1, <2>2
<1>12. t # <<>> /\ Head(t) # Blank /\ Last(t) # Blank
  <2>1. t[m] # Blank /\ t[1] = s[a]
    <3>1. 1 \in 1 .. m /\ 1 \in 1 .. k /\ m \in 1 .. m /\ a - 1 + 1 = a
      BY <1>4
    <3> QED
      BY <1>5, <1>6, <1>8, <3>1
  <2> QED
    BY <1>2, <1>8, <2>1 DEF Last
<1>13. PICK i : i = a - 1
  OBVIOUS
<1>14. Trims(s, t)
  BY <1>9, <1>10, <1>11, <1>12, <1>13 DEF Trims
<1> QED
  BY <1>7, <1>8, <1>14

\* Lower case changes no blank and makes none.
LEMMA LowerKeeps ==
  ASSUME NEW S, NEW s \in Seq(S)
  PROVE  /\ IsSeq(tolower(s)) /\ Len(tolower(s)) = Len(s)
         /\ \A i \in 1 .. Len(s) : tolower(s)[i] = Blank <=> s[i] = Blank
         /\ Others(tolower(s), Blank) = Others(s, Blank)
<1>1. PICK n \in Nat : n = Len(s) /\ DOMAIN s = 1 .. n
  OBVIOUS
<1>2. PICK t : t = tolower(s)
  OBVIOUS
<1>3. t = [i \in 1 .. n |-> IF s[i] \in DOMAIN Lower THEN Lower[s[i]] ELSE s[i]]
  BY <1>1, <1>2 DEF tolower
<1>4. IsSeq(t) /\ Len(t) = n
  BY <1>3, SeqFunction
<1>5. \A i \in 1 .. n : t[i] = Blank <=> s[i] = Blank
  BY <1>3, LowerAssumption
<1>6. Others(t, Blank) = Others(s, Blank)
  BY <1>1, <1>4, <1>5 DEF Others
<1> QED
  BY <1>1, <1>2, <1>4, <1>5, <1>6

LEMMA LowerTrims ==
  ASSUME NEW S, NEW s \in Seq(S), NEW t \in Seq(S), Trims(s, t)
  PROVE  Trims(tolower(s), tolower(t))
<1>1. PICK n \in Nat, m \in Nat : n = Len(s) /\ m = Len(t)
  OBVIOUS
<1>2. PICK i \in 0 .. n - m : /\ t = SubSeq(s, i + 1, i + m)
                              /\ \A j \in (1 .. i) \cup (i + m + 1 .. n) : s[j] = Blank
  BY <1>1 DEF Trims
<1>3. PICK u, v : u = tolower(s) /\ v = tolower(t)
  OBVIOUS
<1>4. /\ IsSeq(u) /\ Len(u) = n /\ \A j \in 1 .. n : u[j] = Blank <=> s[j] = Blank
      /\ IsSeq(v) /\ Len(v) = m /\ \A j \in 1 .. m : v[j] = Blank <=> t[j] = Blank
  BY <1>1, <1>3, LowerKeeps
<1>5. m \in 1 .. n /\ t[1] # Blank /\ t[m] # Blank
  <2>1. t # <<>> /\ Head(t) # Blank /\ t[m] # Blank
    BY <1>1 DEF Trims, Last
  <2>2. m # 0
    BY <1>1, <2>1
  <2>3. m <= n
    BY <1>2
  <2>4. t[1] # Blank
    BY <2>1
  <2> QED
    BY <2>1, <2>2, <2>3, <2>4
<1>6. v # <<>> /\ Head(v) # Blank /\ Last(v) # Blank
  <2>1. 1 \in 1 .. m /\ m \in 1 .. m
    BY <1>5
  <2>2. v[1] # Blank /\ v[m] # Blank
    BY <1>4, <1>5, <2>1
  <2>3. PICK T : v \in Seq(T)
    BY <1>4 DEF IsSeq
  <2>4. v # <<>> /\ Head(v) = v[1]
    BY <1>4, <1>5, <2>3
  <2> QED
    BY <1>4, <2>2, <2>4 DEF Last
<1>7. PICK T : u \in Seq(T)
  BY <1>4 DEF IsSeq
<1>8. PICK a \in 1 .. n + 1, b \in 0 .. n :
        b \in a - 1 .. n /\ a = i + 1 /\ b = i + m /\ b - a + 1 = m
  BY <1>2, <1>5
<1>9. /\ SubSeq(s, a, b) \in Seq(S) /\ \A j \in 1 .. m : SubSeq(s, a, b)[j] = s[a - 1 + j]
      /\ SubSeq(u, a, b) \in Seq(T) /\ Len(SubSeq(u, a, b)) = m
      /\ \A j \in 1 .. m : SubSeq(u, a, b)[j] = u[a - 1 + j]
  <2>1. /\ SubSeq(s, a, b) \in Seq(S) /\ \A j \in 1 .. b - a + 1 : SubSeq(s, a, b)[j] = s[a - 1 + j]
    BY <1>1, PartOf
  <2>2. /\ SubSeq(u, a, b) \in Seq(T) /\ Len(SubSeq(u, a, b)) = b - a + 1
        /\ \A j \in 1 .. b - a + 1 : SubSeq(u, a, b)[j] = u[a - 1 + j]
    <3>1. a \in 1 .. Len(u) + 1 /\ b \in a - 1 .. Len(u)
      BY <1>4, <1>8
    <3> QED
      BY <1>7, <3>1, PartOf
  <2> QED
    BY <1>8, <2>1, <2>2
<1>10. ASSUME NEW j \in 1 .. m  PROVE v[j] = SubSeq(u, a, b)[j]
  <2>1. a - 1 + j \in 1 .. n
    BY <1>2, <1>8
  <2>2. t[j] = s[a - 1 + j]
    BY <1>2, <1>8, <1>9
  <2>3. /\ DOMAIN s = 1 .. n /\ DOMAIN t = 1 .. m
    BY <1>1
  <2>4. /\ v[j] = IF t[j] \in DOMAIN Lower THEN Lower[t[j]] ELSE t[j]
        /\ u[a - 1 + j] = IF s[a - 1 + j] \in DOMAIN Lower THEN Lower[s[a - 1 + j]] ELSE s[a - 1 + j]
    BY <1>3, <2>1, <2>3 DEF tolower
  <2> QED
    BY <1>9, <2>2, <2>4
<1>11. v = SubSeq(u, a, b)
  <2>1. IsSeq(SubSeq(u, a, b)) /\ Len(SubSeq(u, a, b)) = m
    BY <1>9 DEF IsSeq
  <2>2. PICK W : v \in Seq(W)
    BY <1>4 DEF IsSeq
  <2> QED
    BY <1>4, <1>9, <1>10, <2>2, SeqEqual
<1>12. \A j \in (1 .. i) \cup (i + m + 1 .. n) : u[j] = Blank
  <2>1. \A j \in (1 .. i) \cup (i + m + 1 .. n) : j \in 1 .. n
    BY <1>2
  <2> QED
    BY <1>2, <1>4, <2>1
<1>13. Trims(u, v)
  BY <1>2, <1>4, <1>6, <1>8, <1>11, <1>12 DEF Trims
<1> QED
  BY <1>3, <1>13

-----------------------------------------------------------------------------
\* A header line.

\* Only line breaks are taken from the end.
LEMMA BareIs ==
  ASSUME NEW S, NEW s \in Seq(S)
  PROVE  \E m \in 0 .. Len(s) : /\ Bare(s) = SubSeq(s, 1, m)
                                /\ \A i \in m + 1 .. Len(s) : s[i] \in LineBreaks
<1>1. PICK n \in Nat : n = Len(s)
  OBVIOUS
<1>2. CASE Len(s) > 0 /\ Last(s) \in LineBreaks
  <2>1. Bare(s) = SubSeq(s, 1, n - 1) /\ n - 1 \in 0 .. n
    BY <1>1, <1>2 DEF Bare, Front
  <2>2. \A i \in (n - 1) + 1 .. n : i = n
    BY <1>1
  <2>3. s[n] \in LineBreaks
    BY <1>1, <1>2 DEF Last
  <2> QED
    BY <1>1, <2>1, <2>2, <2>3
<1>3. CASE ~ (Len(s) > 0 /\ Last(s) \in LineBreaks)
  <2>1. Bare(s) = s /\ SubSeq(s, 1, n) = s
    BY <1>1, <1>3 DEF Bare
  <2>2. n \in 0 .. n /\ n + 1 .. n = {}
    OBVIOUS
  <2> QED
    BY <1>1, <2>1, <2>2
<1> QED
  BY <1>2, <1>3

LEMMA BareTwice ==
  ASSUME NEW S, NEW s \in Seq(S)
  PROVE  \E m \in 0 .. Len(s) : /\ Bare(Bare(s)) = SubSeq(s, 1, m)
                                /\ \A i \in m + 1 .. Len(s) : s[i] \in LineBreaks
<1>1. PICK n \in Nat : n = Len(s)
  OBVIOUS
<1>2. PICK m \in 0 .. n : Bare(s) = SubSeq(s, 1, m) /\ \A i \in m + 1 .. n : s[i] \in LineBreaks
  BY <1>1, BareIs
<1>3. PICK t : t = Bare(s)
  OBVIOUS
<1>4. t \in Seq(S) /\ Len(t) = m /\ \A i \in 1 .. m : t[i] = s[i]
  BY <1>1, <1>2, <1>3, Cut
<1>5. PICK k \in 0 .. m : Bare(t) = SubSeq(t, 1, k) /\ \A i \in k + 1 .. m : t[i] \in LineBreaks
  BY <1>4, BareIs
<1>6. SubSeq(t, 1, k) = SubSeq(s, 1, k)
  <2>1. k \in 0 .. n /\ \A i \in 1 .. k : i \in 1 .. m
    OBVIOUS
  <2>2. /\ SubSeq(t, 1, k) \in Seq(S) /\ Len(SubSeq(t, 1, k)) = k
        /\ \A i \in 1 .. k : SubSeq(t, 1, k)[i] = t[i]
    BY <1>4, Cut
  <2>3. /\ SubSeq(s, 1, k) \in Seq(S) /\ Len(SubSeq(s, 1, k)) = k
        /\ \A i \in 1 .. k : SubSeq(s, 1, k)[i] = s[i]
    BY <1>1, <2>1, Cut
  <2> QED
    BY <1>4, <2>1, <2>2, <2>3, SeqEqual
<1>7. ASSUME NEW i \in k + 1 .. n  PROVE s[i] \in LineBreaks
  <2>1. i \in m + 1 .. n \/ (i \in k + 1 .. m /\ i \in 1 .. m)
    OBVIOUS
  <2> QED
    BY <1>2, <1>4, <1>5, <2>1
<1>8. k \in 0 .. n
  OBVIOUS
<1> QED
  BY <1>1, <1>3, <1>5, <1>6, <1>7, <1>8

LEMMA ColonsBare ==
  ASSUME NEW S, NEW s \in Seq(S)
  PROVE  Colons(Bare(Bare(s))) = Colons(s)
<1>1. PICK n \in Nat : n = Len(s)
  OBVIOUS
<1>2. PICK m \in 0 .. n : /\ Bare(Bare(s)) = SubSeq(s, 1, m)
                          /\ \A i \in m + 1 .. n : s[i] \in LineBreaks
  BY <1>1, BareTwice
<1>3. PICK t : t = Bare(Bare(s)) /\ Len(t) = m /\ \A i \in 1 .. m : t[i] = s[i]
  BY <1>1, <1>2, Cut
<1>4. ":" \notin LineBreaks
  BY DEF LineBreaks
<1>5. \A i \in 1 .. n : i \in 1 .. m \/ i \in m + 1 .. n
  OBVIOUS
<1>6. Colons(t) = Colons(s)
  <2>1. \A i \in 1 .. m : i \in 1 .. n
    OBVIOUS
  <2> QED
    BY <1>1, <1>2, <1>3, <1>4, <1>5, <2>1 DEF Colons
<1> QED
  BY <1>3, <1>6

LEMMA AnnouncesIf ==
  ASSUME NEW line, NEW h, NEW lower \in BOOLEAN, NEW name, NEW val,
         SubSeq(line, 1, Min(Colons(line)) - 1) = name,
         SubSeq(line, Min(Colons(line)) + 1, Len(line)) = val,
         \/ Others(IF lower THEN tolower(name) ELSE name, Blank) = {}
         \/ Trims(IF lower THEN tolower(name) ELSE name, h.key),
         Others(val, Blank) = {} \/ Trims(val, h.value)
  PROVE  Announces(line, h, lower)
BY Zenon DEF Announces, Trims

\* A line with a colon and no line break but at its end is taken as it says.
LEMMA HeaderAnnounced ==
  ASSUME NEW S, NEW raw \in Seq(S), Colons(raw) # {},
         NEW line, line = Bare(Bare(raw)),
         \A i \in 1 .. Len(line) : line[i] \notin LineBreaks
  PROVE  \E h : /\ create_http_header_from_header_line_or_null(raw) = {h}
                /\ Announces(line, h, FALSE) /\ Announces(line, Lowered(h), TRUE)
<1>1. PICK n \in Nat : n = Len(raw)
  OBVIOUS
<1>2. PICK m \in 0 .. n : line = SubSeq(raw, 1, m) /\ \A i \in m + 1 .. n : raw[i] \in LineBreaks
  BY <1>1, BareTwice
<1>3. line \in Seq(S) /\ Len(line) = m /\ \A i \in 1 .. m : line[i] = raw[i]
  BY <1>1, <1>2, Cut
<1> DEFINE kept == {i \in 1 .. Len(raw) : raw[i] \notin LineBreaks}
<1>4. copy_if(raw, kept) = line
  <2>1. m \in 0 .. Len(raw) /\ \A i \in m + 1 .. Len(raw) : i \notin kept
    BY <1>1, <1>2
  <2>2. \A i \in 1 .. m : i \in kept
    BY <1>1, <1>3
  <2> HIDE DEF kept
  <2>3. PICK k : k = kept
    OBVIOUS
  <2>4. copy_if(raw, k) = Copied(raw, k)[m]
    BY <2>1, <2>3, CopiedSame
  <2>5. Copied(raw, k)[m] = SubSeq(raw, 1, m)
    BY <2>1, <2>2, <2>3, CopiedAll
  <2> QED
    BY <1>2, <2>3, <2>4, <2>5
<1>5. Colons(line) = Colons(raw)
  BY ColonsBare
<1>6. PICK pos \in 1 .. m : pos = Min(Colons(line))
  <2>1. Colons(line) \in SUBSET Nat /\ Colons(line) \subseteq 1 .. m
    BY <1>3 DEF Colons
  <2> QED
    BY <1>5, <2>1, LeastOf
<1>7. PICK name, val : /\ name = SubSeq(line, 1, pos - 1)
                       /\ val = SubSeq(raw, pos + 1, m) /\ val = SubSeq(line, pos + 1, m)
  <2>1. SubSeq(raw, pos + 1, m) = SubSeq(line, pos + 1, m)
    <3>1. /\ pos + 1 \in 1 .. m + 1 /\ pos + 1 \in 1 .. n + 1 /\ m \in (pos + 1) - 1 .. m
          /\ m \in (pos + 1) - 1 .. n
      BY <1>1
    <3>2. PICK a, l \in Nat : a = pos + 1 /\ l = m - a + 1 /\ \A i \in 1 .. l : a - 1 + i \in 1 .. m
      <4>1. m - (pos + 1) + 1 \in Nat /\ \A i \in 1 .. m - (pos + 1) + 1 : (pos + 1) - 1 + i \in 1 .. m
        OBVIOUS
      <4> QED
        BY <4>1
    <3>3. /\ SubSeq(raw, a, m) \in Seq(S) /\ Len(SubSeq(raw, a, m)) = m - a + 1
          /\ \A i \in 1 .. m - a + 1 : SubSeq(raw, a, m)[i] = raw[a - 1 + i]
      BY <1>1, <3>1, <3>2, PartOf
    <3>4. /\ SubSeq(line, a, m) \in Seq(S) /\ Len(SubSeq(line, a, m)) = m - a + 1
          /\ \A i \in 1 .. m - a + 1 : SubSeq(line, a, m)[i] = line[a - 1 + i]
      BY <1>3, <3>1, <3>2, PartOf
    <3>5. \A i \in 1 .. l : SubSeq(raw, a, m)[i] = SubSeq(line, a, m)[i]
      BY <1>3, <3>2, <3>3, <3>4
    <3> QED
      BY <3>2, <3>3, <3>4, <3>5, SeqEqual
  <2> QED
    BY <2>1
<1>8. name \in Seq(S) /\ val \in Seq(S)
  <2>1. pos - 1 \in 1 - 1 .. Len(line) /\ 1 \in 1 .. Len(line) + 1
    BY <1>3
  <2>2. pos + 1 \in 1 .. Len(line) + 1 /\ m \in (pos + 1) - 1 .. Len(line)
    BY <1>3
  <2>3. PICK a, b : a = pos - 1 /\ b = pos + 1
    OBVIOUS
  <2>4. SubSeq(line, 1, a) \in Seq(S) /\ SubSeq(line, b, m) \in Seq(S)
    BY <1>3, <2>1, <2>2, <2>3, PartOf
  <2> QED
    BY <1>7, <2>3, <2>4
<1>9. PICK h : h = [key |-> trim(name, Blank), value |-> trim(val, Blank)]
  OBVIOUS
<1>10. create_http_header_from_header_line_or_null(raw) = {h}
  BY <1>3, <1>4, <1>5, <1>6, <1>7, <1>9 DEF create_http_header_from_header_line_or_null
<1>11. /\ Others(name, Blank) = {} \/ (h.key \in Seq(S) /\ Trims(name, h.key))
       /\ Others(val, Blank) = {} \/ Trims(val, h.value)
  BY <1>8, <1>9, TrimTrims
<1>12. Announces(line, h, FALSE)
  BY <1>3, <1>6, <1>7, <1>11, AnnouncesIf
<1>13. Lowered(h).key = tolower(h.key) /\ Lowered(h).value = h.value
  BY <1>9 DEF Lowered
<1>14. Others(tolower(name), Blank) = {} \/ Trims(tolower(name), tolower(h.key))
  BY <1>8, <1>11, LowerKeeps, LowerTrims
<1>15. Announces(line, Lowered(h), TRUE)
  BY <1>3, <1>6, <1>7, <1>11, <1>13, <1>14, AnnouncesIf
<1> QED
  BY <1>10, <1>12, <1>15

\* What is copied is what is at the positions kept.
LEMMA CopiedElements ==
  ASSUME NEW S, NEW s \in Seq(S), NEW kept, NEW m \in 0 .. Len(s)
  PROVE  /\ \A j \in 1 .. Len(Copied(s, kept)[m]) :
              \E i \in 1 .. m : i \in kept /\ Copied(s, kept)[m][j] = s[i]
         /\ \A i \in 1 .. m : i \in kept =>
              \E j \in 1 .. Len(Copied(s, kept)[m]) : Copied(s, kept)[m][j] = s[i]
<1>0. 1 .. 0 = {}
  OBVIOUS
<1>1. PICK n \in Nat : n = Len(s) /\ \A i \in 1 .. n : s[i] \in S
  OBVIOUS
<1>2. PICK c : c = Copied(s, kept)
  OBVIOUS
<1>3. /\ c \in [0 .. n -> Seq(S)] /\ c[0] = <<>>
      /\ \A i \in 1 .. n : c[i] = IF i \in kept THEN Append(c[i - 1], s[i]) ELSE c[i - 1]
  <2>1. /\ Copied(s, kept) \in [0 .. Len(s) -> Seq(S)]
        /\ Copied(s, kept)[0] = <<>>
        /\ \A i \in 1 .. Len(s) :
             Copied(s, kept)[i] = IF i \in kept THEN Append(Copied(s, kept)[i - 1], s[i])
                                  ELSE Copied(s, kept)[i - 1]
    BY CopiedStep
  <2> QED
    BY <1>1, <1>2, <2>1
<1> DEFINE Has(q, k) == /\ \A j \in 1 .. Len(q) : \E i \in 1 .. k : i \in kept /\ q[j] = s[i]
                        /\ \A i \in 1 .. k : i \in kept => \E j \in 1 .. Len(q) : q[j] = s[i]
           N == {i \in Nat : i <= m => Has(c[i], i)}
<1>4. 0 \in N
  <2>1. Len(<<>>) = 0
    BY SeqEmpty
  <2> QED
    BY <1>0, <1>3, <2>1
<1>5. ASSUME NEW k \in Nat, k \in N  PROVE k + 1 \in N
  <2>1. SUFFICES ASSUME k + 1 <= m  PROVE Has(c[k + 1], k + 1)
    <3> HIDE DEF Has
    <3> QED
      OBVIOUS
  <2>2. k + 1 \in 1 .. n /\ (k + 1) - 1 = k /\ k <= m /\ k \in 0 .. n
    BY <1>1, <2>1
  <2>3. PICK q \in Seq(S), e \in S : q = c[k] /\ e = s[k + 1]
    BY <1>1, <1>3, <2>2
  <2>4. Has(q, k)
    BY <1>5, <2>2, <2>3
  <2>5. \A i \in 1 .. k + 1 : i \in 1 .. k \/ i = k + 1
    OBVIOUS
  <2>6. \A i \in 1 .. k : i \in 1 .. k + 1
    OBVIOUS
  <2>7. k + 1 \in 1 .. k + 1
    OBVIOUS
  <2>8. CASE k + 1 \notin kept
    <3>1. c[k + 1] = q
      BY <1>3, <2>2, <2>3, <2>8
    <3> QED
      BY <2>4, <2>5, <2>6, <2>8, <3>1
  <2>9. CASE k + 1 \in kept
    <3>1. PICK r : r = Append(q, e) /\ r = c[k + 1]
      BY <1>3, <2>2, <2>3, <2>9
    <3>2. PICK l \in Nat : l = Len(q)
      OBVIOUS
    <3>3. Len(r) = l + 1 /\ r[l + 1] = e /\ \A j \in 1 .. l : r[j] = q[j]
      <4> HIDE DEF Has
      <4>1. IsSeq(q)
        BY DEF IsSeq
      <4>2. /\ Len(Append(q, e)) = Len(q) + 1
            /\ Append(q, e)[Len(q) + 1] = e
            /\ \A i \in 1 .. Len(q) : Append(q, e)[i] = q[i]
        BY <4>1, SeqAppend
      <4> QED
        BY <3>1, <3>2, <4>2
    <3>4. /\ \A j \in 1 .. l + 1 : j \in 1 .. l \/ j = l + 1
          /\ \A j \in 1 .. l : j \in 1 .. l + 1
          /\ l + 1 \in 1 .. l + 1
      OBVIOUS
    <3>5. ASSUME NEW j \in 1 .. l + 1  PROVE \E i \in 1 .. k + 1 : i \in kept /\ r[j] = s[i]
      BY <2>3, <2>4, <2>6, <2>7, <2>9, <3>2, <3>3, <3>4
    <3>6. ASSUME NEW i \in 1 .. k + 1, i \in kept  PROVE \E j \in 1 .. l + 1 : r[j] = s[i]
      <4>1. CASE i \in 1 .. k
        <5>1. PICK j \in 1 .. l : q[j] = s[i]
          BY <2>4, <3>2, <3>6, <4>1
        <5> QED
          BY <3>3, <3>4, <5>1
      <4>2. CASE i = k + 1
        BY <2>3, <3>3, <3>4, <4>2
      <4> QED
        BY <2>5, <4>1, <4>2
    <3> QED
      BY <3>1, <3>3, <3>5, <3>6
  <2> QED
    BY <2>8, <2>9
<1>6. Nat \subseteq N
  <2> HIDE DEF N
  <2> QED
    BY <1>4, <1>5, SetInduction
<1>7. Has(c[m], m)
  <2> HIDE DEF Has
  <2>1. m \in Nat /\ m <= m
    BY <1>1
  <2> QED
    BY <1>6, <2>1
<1> QED
  BY <1>2, <1>7

\* There is a header if and only if there is a colon.
LEMMA HeaderIff ==
  ASSUME NEW S, NEW raw \in Seq(S)
  PROVE  IF Colons(raw) = {}
           THEN create_http_header_from_header_line_or_null(raw) = {}
           ELSE \E h : create_http_header_from_header_line_or_null(raw) = {h}
<1>1. PICK n \in Nat : n = Len(raw)
  OBVIOUS
<1>2. PICK kept : kept = {i \in 1 .. Len(raw) : raw[i] \notin LineBreaks}
  OBVIOUS
<1>3. PICK t : t = copy_if(raw, kept) /\ t = Copied(raw, kept)[n]
  BY <1>1 DEF copy_if
<1>4. ":" \notin LineBreaks
  BY DEF LineBreaks
<1>5. /\ \A j \in 1 .. Len(t) : \E i \in 1 .. n : i \in kept /\ t[j] = raw[i]
      /\ \A i \in 1 .. n : i \in kept => \E j \in 1 .. Len(t) : t[j] = raw[i]
  <2>1. n \in 0 .. Len(raw)
    BY <1>1
  <2> QED
    BY <1>3, <2>1, CopiedElements
<1>6. Colons(t) = {} <=> Colons(raw) = {}
  <2>1. ASSUME NEW j \in Colons(t)  PROVE \E i \in Colons(raw) : TRUE
    BY <1>1, <1>5, <2>1 DEF Colons
  <2>2. ASSUME NEW i \in Colons(raw)  PROVE \E j \in Colons(t) : TRUE
    <3>1. i \in 1 .. n /\ raw[i] = ":" /\ i \in kept
      BY <1>1, <1>2, <1>4 DEF Colons
    <3>2. PICK j \in 1 .. Len(t) : t[j] = raw[i]
      BY <1>5, <3>1
    <3> QED
      BY <3>1, <3>2 DEF Colons
  <2> QED
    BY <2>1, <2>2
<1> QED
  BY <1>2, <1>3, <1>6 DEF create_http_header_from_header_line_or_null

LEMMA NoneToSeq == SetToSeq({}) = <<>>
<1>1. Cardinality({}) = 0 /\ 1 .. 0 = {}
  BY FS_EmptySet
<1>2. \A f \in [1 .. 0 -> {}] : f = <<>>
  OBVIOUS
<1>3. <<>> \in [1 .. 0 -> {}] /\ IsInjective(<<>>)
  BY DEF IsInjective
<1> QED
  BY <1>1, <1>2, <1>3 DEF SetToSeq

LEMMA OneToSeq == ASSUME NEW h  PROVE SetToSeq({h}) = <<h>>
<1>1. Cardinality({h}) = 1
  BY FS_Singleton
<1>2. <<h>> \in [1 .. 1 -> {h}] /\ IsInjective(<<h>>)
  <2>1. \A i \in 1 .. 1 : i = 1
    OBVIOUS
  <2>2. <<h>> \in [1 .. 1 -> {h}] /\ DOMAIN <<h>> = 1 .. 1
    OBVIOUS
  <2> QED
    BY <2>1, <2>2, Zenon DEF IsInjective
<1>3. ASSUME NEW f \in [1 .. 1 -> {h}]  PROVE f = <<h>>
  <2>1. f \in Seq({h}) /\ Len(f) = 1 /\ f[1] = h
    BY <1>3
  <2> QED
    BY <2>1
<1> QED
  BY <1>1, <1>2, <1>3, Zenon DEF SetToSeq
-----------------------------------------------------------------------------
\* The headers of the command line.

Positions == [i \in 1 .. Len(argv) |-> i]

\* The headers are those of the lines in front of position k.
HeadersSet(k) ==
  LET at == Copied(Positions, HeaderAt)[k - 1]
  IN  /\ IsSeq(settings.headers) /\ Len(settings.headers) = Len(at)
      /\ \A i \in 1 .. Len(at) :
           create_http_header_from_header_line_or_null(argv[at[i] + 1]) = {settings.headers[i]}

LEMMA HeaderAtKept == ASSUME UNCHANGED argv  PROVE HeaderAt' = HeaderAt /\ HeaderLines' = HeaderLines
<1>1. HeaderAt' = HeaderAt
  BY CommandLineKept DEF HeaderAt
<1> QED
  BY <1>1 DEF HeaderLines

\* The argument at position i, as a sequence of characters.
LEMMA TextType ==
  ASSUME \E s \in Scenarios : argv = s.argv, NEW i \in 1 .. Len(argv)
  PROVE  \E S : argv[i] \in Seq(S)
<1>1. PICK s \in Scenarios : argv = s.argv
  OBVIOUS
<1>2. argv \in Seq(Range(argv)) /\ \A text \in Range(argv) : text \in Seq(Range(text))
  BY <1>1, ScenariosAssumption
<1>3. argv[i] \in Range(argv)
  BY <1>2
<1> QED
  BY <1>2, <1>3

LEMMA PositionsType ==
  ASSUME Len(argv) \in Nat
  PROVE  /\ Positions \in Seq(Nat) /\ Len(Positions) = Len(argv)
         /\ \A i \in 1 .. Len(argv) : Positions[i] = i
BY DEF Positions

\* A position without a header line.
LEMMA NoHeader ==
  ASSUME Len(argv) \in Nat, NEW k \in 1 .. Len(argv), k \notin HeaderAt
  PROVE  Copied(Positions, HeaderAt)[k] = Copied(Positions, HeaderAt)[k - 1]
<1>1. PICK p, kept : p = Positions /\ kept = HeaderAt
  OBVIOUS
<1>2. p \in Seq(Nat) /\ k \in 1 .. Len(p) /\ k \notin kept
  BY <1>1, PositionsType
<1>3. Copied(p, kept)[k] = Copied(p, kept)[k - 1]
  BY <1>2, CopiedStep
<1> QED
  BY <1>1, <1>3

LEMMA SomeHeader ==
  ASSUME Len(argv) \in Nat, NEW k \in 1 .. Len(argv), k \in HeaderAt
  PROVE  /\ Copied(Positions, HeaderAt)[k] = Append(Copied(Positions, HeaderAt)[k - 1], k)
         /\ Copied(Positions, HeaderAt)[k - 1] \in Seq(Nat)
<1>1. PICK p, kept : p = Positions /\ kept = HeaderAt
  OBVIOUS
<1>2. p \in Seq(Nat) /\ k \in 1 .. Len(p) /\ k \in kept /\ p[k] = k /\ k - 1 \in 0 .. Len(p)
  BY <1>1, PositionsType
<1>3. /\ Copied(p, kept)[k] = Append(Copied(p, kept)[k - 1], p[k])
      /\ Copied(p, kept)[k - 1] \in Seq(Nat)
  <2>1. /\ Copied(p, kept) \in [0 .. Len(p) -> Seq(Nat)]
        /\ Copied(p, kept)[k] = IF k \in kept THEN Append(Copied(p, kept)[k - 1], p[k])
                                 ELSE Copied(p, kept)[k - 1]
    BY <1>2, CopiedStep
  <2> QED
    BY <1>2, <2>1
<1> QED
  BY <1>1, <1>2, <1>3

LEMMA SeqPlusOne ==
  ASSUME NEW q, IsSeq(q), NEW e
  PROVE  /\ IsSeq(q \o <<e>>) /\ Len(q \o <<e>>) = Len(q) + 1
         /\ (q \o <<e>>)[Len(q) + 1] = e
         /\ \A i \in 1 .. Len(q) : (q \o <<e>>)[i] = q[i]
<1>1. PICK one : one = <<e>> /\ IsSeq(one) /\ Len(one) = 1 /\ one[1] = e
  BY SeqOne
<1>2. /\ IsSeq(q \o one) /\ Len(q) \in Nat
      /\ Len(q \o one) = Len(q) + Len(one)
      /\ \A i \in 1 .. Len(q) : (q \o one)[i] = q[i]
      /\ \A i \in 1 .. Len(one) : (q \o one)[Len(q) + i] = one[i]
  BY <1>1, SeqConcat
<1>3. 1 \in 1 .. Len(one)
  BY <1>1
<1> QED
  BY <1>1, <1>2, <1>3

\* A header line adds its header.
LEMMA HeaderAdded ==
  ASSUME \E s \in Scenarios : argv = s.argv, NEW k \in 1 .. Len(argv) - 1,
         HeadersSet(k), UNCHANGED argv, k \in HeaderAt <=> Colons(argv[k + 1]) # {},
         settings'.headers =
           settings.headers \o SetToSeq(create_http_header_from_header_line_or_null(argv[k + 1]))
  PROVE  HeadersSet(k + 1)'
<1>1. PICK raw : raw = argv[k + 1]
  OBVIOUS
<1>2. k \in 1 .. Len(argv) /\ k + 1 \in 1 .. Len(argv) /\ k \in Nat /\ (k + 1) - 1 = k
      /\ Len(argv) \in Nat
  BY ArgvType
<1>3. PICK S : raw \in Seq(S)
  <2>1. PICK i : i = k + 1
    OBVIOUS
  <2> QED
    BY <1>1, <1>2, <2>1, TextType
<1>4. PICK old, new, q, r : /\ old = settings.headers /\ new = settings'.headers
                            /\ q = Copied(Positions, HeaderAt)[k - 1]
                            /\ r = Copied(Positions, HeaderAt)[k]
  OBVIOUS
<1>5. /\ IsSeq(old) /\ Len(old) = Len(q)
      /\ \A i \in 1 .. Len(q) :
           create_http_header_from_header_line_or_null(argv[q[i] + 1]) = {old[i]}
  BY <1>4 DEF HeadersSet
<1>6. /\ IsSeq(new) /\ Len(new) = Len(r)
      /\ \A i \in 1 .. Len(r) :
           create_http_header_from_header_line_or_null(argv[r[i] + 1]) = {new[i]}
  <2>1. CASE Colons(raw) = {}
    <3>1. create_http_header_from_header_line_or_null(raw) = {}
      BY <1>3, <2>1, HeaderIff
    <3>2. new = old
      BY <1>1, <1>4, <1>5, <3>1, NoneToSeq, NothingMore
    <3>3. r = q
      BY <1>1, <1>2, <1>4, <2>1, NoHeader
    <3> QED
      BY <1>5, <3>2, <3>3
  <2>2. CASE Colons(raw) # {}
    <3>1. PICK h : create_http_header_from_header_line_or_null(raw) = {h}
      BY <1>3, <2>2, HeaderIff
    <3>2. new = old \o <<h>>
      BY <1>1, <1>4, <3>1, OneToSeq
    <3>3. r = Append(q, k) /\ q \in Seq(Nat)
      BY <1>1, <1>2, <1>4, <2>2, SomeHeader
    <3>4. PICK l \in Nat : l = Len(q)
      BY <3>3
    <3>5. Len(r) = l + 1 /\ r[l + 1] = k /\ \A i \in 1 .. l : r[i] = q[i]
      <4>1. IsSeq(q)
        BY <3>3 DEF IsSeq
      <4> QED
        BY <3>3, <3>4, <4>1, SeqAppend
    <3>6. IsSeq(new) /\ Len(new) = l + 1 /\ new[l + 1] = h /\ \A i \in 1 .. l : new[i] = old[i]
      <4>1. /\ IsSeq(old \o <<h>>) /\ Len(old \o <<h>>) = Len(old) + 1
            /\ (old \o <<h>>)[Len(old) + 1] = h
            /\ \A i \in 1 .. Len(old) : (old \o <<h>>)[i] = old[i]
        BY <1>5, SeqPlusOne
      <4> QED
        BY <1>5, <3>2, <3>4, <4>1
    <3>7. ASSUME NEW i \in 1 .. l + 1
          PROVE  create_http_header_from_header_line_or_null(argv[r[i] + 1]) = {new[i]}
      <4>1. CASE i \in 1 .. l
        BY <1>5, <3>4, <3>5, <3>6, <4>1
      <4>2. CASE i = l + 1
        BY <1>1, <3>1, <3>5, <3>6, <4>2
      <4> QED
        BY <4>1, <4>2
    <3> QED
      BY <3>5, <3>6, <3>7
  <2> QED
    BY <2>1, <2>2
<1>7. HeaderAt' = HeaderAt /\ Positions' = Positions
  BY HeaderAtKept DEF Positions
<1>8. r = Copied(Positions', HeaderAt')[k]
  BY <1>4, <1>7
<1> QED
  BY <1>2, <1>4, <1>6, <1>8 DEF HeadersSet

LEMMA HeadersKept ==
  ASSUME NEW k, HeadersSet(k), UNCHANGED argv, settings'.headers = settings.headers
  PROVE  HeadersSet(k)'
<1>1. HeaderAt' = HeaderAt /\ Positions' = Positions
  BY HeaderAtKept DEF Positions
<1> QED
  BY <1>1 DEF HeadersSet

LEMMA HeaderSkipped ==
  ASSUME Len(argv) \in Nat, NEW k \in 1 .. Len(argv), k \notin HeaderAt,
         UNCHANGED argv, HeadersSet(k)'
  PROVE  HeadersSet(k + 1)'
<1>1. HeaderAt' = HeaderAt /\ Positions' = Positions
  BY HeaderAtKept DEF Positions
<1>2. Copied(Positions, HeaderAt)[k] = Copied(Positions, HeaderAt)[k - 1] /\ (k + 1) - 1 = k
  BY NoHeader
<1>3. Copied(Positions', HeaderAt')[k] = Copied(Positions', HeaderAt')[k - 1]
  BY <1>1, <1>2
<1> QED
  BY <1>2, <1>3 DEF HeadersSet

\* Behind the options, the headers are those of all the lines.
LEMMA HeadersFaithful ==
  ASSUME Types, HeadersSet(optind), optind > opt_argc
  PROVE  /\ Len(settings.headers) = Len(HeaderLines) /\ IsSeq(settings.headers)
         /\ (\A i \in 1 .. Len(HeaderLines) : \A j \in 1 .. Len(HeaderLines[i]) :
               HeaderLines[i][j] \notin LineBreaks) =>
            \A i \in 1 .. Len(HeaderLines) :
              /\ Announces(HeaderLines[i], settings.headers[i], FALSE)
              /\ Announces(HeaderLines[i], Lowered(settings.headers[i]), TRUE)
<1>1. PICK n \in Nat : n = Len(argv)
  BY ArgvType DEF Types
<1>2. /\ opt_argc \in 0 .. n /\ OptionAt \subseteq 1 .. opt_argc /\ HeaderAt \subseteq OptionAt
      /\ optind \in 1 .. n + 1
  BY <1>1, ArgvType DEF Types, OptionAt, HeaderAt
<1>3. PICK m \in 0 .. n : m = optind - 1 /\ \A i \in m + 1 .. n : i \notin HeaderAt
  BY <1>2
<1>4. PICK p, kept : p = Positions /\ kept = HeaderAt
  OBVIOUS
<1>5. p \in Seq(Nat) /\ Len(p) = n /\ \A i \in 1 .. n : p[i] = i
  BY <1>1, <1>4, PositionsType
<1>6. PICK at : at = Copied(p, kept)[m] /\ at = copy_if(p, kept)
  BY <1>3, <1>4, <1>5, CopiedSame
<1>7. /\ IsSeq(settings.headers) /\ Len(settings.headers) = Len(at)
      /\ \A i \in 1 .. Len(at) :
           create_http_header_from_header_line_or_null(argv[at[i] + 1]) = {settings.headers[i]}
  BY <1>3, <1>4, <1>6 DEF HeadersSet
<1>8. PICK l \in Nat : l = Len(at)
  <2>1. Copied(p, kept) \in [0 .. n -> Seq(Nat)]
    BY <1>5, CopiedStep
  <2>2. at \in Seq(Nat)
    BY <1>6, <2>1
  <2> QED
    BY <2>2
<1>9. HeaderLines = [i \in 1 .. l |-> Bare(Bare(argv[at[i] + 1]))]
  BY <1>4, <1>6, <1>8 DEF HeaderLines, Positions
<1>10. Len(HeaderLines) = l
  BY <1>9, SeqFunction
<1>11. ASSUME NEW i \in 1 .. l, \A j \in 1 .. Len(HeaderLines[i]) : HeaderLines[i][j] \notin LineBreaks
       PROVE  /\ Announces(HeaderLines[i], settings.headers[i], FALSE)
              /\ Announces(HeaderLines[i], Lowered(settings.headers[i]), TRUE)
  <2>1. PICK a : a = at[i] /\ a \in HeaderAt
    <3>1. \E j \in 1 .. m : j \in kept /\ at[i] = p[j]
      <4>1. m \in 0 .. Len(p)
        BY <1>5
      <4>2. \A j \in 1 .. Len(Copied(p, kept)[m]) :
              \E b \in 1 .. m : b \in kept /\ Copied(p, kept)[m][j] = p[b]
        BY <1>5, <4>1, CopiedElements
      <4> QED
        BY <1>6, <1>8, <4>2
    <3> QED
      BY <1>3, <1>4, <1>5, <3>1
  <2>2. a + 1 \in 1 .. n /\ Colons(argv[a + 1]) # {}
    <3>1. a \in 1 .. opt_argc /\ a < opt_argc /\ Colons(argv[a + 1]) # {}
      BY <1>2, <2>1 DEF HeaderAt
    <3> QED
      BY <1>2, <3>1
  <2>3. PICK raw, line : raw = argv[a + 1] /\ line = HeaderLines[i]
    OBVIOUS
  <2>4. PICK S : raw \in Seq(S)
    <3>1. PICK j : j = a + 1
      OBVIOUS
    <3> QED
      BY <1>1, <2>2, <2>3, <3>1, TextType DEF Types
  <2>5. line = Bare(Bare(raw))
    BY <1>9, <2>1, <2>3
  <2>6. PICK h : /\ create_http_header_from_header_line_or_null(raw) = {h}
                 /\ Announces(line, h, FALSE) /\ Announces(line, Lowered(h), TRUE)
    BY <1>11, <2>2, <2>3, <2>4, <2>5, HeaderAnnounced
  <2>7. settings.headers[i] = h
    BY <1>7, <1>8, <2>1, <2>3, <2>6
  <2> QED
    BY <2>3, <2>6, <2>7
<1> QED
  BY <1>7, <1>8, <1>10, <1>11

-----------------------------------------------------------------------------
\* The request.

HInv ==
  /\ stage = "options" => request = Absent
  /\ HeadersSet(optind)
  /\ RequestFaithful

LEMMA RequestKept ==
  ASSUME HInv, UNCHANGED <<argv, optind, settings, request>>, stage' = "options" => stage = "options"
  PROVE  HInv'
<1>1. PICK k : k = optind
  OBVIOUS
<1>2. HeadersSet(k)'
  BY <1>1, HeadersKept DEF HInv
<1>3. HeaderLines' = HeaderLines /\ url' = url /\ Http2Chosen' = Http2Chosen
  BY HeaderAtKept, CommandLineKept DEF Http2Chosen
<1>4. RequestFaithful'
  BY <1>3, Zenon DEF HInv, RequestFaithful
<1> QED
  BY <1>1, <1>2, <1>4 DEF HInv

\* A step of getopt_long adds the header of a -H line and no other.
LEMMA TakeOptionHeaders == ASSUME IInv, HInv, TakeOption  PROVE HInv'
<1>1. PICK k : k = optind
  OBVIOUS
<1>2. /\ stage = "options" /\ Types /\ OptionsSet(k) /\ HeadersSet(k) /\ request = Absent
      /\ opt_argc \in 0 .. Len(argv) /\ Len(argv) \in Nat /\ k \in 1 .. opt_argc
      /\ k \in OptionAt <=> IsOption(argv[k])
      /\ IsOption(argv[k]) /\ TakesArgument(argv[k]) => k + 1 \notin OptionAt
  BY <1>1, AtPosition DEF HInv
<1>3. k \in 1 .. Len(argv) /\ k \in Nat /\ HeaderAt \subseteq OptionAt
  BY <1>2 DEF HeaderAt
<1>4. \E s \in Scenarios : argv = s.argv
  BY <1>2 DEF Types
<1> DEFINE text == argv[k]
\* What a case has to show.
<1>5. ASSUME NEW new, NEW n, Set(new, n), HeadersSet(n)'  PROVE HInv'
  <2>1. optind' = n /\ request' = Absent
    BY <1>2, <1>5 DEF Set
  <2> QED
    BY <1>5, <2>1 DEF HInv, RequestFaithful, Absent
<1>6. ASSUME settings'.headers = settings.headers, k \notin HeaderAt, UNCHANGED argv
      PROVE  HeadersSet(k + 1)'
  BY <1>2, <1>3, <1>6, HeadersKept, HeaderSkipped
<1>7. CASE ~ IsOption(text)
  <2>1. Set(settings, k + 1)
    BY <1>1, <1>2, <1>7 DEF TakeOption
  <2>2. settings' = settings /\ argv' = argv
    BY <2>1 DEF Set, GoTo
  <2>3. HeadersSet(k + 1)'
    BY <1>2, <1>3, <1>6, <1>7, <2>2
  <2>4. PICK new, n : new = settings /\ n = k + 1
    OBVIOUS
  <2> QED
    BY <1>5, <2>1, <2>3, <2>4
<1>8. CASE IsOption(text) /\ TakesArgument(text) /\ k < opt_argc
  <2>1. Set(ApplyOption(text[1], argv[k + 1]), k + 2)
    BY <1>1, <1>2, <1>8 DEF TakeOption
  <2>2. settings' = ApplyOption(text[1], argv[k + 1]) /\ argv' = argv
    BY <2>1 DEF Set, GoTo
  <2>3. HeadersSet(k + 1)'
    <3>1. CASE text[1] = "-H"
      <4>1. settings' = [settings EXCEPT !.headers =
              @ \o SetToSeq(create_http_header_from_header_line_or_null(argv[k + 1]))]
        BY <2>2, <3>1 DEF ApplyOption
      <4>2. settings'.headers =
              settings.headers \o SetToSeq(create_http_header_from_header_line_or_null(argv[k + 1]))
        BY <1>2, <4>1 DEF OptionsSet
      <4>3. k \in HeaderAt <=> Colons(argv[k + 1]) # {}
        BY <1>2, <1>8, <3>1 DEF HeaderAt
      <4>4. k \in 1 .. Len(argv) - 1
        BY <1>2, <1>8
      <4> QED
        BY <1>2, <1>4, <2>2, <4>2, <4>3, <4>4, HeaderAdded
    <3>2. CASE text[1] = "--keylog"
      <4>1. settings' = [settings EXCEPT !.g_keylog_file = {argv[k + 1]}]
        BY <2>2, <3>2 DEF ApplyOption
      <4>2. settings'.headers = settings.headers
        BY <1>2, <4>1 DEF OptionsSet
      <4>3. k \notin HeaderAt
        BY <3>2 DEF HeaderAt
      <4> QED
        BY <1>6, <2>2, <4>2, <4>3
    <3> QED
      BY <1>8, <3>1, <3>2 DEF TakesArgument
  <2>4. HeadersSet(k + 2)'
    <3>1. PICK j \in 1 .. Len(argv) : j = k + 1
      BY <1>2, <1>8
    <3>2. j \notin HeaderAt
      BY <1>2, <1>3, <1>8, <3>1
    <3>3. HeadersSet(j + 1)'
      BY <1>2, <2>2, <2>3, <3>1, <3>2, HeaderSkipped
    <3>4. j + 1 = k + 2
      BY <1>3, <3>1
    <3> QED
      BY <3>3, <3>4
  <2>5. PICK new, n : new = ApplyOption(text[1], argv[k + 1]) /\ n = k + 2
    OBVIOUS
  <2> QED
    BY <1>5, <2>1, <2>4, <2>5
<1>9. CASE /\ IsOption(text) /\ ~ (TakesArgument(text) /\ k < opt_argc)
           /\ text[1] \in {"--http2", "-k", "-v"}
  <2>1. Set(ApplyOption(text[1], <<>>), k + 1)
    BY <1>1, <1>2, <1>9 DEF TakeOption
  <2>2. settings' = ApplyOption(text[1], <<>>) /\ argv' = argv
    BY <2>1 DEF Set, GoTo
  <2>3. settings'.headers = settings.headers
    <3>1. \/ settings' = [settings EXCEPT !.use_http2 = TRUE]
          \/ settings' = [settings EXCEPT !.g_verify_cert = FALSE]
          \/ settings' = settings
      BY <1>9, <2>2 DEF ApplyOption
    <3> QED
      BY <1>2, <3>1 DEF OptionsSet
  <2>4. k \notin HeaderAt
    BY <1>9 DEF HeaderAt
  <2>5. HeadersSet(k + 1)'
    BY <1>6, <2>2, <2>3, <2>4
  <2>6. PICK new, n : new = ApplyOption(text[1], <<>>) /\ n = k + 1
    OBVIOUS
  <2> QED
    BY <1>5, <2>1, <2>5, <2>6
<1>10. CASE /\ IsOption(text) /\ ~ (TakesArgument(text) /\ k < opt_argc)
            /\ text[1] \notin {"--http2", "-k", "-v"}
  <2>1. Refuse
    BY <1>1, <1>2, <1>10 DEF TakeOption
  <2> QED
    BY <2>1, RequestKept DEF Refuse, Exit
<1> QED
  BY <1>7, <1>8, <1>9, <1>10

\* The request that is written is the one asked for.
LEMMA WritesFaithfully ==
  ASSUME IInv, HInv, stage \in {"session", "request"}, UNCHANGED <<argv, optind, settings>>,
         stage' # "options",
         NEW headers, IsSeq(headers), Len(headers) = Len(settings.headers),
         \A i \in 1 .. Len(headers) :
           headers[i] = IF Http2Chosen THEN Lowered(settings.headers[i]) ELSE settings.headers[i],
         request' = {[path |-> components.path, host |-> components.host, headers |-> headers]}
  PROVE  HInv'
<1>1. Types /\ Going /\ optind > opt_argc /\ UrlLegal
  BY BehindTheUrl DEF Stages, IInv
<1>2. PICK k : k = optind
  OBVIOUS
<1>3. HeadersSet(k)'
  BY <1>2, HeadersKept DEF HInv
<1>4. HeaderLines' = HeaderLines /\ url' = url /\ Http2Chosen' = Http2Chosen
  BY HeaderAtKept, CommandLineKept DEF Http2Chosen
<1>5. PICK lines : lines = HeaderLines
  OBVIOUS
<1>6. /\ Len(headers) = Len(lines) /\ Len(headers) \in Nat
      /\ (\A i \in 1 .. Len(lines) : \A j \in 1 .. Len(lines[i]) : lines[i][j] \notin LineBreaks) =>
           \A i \in 1 .. Len(lines) :
             /\ Announces(lines[i], settings.headers[i], FALSE)
             /\ Announces(lines[i], Lowered(settings.headers[i]), TRUE)
  BY <1>1, <1>5, HeadersFaithful, SeqConcat DEF HInv
<1>7. /\ components.host = Urls[url].host
      /\ components.path = IF Urls[url].path = Absent THEN "/" ELSE CHOOSE p \in Urls[url].path : TRUE
  BY DEF components, parse_url
<1>8. PICK r : /\ r = [path |-> components.path, host |-> components.host, headers |-> headers]
               /\ request' = {r}
  OBVIOUS
<1>9. ASSUME \A i \in 1 .. Len(lines) : \A j \in 1 .. Len(lines[i]) : lines[i][j] \notin LineBreaks
      PROVE  \A i \in 1 .. Len(lines) : Announces(lines[i], headers[i], Http2Chosen)
  <2>1. Http2Chosen \in BOOLEAN
    BY <1>1 DEF Types, Http2Chosen
  <2> QED
    BY <1>6, <1>9, <2>1
<1>10. RequestFaithful'
  BY <1>4, <1>5, <1>6, <1>7, <1>8, <1>9 DEF RequestFaithful
<1> QED
  BY <1>2, <1>3, <1>10 DEF HInv

LEMMA WriteHttp2RequestHeaders == ASSUME IInv, HInv, WriteHttp2Request  PROVE HInv'
<1>1. stage = "session"
  BY DEF WriteHttp2Request
<1>2. Types /\ Going /\ Http2Chosen /\ optind > opt_argc
  BY <1>1, BehindTheUrl DEF Stages, IInv, Connected
<1>3. CASE Fail
  BY <1>1, <1>3, RequestKept DEF Fail, Exit
<1>4. CASE ~ Fail
  <2>1. PICK headers : headers = [i \in DOMAIN settings.headers |-> Lowered(settings.headers[i])]
    OBVIOUS
  <2>2. /\ request' = {[path |-> components.path, host |-> components.host, headers |-> headers]}
        /\ stage' = "answer" /\ UNCHANGED <<argv, optind, settings>>
    BY <1>4, <2>1 DEF WriteHttp2Request, GoTo
  <2>3. IsSeq(settings.headers)
    BY DEF HInv, HeadersSet
  <2>4. PICK n \in Nat : n = Len(settings.headers) /\ DOMAIN settings.headers = 1 .. n
    <3>1. PICK S : settings.headers \in Seq(S)
      BY <2>3 DEF IsSeq
    <3> QED
      BY <3>1
  <2>5. IsSeq(headers) /\ Len(headers) = n /\ headers = [i \in 1 .. n |-> Lowered(settings.headers[i])]
    BY <2>1, <2>4, SeqFunction
  <2> QED
    BY <1>1, <1>2, <2>2, <2>4, <2>5, WritesFaithfully
<1> QED
  BY <1>3, <1>4

LEMMA WriteRequestHeaders == ASSUME IInv, HInv, WriteRequest  PROVE HInv'
<1>1. stage = "request"
  BY DEF WriteRequest
<1>2. ~ Http2Chosen
  BY <1>1, BehindTheUrl DEF Stages, IInv, Going, Connected
<1>3. CASE Fail
  BY <1>1, <1>3, RequestKept DEF Fail, Exit
<1>4. CASE ~ Fail
  <2>1. PICK headers : headers = settings.headers
    OBVIOUS
  <2>2. /\ request' = {[path |-> components.path, host |-> components.host, headers |-> headers]}
        /\ stage' = "response" /\ UNCHANGED <<argv, optind, settings>>
    BY <1>4, <2>1 DEF WriteRequest, GoTo
  <2>3. IsSeq(headers)
    BY <2>1 DEF HInv, HeadersSet
  <2> QED
    BY <1>1, <1>2, <2>1, <2>2, <2>3, WritesFaithfully
<1> QED
  BY <1>3, <1>4

LEMMA HInvInitially == ASSUME Init  PROVE HInv
<1>1. /\ \E s \in Scenarios : argv = s.argv
      /\ optind = 1 /\ request = Absent /\ settings.headers = <<>>
  BY DEF Init
<1>2. PICK p, kept : p = Positions /\ kept = HeaderAt
  OBVIOUS
<1>3. p \in Seq(Nat)
  BY <1>1, <1>2, ArgvType, PositionsType
<1>4. Copied(p, kept)[0] = <<>>
  BY <1>3, CopiedStep
<1>5. 1 - 1 = 0 /\ 1 .. 0 = {}
  OBVIOUS
<1>6. HeadersSet(1)
  BY <1>1, <1>2, <1>4, <1>5, SeqEmpty DEF HeadersSet
<1> QED
  BY <1>1, <1>6 DEF HInv, RequestFaithful, Absent

LEMMA HInvStep == ASSUME IInv, HInv, [Next]_vars  PROVE HInv'
<1>1. CASE TakeOption
  BY <1>1, TakeOptionHeaders
<1>2. CASE WriteHttp2Request \/ WriteRequest
  BY <1>2, WriteHttp2RequestHeaders, WriteRequestHeaders
<1>3. CASE OptionsEnd \/ ParseUrl \/ Resolve \/ TcpConnect
  <2>1. UNCHANGED <<argv, optind, settings, request>> /\ stage' # "options"
    BY <1>3 DEF OptionsEnd, ParseUrl, Resolve, TcpConnect, Refuse, Fail, Exit, GoTo
  <2> QED
    BY <2>1, RequestKept
<1>4. CASE Handshake \/ CheckAlpn
  <2>1. UNCHANGED <<argv, optind, settings, request>> /\ stage' # "options"
    BY <1>4 DEF Handshake, CheckAlpn, Fail, Exit, GoTo
  <2> QED
    BY <2>1, RequestKept
<1>5. CASE Http2Response \/ ResponseRead \/ PrintPayload
  <2>1. UNCHANGED <<argv, optind, settings, request>> /\ stage' # "options"
    BY <1>5 DEF Http2Response, ResponseRead, PrintPayload, Refuse, Fail, Exit, GoTo
  <2> QED
    BY <2>1, RequestKept
<1>6. CASE ReadResponse \/ Terminated \/ UNCHANGED vars
  <2>1. UNCHANGED <<argv, optind, settings, request, stage>>
    BY <1>6 DEF ReadResponse, Terminated, vars, world
  <2> QED
    BY <2>1, RequestKept
<1> QED
  BY <1>1, <1>2, <1>3, <1>4, <1>5, <1>6 DEF Next, Main

LEMMA HInvAlways == Spec => []HInv
<1>1. Init => HInv
  BY HInvInitially
<1>2. IInv /\ HInv /\ [Next]_vars => HInv'
  BY HInvStep
<1> QED
  BY <1>1, <1>2, InvAlways, PTL DEF Spec

-----------------------------------------------------------------------------
\* The results.

\* The stages, the settings, the connection and the state of the reader keep
\* their types (main.cc, socket.h:54-148).
THEOREM TypeOKAlways == Spec => []TypeOK
<1>1. IInv => TypeOK
  BY InvMeans
<1> QED
  BY <1>1, InvAlways, PTL

\* A connection is made only for a legal command line, to the host and port of
\* its URL, with TLS and HTTP/2 as asked, for any arguments in any order
\* (main.cc:40-130).
THEOREM ConnectsAsAskedAlways == Spec => []ConnectsAsAsked
<1>1. IInv => ConnectsAsAsked
  BY InvMeans
<1> QED
  BY <1>1, InvAlways, PTL

\* What is printed and the exit status say what happened: 0 for the payload of a
\* response over the kind of connection asked for, 1 for a reason (main.cc:89-138).
THEOREM ExitReportsAlways == Spec => []ExitReports
<1>1. IInv => ExitReports
  BY InvMeans
<1> QED
  BY <1>1, InvAlways, PTL

\* However the stream comes in pieces, the payload is a prefix of the body, and
\* the whole of it once a response is returned over a connection that holds
\* (socket.h:54-148).
THEOREM ResponseExactAlways == Spec => []ResponseExact
<1>1. IInv => ResponseExact
  BY InvMeans
<1> QED
  BY <1>1, InvAlways, PTL

\* A response with another body is returned only where a clean end of the stream
\* passes for an empty line (socket.h:73-75, 93-103 and 110-135).
THEOREM InexactOnlyAtEofAlways == Spec => []InexactOnlyAtEof
<1>1. IInv => InexactOnlyAtEof
  BY InvMeans
<1> QED
  BY <1>1, InvAlways, PTL

\* The request asks for the path of the URL on its host, and carries one header
\* for every -H line with a colon, in the order of the command line, each with
\* the name and the value that its line announces (httpv1.cc:14-25,
\* http2_socket.h:121-132, http_header.cc:13-33).
THEOREM RequestFaithfulAlways == Spec => []RequestFaithful
<1>1. HInv => RequestFaithful
  BY DEF HInv
<1> QED
  BY <1>1, HInvAlways, PTL

=============================================================================
