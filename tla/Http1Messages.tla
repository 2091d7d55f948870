--------------------------- MODULE Http1Messages ----------------------------
(***************************************************************************)
(* The responses an HTTP/1.1 server may send, and their octets: those of   *)
(* the status line, the headers, an empty line and the body, whose length  *)
(* is given or which comes in chunks.  As in Http1Response, a line is one  *)
(* octet, followed by CR and LF, unless it is empty.                       *)
(***************************************************************************)
EXTENDS Integers, SequencesExt

CONSTANTS
  Messages,          \* the responses, each with its octets
  StatusCodes,       \* status line -> code
  ContentLengths,    \* Content-Length line -> length
  TransferEncodings, \* Transfer-Encoding line -> coding
  OtherHeaders,      \* other header lines
  ChunkSizes         \* chunk size line -> size

\* Both are of type std::size_t.
ASSUME SizesAssumption ==
  /\ \A h \in DOMAIN ContentLengths : ContentLengths[h] \in Nat
  /\ \A h \in DOMAIN ChunkSizes : ChunkSizes[h] \in Nat

Octets == UNION {Range(m.octets) : m \in Messages}

LineAt(octets, at, line) ==
  /\ at + 3 <= Len(octets)
  /\ octets[at + 1] = line /\ octets[at + 2] = "CR" /\ octets[at + 3] = "LF"

DataAt(octets, at, data) ==
  /\ at + Len(data) <= Len(octets)
  /\ \A i \in 1 .. Len(data) : octets[at + i] = data[i]

HeadSize(m) == 3 * Len(m.headers) + 5

HasHead(m) ==
  /\ LineAt(m.octets, 0, m.octets[1])
  /\ m.octets[1] \in DOMAIN StatusCodes /\ m.code = StatusCodes[m.octets[1]]
  /\ \A i \in 1 .. Len(m.headers) :
       /\ LineAt(m.octets, 3 * i, m.headers[i])
       /\ m.headers[i] \in DOMAIN ContentLengths \cup DOMAIN TransferEncodings \cup OtherHeaders
  /\ DataAt(m.octets, HeadSize(m) - 2, <<"CR", "LF">>)

\* What the last header among the first i that has a value for f gives.
ValueAfter(m, i, f) ==
  {f[m.headers[j]] : j \in {k \in 1 .. i : /\ m.headers[k] \in DOMAIN f
                                         /\ \A l \in k + 1 .. i : m.headers[l] \notin DOMAIN f}}

LengthAfter(m, i) == ValueAfter(m, i, ContentLengths)
CodingAfter(m, i) == ValueAfter(m, i, TransferEncodings)

\* Chunk j of n is the body from ends[j - 1] + 1 to ends[j].
InChunks(m, n, ends) ==
  /\ ends[0] = 0 /\ ends[n] = Len(m.body)
  /\ \A j \in 0 .. n :
       LET at == HeadSize(m) + 5 * j + ends[j]
           line == m.octets[at + 1]
       IN  /\ LineAt(m.octets, at, line) /\ line \in DOMAIN ChunkSizes
           /\ IF j = n
                THEN ChunkSizes[line] = 0
                ELSE /\ ends[j] < ends[j + 1] /\ ChunkSizes[line] = ends[j + 1] - ends[j]
                     /\ DataAt(m.octets, at + 3, SubSeq(m.body, ends[j] + 1, ends[j + 1]))

HasBody(m) ==
  LET coding == CodingAfter(m, Len(m.headers))
  IN  IF coding = {"chunked"}
        THEN \E n \in 0 .. Len(m.body) : \E ends \in [0 .. n -> 0 .. Len(m.body)] :
               InChunks(m, n, ends)
        ELSE /\ coding \in {{}, {"identity"}}
             /\ LengthAfter(m, Len(m.headers)) = {Len(m.body)}
             /\ DataAt(m.octets, HeadSize(m), m.body)

ASSUME MessagesAssumption ==
  \A m \in Messages : /\ m.octets \in Seq(Octets) /\ m.body \in Seq(Octets)
                      /\ m.headers \in Seq(Range(m.headers))
                      /\ HasHead(m) /\ HasBody(m)

=============================================================================
