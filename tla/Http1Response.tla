--------------------------- MODULE Http1Response ----------------------------
(***************************************************************************)
(* read_response of socket.h: an HTTP/1.1 response is read from a stream   *)
(* that arrives in pieces of any size and may end anywhere.                *)
(*                                                                         *)
(* The stream is a sequence of octets.  A line that is not empty is one    *)
(* octet here, followed by CR and LF; what the code reads out of such a    *)
(* line (atoi, stoi, split) is given by the constants.                     *)
(***************************************************************************)
EXTENDS Integers, Sequences, SequencesExt

CONSTANTS
  Messages,          \* the responses a server may send, with their octets
  StatusCodes,       \* status line -> code
  ContentLengths,    \* Content-Length line -> length
  TransferEncodings, \* Transfer-Encoding line -> coding
  OtherHeaders,      \* other header lines
  ChunkSizes,        \* chunk size line -> size
  MayClose           \* whether the connection may break before the end

VARIABLES
  pc,             \* the read the program is at, "done" or "failed"
  message,        \* the response the server sends
  wire,           \* octets sent and not read from the socket
  eof,            \* "open"; "eof" or "error" once the connection is closed
  receive_buffer,
  code_, headers_, payload_,   \* the http_response
  content_length, transfer_encoding,   \* std::optional, as a set
  chunk_size

vars == <<pc, message, wire, eof, receive_buffer, code_, headers_, payload_,
          content_length, transfer_encoding, chunk_size>>

response == <<code_, headers_, payload_>>
framing == <<content_length, transfer_encoding, chunk_size>>

-----------------------------------------------------------------------------
\* read_line and fill_streambuf: what they wait for and what they leave.

LineEnds == {i \in 1 .. Len(receive_buffer) - 1 :
               receive_buffer[i] = "CR" /\ receive_buffer[i + 1] = "LF"}
HasLine == LineEnds # {}
LineLength == (CHOOSE i \in LineEnds : \A j \in LineEnds : i <= j) - 1
Line == SubSeq(receive_buffer, 1, LineLength)

\* Mutant of Filled: fill_streambuf waits for one octet more than it was asked.
FilledAndMore(n) == Len(receive_buffer) > n

Filled(n) == Len(receive_buffer) >= n

consume(n) == receive_buffer' = SubSeq(receive_buffer, n + 1, Len(receive_buffer))

ConsumeLine == HasLine /\ consume(LineLength + 2)

ReadingLine == pc \in {"status", "header", "chunk_size", "last_line"}
ReadingOctets == pc \in {"identity", "chunk_data", "chunk_end"}
Wanted == CASE pc = "identity" -> CHOOSE n \in content_length : TRUE
            [] pc = "chunk_data" -> chunk_size
            [] pc = "chunk_end" -> 2

\* The read in progress is not satisfied by the buffer.
Blocked == \/ ReadingLine /\ ~ HasLine
           \/ ReadingOctets /\ ~ Filled(Wanted)

\* A read of the socket takes whatever has arrived, often more than is wanted.
Deliver(n) ==
  /\ Blocked
  /\ n \in 1 .. Len(wire)
  /\ receive_buffer' = receive_buffer \o SubSeq(wire, 1, n)
  /\ wire' = SubSeq(wire, n + 1, Len(wire))
  /\ UNCHANGED <<pc, message, eof, response, framing>>

\* The server, or the network, ends the stream, cleanly or not.
Close(how) ==
  /\ eof = "open"
  /\ MayClose
  /\ eof' = how
  /\ \E n \in 0 .. Len(wire) : wire' = SubSeq(wire, 1, n)
  /\ UNCHANGED <<pc, message, receive_buffer, response, framing>>

AtEof == Blocked /\ wire = <<>> /\ eof = "eof"

Throw == pc' = "failed" /\ UNCHANGED <<message, wire, eof, receive_buffer, response, framing>>

\* Mutant of ReadFails: a body that falls short is taken as it is.
ReadFailsOnLinesOnly ==
  /\ Blocked /\ wire = <<>> /\ eof # "open"
  /\ IF ReadingOctets
       THEN /\ pc' = "done"
            /\ payload_' = payload_ \o receive_buffer
            /\ UNCHANGED <<message, wire, eof, receive_buffer, code_, headers_, framing>>
       ELSE eof = "error" /\ Throw

\* Mutant of ReadFails: the end of the stream is no error to any read.
ReadFailsUnlessEof ==
  /\ Blocked /\ wire = <<>> /\ eof = "error"
  /\ Throw

\* asio::read throws at the end of the stream; read_until only on an error.
ReadFails ==
  /\ Blocked /\ wire = <<>> /\ eof # "open"
  /\ ReadingOctets \/ eof = "error"
  /\ Throw

-----------------------------------------------------------------------------
\* The status line.  Its result is not looked at: without a line, elements[1]
\* is read past the end, and either that ends the program or some code is made
\* of it; the header loop then meets the end of the stream again.
ReadStatusLine ==
  /\ pc = "status"
  /\ ConsumeLine
  /\ code_' = StatusCodes[Line[1]]
  /\ pc' = "header"
  /\ UNCHANGED <<message, wire, eof, headers_, payload_, framing>>

NoStatusLine ==
  /\ pc = "status"
  /\ AtEof
  /\ \/ Throw
     \/ /\ pc' = "header"
        /\ UNCHANGED <<message, wire, eof, receive_buffer, response, framing>>

\* How the payload is framed, once the headers are over.
PayloadState ==
  IF transfer_encoding = {} \/ transfer_encoding = {"identity"}
    THEN IF content_length = {} THEN "failed" ELSE "identity"
    ELSE IF transfer_encoding = {"chunked"} THEN "chunk_size" ELSE "failed"

\* A header line: the last Content-Length and Transfer-Encoding count.  A line
\* without a colon throws.
ReadHeader ==
  /\ pc = "header"
  /\ ConsumeLine
  /\ UNCHANGED <<message, wire, eof, code_, payload_, chunk_size>>
  /\ IF Line = <<>>
       THEN /\ pc' = PayloadState
            /\ UNCHANGED <<headers_, content_length, transfer_encoding>>
       ELSE LET h == Line[1]
            IN  IF h \in DOMAIN ContentLengths \cup DOMAIN TransferEncodings \cup OtherHeaders
                  THEN /\ headers_' = Append(headers_, h)
                       /\ content_length' = IF h \in DOMAIN ContentLengths
                                              THEN {ContentLengths[h]} ELSE content_length
                       /\ transfer_encoding' = IF h \in DOMAIN TransferEncodings
                                                 THEN {TransferEncodings[h]}
                                                 ELSE transfer_encoding
                       /\ UNCHANGED pc
                  ELSE /\ pc' = "failed"
                       /\ UNCHANGED <<headers_, content_length, transfer_encoding>>

\* The end of the stream ends the headers as the empty line does.
HeadersCutShort ==
  /\ pc = "header"
  /\ AtEof
  /\ pc' = PayloadState
  /\ UNCHANGED <<message, wire, eof, receive_buffer, response, framing>>

ReadIdentity ==
  /\ pc = "identity"
  /\ Filled(Wanted)
  /\ payload_' = SubSeq(receive_buffer, 1, Wanted)
  /\ consume(Wanted)
  /\ pc' = "done"
  /\ UNCHANGED <<message, wire, eof, code_, headers_, framing>>

-----------------------------------------------------------------------------
\* Chunks.

\* Mutant of ReadChunkSize: the last chunk is read like another.
ReadChunkSizeNeverLast ==
  /\ pc = "chunk_size"
  /\ ConsumeLine
  /\ UNCHANGED <<message, wire, eof, response, content_length, transfer_encoding>>
  /\ IF Line = <<>>
       THEN pc' = "done" /\ UNCHANGED chunk_size
       ELSE chunk_size' = ChunkSizes[Line[1]] /\ pc' = "chunk_data"

\* A chunk size: an empty line ends the payload, one that is not a hexadecimal
\* number throws.
ReadChunkSize ==
  /\ pc = "chunk_size"
  /\ ConsumeLine
  /\ UNCHANGED <<message, wire, eof, response, content_length, transfer_encoding>>
  /\ IF Line = <<>>
       THEN pc' = "done" /\ UNCHANGED chunk_size
       ELSE IF Line[1] \notin DOMAIN ChunkSizes
         THEN pc' = "failed" /\ UNCHANGED chunk_size
         ELSE /\ chunk_size' = ChunkSizes[Line[1]]
              /\ pc' = IF chunk_size' = 0 THEN "last_line" ELSE "chunk_data"

\* The loop is over when there is no line: the payload is what there was so far.
ChunksCutShort ==
  /\ pc = "chunk_size"
  /\ AtEof
  /\ pc' = "done"
  /\ UNCHANGED <<message, wire, eof, receive_buffer, response, framing>>

ReadChunkData ==
  /\ pc = "chunk_data"
  /\ Filled(chunk_size)
  /\ payload_' = payload_ \o SubSeq(receive_buffer, 1, chunk_size)
  /\ consume(chunk_size)
  /\ pc' = "chunk_end"
  /\ UNCHANGED <<message, wire, eof, code_, headers_, framing>>

\* Mutant of ReadChunkEnd: the CRLF after a chunk is not skipped.
ReadChunkEndOmitted ==
  /\ pc = "chunk_end"
  /\ Filled(2)
  /\ pc' = "chunk_size"
  /\ UNCHANGED <<message, wire, eof, receive_buffer, response, framing>>

ReadChunkEnd ==
  /\ pc = "chunk_end"
  /\ Filled(2)
  /\ consume(2)
  /\ pc' = "chunk_size"
  /\ UNCHANGED <<message, wire, eof, response, framing>>

\* One line after the last chunk is dropped, if it comes.
ReadLastLine ==
  /\ pc = "last_line"
  /\ IF AtEof THEN UNCHANGED receive_buffer ELSE ConsumeLine
  /\ pc' = "done"
  /\ UNCHANGED <<message, wire, eof, response, framing>>

Terminated == pc \in {"done", "failed"} /\ UNCHANGED vars

Init ==
  /\ pc = "status"
  /\ message \in Messages
  /\ wire = message.octets
  /\ eof = "open"
  /\ receive_buffer = <<>>
  /\ code_ = 0 /\ headers_ = <<>> /\ payload_ = <<>>
  /\ content_length = {} /\ transfer_encoding = {} /\ chunk_size = 0

Program == \/ ReadStatusLine \/ NoStatusLine
           \/ ReadHeader \/ HeadersCutShort
           \/ ReadIdentity
           \/ ReadChunkSize \/ ChunksCutShort
           \/ ReadChunkData \/ ReadChunkEnd
           \/ ReadLastLine
           \/ ReadFails

Next == \/ Program
        \/ \E n \in 1 .. Len(wire) : Deliver(n)
        \/ \E how \in {"eof", "error"} : Close(how)
        \/ Terminated

Spec == Init /\ [][Next]_vars

-----------------------------------------------------------------------------
\* The stage, the stream and the framing found so far: octets are waited for
\* only once their number is known, and what is buffered and in flight is the
\* unread end of the message.
TypeOK ==
  /\ pc \in {"status", "header", "identity", "chunk_size", "chunk_data", "chunk_end",
             "last_line", "done", "failed"}
  /\ message \in Messages
  /\ eof \in {"open", "eof", "error"}
  /\ eof = "open" => IsSuffix(receive_buffer \o wire, message.octets)
  /\ content_length \subseteq Nat /\ chunk_size \in Nat
  /\ pc = "identity" => content_length # {}
  /\ pc \in {"chunk_data", "chunk_end"} => chunk_size > 0

\* The stream ended, cleanly, behind a Content-Length line and before the empty
\* line, and as much of the header section as was in the buffer then passes for
\* the body (socket.h:73-75 and 93-103).
HeadersForBody ==
  LET Received == {n \in 0 .. Len(message.octets) :
                     IsSuffix(payload_ \o receive_buffer, SubSeq(message.octets, 1, n))}
      WithinHead(n) == \A i \in 1 .. n - 3 :
                         SubSeq(message.octets, i, i + 3) # <<"CR", "LF", "CR", "LF">>
  IN  /\ pc = "done" /\ eof = "eof"
      /\ content_length = {Len(payload_)} /\ transfer_encoding \in {{}, {"identity"}}
      /\ \E n \in Received : WithinHead(n)

\* However the stream was cut into reads, the payload is a prefix of the body
\* at every moment, and while the connection holds, a response that is returned
\* is the message: code, headers and body (socket.h:54-148).
ResponseExact ==
  /\ IsPrefix(payload_, message.body) \/ HeadersForBody
  /\ pc = "done" /\ eof = "open" =>
       /\ code_ = message.code /\ headers_ = message.headers
       /\ payload_ = message.body

\* A response with another body than the message is returned only if the stream
\* ended, cleanly, in the header section, or in a chunked body between two chunks
\* or in a chunk size.
InexactOnlyAtEof ==
  pc = "done" /\ payload_ # message.body =>
    \/ HeadersForBody
    \/ /\ eof = "eof"
       /\ transfer_encoding = {"chunked"}
       /\ ~ HasLine

=============================================================================
