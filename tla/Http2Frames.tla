---------------------------- MODULE Http2Frames -----------------------------
(***************************************************************************)
(* The frames of http2_frame.h and the functions of http2_socket.h and     *)
(* httpv2.cc that build them and take them apart.                          *)
(*                                                                         *)
(* A payload is a sequence of items.  An item of a DATA frame is an octet  *)
(* of the body and an item of a request's header block an octet of it; an  *)
(* item of a response's HEADERS frame is the pad length, one of the five   *)
(* octets of the priority, a representation of the header block, or an     *)
(* octet of padding.  What other frames carry is opaque.                   *)
(***************************************************************************)
EXTENDS HpackDecode

FrameTypes == {"PREFACE", "SETTINGS", "HEADERS", "CONTINUATION", "DATA", "WINDOW_UPDATE",
               "GOAWAY", "PING", "RST_STREAM", "PUSH_PROMISE", "unknown"}
FrameFlags == {"ACK", "END_HEADERS", "END_STREAM", "PADDED", "PRIORITY"}

Frame(type, flags, sid, payload) ==
  [type |-> type, flags |-> flags, sid |-> sid, payload |-> payload]

\* An octet of a body or of an encoded request.
Byte == 0 .. 255

\* The stream of the request, the only one (httpv2.cc).
stream_id == 1

PadLength(n) == [rep |-> "pad_length", n |-> n]
Priority     == [rep |-> "priority"]
Padding      == [rep |-> "padding"]
Opaque       == [rep |-> "opaque"]

-----------------------------------------------------------------------------
\* The frames the client sends (http2_socket.h).

\* The connection preface; it is not a frame, but occupies the stream as one.
Preface == Frame("PREFACE", {}, 0, <<>>)

send_http2_settings == Frame("SETTINGS", {}, 0, <<>>)
send_http2_settings_ack == Frame("SETTINGS", {"ACK"}, 0, <<>>)
send_http2_goaway(sid) == Frame("GOAWAY", {}, 0, <<sid, "NO_ERROR">>)
send_http2_window_update(sid, increment) ==
  Frame("WINDOW_UPDATE", {}, sid, <<increment>>)

\* Mutant of send_http2_headers: the last CONTINUATION starts one octet late.
SendHeadersSkippingOne(block, max_payload_len) ==
  IF Len(block) <= max_payload_len
    THEN <<Frame("HEADERS", {"END_HEADERS", "END_STREAM"}, stream_id, block)>>
    ELSE <<Frame("HEADERS", {"END_STREAM"}, stream_id, SubSeq(block, 1, max_payload_len)),
           Frame("CONTINUATION", {"END_HEADERS"}, stream_id,
                 SubSeq(block, max_payload_len + 2, Len(block)))>>

\* One HEADERS frame, or HEADERS and as many CONTINUATION frames as the block
\* takes.  The test that should find the last one compares len, already cut to
\* max_payload_len, with max_payload_len: every CONTINUATION gets END_HEADERS.
send_http2_headers(block, max_payload_len) ==
  IF Len(block) <= max_payload_len
    THEN <<Frame("HEADERS", {"END_HEADERS", "END_STREAM"}, stream_id, block)>>
    ELSE LET len(offset) == IF Len(block) - offset < max_payload_len
                              THEN Len(block) - offset ELSE max_payload_len
             continuation(offset) ==
               Frame("CONTINUATION",
                     IF len(offset) <= max_payload_len THEN {"END_HEADERS"} ELSE {},
                     stream_id, SubSeq(block, offset + 1, offset + len(offset)))
             count == (Len(block) - 1) \div max_payload_len
         IN  <<Frame("HEADERS", {"END_STREAM"}, stream_id,
                     SubSeq(block, 1, max_payload_len))>>
               \o [i \in 1 .. count |-> continuation(i * max_payload_len)]

-----------------------------------------------------------------------------
\* Taking frames apart.

\* Octets of an item of a HEADERS payload; strings are not Huffman coded.
Octets(item) ==
  IF item.rep \notin Literals THEN 1
  ELSE LET name == IF item.index = 0 THEN 1 + NameSize[item.name] ELSE 0
       IN  1 + name + 1 + ValueSize[item.value]

\* http2_frame::length().  An item of a DATA frame is an octet.
length(f) ==
  IF f.type = "DATA" THEN Len(f.payload)
  ELSE SumSeq([i \in 1 .. Len(f.payload) |-> Octets(f.payload[i])])

Padded(f) == "PADDED" \in f.flags
FragmentOffset(f) == (IF Padded(f) THEN 1 ELSE 0)
                       + (IF "PRIORITY" \in f.flags THEN 5 ELSE 0)
PadOctets(f) == IF Padded(f) THEN f.payload[1].n ELSE 0

\* There is no pad length to read, or the fragment would end before it begins:
\* reading the first octet of an empty vector crashes, and insert() throws
\* length_error for a range of negative length.
FragmentMissing(f) ==
  \/ Padded(f) /\ f.payload = <<>>
  \/ FragmentOffset(f) + PadOctets(f) > length(f)

\* The part of a HEADERS payload that httpv2::get adds to header_block.
HeaderBlockFragment(f) ==
  SubSeq(f.payload, FragmentOffset(f) + 1, Len(f.payload) - PadOctets(f))

-----------------------------------------------------------------------------
\* dump of http2_frame.cc, as far as it can end the program.

\* How many octets it takes a payload to have.  The weight, one octet, is read
\* as the four from its place on, and test_range, asked whether six octets of a
\* SETTINGS parameter are left, answers whether one is.
DumpReads(f) ==
  CASE f.type = "HEADERS" /\ "PRIORITY" \in f.flags -> FragmentOffset(f) + 3
    [] f.type = "SETTINGS" -> 6 * ((length(f) + 5) \div 6)
    [] f.type \in {"RST_STREAM", "WINDOW_UPDATE"} -> 4
    [] f.type = "GOAWAY" -> 8
    [] OTHER -> 0

\* buffer_view throws beyond the payload; an empty one is not looked at.
DumpThrows(f) == length(f) > 0 /\ length(f) < DumpReads(f)

\* For a type without a name, "Type: " + type points past the literal: what is
\* read there makes a text, or crashes.
DumpOutcomes(f) == IF f.type = "unknown" THEN BOOLEAN ELSE {DumpThrows(f)}

=============================================================================
