------------------------ MODULE Http2Session_proofs -------------------------
(***************************************************************************)
(* The invariants of a session, for every request, every reply and every   *)
(* server that Http2Server allows: what each side keeps about frames,      *)
(* streams and windows; then the exchange itself.  The request waits for   *)
(* the SETTINGS of both sides, arrives whole, and nothing the client sends *)
(* breaks RFC 7540; the response that the program returns is the reply,    *)
(* however it is cut into frames and whatever else the server sends.       *)
(***************************************************************************)
EXTENDS Http2Session, HpackDecode_proofs

-----------------------------------------------------------------------------
\* Types.

\* A frame of the client.
ClientFrame(f) ==
  /\ Header(f) \in Frames
  /\ f.type = "WINDOW_UPDATE" => f.payload[1] \in Nat
  /\ f.type \in {"HEADERS", "CONTINUATION"} => f.payload \in Seq(Byte)

ClientQueue(q) == IsSeq(q) /\ \A i \in 1 .. Len(q) : ClientFrame(q[i])

\* A frame of the server.  A DATA frame that does not end the stream is on the
\* stream of the request, and one without padding carries octets of a body.
ServerFrame(f) ==
  /\ Header(f) \in Frames
  /\ f.type = "HEADERS" =>
       FragmentMissing(f) \/ HeaderBlockFragment(f) \in Seq(AllRepresentations)
  /\ f.type = "CONTINUATION" => f.payload \in Seq(AllRepresentations)
  /\ f.type = "DATA" =>
       /\ Len(f.payload) \in Nat
       /\ "PADDED" \notin f.flags => f.payload \in Seq(Byte)
       /\ "END_STREAM" \notin f.flags => f.sid = stream_id

ServerQueue(q) == IsSeq(q) /\ \A i \in 1 .. Len(q) : ServerFrame(q[i])

ClientTypes ==
  /\ pc \in Reading \cup Stopped \cup {"connect", "finish"}
  /\ verbose \in BOOLEAN /\ request \in Requests
  /\ rcv_settings \in BOOLEAN /\ rcv_settings_ack \in BOOLEAN
  /\ ClientQueue(out)
  /\ header_block \in Seq(AllRepresentations) /\ header_list \in Seq(Headers)
  /\ response_body \in Seq(Byte)

ConnectionTypes ==
  /\ ClientQueue(c2s) /\ ServerQueue(s2c)
  /\ c_closed \in BOOLEAN /\ s_closed \in BOOLEAN

ServerTypes ==
  /\ reply \in Replies
  /\ s_state \in {"preface", "idle", "continuation", "requested"}
  /\ s_block \in Seq(Byte)
  /\ s_acks \in Nat
  /\ block_sent \in 0 .. Len(reply.block) /\ body_sent \in 0 .. Len(reply.body)
  /\ extras \in 0 .. MaxExtra /\ pushed \in 0 .. Len(PushFrames)
  /\ conn_window \in Nat /\ stream_window \in Nat

Types == ClientTypes /\ ConnectionTypes /\ ServerTypes

LEMMA ClientQueueEmpty == ClientQueue(<<>>)
BY SeqEmpty DEF ClientQueue

LEMMA ClientQueueAppend ==
  ASSUME NEW q, ClientQueue(q), NEW f, ClientFrame(f)
  PROVE  ClientQueue(Append(q, f))
BY SeqAppend DEF ClientQueue

LEMMA ClientQueueTail ==
  ASSUME NEW q, ClientQueue(q), q # <<>>
  PROVE  ClientQueue(Tail(q)) /\ ClientFrame(Head(q))
BY SeqTail DEF ClientQueue

LEMMA ClientQueueConcat ==
  ASSUME NEW q, ClientQueue(q), NEW r, ClientQueue(r)
  PROVE  ClientQueue(q \o r)
<1>1. IsSeq(q) /\ IsSeq(r)
  BY DEF ClientQueue
<1>2. PICK m \in Nat, n \in Nat : m = Len(q) /\ n = Len(r)
  BY <1>1, SeqConcat
<1>3. /\ IsSeq(q \o r) /\ Len(q \o r) = m + n
      /\ \A i \in 1 .. m : (q \o r)[i] = q[i]
      /\ \A i \in 1 .. n : (q \o r)[m + i] = r[i]
  BY <1>1, <1>2, SeqConcat
<1>4. ASSUME NEW i \in 1 .. m + n  PROVE ClientFrame((q \o r)[i])
  <2>1. CASE i \in 1 .. m
    BY <1>2, <1>3, <2>1 DEF ClientQueue
  <2>2. CASE i \notin 1 .. m
    <3>1. i - m \in 1 .. n /\ m + (i - m) = i
      BY <2>2
    <3>2. ClientFrame(r[i - m]) /\ (q \o r)[m + (i - m)] = r[i - m]
      BY <1>2, <1>3, <3>1 DEF ClientQueue
    <3> QED
      BY <3>1, <3>2
  <2> QED
    BY <2>1, <2>2
<1> QED
  BY <1>3, <1>4 DEF ClientQueue

LEMMA ServerQueueAppend ==
  ASSUME NEW q, ServerQueue(q), NEW f, ServerFrame(f)
  PROVE  ServerQueue(Append(q, f))
BY SeqAppend DEF ServerQueue

LEMMA ServerQueueTail ==
  ASSUME NEW q, ServerQueue(q), q # <<>>
  PROVE  ServerQueue(Tail(q)) /\ ServerFrame(Head(q))
BY SeqTail DEF ServerQueue

\* The frames the client builds.
LEMMA ControlFrames ==
  /\ ClientFrame(Preface) /\ ClientFrame(send_http2_settings)
  /\ ClientFrame(send_http2_settings_ack)
  /\ ClientFrame(send_http2_goaway(stream_id))
  /\ \A sid \in {0, stream_id}, n \in Nat :
       /\ ClientFrame(send_http2_window_update(sid, n))
       /\ send_http2_window_update(sid, n).payload[1] = n
<1> USE DEF ClientFrame, Header, Frames, Frame, FrameTypes, FrameFlags, stream_id,
            PushedStream
<1>1. ClientFrame(Preface) /\ ClientFrame(send_http2_settings)
  BY DEF Preface, send_http2_settings
<1>2. /\ ClientFrame(send_http2_settings_ack)
      /\ ClientFrame(send_http2_goaway(stream_id))
  BY DEF send_http2_settings_ack, send_http2_goaway
<1>3. ASSUME NEW sid \in {0, stream_id}, NEW n \in Nat
      PROVE  /\ ClientFrame(send_http2_window_update(sid, n))
             /\ send_http2_window_update(sid, n).payload[1] = n
  BY DEF send_http2_window_update
<1> QED
  BY <1>1, <1>2, <1>3

\* Any part of a block has the block's elements.
LEMMA SubSeqType ==
  ASSUME NEW S, NEW s \in Seq(S), NEW m \in Nat \ {0}, NEW n \in Int, n <= Len(s)
  PROVE  SubSeq(s, m, n) \in Seq(S)
OBVIOUS

\* The frames of a request, and the type of each of them.
LEMMA RequestFrames ==
  ASSUME NEW block \in Seq(Byte)
  PROVE  /\ ClientQueue(send_http2_headers(block, MaxPayload))
         /\ \A i \in 1 .. Len(send_http2_headers(block, MaxPayload)) :
              send_http2_headers(block, MaxPayload)[i].type =
                IF i = 1 THEN "HEADERS" ELSE "CONTINUATION"
         /\ Len(send_http2_headers(block, MaxPayload)) \in Nat \ {0}
<1> DEFINE frames == send_http2_headers(block, MaxPayload)
<1>0. PICK M \in Nat \ {0}, L \in Nat : M = MaxPayload /\ L = Len(block)
  BY RequestsAssumption
<1>1. ASSUME NEW flags \in SUBSET {"END_HEADERS", "END_STREAM"},
             NEW type \in {"HEADERS", "CONTINUATION"},
             NEW payload \in Seq(Byte)
      PROVE  /\ ClientFrame(Frame(type, flags, stream_id, payload))
             /\ Frame(type, flags, stream_id, payload).type = type
  BY DEF ClientFrame, Header, Frames, Frame, FrameTypes, FrameFlags
<1>2. CASE L <= M
  <2>1. frames = <<Frame("HEADERS", {"END_HEADERS", "END_STREAM"}, stream_id, block)>>
    BY <1>0, <1>2 DEF send_http2_headers
  <2>2. ClientFrame(Frame("HEADERS", {"END_HEADERS", "END_STREAM"}, stream_id, block))
    BY <1>1
  <2>3. Frame("HEADERS", {"END_HEADERS", "END_STREAM"}, stream_id, block).type = "HEADERS"
    BY <1>1
  <2> HIDE DEF frames
  <2> QED
    BY <2>1, <2>2, <2>3, SeqOne DEF ClientQueue, frames
<1>3. CASE ~ (L <= M)
  <2> DEFINE first == Frame("HEADERS", {"END_STREAM"}, stream_id, SubSeq(block, 1, M))
             len(offset) == IF L - offset < M THEN L - offset ELSE M
             continuation(offset) ==
               Frame("CONTINUATION", IF len(offset) <= M THEN {"END_HEADERS"} ELSE {},
                     stream_id, SubSeq(block, offset + 1, offset + len(offset)))
             count == (L - 1) \div M
             rest == [i \in 1 .. count |-> continuation(i * M)]
  <2>1. frames = <<first>> \o rest
    BY <1>0, <1>3, Zenon DEF send_http2_headers
  <2>2. count \in Nat
    <3>1. L - 1 \in Nat /\ M \in Nat /\ M > 0
      BY <1>3
    <3> QED
      BY <3>1
  <2>3. ClientFrame(first) /\ first.type = "HEADERS"
    <3>1. SubSeq(block, 1, M) \in Seq(Byte)
      BY <1>0, <1>3, SubSeqType
    <3> QED
      BY <1>1, <3>1
  <2>4. ASSUME NEW i \in 1 .. count
        PROVE  ClientFrame(continuation(i * M)) /\ continuation(i * M).type = "CONTINUATION"
    <3>1. PICK offset \in Nat : offset = i * M
      OBVIOUS
    <3>2. SubSeq(block, offset + 1, offset + len(offset)) \in Seq(Byte)
      <4>1. /\ offset + 1 \in Nat \ {0} /\ offset + len(offset) \in Int
            /\ offset + len(offset) <= Len(block)
        BY <1>0
      <4> QED
        BY <4>1, SubSeqType
    <3>3. (IF len(offset) <= M THEN {"END_HEADERS"} ELSE {})
            \in SUBSET {"END_HEADERS", "END_STREAM"}
      OBVIOUS
    <3> HIDE DEF len
    <3>4. ClientFrame(continuation(offset)) /\ continuation(offset).type = "CONTINUATION"
      BY <1>1, <3>2, <3>3
    <3> QED
      BY <3>1, <3>4
  <2> HIDE DEF count, first, continuation
  <2>5. IsSeq(rest) /\ Len(rest) = count /\ \A i \in 1 .. count : rest[i] = continuation(i * M)
    <3>1. \A i \in 1 .. count : rest[i] = continuation(i * M)
      OBVIOUS
    <3>2. rest = [i \in 1 .. count |-> rest[i]]
      OBVIOUS
    <3> HIDE DEF rest
    <3> QED
      BY <2>2, <3>1, <3>2, SeqFunction
  <2> HIDE DEF rest
  <2>6. ClientQueue(<<first>>) /\ ClientQueue(rest)
    BY <2>3, <2>4, <2>5, SeqOne DEF ClientQueue
  <2>7. /\ Len(<<first>> \o rest) = 1 + count
        /\ (<<first>> \o rest)[1] = first
        /\ \A i \in 1 .. count : (<<first>> \o rest)[1 + i] = rest[i]
    BY <2>5, SeqPrepend
  <2>8. ASSUME NEW i \in 2 .. 1 + count
        PROVE  (<<first>> \o rest)[i].type = "CONTINUATION"
    <3>1. i - 1 \in 1 .. count /\ 1 + (i - 1) = i
      BY <2>2
    <3> QED
      BY <2>4, <2>5, <2>7, <3>1
  <2>9. ClientQueue(<<first>> \o rest)
    BY <2>6, ClientQueueConcat
  <2> DEFINE all == <<first>> \o rest
  <2>10. ASSUME NEW i \in 1 .. 1 + count
         PROVE  all[i].type = IF i = 1 THEN "HEADERS" ELSE "CONTINUATION"
    BY <2>3, <2>7, <2>8
  <2>11. Len(all) = 1 + count /\ ClientQueue(all) /\ frames = all
    BY <2>1, <2>7, <2>9
  <2> HIDE DEF all, frames
  <2>12. Len(frames) = 1 + count /\ 1 + count \in Nat \ {0}
    BY <2>2, <2>11
  <2> QED
    BY <2>10, <2>11, <2>12 DEF frames
<1> QED
  BY <1>2, <1>3

\* An exception disturbs no type.
LEMMA ThrowTypes ==
  ASSUME Types, Throw
  PROVE  ClientTypes' /\ c_closed' \in BOOLEAN
BY ClientQueueEmpty DEF Types, ClientTypes, Throw, Stopped

LEMMA ReceiveTypes ==
  ASSUME Types, Receive
  PROVE  ServerFrame(Head(s2c)) /\ ServerQueue(s2c') /\ ClientQueue(c2s')
         /\ s_closed' \in BOOLEAN
BY ServerQueueTail DEF Types, ConnectionTypes, Receive

LEMMA HandleSettingsTypes ==
  ASSUME Types, pc = "settings", NEW f, HandleSettings(f)
  PROVE  ClientTypes' /\ c_closed' \in BOOLEAN
<1> DEFINE settings == f.type = "SETTINGS"
           ack == settings /\ "ACK" \in f.flags
           answer == IF settings /\ ~ ack THEN <<send_http2_settings_ack>> ELSE <<>>
<1>1. ClientQueue(answer)
  <2>1. ClientQueue(<<send_http2_settings_ack>>)
    BY ControlFrames, SeqOne DEF ClientQueue
  <2> QED
    BY <2>1, ClientQueueEmpty
<1>2. ClientQueue(send_http2_headers(request, MaxPayload))
  BY RequestsAssumption, RequestFrames DEF Types, ClientTypes
<1>3. ClientQueue(answer \o send_http2_headers(request, MaxPayload))
  BY <1>1, <1>2, ClientQueueConcat
<1>4. /\ rcv_settings' = (rcv_settings \/ (settings /\ ~ ack))
      /\ rcv_settings_ack' = (rcv_settings_ack \/ ack)
      /\ pc' \in {pc, "headers"}
      /\ out' \in {answer, answer \o send_http2_headers(request, MaxPayload)}
      /\ UNCHANGED <<verbose, request, header_block, header_list, response_body,
                     response, c_closed>>
  BY DEF HandleSettings
<1> HIDE DEF answer
<1>5. ClientQueue(out')
  BY <1>1, <1>3, <1>4
<1>6. rcv_settings' \in BOOLEAN /\ rcv_settings_ack' \in BOOLEAN
  BY <1>4
<1>7. pc' \in Reading \cup Stopped \cup {"connect", "finish"}
  BY <1>4 DEF Types, ClientTypes, Reading
<1> QED
  BY <1>4, <1>5, <1>6, <1>7 DEF Types, ClientTypes, ConnectionTypes

LEMMA AddFragmentTypes ==
  ASSUME Types, NEW fragment \in Seq(AllRepresentations), NEW last,
         AddFragment(fragment, last)
  PROVE  ClientTypes' /\ c_closed' \in BOOLEAN
<1> DEFINE block == header_block \o fragment
<1>1. block \in Seq(AllRepresentations)
  BY DEF Types, ClientTypes
<1>2. decode(block).headers \in Seq(Headers)
  BY <1>1, DecodeType DEF Decoders
<1>3. CASE Throw
  BY <1>3, ThrowTypes
<1>4. CASE /\ header_block' = block
           /\ header_list' \in {header_list, decode(block).headers}
           /\ pc' \in {"data", "continuation"}
           /\ UNCHANGED <<verbose, request, rcv_settings, rcv_settings_ack, out,
                          response_body, response, c_closed>>
  BY <1>1, <1>2, <1>4 DEF Types, ClientTypes, ConnectionTypes, Reading
<1> QED
  BY <1>3, <1>4 DEF AddFragment

LEMMA HandleDataTypes ==
  ASSUME Types, pc = "data", NEW f, ServerFrame(f), HandleData(f)
  PROVE  ClientTypes' /\ c_closed' \in BOOLEAN
<1>1. CASE Throw
  BY <1>1, ThrowTypes
<1>2. CASE /\ f.type = "DATA" /\ "PADDED" \notin f.flags
           /\ response_body' = response_body \o f.payload
           /\ \/ pc' = "finish" /\ out' = <<send_http2_goaway(stream_id)>>
              \/ pc' = pc /\ out' = WindowUpdates(length(f))
           /\ UNCHANGED <<verbose, request, rcv_settings, rcv_settings_ack,
                          header_block, header_list, response, c_closed>>
  <2>1. length(f) \in Nat /\ f.payload \in Seq(Byte)
    BY <1>2 DEF ServerFrame, length
  <2>2. ClientQueue(WindowUpdates(length(f)))
    BY <2>1, ControlFrames, SeqTwo DEF WindowUpdates, ClientQueue
  <2>3. ClientQueue(<<send_http2_goaway(stream_id)>>)
    BY ControlFrames, SeqOne DEF ClientQueue
  <2>4. response_body' \in Seq(Byte)
    BY <1>2, <2>1 DEF Types, ClientTypes
  <2>5. ClientQueue(out')
    BY <1>2, <2>2, <2>3
  <2>6. pc' \in Reading \cup Stopped \cup {"connect", "finish"}
    BY <1>2 DEF Reading
  <2> QED
    BY <1>2, <2>4, <2>5, <2>6 DEF Types, ClientTypes, ConnectionTypes
<1> QED
  BY <1>1, <1>2 DEF HandleData

LEMMA ClientStepTypes ==
  ASSUME Types, ClientStep
  PROVE  ClientTypes' /\ ConnectionTypes'
<1> USE DEF Types, ConnectionTypes
<1>1. CASE Connect
  <2>1. ClientQueue(<<Preface, send_http2_settings>>)
    BY ControlFrames, SeqTwo DEF ClientQueue
  <2>2. UNCHANGED <<c2s, s2c, s_closed>>
    BY <1>1 DEF Connect
  <2>3. CASE Throw
    BY <2>2, <2>3, ThrowTypes
  <2>4. CASE /\ pc' = "settings"
             /\ out' = <<Preface, send_http2_settings>>
             /\ UNCHANGED <<verbose, request, rcv_settings, rcv_settings_ack,
                            header_block, header_list, response_body, response, c_closed>>
    BY <2>1, <2>2, <2>4 DEF ClientTypes, Reading
  <2> QED
    BY <1>1, <2>3, <2>4 DEF Connect
<1>2. CASE WriteFrame
  <2>1. ClientQueue(out') /\ ClientQueue(c2s')
    BY <1>2, ClientQueueTail, ClientQueueAppend DEF WriteFrame, ClientTypes
  <2> QED
    BY <1>2, <2>1 DEF WriteFrame, ClientTypes
<1>3. CASE WriteLost
  <2>1. ClientQueue(out')
    BY <1>3, ClientQueueTail DEF WriteLost, ClientTypes
  <2> QED
    BY <1>3, <2>1 DEF WriteLost, ClientTypes, connection
<1>4. CASE WriteFails
  BY <1>4, ThrowTypes DEF WriteFails
<1>5. CASE ReadSettings
  <2>1. Throw \/ HandleSettings(Head(s2c))
    BY <1>5 DEF ReadSettings
  <2> QED
    BY <1>5, <2>1, ReceiveTypes, ThrowTypes, HandleSettingsTypes DEF ReadSettings
<1>6. CASE ReadHeaders
  <2> DEFINE f == Head(s2c)
  <2>1. ServerFrame(f)
    BY <1>6, ReceiveTypes DEF ReadHeaders
  <2>2. CASE Throw
    BY <1>6, <2>2, ReceiveTypes, ThrowTypes DEF ReadHeaders
  <2>3. CASE /\ f.type = "HEADERS" /\ ~ FragmentMissing(f)
             /\ AddFragment(HeaderBlockFragment(f), "END_HEADERS" \in f.flags)
    <3>1. HeaderBlockFragment(f) \in Seq(AllRepresentations)
      BY <2>1, <2>3 DEF ServerFrame
    <3> QED
      BY <1>6, <2>3, <3>1, ReceiveTypes, AddFragmentTypes DEF ReadHeaders
  <2> QED
    BY <1>6, <2>2, <2>3 DEF ReadHeaders, HandleHeaders
<1>7. CASE ReadContinuation
  <2> DEFINE f == Head(s2c)
  <2>1. ServerFrame(f)
    BY <1>7, ReceiveTypes DEF ReadContinuation
  <2>2. CASE Throw
    BY <1>7, <2>2, ReceiveTypes, ThrowTypes DEF ReadContinuation
  <2>3. CASE f.type = "CONTINUATION" /\ AddFragment(f.payload, "END_HEADERS" \in f.flags)
    <3>1. f.payload \in Seq(AllRepresentations)
      BY <2>1, <2>3 DEF ServerFrame
    <3> QED
      BY <1>7, <2>3, <3>1, ReceiveTypes, AddFragmentTypes DEF ReadContinuation
  <2> QED
    BY <1>7, <2>2, <2>3 DEF ReadContinuation, HandleContinuation
<1>8. CASE ReadData
  <2>1. Throw \/ HandleData(Head(s2c))
    BY <1>8 DEF ReadData
  <2> QED
    BY <1>8, <2>1, ReceiveTypes, ThrowTypes, HandleDataTypes DEF ReadData
<1>9. CASE ReadFails
  BY <1>9, ThrowTypes DEF ReadFails
<1>10. CASE Finish
  <2>1. CASE Throw
    BY <1>10, <2>1, ThrowTypes DEF Finish
  <2>2. CASE /\ pc' = "done" /\ c_closed' = TRUE
             /\ UNCHANGED <<verbose, request, rcv_settings, rcv_settings_ack, out,
                            header_block, header_list, response_body>>
    BY <1>10, <2>2 DEF Finish, ClientTypes, Stopped
  <2> QED
    BY <1>10, <2>1, <2>2 DEF Finish
<1> QED
  BY <1>1, <1>2, <1>3, <1>4, <1>5, <1>6, <1>7, <1>8, <1>9, <1>10 DEF ClientStep

\* The fragment between the padding and the priority is the fragment.
LEMMA HeadersFragment ==
  ASSUME NEW b \in Seq(AllRepresentations),
         NEW opts \in SUBSET {"PADDED", "PRIORITY"},
         NEW ends \in SUBSET {"END_HEADERS", "END_STREAM"}
  PROVE  LET padded == "PADDED" \in opts
             before == (IF padded THEN <<PadLength(1)>> ELSE <<>>)
                         \o (IF "PRIORITY" \in opts
                               THEN [i \in 1 .. 5 |-> Priority] ELSE <<>>)
             after  == IF padded THEN <<Padding>> ELSE <<>>
         IN  HeaderBlockFragment(Frame("HEADERS", opts \cup ends, stream_id,
                                       before \o b \o after)) = b
<1> DEFINE padded == "PADDED" \in opts
           pad == IF padded THEN <<PadLength(1)>> ELSE <<>>
           prio == IF "PRIORITY" \in opts THEN [i \in 1 .. 5 |-> Priority] ELSE <<>>
           before == pad \o prio
           after  == IF padded THEN <<Padding>> ELSE <<>>
           f == Frame("HEADERS", opts \cup ends, stream_id, before \o b \o after)
<1>1. IsSeq(pad) /\ Len(pad) = (IF padded THEN 1 ELSE 0) /\ (padded => pad[1] = PadLength(1))
  BY SeqEmpty, SeqOne
<1>2. IsSeq(prio) /\ Len(prio) = (IF "PRIORITY" \in opts THEN 5 ELSE 0)
  <2> DEFINE five == [i \in 1 .. 5 |-> Priority]
  <2>1. five = [i \in 1 .. 5 |-> five[i]]
    OBVIOUS
  <2> HIDE DEF five
  <2>2. IsSeq(five) /\ Len(five) = 5
    BY <2>1, SeqFunction
  <2> QED
    BY <2>2, SeqEmpty DEF five
<1>3. IsSeq(after) /\ Len(after) = (IF padded THEN 1 ELSE 0)
  BY SeqEmpty, SeqOne
<1>4. f.flags = opts \cup ends /\ f.payload = (before \o b) \o after
  BY DEF Frame
<1>5. /\ "PADDED" \in f.flags <=> padded
      /\ "PRIORITY" \in f.flags <=> "PRIORITY" \in opts
  BY <1>4
<1> HIDE DEF pad, prio, after, f
<1>6. /\ IsSeq(before)
      /\ Len(before) = (IF padded THEN 1 ELSE 0) + (IF "PRIORITY" \in opts THEN 5 ELSE 0)
      /\ padded => before[1] = PadLength(1)
  <2>1. /\ IsSeq(before) /\ Len(before) = Len(pad) + Len(prio)
        /\ \A i \in 1 .. Len(pad) : before[i] = pad[i]
    <3>1. IsSeq(pad) /\ IsSeq(prio)
      BY <1>1, <1>2
    <3> QED
      BY <3>1, SeqConcat
  <2> HIDE DEF before
  <2> QED
    BY <1>1, <1>2, <2>1
<1> HIDE DEF before
<1>7. FragmentOffset(f) = Len(before)
  BY <1>5, <1>6 DEF FragmentOffset, Padded
<1>8. PadOctets(f) = Len(after)
  <2>1. ASSUME padded  PROVE f.payload[1] = PadLength(1)
    <3>1. IsSeq(b)
      BY DEF IsSeq
    <3>2. PICK k \in Nat \ {0} : k = Len(before)
      BY <1>6, <2>1
    <3> DEFINE ab == before \o b
    <3>3. IsSeq(ab) /\ Len(ab) \in Nat \ {0} /\ ab[1] = before[1]
      <4>1. /\ IsSeq(ab) /\ Len(ab) = Len(before) + Len(b) /\ Len(b) \in Nat
            /\ \A i \in 1 .. Len(before) : ab[i] = before[i]
        <5>1. IsSeq(before)
          BY <1>6
        <5> QED
          BY <3>1, <5>1, SeqConcat
      <4>2. 1 \in 1 .. Len(before)
        BY <3>2
      <4> HIDE DEF ab
      <4> QED
        BY <3>2, <4>1, <4>2
    <3> HIDE DEF ab
    <3>4. (ab \o after)[1] = ab[1]
      <4>1. 1 \in 1 .. Len(ab)
        BY <3>3
      <4> QED
        BY <1>3, <3>3, <4>1, SeqConcat
    <3> QED
      BY <1>4, <1>6, <2>1, <3>3, <3>4 DEF ab
  <2> QED
    BY <1>3, <1>5, <2>1 DEF PadOctets, Padded, PadLength
<1>9. HeaderBlockFragment(f) = b
  <2>1. SubSeq((before \o b) \o after, Len(before) + 1,
               Len((before \o b) \o after) - Len(after)) = b
    BY <1>3, <1>6, MiddleOf
  <2> QED
    BY <1>4, <1>7, <1>8, <2>1 DEF HeaderBlockFragment
<1> QED
  BY <1>9 DEF f, before, pad, prio, after

\* The frames the server sends.
LEMMA HandshakeFrames ==
  \A flags \in {{}, {"ACK"}} : ServerFrame(Frame("SETTINGS", flags, 0, <<>>))
BY DEF ServerFrame, Header, Frames, Frame, FrameTypes, FrameFlags

LEMMA ExtraFrames == \A f \in Extra : ServerFrame(f)
<1> SUFFICES ASSUME NEW f \in Extra  PROVE ServerFrame(f)
  OBVIOUS
<1>1. /\ f.type \in FrameTypes \ {"DATA", "CONTINUATION"}
      /\ f.flags \in SUBSET FrameFlags /\ f.sid \in {0, stream_id}
      /\ f.type = "HEADERS" =>
           FragmentMissing(f) \/ HeaderBlockFragment(f) \in Seq(AllRepresentations)
  BY ExtraAssumption
<1>2. Header(f) \in Frames
  BY <1>1 DEF Header, Frames
<1> QED
  BY <1>1, <1>2 DEF ServerFrame

LEMMA PushedFrames ==
  /\ Len(PushFrames) = 3
  /\ \A i \in 1 .. 3 : ServerFrame(PushFrames[i])
  /\ PushFrames[1].type = "PUSH_PROMISE" /\ PushFrames[2].type = "HEADERS"
  /\ PushFrames[3].type = "DATA" /\ length(PushFrames[3]) = 1
  /\ "END_STREAM" \in PushFrames[3].flags /\ PushFrames[3].sid = PushedStream
<1> DEFINE f1 == Frame("PUSH_PROMISE", {"END_HEADERS"}, stream_id, <<Opaque>>)
           f2 == Frame("HEADERS", {"END_HEADERS"}, PushedStream, <<Indexed(1)>>)
           f3 == Frame("DATA", {"END_STREAM"}, PushedStream, <<0>>)
<1> USE DEF Frame, Header, Frames, FrameTypes, FrameFlags, stream_id, PushedStream
<1>1. Len(PushFrames) = 3 /\ PushFrames[1] = f1 /\ PushFrames[2] = f2 /\ PushFrames[3] = f3
  BY DEF PushFrames
<1>2. f1.type = "PUSH_PROMISE" /\ ServerFrame(f1)
  BY DEF ServerFrame
<1>3. f2.type = "HEADERS" /\ ServerFrame(f2)
  <2> PICK t : t = <<Indexed(1)>>
    OBVIOUS
  <2>1. t \in Seq(AllRepresentations) /\ Len(t) = 1
    BY DEF Indexed, AllRepresentations
  <2>2. FragmentOffset(f2) = 0 /\ PadOctets(f2) = 0 /\ f2.payload = t
    BY DEF FragmentOffset, PadOctets, Padded
  <2>3. HeaderBlockFragment(f2) = SubSeq(t, 1, Len(t))
    BY <2>1, <2>2 DEF HeaderBlockFragment
  <2>4. SubSeq(t, 1, Len(t)) = t
    BY <2>1, SubSeqFull
  <2>5. HeaderBlockFragment(f2) \in Seq(AllRepresentations)
    BY <2>1, <2>3, <2>4
  <2> QED
    BY <2>5 DEF ServerFrame
<1>4. f3.type = "DATA" /\ ServerFrame(f3) /\ length(f3) = 1 /\ f3.sid = PushedStream
      /\ "END_STREAM" \in f3.flags
  BY DEF ServerFrame, length, Byte
<1> HIDE DEF f1, f2, f3
<1>5. ASSUME NEW i \in 1 .. 3  PROVE ServerFrame(PushFrames[i])
  <2>1. i = 1 \/ i = 2 \/ i = 3
    OBVIOUS
  <2> QED
    BY <1>1, <1>2, <1>3, <1>4, <2>1
<1> QED
  BY <1>1, <1>2, <1>3, <1>4, <1>5

\* What SendHeaders and SendData put on the connection.
LEMMA HeadersFrames ==
  ASSUME ServerTypes, NEW n \in 1 .. Len(reply.block), NEW flags \in HeaderFlags,
         NEW where \in EmptyBodyEnd, SendHeaders(n, flags, where)
  PROVE  \E f : /\ s2c' = Append(s2c, f) /\ ServerFrame(f) /\ f.type = "HEADERS"
                /\ "END_HEADERS" \in f.flags <=> n = Len(reply.block)
                /\ HeaderBlockFragment(f) = SubSeq(reply.block, 1, n)
<1> DEFINE end == reply.body = <<>> /\ where = "headers"
           padded == "PADDED" \in flags
           before == (IF padded THEN <<PadLength(1)>> ELSE <<>>)
                       \o (IF "PRIORITY" \in flags THEN [i \in 1 .. 5 |-> Priority] ELSE <<>>)
           after == IF padded THEN <<Padding>> ELSE <<>>
           ends == EndHeaders(n) \cup (IF end THEN {"END_STREAM"} ELSE {})
           b == SubSeq(reply.block, 1, n)
           f == Frame("HEADERS", flags \cup ends, stream_id, before \o b \o after)
<1>1. reply.block \in Seq(AllRepresentations) /\ n \in Nat /\ n <= Len(reply.block)
  BY ReplyAssumption DEF ServerTypes
<1>2. b \in Seq(AllRepresentations)
  BY <1>1, SubSeqType
<1>3. flags \in SUBSET {"PADDED", "PRIORITY"} /\ ends \in SUBSET {"END_HEADERS", "END_STREAM"}
  BY LibertiesAssumption DEF EndHeaders
<1>4. "END_HEADERS" \in ends <=> n = Len(reply.block)
  BY DEF EndHeaders
<1> HIDE DEF b, ends
<1>5. HeaderBlockFragment(f) = b
  BY <1>2, <1>3, HeadersFragment
<1>6. flags \cup EndHeaders(n) \cup (IF end THEN {"END_STREAM"} ELSE {}) = flags \cup ends
  BY DEF ends
<1>7. s2c' = Append(s2c, f)
  BY <1>6 DEF SendHeaders, Send, b
<1> HIDE DEF before, after
<1>8. f.type = "HEADERS" /\ f.flags = flags \cup ends /\ f.sid = stream_id
  BY DEF Frame
<1>9. "END_HEADERS" \in f.flags <=> n = Len(reply.block)
  BY <1>3, <1>4, <1>8
<1>10. ServerFrame(f)
  BY <1>2, <1>3, <1>5, <1>8 DEF ServerFrame, Header, Frames, FrameTypes, FrameFlags
<1> HIDE DEF f
<1> QED
  BY <1>5, <1>7, <1>8, <1>9, <1>10 DEF b

LEMMA ContinuationFrames ==
  ASSUME ServerTypes, NEW n \in 1 .. Len(reply.block)
  PROVE  LET f == Frame("CONTINUATION", EndHeaders(n), stream_id,
                        SubSeq(reply.block, block_sent + 1, n))
         IN  ServerFrame(f) /\ f.type = "CONTINUATION"
<1> DEFINE b == SubSeq(reply.block, block_sent + 1, n)
<1>1. b \in Seq(AllRepresentations)
  BY ReplyAssumption, SubSeqType DEF ServerTypes
<1> HIDE DEF b
<1>2. /\ ServerFrame(Frame("CONTINUATION", EndHeaders(n), stream_id, b))
      /\ Frame("CONTINUATION", EndHeaders(n), stream_id, b).type = "CONTINUATION"
  BY <1>1 DEF ServerFrame, Header, Frames, Frame, FrameTypes, FrameFlags, EndHeaders
<1> QED
  BY <1>2 DEF b

LEMMA DataFrames ==
  ASSUME ServerTypes, NEW n \in 0 .. MaxFrame, NEW end \in BOOLEAN, NEW padded,
         SendData(n, end, padded)
  PROVE  \E f : /\ s2c' = Append(s2c, f) /\ ServerFrame(f)
                /\ f.type = "DATA" /\ f.sid = stream_id
                /\ length(f) = n + (IF padded THEN 2 ELSE 0)
                /\ "END_STREAM" \in f.flags <=> end
                /\ "PADDED" \in f.flags <=> padded
                /\ ~ padded => f.payload = SubSeq(reply.body, body_sent + 1, body_sent + n)
<1> DEFINE data == SubSeq(reply.body, body_sent + 1, body_sent + n)
           wrapped == <<PadLength(1)>> \o data \o <<Padding>>
           flags == (IF end THEN {"END_STREAM"} ELSE {})
                      \cup (IF padded THEN {"PADDED"} ELSE {})
           f == Frame("DATA", flags, stream_id, IF padded THEN wrapped ELSE data)
<1>1. /\ reply.body \in Seq(Byte) /\ n \in Nat /\ body_sent \in Nat
      /\ body_sent + n <= Len(reply.body)
  BY ReplyAssumption DEF ServerTypes, SendData
<1>2. data \in Seq(Byte) /\ Len(data) = n
  <2>1. PICK k \in Nat : k = body_sent + n
    BY <1>1
  <2>2. SubSeq(reply.body, body_sent + 1, k) \in Seq(Byte)
    BY <1>1, <2>1, SubSeqType
  <2>3. Len(SubSeq(reply.body, body_sent + 1, k)) = k - body_sent
    BY <1>1, <2>1
  <2> QED
    BY <1>1, <2>1, <2>2, <2>3
<1>3. s2c' = Append(s2c, f)
  BY DEF SendData, Send
<1> HIDE DEF data
<1>4. Len(wrapped) = n + 2
  <2>1. IsSeq(data)
    BY <1>2 DEF IsSeq
  <2>2. IsSeq(<<PadLength(1)>> \o data) /\ Len(<<PadLength(1)>> \o data) = 1 + n
    BY <1>2, <2>1, SeqPrepend
  <2>3. Len((<<PadLength(1)>> \o data) \o <<Padding>>)
          = Len(<<PadLength(1)>> \o data) + Len(<<Padding>>)
    BY <2>2, SeqOne, SeqConcat
  <2>4. Len(<<Padding>>) = 1
    BY SeqOne
  <2> QED
    BY <1>1, <2>2, <2>3, <2>4
<1> HIDE DEF wrapped
<1>5. /\ f.type = "DATA" /\ f.sid = stream_id /\ f.flags = flags
      /\ f.payload = IF padded THEN wrapped ELSE data
  BY DEF Frame
<1>6. /\ "END_STREAM" \in flags <=> end
      /\ "PADDED" \in flags <=> padded
      /\ flags \in SUBSET FrameFlags
  BY DEF FrameFlags
<1> HIDE DEF f, flags
<1>7. length(f) = n + (IF padded THEN 2 ELSE 0) /\ Len(f.payload) \in Nat
  BY <1>1, <1>2, <1>4, <1>5 DEF length
<1>8. ServerFrame(f)
  BY <1>2, <1>5, <1>6, <1>7 DEF ServerFrame, Header, Frames, FrameTypes
<1> QED
  BY <1>3, <1>5, <1>6, <1>7, <1>8 DEF data

\* What the server makes of a frame of the client.
LEMMA ServerReceiveTypes ==
  ASSUME Types, ServerReceive
  PROVE  ServerTypes' /\ ConnectionTypes'
<1> DEFINE f == Head(c2s)
<1>1. /\ c2s # <<>> /\ c2s' = Tail(c2s)
      /\ UNCHANGED <<s2c, c_closed, reply, s_settings, block_sent, body_sent, ended, extras,
                     pushed>>
  BY DEF ServerReceive
<1>2. ClientQueue(c2s') /\ ClientFrame(f)
  BY <1>1, ClientQueueTail DEF Types, ConnectionTypes
<1>3. CASE /\ s_closed' = TRUE
           /\ UNCHANGED <<s_state, s_block, s_acks, s_acked, conn_window, stream_window>>
  BY <1>1, <1>2, <1>3 DEF Types, ConnectionTypes, ServerTypes
<1>4. CASE /\ RequestFragment(f)
           /\ s_acks' \in {s_acks, s_acks + 1}
           /\ conn_window' = conn_window + Credit(f, 0)
           /\ stream_window' = stream_window + Credit(f, stream_id)
           /\ UNCHANGED <<s_error, s_closed>>
  <2>1. /\ s_block' \in Seq(Byte)
        /\ s_state' \in {"preface", "idle", "continuation", "requested"}
    <3>1. CASE f.type \in {"HEADERS", "CONTINUATION"}
      <4>1. f.payload \in Seq(Byte) /\ s_block \in Seq(Byte)
        BY <1>2, <3>1 DEF ClientFrame, Types, ServerTypes
      <4>2. s_block' = s_block \o f.payload /\ s_state' \in {"requested", "continuation"}
        BY <1>4, <3>1 DEF RequestFragment
      <4> HIDE DEF f
      <4> QED
        BY <4>1, <4>2
    <3>2. CASE f.type \notin {"HEADERS", "CONTINUATION"}
      <4>1. s_block' = s_block /\ s_state' \in {"idle", s_state}
        BY <1>4, <3>2 DEF RequestFragment
      <4> QED
        BY <4>1 DEF Types, ServerTypes
    <3> QED
      BY <3>1, <3>2
  <2>2. Credit(f, 0) \in Nat /\ Credit(f, stream_id) \in Nat
    BY <1>2 DEF ClientFrame, Credit
  <2> HIDE DEF f
  <2>3. s_acks' \in Nat /\ conn_window' \in Nat /\ stream_window' \in Nat
    <3>1. s_acks \in Nat /\ conn_window \in Nat /\ stream_window \in Nat
      BY DEF Types, ServerTypes
    <3>2. s_acks' \in Nat
      BY <1>4, <3>1
    <3>3. conn_window' \in Nat
      BY <1>4, <2>2, <3>1
    <3>4. stream_window' \in Nat
      BY <1>4, <2>2, <3>1
    <3> QED
      BY <3>2, <3>3, <3>4
  <2>4. ServerTypes'
    BY <1>1, <2>1, <2>3 DEF Types, ServerTypes
  <2> QED
    BY <1>1, <1>2, <1>4, <2>4 DEF Types, ConnectionTypes
<1> QED
  BY <1>3, <1>4 DEF ServerReceive

LEMMA SendTypes ==
  ASSUME ConnectionTypes, NEW f, ServerFrame(f), Send(f)
  PROVE  ConnectionTypes'
BY ServerQueueAppend DEF ConnectionTypes, Send

LEMMA ServerStepTypes ==
  ASSUME Types, ServerStep
  PROVE  ServerTypes' /\ ConnectionTypes'
<1>1. CASE ServerReceive
  BY <1>1, ServerReceiveTypes
<1>2. CASE SendSettings
  BY <1>2, HandshakeFrames, SendTypes DEF SendSettings, Types, ServerTypes
<1>3. CASE SendSettingsAck
  <2>1. ConnectionTypes'
    BY <1>3, HandshakeFrames, SendTypes DEF SendSettingsAck, Types
  <2> QED
    BY <1>3, <2>1 DEF SendSettingsAck, Types, ServerTypes
<1>4. ASSUME NEW f \in Extra, SendExtra(f)  PROVE ServerTypes' /\ ConnectionTypes'
  <2>1. ConnectionTypes'
    BY <1>4, ExtraFrames, SendTypes DEF SendExtra, Types
  <2> QED
    BY <1>4, <2>1, LibertiesAssumption DEF SendExtra, Types, ServerTypes
<1>5. ASSUME NEW n \in 1 .. Len(reply.block), NEW flags \in HeaderFlags,
             NEW where \in EmptyBodyEnd, SendHeaders(n, flags, where)
      PROVE  ServerTypes' /\ ConnectionTypes'
  <2>1. ConnectionTypes'
    BY <1>5, HeadersFrames, ServerQueueAppend DEF SendHeaders, Send, Types, ConnectionTypes
  <2> QED
    BY <1>5, <2>1 DEF SendHeaders, Types, ServerTypes
<1>6. ASSUME NEW n \in 1 .. Len(reply.block), SendContinuation(n)
      PROVE  ServerTypes' /\ ConnectionTypes'
  <2> DEFINE f == Frame("CONTINUATION", EndHeaders(n), stream_id,
                        SubSeq(reply.block, block_sent + 1, n))
  <2>2. ServerFrame(f)
    BY ContinuationFrames DEF Types
  <2>3. Send(f)
    BY <1>6 DEF SendContinuation
  <2> HIDE DEF f
  <2>4. ConnectionTypes'
    BY <2>2, <2>3, SendTypes DEF Types
  <2> QED
    BY <1>6, <2>4 DEF SendContinuation, Types, ServerTypes
<1>7. ASSUME NEW n \in 0 .. MaxFrame, NEW end \in BOOLEAN, NEW padded \in DataPadding,
             SendData(n, end, padded)
      PROVE  ServerTypes' /\ ConnectionTypes'
  <2>1. ConnectionTypes'
    <3>1. PICK f : s2c' = Append(s2c, f) /\ ServerFrame(f)
      BY <1>7, DataFrames DEF Types
    <3>2. ServerQueue(s2c')
      BY <3>1, ServerQueueAppend DEF Types, ConnectionTypes
    <3> QED
      BY <1>7, <3>2 DEF SendData, Send, Types, ConnectionTypes
  <2> DEFINE total == n + (IF padded THEN 2 ELSE 0)
  <2>2. /\ total \in Nat /\ total <= conn_window /\ total <= stream_window
        /\ conn_window' = conn_window - total /\ stream_window' = stream_window - total
        /\ body_sent' = body_sent + n /\ body_sent + n <= Len(reply.body)
        /\ extras' \in 0 .. MaxExtra
        /\ UNCHANGED <<reply, s_state, s_block, s_acks, block_sent, pushed>>
    <3>1. total \in Nat
      BY WindowAssumption
    <3>2. /\ total <= conn_window /\ total <= stream_window
          /\ conn_window' = conn_window - total /\ stream_window' = stream_window - total
          /\ body_sent' = body_sent + n /\ body_sent + n <= Len(reply.body)
          /\ extras' = extras \/ (extras < MaxExtra /\ extras' = extras + 1)
          /\ UNCHANGED <<reply, s_state, s_block, s_acks, block_sent, pushed>>
      BY <1>7 DEF SendData
    <3>3. extras \in 0 .. MaxExtra /\ MaxExtra \in Nat
      BY LibertiesAssumption DEF Types, ServerTypes
    <3>4. extras' \in 0 .. MaxExtra
      BY <3>2, <3>3
    <3> QED
      BY <3>1, <3>2, <3>4
  <2> HIDE DEF total
  <2>3. body_sent' \in 0 .. Len(reply'.body)
    BY <2>2, ReplyAssumption, WindowAssumption DEF Types, ServerTypes
  <2>4. conn_window' \in Nat /\ stream_window' \in Nat
    BY <2>2 DEF Types, ServerTypes
  <2> QED
    BY <2>1, <2>2, <2>3, <2>4 DEF Types, ServerTypes
<1>8. CASE SendPush
  <2> DEFINE f == PushFrames[pushed + 1]
             n == IF f.type = "DATA" THEN length(f) ELSE 0
  <2>1. pushed + 1 \in 1 .. 3 /\ pushed < 3
    BY <1>8, PushedFrames DEF SendPush, Types, ServerTypes
  <2>2. ServerFrame(f) /\ n \in Nat
    <3>1. pushed + 1 = 1 \/ pushed + 1 = 2 \/ pushed + 1 = 3
      BY <2>1
    <3> QED
      BY <2>1, <3>1, PushedFrames
  <2>3. /\ Send(f) /\ n <= conn_window /\ pushed' = pushed + 1
        /\ conn_window' = conn_window - n
        /\ UNCHANGED <<reply, s_state, s_block, s_acks, block_sent, body_sent, extras,
                       stream_window>>
    BY <1>8 DEF SendPush
  <2> HIDE DEF f, n
  <2>4. ConnectionTypes'
    BY <2>2, <2>3, SendTypes DEF Types
  <2> QED
    BY <2>1, <2>2, <2>3, <2>4, PushedFrames DEF Types, ServerTypes
<1>9. CASE ServerClose
  BY <1>9 DEF ServerClose, server, Types, ServerTypes, ConnectionTypes
<1> QED
  BY <1>1, <1>2, <1>3, <1>4, <1>5, <1>6, <1>7, <1>8, <1>9 DEF ServerStep

LEMMA TypesInitially == Init => Types
<1> SUFFICES ASSUME Init  PROVE Types
  OBVIOUS
<1>1. ClientTypes
  <2>1. ClientQueue(out)
    BY ClientQueueEmpty DEF Init, ClientInit
  <2>2. /\ header_block \in Seq(AllRepresentations) /\ header_list \in Seq(Headers)
        /\ response_body \in Seq(Byte)
    BY DEF Init, ClientInit
  <2>3. /\ pc = "connect" /\ verbose \in BOOLEAN /\ request \in Requests
        /\ rcv_settings = FALSE /\ rcv_settings_ack = FALSE
    BY VerboseAssumption DEF Init, ClientInit
  <2> QED
    BY <2>1, <2>2, <2>3 DEF ClientTypes
<1>2. ConnectionTypes
  <2>1. c2s = <<>> /\ s2c = <<>> /\ c_closed = FALSE /\ s_closed = FALSE
    BY DEF Init, ConnectionInit
  <2>2. ServerQueue(<<>>)
    BY SeqEmpty DEF ServerQueue
  <2>3. ClientQueue(c2s) /\ ServerQueue(s2c)
    BY <2>1, <2>2, ClientQueueEmpty
  <2> QED
    BY <2>1, <2>3 DEF ConnectionTypes
<1>3. ServerTypes
  <2>1. reply \in Replies /\ Len(reply.block) \in Nat /\ Len(reply.body) \in Nat
    BY ReplyAssumption DEF Init, ServerInit
  <2> QED
    BY <2>1, WindowAssumption, LibertiesAssumption, PushedFrames
    DEF Init, ServerInit, ServerTypes
<1> QED
  BY <1>1, <1>2, <1>3 DEF Types

LEMMA TypesInductive == Types /\ [Next]_vars => Types'
<1> SUFFICES ASSUME Types, [Next]_vars  PROVE Types'
  OBVIOUS
<1>1. CASE ClientStep /\ UNCHANGED server
  <2>1. ServerTypes'
    BY <1>1 DEF server, Types, ServerTypes
  <2> QED
    BY <1>1, <2>1, ClientStepTypes DEF Types
<1>2. CASE ServerStep /\ UNCHANGED client
  <2>1. ClientTypes'
    BY <1>2 DEF client, Types, ClientTypes
  <2> QED
    BY <1>2, <2>1, ServerStepTypes DEF Types
<1>3. CASE UNCHANGED vars
  BY <1>3 DEF vars, client, connection, server, Types, ClientTypes, ConnectionTypes,
              ServerTypes
<1> QED
  BY <1>1, <1>2, <1>3 DEF Next, Terminated

-----------------------------------------------------------------------------
\* Stages of a session.

Without(q, types) == \A i \in 1 .. Len(q) : q[i].type \notin types

RequestTypes == {"HEADERS", "CONTINUATION"}

\* Before the client asks, nothing is asked and nothing is answered.
Stage ==
  /\ pc = "connect" => out = <<>> /\ c2s = <<>>
  /\ pc \in {"connect", "settings"} =>
       /\ s_state \in {"preface", "idle"}
       /\ Without(out, RequestTypes) /\ Without(c2s, RequestTypes)
  /\ block_sent > 0 \/ pushed > 0 => s_state = "requested"
  /\ block_sent = 0 /\ pushed = 0 => Without(s2c, {"DATA"})

LEMMA WithoutEmpty == \A types : Without(<<>>, types)
BY SeqEmpty DEF Without

LEMMA WithoutAppend ==
  ASSUME NEW q, IsSeq(q), NEW types, Without(q, types), NEW f, f.type \notin types
  PROVE  Without(Append(q, f), types)
BY SeqAppend DEF Without

LEMMA WithoutTail ==
  ASSUME NEW q, IsSeq(q), q # <<>>, NEW types, Without(q, types)
  PROVE  Without(Tail(q), types) /\ Head(q).type \notin types
BY SeqTail DEF Without

\* The states a read, a write or a failure leads to.
LEMMA ClientMoves ==
  ASSUME Types, Stage, ClientStep
  PROVE  /\ pc' # "connect"
         /\ \/ s2c' = s2c
            \/ s2c # <<>> /\ s2c' = Tail(s2c)
         /\ \/ pc = "connect" /\ pc' = "settings" /\ out' = <<Preface, send_http2_settings>>
               /\ c2s' = c2s
            \/ out # <<>> /\ pc' = pc /\ out' = Tail(out)
               /\ c2s' \in {c2s, Append(c2s, Head(out))}
            \/ pc = "settings" /\ pc' = "settings" /\ c2s' = c2s
               /\ out' \in {<<>>, <<send_http2_settings_ack>>}
            \/ pc' \notin {"connect", "settings"} /\ c2s' = c2s
<1> DEFINE Failed == pc' \notin {"connect", "settings"} /\ c2s' = c2s
           Same == s2c' = s2c \/ (s2c # <<>> /\ s2c' = Tail(s2c))
<1>1. CASE Connect
  BY <1>1 DEF Connect, Throw
<1>2. CASE WriteFrame
  BY <1>2 DEF WriteFrame, Stage
<1>3. CASE WriteLost
  BY <1>3 DEF WriteLost, connection, Stage
<1>4. CASE WriteFails
  BY <1>4 DEF WriteFails, Throw
<1>5. CASE ReadSettings
  BY <1>5 DEF ReadSettings, Receive, HandleSettings, Throw
<1>6. CASE ReadHeaders
  BY <1>6 DEF ReadHeaders, Receive, HandleHeaders, AddFragment, Throw
<1>7. CASE ReadContinuation
  BY <1>7 DEF ReadContinuation, Receive, HandleContinuation, AddFragment, Throw
<1>8. CASE ReadData
  BY <1>8 DEF ReadData, Receive, HandleData, Throw
<1>9. CASE ReadFails
  BY <1>9 DEF ReadFails, Throw
<1>10. CASE Finish
  BY <1>10 DEF Finish, Throw
<1> QED
  BY <1>1, <1>2, <1>3, <1>4, <1>5, <1>6, <1>7, <1>8, <1>9, <1>10 DEF ClientStep

\* What a step of the server does to the queues, and to what it sent.
LEMMA ServerMoves ==
  ASSUME Types, Stage, ServerStep
  PROVE  \/ /\ c2s # <<>> /\ c2s' = Tail(c2s) /\ s2c' = s2c /\ UNCHANGED <<block_sent, pushed>>
            /\ \/ s_state' = s_state
               \/ s_state = "preface" /\ s_state' = "idle"
               \/ s_state # "requested" /\ Head(c2s).type \in RequestTypes
         \/ /\ UNCHANGED <<c2s, s_state>>
            /\ block_sent' >= block_sent /\ pushed' >= pushed
            /\ block_sent' > 0 \/ pushed' > 0 => s_state = "requested"
            /\ \/ s2c' = s2c
               \/ \E f : /\ s2c' = Append(s2c, f)
                         /\ f.type = "DATA" => block_sent' > 0 \/ pushed' > 0
<1> DEFINE Sending == /\ UNCHANGED <<c2s, s_state>>
                      /\ block_sent' >= block_sent /\ pushed' >= pushed
                      /\ block_sent' > 0 \/ pushed' > 0 => s_state = "requested"
           Sent(f) == /\ s2c' = Append(s2c, f)
                      /\ f.type = "DATA" => block_sent' > 0 \/ pushed' > 0
<1>0. block_sent \in Nat /\ pushed \in Nat /\ Len(reply.block) \in Nat \ {0}
  BY ReplyAssumption, PushedFrames DEF Types, ServerTypes
<1>1. CASE ServerReceive
  BY <1>1 DEF ServerReceive, Legal, RequestFragment, RequestTypes, Types, ServerTypes
<1>2. ASSUME SendSettings  PROVE Sending /\ \E f : Sent(f)
  <2>1. Sending
    BY <1>0, <1>2 DEF SendSettings, Send, Stage
  <2>2. Sent(Frame("SETTINGS", {}, 0, <<>>))
    BY <1>2 DEF SendSettings, Send, Frame
  <2> QED
    BY <2>1, <2>2
<1>3. ASSUME SendSettingsAck  PROVE Sending /\ \E f : Sent(f)
  <2>1. Sending
    BY <1>0, <1>3 DEF SendSettingsAck, Send, Stage
  <2>2. Sent(Frame("SETTINGS", {"ACK"}, 0, <<>>))
    BY <1>3 DEF SendSettingsAck, Send, Frame
  <2> QED
    BY <2>1, <2>2
<1>4. ASSUME NEW f \in Extra, SendExtra(f)  PROVE Sending /\ Sent(f)
  BY <1>0, <1>4, ExtraAssumption DEF SendExtra, Send, Stage
<1>5. ASSUME NEW n \in 1 .. Len(reply.block), NEW flags \in HeaderFlags,
             NEW where \in EmptyBodyEnd, SendHeaders(n, flags, where)
      PROVE  Sending /\ \E f : Sent(f)
  <2>1. PICK g, payload : Send(Frame("HEADERS", g, stream_id, payload))
    BY <1>5 DEF SendHeaders
  <2>2. Frame("HEADERS", g, stream_id, payload).type = "HEADERS"
    BY DEF Frame
  <2>3. /\ s_state = "requested" /\ block_sent = 0 /\ block_sent' = n
        /\ UNCHANGED <<s_state, pushed>>
    BY <1>5 DEF SendHeaders
  <2>4. Sending
    BY <1>0, <2>1, <2>3 DEF Send
  <2> QED
    BY <2>1, <2>2, <2>4 DEF Send
<1>6. ASSUME NEW n \in 1 .. Len(reply.block), SendContinuation(n)
      PROVE  Sending /\ \E f : Sent(f)
  <2>1. PICK g, payload : Send(Frame("CONTINUATION", g, stream_id, payload))
    BY <1>6 DEF SendContinuation
  <2>2. Frame("CONTINUATION", g, stream_id, payload).type = "CONTINUATION"
    BY DEF Frame
  <2>3. /\ block_sent \in 1 .. Len(reply.block) - 1 /\ n > block_sent /\ block_sent' = n
        /\ UNCHANGED <<s_state, pushed>>
    BY <1>6 DEF SendContinuation, InHeaderBlock
  <2>4. Sending
    BY <1>0, <2>1, <2>3 DEF Send, Stage
  <2> QED
    BY <2>1, <2>2, <2>4 DEF Send
<1>7. ASSUME NEW n \in 0 .. MaxFrame, NEW end \in BOOLEAN, NEW padded \in DataPadding,
             SendData(n, end, padded)
      PROVE  Sending /\ \E f : Sent(f)
  <2>1. PICK f : Send(f)
    BY <1>7 DEF SendData
  <2>2. block_sent = Len(reply.block) /\ UNCHANGED <<s_state, pushed, block_sent>>
    BY <1>7 DEF SendData
  <2>3. Sending /\ block_sent' > 0
    BY <1>0, <2>1, <2>2 DEF Send, Stage
  <2> QED
    BY <2>1, <2>3 DEF Send
<1>8. ASSUME SendPush  PROVE Sending /\ \E f : Sent(f)
  <2>1. PICK f : Send(f)
    BY <1>8 DEF SendPush
  <2>2. s_state = "requested" /\ pushed' = pushed + 1 /\ UNCHANGED <<s_state, block_sent>>
    BY <1>8 DEF SendPush
  <2>3. Sending /\ pushed' > 0
    BY <1>0, <2>1, <2>2 DEF Send
  <2> QED
    BY <2>1, <2>3 DEF Send
<1>9. ASSUME ServerClose  PROVE Sending /\ s2c' = s2c
  BY <1>0, <1>9 DEF ServerClose, server, Stage
<1> DEFINE Sends == Sending /\ (s2c' = s2c \/ \E f : Sent(f))
<1>10. CASE Sends
  BY <1>10
<1>11. /\ SendSettings \/ SendSettingsAck \/ SendPush \/ ServerClose => Sends
       /\ \A f \in Extra : SendExtra(f) => Sends
       /\ \A n \in 1 .. Len(reply.block) : SendContinuation(n) => Sends
  BY <1>2, <1>3, <1>4, <1>6, <1>8, <1>9
<1>12. /\ \A n \in 1 .. Len(reply.block), flags \in HeaderFlags, where \in EmptyBodyEnd :
            SendHeaders(n, flags, where) => Sends
       /\ \A n \in 0 .. MaxFrame, end \in BOOLEAN, padded \in DataPadding :
            SendData(n, end, padded) => Sends
  BY <1>5, <1>7
<1> HIDE DEF Sends
<1>13. ServerReceive \/ Sends
  BY <1>11, <1>12 DEF ServerStep
<1> QED
  BY <1>1, <1>10, <1>13

LEMMA StageInductive == Types /\ Stage /\ [Next]_vars => Stage'
<1> SUFFICES ASSUME Types, Stage, [Next]_vars  PROVE Stage'
  OBVIOUS
<1>0. /\ IsSeq(out) /\ IsSeq(c2s) /\ IsSeq(s2c)
      /\ block_sent \in Nat /\ pushed \in Nat
  <2>1. Len(reply.block) \in Nat
    BY ReplyAssumption DEF Types, ServerTypes
  <2> QED
    BY <2>1, PushedFrames
    DEF Types, ClientTypes, ConnectionTypes, ServerTypes, ClientQueue, ServerQueue
<1>1. CASE ClientStep /\ UNCHANGED server
  <2>1. UNCHANGED <<s_state, block_sent, pushed>>
    BY <1>1 DEF server
  <2>2. block_sent = 0 /\ pushed = 0 => Without(s2c', {"DATA"})
    <3>1. s2c # <<>> /\ Without(s2c, {"DATA"}) => Without(Tail(s2c), {"DATA"})
      BY <1>0, WithoutTail
    <3>2. s2c' = s2c \/ (s2c # <<>> /\ s2c' = Tail(s2c))
      BY <1>1, ClientMoves
    <3> QED
      BY <3>1, <3>2 DEF Stage
  <2>3. ASSUME pc' = "settings"
        PROVE  /\ s_state \in {"preface", "idle"}
               /\ Without(out', RequestTypes) /\ Without(c2s', RequestTypes)
    <3>1. CASE pc = "connect" /\ out' = <<Preface, send_http2_settings>> /\ c2s' = c2s
      <4>1. /\ Preface.type \notin RequestTypes
            /\ send_http2_settings.type \notin RequestTypes
        BY DEF Preface, send_http2_settings, Frame, RequestTypes
      <4>2. Without(<<Preface, send_http2_settings>>, RequestTypes)
        BY <4>1, SeqTwo DEF Without
      <4> QED
        BY <3>1, <4>2 DEF Stage
    <3>2. CASE /\ out # <<>> /\ pc' = pc /\ out' = Tail(out)
               /\ c2s' \in {c2s, Append(c2s, Head(out))}
      <4>1. /\ s_state \in {"preface", "idle"}
            /\ Without(out, RequestTypes) /\ Without(c2s, RequestTypes)
        BY <2>3, <3>2 DEF Stage
      <4>2. Without(Tail(out), RequestTypes) /\ Head(out).type \notin RequestTypes
        BY <1>0, <3>2, <4>1, WithoutTail
      <4>3. Without(Append(c2s, Head(out)), RequestTypes)
        BY <1>0, <4>1, <4>2, WithoutAppend
      <4> QED
        BY <3>2, <4>1, <4>2, <4>3
    <3>3. CASE /\ pc = "settings" /\ c2s' = c2s
               /\ out' \in {<<>>, <<send_http2_settings_ack>>}
      <4>1. send_http2_settings_ack.type \notin RequestTypes
        BY DEF send_http2_settings_ack, Frame, RequestTypes
      <4>2. Without(<<send_http2_settings_ack>>, RequestTypes)
        BY <4>1, SeqOne DEF Without
      <4> QED
        BY <3>3, <4>2, WithoutEmpty DEF Stage
    <3> QED
      BY <1>1, <2>3, <3>1, <3>2, <3>3, ClientMoves
  <2>4. pc' # "connect"
    BY <1>1, ClientMoves
  <2> QED
    BY <2>1, <2>2, <2>3, <2>4 DEF Stage
<1>2. CASE ServerStep /\ UNCHANGED client
  <2>1. UNCHANGED <<pc, out>>
    BY <1>2 DEF client
  <2>2. CASE c2s # <<>> /\ c2s' = Tail(c2s) /\ s2c' = s2c /\ UNCHANGED <<block_sent, pushed>>
             /\ \/ s_state' = s_state
                \/ s_state = "preface" /\ s_state' = "idle"
                \/ s_state # "requested" /\ Head(c2s).type \in RequestTypes
    BY <1>0, <2>1, <2>2, WithoutTail DEF Stage
  <2>3. CASE /\ UNCHANGED <<c2s, s_state>>
             /\ block_sent' >= block_sent /\ pushed' >= pushed
             /\ block_sent' > 0 \/ pushed' > 0 => s_state = "requested"
             /\ \/ s2c' = s2c
                \/ \E f : /\ s2c' = Append(s2c, f)
                          /\ f.type = "DATA" => block_sent' > 0 \/ pushed' > 0
    <3>1. ASSUME block_sent' = 0, pushed' = 0  PROVE Without(s2c', {"DATA"})
      <4>1. block_sent = 0 /\ pushed = 0
        BY <1>0, <2>3, <3>1
      <4> QED
        <5>1. Without(s2c, {"DATA"})
          BY <4>1 DEF Stage
        <5>2. CASE s2c' = s2c
          BY <5>1, <5>2
        <5>3. ASSUME NEW f, s2c' = Append(s2c, f), f.type # "DATA"
              PROVE  Without(s2c', {"DATA"})
          <6>1. f.type \notin {"DATA"}
            BY <5>3
          <6>2. Without(Append(s2c, f), {"DATA"})
            BY <1>0, <5>1, <6>1, WithoutAppend
          <6> QED
            BY <5>3, <6>2
        <5> QED
          BY <1>0, <2>3, <3>1, <5>2, <5>3
    <3> QED
      BY <2>1, <2>3, <3>1 DEF Stage
  <2> QED
    BY <1>2, <2>2, <2>3, ServerMoves
<1>3. CASE UNCHANGED vars
  BY <1>3 DEF vars, client, connection, server, Stage, Without
<1> QED
  BY <1>1, <1>2, <1>3 DEF Next, Terminated

LEMMA StageInitially == Init => Stage
<1> SUFFICES ASSUME Init  PROVE Stage
  OBVIOUS
<1>1. /\ out = <<>> /\ c2s = <<>> /\ s2c = <<>> /\ s_state = "preface"
      /\ block_sent = 0 /\ pushed = 0
  BY DEF Init, ClientInit, ConnectionInit, ServerInit
<1> QED
  BY <1>1, WithoutEmpty DEF Stage

-----------------------------------------------------------------------------
\* Flow control.

Streams == {0, stream_id}

Updates == {"WINDOW_UPDATE"}

LEMMA DataOctetsType ==
  ASSUME NEW f, ServerFrame(f), NEW sid
  PROVE  /\ DataOctets(f, sid) \in Nat
         /\ f.type # "DATA" => DataOctets(f, sid) = 0
BY DEF ServerFrame, DataOctets, length

LEMMA CreditType ==
  ASSUME NEW f, ClientFrame(f), NEW sid
  PROVE  /\ Credit(f, sid) \in Nat
         /\ f.type \notin Updates => Credit(f, sid) = 0
BY DEF ClientFrame, Credit, Updates

\* A frame more or less in flight from the server ...
LEMMA InFlightType ==
  ASSUME NEW q, ServerQueue(q), NEW sid
  PROVE  InFlight(q, sid) \in Nat
<1> DEFINE s == [i \in 1 .. Len(q) |-> DataOctets(q[i], sid)]
<1>1. Len(q) \in Nat /\ \A i \in 1 .. Len(q) : DataOctets(q[i], sid) \in Nat
  BY SeqConcat, SeqEmpty, DataOctetsType DEF ServerQueue
<1>2. s \in Seq(Nat)
  BY <1>1
<1> HIDE DEF s
<1>3. SumSeq(s) \in Nat
  BY <1>2, SumSeqType
<1> QED
  BY <1>3 DEF InFlight, s

LEMMA InFlightAppend ==
  ASSUME NEW q, ServerQueue(q), NEW f, ServerFrame(f), NEW sid
  PROVE  InFlight(Append(q, f), sid) = InFlight(q, sid) + DataOctets(f, sid)
<1> PICK r : r = Append(q, f)
  OBVIOUS
<1> DEFINE s == [i \in 1 .. Len(q) |-> DataOctets(q[i], sid)]
           t == [i \in 1 .. Len(r) |-> DataOctets(r[i], sid)]
<1>1. /\ Len(q) \in Nat /\ Len(r) = Len(q) + 1 /\ r[Len(q) + 1] = f
      /\ \A i \in 1 .. Len(q) : r[i] = q[i]
  BY SeqAppend DEF ServerQueue
<1>2. /\ \A i \in 1 .. Len(q) : DataOctets(q[i], sid) \in Nat
      /\ \A i \in 1 .. Len(r) : DataOctets(r[i], sid) \in Nat
  <2>1. ServerQueue(r)
    BY ServerQueueAppend
  <2> QED
    BY <2>1, DataOctetsType DEF ServerQueue
<1>3. s \in Seq(Nat) /\ t \in Seq(Nat) /\ Len(s) = Len(q) /\ Len(t) = Len(q) + 1
  BY <1>1, <1>2
<1>4. t[Len(q) + 1] = DataOctets(f, sid) /\ \A i \in 1 .. Len(q) : t[i] = s[i]
  BY <1>1
<1> HIDE DEF s, t
<1>5. SumSeq(t) = SumSeq(s) + t[Len(s) + 1]
  BY <1>3, <1>4, SumSeqExtended
<1> QED
  BY <1>3, <1>4, <1>5 DEF InFlight, s, t

LEMMA InFlightTail ==
  ASSUME NEW q, ServerQueue(q), q # <<>>, NEW sid
  PROVE  InFlight(q, sid) = DataOctets(Head(q), sid) + InFlight(Tail(q), sid)
<1> PICK r : r = Tail(q)
  OBVIOUS
<1> DEFINE s == [i \in 1 .. Len(q) |-> DataOctets(q[i], sid)]
           t == [i \in 1 .. Len(r) |-> DataOctets(r[i], sid)]
<1>1. /\ Len(q) \in Nat \ {0} /\ Len(r) = Len(q) - 1 /\ Head(q) = q[1]
      /\ \A i \in 1 .. Len(q) - 1 : r[i] = q[i + 1]
  BY SeqTail DEF ServerQueue
<1>2. /\ \A i \in 1 .. Len(q) : DataOctets(q[i], sid) \in Nat
      /\ \A i \in 1 .. Len(r) : DataOctets(r[i], sid) \in Nat
  <2>1. ServerQueue(r)
    BY ServerQueueTail
  <2> QED
    BY <2>1, DataOctetsType DEF ServerQueue
<1>3. s \in Seq(Nat) /\ t \in Seq(Nat) /\ Len(s) = Len(q) /\ Len(t) = Len(q) - 1
  BY <1>1, <1>2
<1>4. s[1] = DataOctets(Head(q), sid) /\ \A i \in 1 .. Len(q) - 1 : t[i] = s[i + 1]
  BY <1>1
<1> HIDE DEF s, t
<1>5. Len(s) = Len(t) + 1 /\ \A i \in 1 .. Len(t) : t[i] = s[i + 1]
  BY <1>1, <1>3, <1>4
<1>6. SumSeq(s) = s[1] + SumSeq(t)
  BY <1>3, <1>5, SumSeqShortened
<1> QED
  BY <1>4, <1>6 DEF InFlight, s, t

\* ... and from the client.
LEMMA CreditsType ==
  ASSUME NEW q, ClientQueue(q), NEW sid
  PROVE  /\ Credits(q, sid) \in Nat
         /\ Without(q, Updates) => Credits(q, sid) = 0
<1> DEFINE s == [i \in 1 .. Len(q) |-> Credit(q[i], sid)]
<1>1. Len(q) \in Nat /\ \A i \in 1 .. Len(q) : Credit(q[i], sid) \in Nat
  BY SeqConcat, SeqEmpty, CreditType DEF ClientQueue
<1>2. s \in Seq(Nat)
  BY <1>1
<1>3. Without(q, Updates) => \A i \in 1 .. Len(q) : Credit(q[i], sid) = 0
  BY CreditType DEF ClientQueue, Without
<1>4. Without(q, Updates) => \A i \in 1 .. Len(s) : s[i] = 0
  BY <1>1, <1>3
<1> HIDE DEF s
<1>5. SumSeq(s) \in Nat /\ (Without(q, Updates) => SumSeq(s) = 0)
  BY <1>2, <1>4, SumSeqType, SumSeqZero
<1> QED
  BY <1>5 DEF Credits, s

LEMMA CreditsAppend ==
  ASSUME NEW q, ClientQueue(q), NEW f, ClientFrame(f), NEW sid
  PROVE  Credits(Append(q, f), sid) = Credits(q, sid) + Credit(f, sid)
<1> PICK r : r = Append(q, f)
  OBVIOUS
<1> DEFINE s == [i \in 1 .. Len(q) |-> Credit(q[i], sid)]
           t == [i \in 1 .. Len(r) |-> Credit(r[i], sid)]
<1>1. /\ Len(q) \in Nat /\ Len(r) = Len(q) + 1 /\ r[Len(q) + 1] = f
      /\ \A i \in 1 .. Len(q) : r[i] = q[i]
  BY SeqAppend DEF ClientQueue
<1>2. /\ \A i \in 1 .. Len(q) : Credit(q[i], sid) \in Nat
      /\ \A i \in 1 .. Len(r) : Credit(r[i], sid) \in Nat
  <2>1. ClientQueue(r)
    BY ClientQueueAppend
  <2> QED
    BY <2>1, CreditType DEF ClientQueue
<1>3. s \in Seq(Nat) /\ t \in Seq(Nat) /\ Len(s) = Len(q) /\ Len(t) = Len(q) + 1
  BY <1>1, <1>2
<1>4. t[Len(q) + 1] = Credit(f, sid) /\ \A i \in 1 .. Len(q) : t[i] = s[i]
  BY <1>1
<1> HIDE DEF s, t
<1>5. SumSeq(t) = SumSeq(s) + t[Len(s) + 1]
  BY <1>3, <1>4, SumSeqExtended
<1> QED
  BY <1>3, <1>4, <1>5 DEF Credits, s, t

LEMMA CreditsTail ==
  ASSUME NEW q, ClientQueue(q), q # <<>>, NEW sid
  PROVE  Credits(q, sid) = Credit(Head(q), sid) + Credits(Tail(q), sid)
<1> PICK r : r = Tail(q)
  OBVIOUS
<1> DEFINE s == [i \in 1 .. Len(q) |-> Credit(q[i], sid)]
           t == [i \in 1 .. Len(r) |-> Credit(r[i], sid)]
<1>1. /\ Len(q) \in Nat \ {0} /\ Len(r) = Len(q) - 1 /\ Head(q) = q[1]
      /\ \A i \in 1 .. Len(q) - 1 : r[i] = q[i + 1]
  BY SeqTail DEF ClientQueue
<1>2. /\ \A i \in 1 .. Len(q) : Credit(q[i], sid) \in Nat
      /\ \A i \in 1 .. Len(r) : Credit(r[i], sid) \in Nat
  <2>1. ClientQueue(r)
    BY ClientQueueTail
  <2> QED
    BY <2>1, CreditType DEF ClientQueue
<1>3. s \in Seq(Nat) /\ t \in Seq(Nat) /\ Len(s) = Len(q) /\ Len(t) = Len(q) - 1
  BY <1>1, <1>2
<1>4. s[1] = Credit(Head(q), sid) /\ \A i \in 1 .. Len(q) - 1 : t[i] = s[i + 1]
  BY <1>1
<1> HIDE DEF s, t
<1>5. Len(s) = Len(t) + 1 /\ \A i \in 1 .. Len(t) : t[i] = s[i + 1]
  BY <1>1, <1>3, <1>4
<1>6. SumSeq(s) = s[1] + SumSeq(t)
  BY <1>3, <1>5, SumSeqShortened
<1> QED
  BY <1>4, <1>6 DEF Credits, s, t

\* Two WINDOW_UPDATE frames give n octets back to each window.
LEMMA WindowUpdatesCredit ==
  ASSUME NEW n \in Nat, NEW sid \in Streams
  PROVE  ClientQueue(WindowUpdates(n)) /\ Credits(WindowUpdates(n), sid) = n
<1>1. PICK d, e : d = send_http2_window_update(stream_id, n) /\ e = send_http2_window_update(0, n)
  OBVIOUS
<1>2. /\ ClientFrame(d) /\ ClientFrame(e)
      /\ d.payload[1] = n /\ e.payload[1] = n
  BY <1>1, ControlFrames
<1>3. Credit(d, sid) + Credit(e, sid) = n
  <2>1. /\ d.type = "WINDOW_UPDATE" /\ d.sid = stream_id
        /\ e.type = "WINDOW_UPDATE" /\ e.sid = 0
    BY <1>1 DEF send_http2_window_update, Frame
  <2> QED
    BY <1>2, <2>1 DEF Credit, Streams, stream_id
<1>4. /\ ClientQueue(<<d, e>>) /\ <<d, e>> # <<>>
      /\ Head(<<d, e>>) = d /\ Tail(<<d, e>>) = <<e>>
  <2>1. IsSeq(<<d, e>>) /\ Len(<<d, e>>) = 2 /\ <<d, e>>[1] = d /\ <<d, e>>[2] = e
    BY SeqTwo
  <2> QED
    BY <1>2, <2>1 DEF ClientQueue
<1>5. /\ ClientQueue(<<e>>) /\ <<e>> # <<>> /\ Head(<<e>>) = e /\ Tail(<<e>>) = <<>>
  <2>1. IsSeq(<<e>>) /\ Len(<<e>>) = 1 /\ <<e>>[1] = e
    BY SeqOne
  <2> QED
    BY <1>2, <2>1 DEF ClientQueue
<1>6. Credits(<<>>, sid) = 0
  BY ClientQueueEmpty, WithoutEmpty, CreditsType
<1>7. /\ Credits(<<d, e>>, sid) = Credit(d, sid) + Credits(<<e>>, sid)
      /\ Credits(<<e>>, sid) = Credit(e, sid) + Credits(<<>>, sid)
  <2>1. Credits(<<d, e>>, sid) = Credit(Head(<<d, e>>), sid) + Credits(Tail(<<d, e>>), sid)
    BY <1>4, CreditsTail
  <2>2. Credits(<<e>>, sid) = Credit(Head(<<e>>), sid) + Credits(Tail(<<e>>), sid)
    BY <1>5, CreditsTail
  <2> QED
    BY <1>4, <1>5, <2>1, <2>2, Zenon
<1>8. WindowUpdates(n) = <<d, e>>
  BY <1>1 DEF WindowUpdates
<1>9. Credit(d, sid) \in Nat /\ Credit(e, sid) \in Nat
  BY <1>2, CreditType
<1> QED
  BY <1>3, <1>4, <1>6, <1>7, <1>8, <1>9

\* The frames of a request, after an answer or not, give nothing back.
LEMMA RequestUpdates ==
  ASSUME NEW block \in Seq(Byte), NEW answer, ClientQueue(answer), Without(answer, Updates)
  PROVE  Without(answer \o send_http2_headers(block, MaxPayload), Updates)
<1>1. PICK frames : frames = send_http2_headers(block, MaxPayload)
  OBVIOUS
<1>2. /\ IsSeq(frames) /\ IsSeq(answer)
      /\ \A i \in 1 .. Len(frames) : frames[i].type = IF i = 1 THEN "HEADERS" ELSE "CONTINUATION"
  BY <1>1, RequestFrames DEF ClientQueue
<1>3. PICK m \in Nat, n \in Nat : m = Len(answer) /\ n = Len(frames)
  BY <1>2, SeqConcat
<1>4. /\ Len(answer \o frames) = m + n
      /\ \A i \in 1 .. m : (answer \o frames)[i] = answer[i]
      /\ \A i \in 1 .. n : (answer \o frames)[m + i] = frames[i]
  BY <1>2, <1>3, SeqConcat
<1>5. ASSUME NEW i \in 1 .. m + n  PROVE (answer \o frames)[i].type \notin Updates
  <2>1. CASE i \in 1 .. m
    BY <1>3, <1>4, <2>1 DEF Without
  <2>2. CASE i \notin 1 .. m
    <3>1. i - m \in 1 .. n /\ m + (i - m) = i
      BY <2>2
    <3>2. (answer \o frames)[i] = frames[i - m]
      BY <1>4, <3>1
    <3>3. frames[i - m].type \in {"HEADERS", "CONTINUATION"}
      BY <1>2, <1>3, <3>1
    <3> QED
      BY <3>2, <3>3 DEF Updates
  <2> QED
    BY <2>1, <2>2
<1> QED
  BY <1>1, <1>4, <1>5 DEF Without

\* The program still gives back what it reads.
GivesBack == pc \in {"connect"} \cup Reading

LEMMA ClientKeeps == ASSUME ClientStep  PROVE s_closed' = s_closed
BY DEF ClientStep, Connect, WriteFrame, WriteLost, connection, WriteFails, ReadSettings,
       ReadHeaders, ReadContinuation, ReadData, Receive, ReadFails, Finish

\* What a step of the client does to the frames that count.
LEMMA ClientFlow ==
  ASSUME Types, Stage, ClientStep
  PROVE  /\ GivesBack' => GivesBack
         /\ \/ /\ UNCHANGED <<c2s, s2c>> /\ Without(out', Updates)
               /\ out = <<>> \/ s_closed
            \/ out # <<>> /\ c2s' = Append(c2s, Head(out)) /\ out' = Tail(out) /\ s2c' = s2c
            \/ out # <<>> /\ c2s' = c2s /\ out' = Tail(out) /\ s2c' = s2c /\ s_closed
            \/ /\ out = <<>> /\ c2s' = c2s /\ s2c # <<>> /\ s2c' = Tail(s2c)
               /\ \/ Without(out', Updates) /\ (Head(s2c).type # "DATA" \/ ~ GivesBack')
                  \/ /\ Head(s2c).type = "DATA" /\ "END_STREAM" \notin Head(s2c).flags
                     /\ out' = WindowUpdates(length(Head(s2c)))
<1> USE DEF GivesBack, Reading
<1>0. Without(<<>>, Updates)
  BY WithoutEmpty
<1>1. CASE Connect
  <2>1. CASE Throw
    BY <1>0, <1>1, <2>1 DEF Connect, Throw, Stage
  <2>2. CASE pc' = "settings" /\ out' = <<Preface, send_http2_settings>>
    <3>1. Preface.type \notin Updates /\ send_http2_settings.type \notin Updates
      BY DEF Preface, send_http2_settings, Frame, Updates
    <3>2. Without(<<Preface, send_http2_settings>>, Updates)
      BY <3>1, SeqTwo DEF Without
    <3> QED
      BY <1>1, <2>2, <3>2 DEF Connect, Stage
  <2> QED
    BY <1>1, <2>1, <2>2 DEF Connect
<1>2. CASE WriteFrame
  BY <1>2 DEF WriteFrame
<1>3. CASE WriteLost
  BY <1>3 DEF WriteLost, connection
<1>4. CASE WriteFails
  BY <1>0, <1>4 DEF WriteFails, Throw
<1> DEFINE f == Head(s2c)
           Read == out = <<>> /\ c2s' = c2s /\ s2c # <<>> /\ s2c' = Tail(s2c)
<1>t. CASE Read /\ GivesBack /\ Throw
  BY <1>0, <1>t DEF Throw
<1>5. CASE ReadSettings
  <2>1. Read /\ pc = "settings"
    BY <1>5 DEF ReadSettings, Receive
  <2>2. CASE HandleSettings(f)
    <3>1. f.type # "DATA"
      <4>1. Without(s2c, {"DATA"})
        BY <2>1 DEF Stage, Types, ServerTypes
      <4> QED
        BY <2>1, <4>1, WithoutTail DEF Types, ConnectionTypes, ServerQueue
    <3> DEFINE answer == IF f.type = "SETTINGS" /\ ~ (f.type = "SETTINGS" /\ "ACK" \in f.flags)
                           THEN <<send_http2_settings_ack>> ELSE <<>>
    <3>2. ClientQueue(answer) /\ Without(answer, Updates)
      <4>1. send_http2_settings_ack.type \notin Updates
        BY DEF send_http2_settings_ack, Frame, Updates
      <4>2. Without(<<send_http2_settings_ack>>, Updates)
        BY <4>1, SeqOne DEF Without
      <4>3. ClientQueue(<<send_http2_settings_ack>>)
        BY SeqOne, ControlFrames DEF ClientQueue
      <4> QED
        BY <1>0, <4>2, <4>3, ClientQueueEmpty
    <3>3. out' = answer \/ out' = answer \o send_http2_headers(request, MaxPayload)
      BY <2>2 DEF HandleSettings
    <3>4. pc' \in {"headers", "settings"}
      BY <2>1, <2>2 DEF HandleSettings
    <3>5. request \in Seq(Byte)
      BY RequestsAssumption DEF Types, ClientTypes
    <3> HIDE DEF answer
    <3>6. Without(out', Updates)
      BY <3>2, <3>3, <3>5, RequestUpdates
    <3> QED
      BY <2>1, <3>1, <3>4, <3>6
  <2> QED
    BY <1>5, <1>t, <2>1, <2>2 DEF ReadSettings
<1>f. ASSUME NEW fragment, NEW last, Read, GivesBack, f.type # "DATA",
             AddFragment(fragment, last)
      PROVE  Throw \/ (Read /\ Without(out', Updates) /\ f.type # "DATA")
  BY <1>0, <1>f DEF AddFragment
<1>6. CASE ReadHeaders
  <2>1. Read /\ pc = "headers" /\ GivesBack
    BY <1>6 DEF ReadHeaders, Receive
  <2>2. CASE HandleHeaders(f)
    BY <1>f, <1>t, <2>1, <2>2 DEF HandleHeaders
  <2> QED
    BY <1>6, <1>t, <2>1, <2>2 DEF ReadHeaders
<1>7. CASE ReadContinuation
  <2>1. Read /\ pc = "continuation" /\ GivesBack
    BY <1>7 DEF ReadContinuation, Receive
  <2>2. CASE HandleContinuation(f)
    BY <1>f, <1>t, <2>1, <2>2 DEF HandleContinuation
  <2> QED
    BY <1>7, <1>t, <2>1, <2>2 DEF ReadContinuation
<1>8. CASE ReadData
  <2>1. Read /\ pc = "data" /\ GivesBack
    BY <1>8 DEF ReadData, Receive
  <2>2. CASE HandleData(f) /\ ~ Throw
    <3>1. CASE "END_STREAM" \in f.flags
      <4>1. pc' = "finish" /\ out' = <<send_http2_goaway(stream_id)>>
        BY <2>2, <3>1 DEF HandleData
      <4>2. send_http2_goaway(stream_id).type \notin Updates
        BY DEF send_http2_goaway, Frame, Updates
      <4>3. Without(<<send_http2_goaway(stream_id)>>, Updates)
        BY <4>2, SeqOne DEF Without
      <4> QED
        BY <2>1, <4>1, <4>3
    <3>2. CASE "END_STREAM" \notin f.flags
      BY <2>1, <2>2, <3>2 DEF HandleData
    <3> QED
      BY <3>1, <3>2
  <2> QED
    BY <1>8, <1>t, <2>1, <2>2 DEF ReadData
<1>9. CASE ReadFails
  BY <1>0, <1>9 DEF ReadFails, Throw
<1>10. CASE Finish
  BY <1>0, <1>10 DEF Finish, Throw
<1> QED
  BY <1>1, <1>2, <1>3, <1>4, <1>5, <1>6, <1>7, <1>8, <1>9, <1>10 DEF ClientStep

Window(sid) == IF sid = 0 THEN conn_window ELSE stream_window

\* What a step of the server does to them, and to its windows.
LEMMA ServerFlow ==
  ASSUME Types, ServerStep, NEW sid \in Streams
  PROVE  \/ /\ c2s # <<>> /\ c2s' = Tail(c2s) /\ s2c' = s2c
            /\ \/ Window(sid)' = Window(sid) + Credit(Head(c2s), sid) /\ s_closed' = s_closed
               \/ Window(sid)' = Window(sid) /\ s_closed'
         \/ /\ c2s' = c2s /\ s2c' = s2c /\ Window(sid)' = Window(sid) /\ s_closed'
         \/ /\ c2s' = c2s /\ s_closed' = s_closed
            /\ \E f : /\ ServerFrame(f) /\ s2c' = Append(s2c, f)
                      /\ Window(sid)' + DataOctets(f, sid) = Window(sid)
<1> DEFINE Sent(f) == /\ c2s' = c2s /\ s_closed' = s_closed
                      /\ ServerFrame(f) /\ s2c' = Append(s2c, f)
                      /\ Window(sid)' + DataOctets(f, sid) = Window(sid)
<1> USE DEF Window
<1>0. conn_window \in Nat /\ stream_window \in Nat /\ Window(sid) \in Nat
  BY DEF Types, ServerTypes
<1>1. CASE ServerReceive
  BY <1>1 DEF ServerReceive, Streams, stream_id
<1>a. ASSUME NEW f, ServerFrame(f), f.type # "DATA", Send(f),
             UNCHANGED <<conn_window, stream_window>>
      PROVE  Sent(f)
  <2>1. DataOctets(f, sid) = 0
    BY <1>a, DataOctetsType
  <2> QED
    BY <1>0, <1>a, <2>1 DEF Send
<1>2. ASSUME SendSettings \/ SendSettingsAck  PROVE \E f : Sent(f)
  <2>1. /\ Frame("SETTINGS", {}, 0, <<>>).type = "SETTINGS"
        /\ Frame("SETTINGS", {"ACK"}, 0, <<>>).type = "SETTINGS"
    BY DEF Frame
  <2>2. PICK f \in {Frame("SETTINGS", {}, 0, <<>>), Frame("SETTINGS", {"ACK"}, 0, <<>>)} :
             Send(f) /\ UNCHANGED <<conn_window, stream_window>>
    BY <1>2 DEF SendSettings, SendSettingsAck
  <2>3. ServerFrame(f) /\ f.type # "DATA"
    BY <2>1, <2>2, HandshakeFrames
  <2> HIDE DEF Sent
  <2> QED
    BY <1>a, <2>2, <2>3
<1>4. ASSUME NEW f \in Extra, SendExtra(f)  PROVE Sent(f)
  BY <1>4, <1>a, ExtraFrames, ExtraAssumption DEF SendExtra
<1>5. ASSUME NEW n \in 1 .. Len(reply.block), NEW flags \in HeaderFlags,
             NEW where \in EmptyBodyEnd, SendHeaders(n, flags, where)
      PROVE  \E f : Sent(f)
  <2>1. PICK f : s2c' = Append(s2c, f) /\ ServerFrame(f) /\ f.type = "HEADERS"
    BY <1>5, HeadersFrames DEF Types
  <2>2. UNCHANGED <<c2s, s_closed, conn_window, stream_window>>
    BY <1>5 DEF SendHeaders, Send
  <2>3. DataOctets(f, sid) = 0
    BY <2>1, DataOctetsType
  <2>4. Sent(f)
    BY <1>0, <2>1, <2>2, <2>3
  <2> QED
    BY <2>4
<1>6. ASSUME NEW n \in 1 .. Len(reply.block), SendContinuation(n)
      PROVE  \E f : Sent(f)
  <2> DEFINE f == Frame("CONTINUATION", EndHeaders(n), stream_id,
                        SubSeq(reply.block, block_sent + 1, n))
  <2>1. ServerFrame(f) /\ f.type # "DATA"
    BY <1>6, ContinuationFrames DEF Types, Frame
  <2>2. Send(f) /\ UNCHANGED <<conn_window, stream_window>>
    BY <1>6 DEF SendContinuation
  <2> HIDE DEF f
  <2> QED
    BY <1>a, <2>1, <2>2
<1>7. ASSUME NEW n \in 0 .. MaxFrame, NEW end \in BOOLEAN, NEW padded \in DataPadding,
             SendData(n, end, padded)
      PROVE  \E f : Sent(f)
  <2> DEFINE total == n + (IF padded THEN 2 ELSE 0)
  <2>1. PICK f : /\ s2c' = Append(s2c, f) /\ ServerFrame(f)
                 /\ f.type = "DATA" /\ f.sid = stream_id
                 /\ length(f) = total
    BY <1>7, DataFrames DEF Types
  <2>2. /\ total <= conn_window /\ total <= stream_window
        /\ conn_window' = conn_window - total /\ stream_window' = stream_window - total
        /\ UNCHANGED <<c2s, s_closed>>
    BY <1>7 DEF SendData, Send
  <2>3. total \in Nat
    BY WindowAssumption
  <2> HIDE DEF total
  <2>4. DataOctets(f, sid) = total
    BY <2>1 DEF DataOctets, Streams
  <2>5. Sent(f)
    BY <1>0, <2>1, <2>2, <2>3, <2>4
  <2> QED
    BY <2>5
<1>8. ASSUME SendPush  PROVE \E f : Sent(f)
  <2> DEFINE f == PushFrames[pushed + 1]
             n == IF f.type = "DATA" THEN length(f) ELSE 0
  <2>1. Send(f) /\ n <= conn_window /\ conn_window' = conn_window - n
        /\ UNCHANGED stream_window /\ pushed < Len(PushFrames)
    BY <1>8 DEF SendPush
  <2>2. pushed + 1 \in 1 .. 3
    BY <2>1, PushedFrames DEF Types, ServerTypes
  <2>3. ServerFrame(f)
    BY <2>2, PushedFrames
  <2>4. f.type = "DATA" => f.sid = PushedStream
    BY <2>2, PushedFrames
  <2> HIDE DEF f
  <2>5. DataOctets(f, sid) = IF sid = 0 THEN n ELSE 0
    BY <2>4 DEF DataOctets, Streams, stream_id, PushedStream
  <2>6. n \in Nat
    BY <2>3 DEF ServerFrame, length
  <2> HIDE DEF n
  <2>7. Sent(f)
    BY <1>0, <2>1, <2>3, <2>5, <2>6 DEF Send
  <2> QED
    BY <2>7
<1>9. CASE ServerClose
  BY <1>9 DEF ServerClose, server
<1> DEFINE Sends == \E f : Sent(f)
<1>10. CASE Sends
  BY <1>10
<1>11. /\ SendSettings \/ SendSettingsAck \/ SendPush => Sends
       /\ \A f \in Extra : SendExtra(f) => Sends
       /\ \A n \in 1 .. Len(reply.block) : SendContinuation(n) => Sends
  BY <1>2, <1>4, <1>6, <1>8
<1>12. /\ \A n \in 1 .. Len(reply.block), flags \in HeaderFlags, where \in EmptyBodyEnd :
            SendHeaders(n, flags, where) => Sends
       /\ \A n \in 0 .. MaxFrame, end \in BOOLEAN, padded \in DataPadding :
            SendData(n, end, padded) => Sends
  BY <1>5, <1>7
<1> HIDE DEF Sends
<1>13. ServerReceive \/ ServerClose \/ Sends
  BY <1>11, <1>12 DEF ServerStep
<1> QED
  BY <1>1, <1>9, <1>10, <1>13

\* What is accounted for never exceeds a window, and is all of it while the
\* program reads.
Windows ==
  \A sid \in Streams :
    /\ Accounted(Window(sid), sid) <= W
    /\ GivesBack /\ ~ s_closed => Accounted(Window(sid), sid) = W

LEMMA WindowsInitially == Init => Windows
<1> SUFFICES ASSUME Init, NEW sid \in Streams  PROVE Accounted(Window(sid), sid) = W
  BY WindowAssumption DEF Windows
<1>1. out = <<>> /\ c2s = <<>> /\ s2c = <<>> /\ Window(sid) = W
  BY DEF Init, ClientInit, ConnectionInit, ServerInit, Window
<1>2. Credits(<<>>, sid) = 0
  BY ClientQueueEmpty, WithoutEmpty, CreditsType
<1>3. InFlight(<<>>, sid) = 0
  <2>1. [i \in 1 .. Len(<<>>) |-> DataOctets(<<>>[i], sid)] = <<>>
    OBVIOUS
  <2> QED
    BY <2>1, SumSeqEmpty DEF InFlight
<1> QED
  BY <1>1, <1>2, <1>3, WindowAssumption DEF Accounted

LEMMA WindowsInductive == Types /\ Stage /\ Windows /\ [Next]_vars => Windows'
<1> SUFFICES ASSUME Types, Stage, Windows, [Next]_vars, NEW sid \in Streams
             PROVE  /\ Accounted(Window(sid), sid)' <= W
                    /\ (GivesBack /\ ~ s_closed)' => Accounted(Window(sid), sid)' = W
  BY DEF Windows
<1> DEFINE w == Window(sid)
           flight == InFlight(s2c, sid)
           back == Credits(c2s, sid)
           ready == Credits(out, sid)
           sum == w + flight + back + ready
<1>0. /\ ServerQueue(s2c) /\ ClientQueue(c2s) /\ ClientQueue(out)
      /\ w \in Nat /\ flight \in Nat /\ back \in Nat /\ ready \in Nat
  BY InFlightType, CreditsType
  DEF Types, ClientTypes, ConnectionTypes, ServerTypes, Window
<1>w. W \in Nat
  BY WindowAssumption
<1>1. /\ sum <= W
      /\ GivesBack /\ ~ s_closed => sum = W
  BY DEF Windows, Accounted
<1>2. /\ ServerQueue(s2c') /\ ClientQueue(c2s') /\ ClientQueue(out')
      /\ w' \in Nat /\ flight' \in Nat /\ back' \in Nat /\ ready' \in Nat
  <2>1. Types'
    BY TypesInductive
  <2>2. ServerQueue(s2c') /\ ClientQueue(c2s') /\ ClientQueue(out') /\ w' \in Nat
    BY <2>1 DEF Types, ClientTypes, ConnectionTypes, ServerTypes, Window
  <2> QED
    BY <2>2, InFlightType, CreditsType
<1>e. Credits(<<>>, sid) = 0
  BY ClientQueueEmpty, WithoutEmpty, CreditsType
<1>n. \A q : ClientQueue(q) /\ Without(q, Updates) => Credits(q, sid) = 0
  BY CreditsType
<1>s. s2c # <<>> => flight = DataOctets(Head(s2c), sid) + InFlight(Tail(s2c), sid)
  BY <1>0, InFlightTail
<1>3. SUFFICES /\ sum' <= W
               /\ GivesBack' /\ ~ s_closed' => sum' = W
  BY DEF Accounted
<1> HIDE DEF w, flight, back, ready
<1>a. /\ sum = w + flight + back + ready
      /\ sum' = w' + flight' + back' + ready'
  OBVIOUS
<1> HIDE DEF sum
<1>p. \A a, b, c, d \in Nat : a + b + c + d \in Nat
  OBVIOUS
<1>t. sum \in Nat /\ sum' \in Nat
  BY <1>0, <1>2, <1>a, <1>p, Zenon
<1>b. /\ sum' = sum \/ (sum' <= sum /\ (~ GivesBack' \/ s_closed'))
      /\ GivesBack' => GivesBack
      /\ ~ s_closed' => ~ s_closed
      => sum' <= W /\ (GivesBack' /\ ~ s_closed' => sum' = W)
  <2>1. sum' <= sum => sum' <= W
    BY <1>w, <1>t, <1>1
  <2> QED
    BY <1>1, <2>1
<1>4. CASE ClientStep /\ UNCHANGED server
  <2>1. w' = w
    BY <1>4 DEF server, w, Window
  <2>2. (GivesBack' => GivesBack) /\ s_closed' = s_closed
    BY <1>4, ClientFlow, ClientKeeps
  <2>3. CASE UNCHANGED <<c2s, s2c>> /\ Without(out', Updates) /\ (out = <<>> \/ s_closed)
    <3>1. flight' = flight /\ back' = back /\ ready' = 0
      BY <1>2, <1>n, <2>3 DEF flight, back, ready
    <3>2. out = <<>> => ready = 0
      BY <1>e DEF ready
    <3>3. CASE out = <<>>
      <4>1. sum' = sum
        BY <1>a, <2>1, <3>1, <3>2, <3>3
      <4> QED
        BY <1>b, <2>2, <4>1
    <3>4. CASE s_closed
      <4>1. sum' <= sum
        BY <1>a, <1>0, <2>1, <3>1
      <4> QED
        BY <1>b, <2>2, <3>4, <4>1
    <3> QED
      BY <2>3, <3>3, <3>4
  <2>4. CASE out # <<>> /\ c2s' = Append(c2s, Head(out)) /\ out' = Tail(out) /\ s2c' = s2c
    <3>1. Credits(Append(c2s, Head(out)), sid) = Credits(c2s, sid) + Credit(Head(out), sid)
      BY <1>0, <2>4, ClientQueueTail, CreditsAppend
    <3>2. Credits(out, sid) = Credit(Head(out), sid) + Credits(Tail(out), sid)
      BY <1>0, <2>4, CreditsTail
    <3>3. Credit(Head(out), sid) \in Nat
      BY <1>0, <2>4, ClientQueueTail, CreditType
    <3>4. flight' = flight /\ back' = back + Credit(Head(out), sid)
          /\ ready = Credit(Head(out), sid) + ready'
      BY <2>4, <3>1, <3>2 DEF flight, back, ready
    <3>5. sum' = sum
      BY <1>a, <1>0, <1>2, <2>1, <3>3, <3>4
    <3> QED
      BY <1>b, <2>2, <3>5
  <2>5. CASE out # <<>> /\ c2s' = c2s /\ out' = Tail(out) /\ s2c' = s2c /\ s_closed
    <3>1. Credits(out, sid) = Credit(Head(out), sid) + Credits(Tail(out), sid)
      BY <1>0, <2>5, CreditsTail
    <3>2. Credit(Head(out), sid) \in Nat
      BY <1>0, <2>5, ClientQueueTail, CreditType
    <3>3. flight' = flight /\ back' = back /\ ready = Credit(Head(out), sid) + ready'
      BY <2>5, <3>1 DEF flight, back, ready
    <3>4. sum' <= sum
      BY <1>a, <1>0, <1>2, <2>1, <3>2, <3>3
    <3> QED
      BY <1>b, <2>2, <2>5, <3>4
  <2>6. CASE out = <<>> /\ c2s' = c2s /\ s2c # <<>> /\ s2c' = Tail(s2c)
    <3> DEFINE d == DataOctets(Head(s2c), sid)
    <3>1. flight = d + flight' /\ back' = back /\ ready = 0 /\ d \in Nat
      <4>1. ServerFrame(Head(s2c))
        BY <1>0, <2>6, ServerQueueTail
      <4> QED
        BY <1>s, <1>e, <2>6, <4>1, DataOctetsType DEF flight, back, ready
    <3>2. CASE Without(out', Updates) /\ (Head(s2c).type # "DATA" \/ ~ GivesBack')
      <4>1. ready' = 0
        BY <1>2, <1>n, <3>2 DEF ready
      <4>2. Head(s2c).type # "DATA" => d = 0
        BY DEF DataOctets
      <4> HIDE DEF d
      <4>3. CASE d = 0
        <5>1. sum' = sum
          BY <1>a, <1>0, <1>2, <2>1, <3>1, <4>1, <4>3
        <5> QED
          BY <1>b, <2>2, <5>1
      <4>4. CASE ~ GivesBack'
        <5>1. \A a, b, c, e \in Nat : a + b + c + 0 <= a + (e + b) + c + 0
          OBVIOUS
        <5>2. /\ sum = w + (d + flight') + back + 0
              /\ sum' = w + flight' + back + 0
          BY <1>a, <2>1, <3>1, <4>1
        <5>3. sum' <= sum
          BY <1>0, <1>2, <3>1, <5>1, <5>2, Zenon
        <5> QED
          BY <1>b, <2>2, <4>4, <5>3
      <4> QED
        BY <3>2, <4>2, <4>3, <4>4
    <3>3. CASE /\ Head(s2c).type = "DATA" /\ "END_STREAM" \notin Head(s2c).flags
               /\ out' = WindowUpdates(length(Head(s2c)))
      <4>1. ServerFrame(Head(s2c))
        BY <1>0, <2>6, ServerQueueTail
      <4>2. Head(s2c).sid = stream_id /\ length(Head(s2c)) \in Nat
        BY <3>3, <4>1 DEF ServerFrame, length
      <4>3. d = length(Head(s2c))
        BY <3>3, <4>2 DEF DataOctets, Streams
      <4>4. ready' = d
        BY <3>3, <4>2, <4>3, WindowUpdatesCredit DEF ready
      <4> HIDE DEF d
      <4>5. sum' = sum
        BY <1>a, <1>0, <1>2, <2>1, <3>1, <4>4
      <4> QED
        BY <1>b, <2>2, <4>5
    <3> QED
      BY <1>4, <2>6, <3>2, <3>3, ClientFlow
  <2> QED
    BY <1>4, <2>3, <2>4, <2>5, <2>6, ClientFlow
<1>5. CASE ServerStep /\ UNCHANGED client
  <2>1. GivesBack' = GivesBack /\ out' = out /\ ready' = ready
    BY <1>5 DEF client, GivesBack, ready
  <2>2. CASE /\ c2s # <<>> /\ c2s' = Tail(c2s) /\ s2c' = s2c
             /\ \/ w' = w + Credit(Head(c2s), sid) /\ s_closed' = s_closed
                \/ w' = w /\ s_closed'
    <3>1. Credits(c2s, sid) = Credit(Head(c2s), sid) + Credits(Tail(c2s), sid)
      BY <1>0, <2>2, CreditsTail
    <3>2. Credit(Head(c2s), sid) \in Nat
      BY <1>0, <2>2, ClientQueueTail, CreditType
    <3>3. flight' = flight /\ back = Credit(Head(c2s), sid) + back'
      BY <2>2, <3>1 DEF flight, back
    <3>4. CASE w' = w + Credit(Head(c2s), sid) /\ s_closed' = s_closed
      <4>1. sum' = sum
        BY <1>a, <1>0, <1>2, <2>1, <3>2, <3>3, <3>4
      <4> QED
        BY <1>b, <2>1, <3>4, <4>1
    <3>5. CASE w' = w /\ s_closed'
      <4>1. sum' <= sum
        BY <1>a, <1>0, <1>2, <2>1, <3>2, <3>3, <3>5
      <4> QED
        BY <1>b, <1>w, <1>t, <1>1, <3>5, <4>1
    <3> QED
      BY <2>2, <3>4, <3>5
  <2>3. CASE c2s' = c2s /\ s2c' = s2c /\ w' = w /\ s_closed'
    <3>1. flight' = flight /\ back' = back
      BY <2>3 DEF flight, back
    <3>2. sum' = sum
      BY <1>a, <2>1, <2>3, <3>1
    <3> QED
      BY <1>w, <1>t, <1>1, <2>3, <3>2
  <2>4. ASSUME c2s' = c2s, s_closed' = s_closed,
               NEW f, ServerFrame(f), s2c' = Append(s2c, f),
               w' + DataOctets(f, sid) = w
        PROVE  /\ sum' <= W
               /\ GivesBack' /\ ~ s_closed' => sum' = W
    <3>1. InFlight(Append(s2c, f), sid) = InFlight(s2c, sid) + DataOctets(f, sid)
      BY <1>0, <2>4, InFlightAppend
    <3>2. DataOctets(f, sid) \in Nat
      BY <2>4, DataOctetsType
    <3>3. flight' = flight + DataOctets(f, sid) /\ back' = back
      BY <2>4, <3>1 DEF flight, back
    <3>4. \A a, b, c, d, e \in Nat : a + (b + e) + c + d = (a + e) + b + c + d
      OBVIOUS
    <3>5. /\ sum' = w' + (flight + DataOctets(f, sid)) + back + ready
          /\ sum = (w' + DataOctets(f, sid)) + flight + back + ready
      BY <1>a, <2>1, <2>4, <3>3
    <3>6. sum' = sum
      <4>1. PICK e \in Nat, a \in Nat : e = DataOctets(f, sid) /\ a = w'
        BY <1>2, <3>2
      <4>2. a + (flight + e) + back + ready = (a + e) + flight + back + ready
        BY <1>0, <3>4
      <4> QED
        BY <3>5, <4>1, <4>2, Zenon
    <3> QED
      BY <1>b, <2>1, <2>4, <3>6
  <2> QED
    BY <1>5, <2>2, <2>3, <2>4, ServerFlow DEF w
<1>6. CASE UNCHANGED vars
  <2>1. w' = w /\ flight' = flight /\ back' = back /\ ready' = ready
        /\ GivesBack' = GivesBack /\ s_closed' = s_closed
    BY <1>6 DEF vars, client, connection, server, GivesBack, w, Window, flight, back, ready
  <2>2. sum' = sum
    BY <1>a, <2>1
  <2> QED
    BY <1>b, <2>1, <2>2
<1> QED
  BY <1>4, <1>5, <1>6 DEF Next, Terminated

-----------------------------------------------------------------------------
\* What holds throughout a session.

IInv == Types /\ Stage /\ Windows

LEMMA Invariant == Spec => []IInv
<1>1. Init => IInv
  BY TypesInitially, StageInitially, WindowsInitially DEF IInv
<1>2. IInv /\ [Next]_vars => IInv'
  BY TypesInductive, StageInductive, WindowsInductive DEF IInv
<1> QED
  BY <1>1, <1>2, PTL DEF Spec

\* Flow control, whatever the sizes of the windows and of the frames: while the
\* program reads, no octet of a window is lost and none is given back twice
\* (httpv2.cc:161-179).
THEOREM WindowsConservedAlways == Spec => []WindowsConserved
<1>1. IInv => WindowsConserved
  <2> SUFFICES ASSUME Windows, GivesBack, ~ s_closed
               PROVE  Accounted(conn_window, 0) = W /\ Accounted(stream_window, stream_id) = W
    BY DEF IInv, WindowsConserved, GivesBack
  <2>1. /\ 0 \in Streams /\ stream_id \in Streams
        /\ Window(0) = conn_window /\ Window(stream_id) = stream_window
    BY DEF Streams, Window, stream_id
  <2> QED
    BY <2>1 DEF Windows
<1> QED
  BY <1>1, Invariant, PTL

\* The control state of both ends keeps its type, the frames in flight have
\* legal headers, and no flow-control window grows beyond its initial size.
THEOREM TypeOKAlways == Spec => []TypeOK
<1>1. ASSUME Types, Windows, NEW sid \in Streams  PROVE Window(sid) \in 0 .. W
  <2>1. /\ Window(sid) \in Nat /\ InFlight(s2c, sid) \in Nat
        /\ Credits(c2s, sid) \in Nat /\ Credits(out, sid) \in Nat
    BY <1>1, InFlightType, CreditsType
    DEF Types, ClientTypes, ConnectionTypes, ServerTypes, Window
  <2>2. Accounted(Window(sid), sid) <= W /\ W \in Nat
    BY <1>1, WindowAssumption DEF Windows
  <2> QED
    BY <2>1, <2>2 DEF Accounted
<1>2. ASSUME Types, Windows  PROVE conn_window \in 0 .. W /\ stream_window \in 0 .. W
  <2>1. /\ 0 \in Streams /\ stream_id \in Streams
        /\ Window(0) = conn_window /\ Window(stream_id) = stream_window
    BY DEF Streams, Window, stream_id
  <2> QED
    BY <1>1, <1>2, <2>1
<1>3. ASSUME Types
      PROVE  \A q \in {out, c2s, s2c} : \A i \in DOMAIN q : Header(q[i]) \in Frames
  <2>1. ASSUME NEW q, IsSeq(q)  PROVE DOMAIN q = 1 .. Len(q)
    BY <2>1 DEF IsSeq
  <2>2. /\ ClientQueue(out) /\ ClientQueue(c2s) /\ ServerQueue(s2c)
    BY <1>3 DEF Types, ClientTypes, ConnectionTypes
  <2> QED
    BY <2>1, <2>2 DEF ClientQueue, ClientFrame, ServerQueue, ServerFrame
<1>4. IInv => TypeOK
  BY <1>2, <1>3 DEF IInv, TypeOK, Types, ClientTypes, ConnectionTypes, ServerTypes
<1> QED
  BY <1>4, Invariant, PTL

-----------------------------------------------------------------------------
\* The request: what the server has yet to receive, in order.

Pending == c2s \o out

\* Positions of the frames of some kinds.
Kind(f) == IF f.type # "SETTINGS" THEN f.type
           ELSE IF "ACK" \in f.flags THEN "ack" ELSE "ask"

At(q, kinds) == {i \in 1 .. Len(q) : Kind(q[i]) \in kinds}

LEMMA AtEmpty == \A kinds : At(<<>>, kinds) = {}
BY SeqEmpty DEF At

LEMMA AtType ==
  ASSUME NEW q, IsSeq(q), NEW kinds, NEW i \in At(q, kinds)
  PROVE  i \in 1 .. Len(q) /\ i \in Nat \ {0} /\ Len(q) \in Nat
<1>1. Len(q) \in Nat
  BY SeqConcat, SeqEmpty
<1> QED
  BY <1>1 DEF At

LEMMA AtTail ==
  ASSUME NEW q, IsSeq(q), q # <<>>, NEW kinds
  PROVE  /\ \A i : i \in At(Tail(q), kinds) <=> i \in Nat \ {0} /\ i + 1 \in At(q, kinds)
         /\ 1 \in At(q, kinds) <=> Kind(Head(q)) \in kinds
<1>1. /\ Len(q) \in Nat \ {0} /\ Head(q) = q[1] /\ Len(Tail(q)) = Len(q) - 1
      /\ \A i \in 1 .. Len(q) - 1 : Tail(q)[i] = q[i + 1]
  BY SeqTail
<1>2. \A i \in Nat \ {0} : i + 1 \in 1 .. Len(q) <=> i \in 1 .. Len(q) - 1
  BY <1>1
<1> QED
  BY <1>1, <1>2 DEF At

LEMMA AtConcat ==
  ASSUME NEW q, IsSeq(q), NEW r, IsSeq(r), NEW kinds
  PROVE  \A i \in Nat : i \in At(q \o r, kinds) <=>
                          i \in At(q, kinds) \/ i - Len(q) \in At(r, kinds)
<1>1. PICK m \in Nat, n \in Nat : m = Len(q) /\ n = Len(r)
  BY SeqConcat
<1>2. /\ Len(q \o r) = m + n
      /\ \A i \in 1 .. m : (q \o r)[i] = q[i]
      /\ \A i \in 1 .. n : (q \o r)[m + i] = r[i]
  BY <1>1, SeqConcat
<1> SUFFICES ASSUME NEW i \in Nat
             PROVE  i \in At(q \o r, kinds) <=>
                      i \in At(q, kinds) \/ i - m \in At(r, kinds)
  BY <1>1
<1>3. CASE i \in 1 .. m
  <2>1. i \in 1 .. m + n /\ i - m \notin 1 .. n
    BY <1>3
  <2> QED
    BY <1>1, <1>2, <1>3, <2>1 DEF At
<1>4. CASE i \notin 1 .. m
  <2>1. /\ i \in 1 .. m + n <=> i - m \in 1 .. n
        /\ m + (i - m) = i
    BY <1>4
  <2>2. i - m \in 1 .. n => (q \o r)[i] = r[i - m]
    BY <1>2, <2>1
  <2> QED
    BY <1>1, <1>2, <1>4, <2>1, <2>2 DEF At
<1> QED
  BY <1>3, <1>4

LEMMA WithoutConcat ==
  ASSUME NEW q, IsSeq(q), NEW r, IsSeq(r), NEW types, Without(q, types), Without(r, types)
  PROVE  Without(q \o r, types)
<1>1. PICK m \in Nat, n \in Nat : m = Len(q) /\ n = Len(r)
  BY SeqConcat
<1>2. /\ Len(q \o r) = m + n
      /\ \A i \in 1 .. m : (q \o r)[i] = q[i]
      /\ \A i \in 1 .. n : (q \o r)[m + i] = r[i]
  <2>1. /\ Len(q \o r) = Len(q) + Len(r)
        /\ \A i \in 1 .. Len(q) : (q \o r)[i] = q[i]
        /\ \A i \in 1 .. Len(r) : (q \o r)[Len(q) + i] = r[i]
    BY SeqConcat
  <2> QED
    BY <1>1, <2>1
<1>3. ASSUME NEW i \in 1 .. m + n, i \notin 1 .. m
      PROVE  i - m \in 1 .. n /\ m + (i - m) = i
  BY <1>3
<1>4. \A i \in 1 .. m + n : (q \o r)[i].type \notin types
  BY <1>1, <1>2, <1>3 DEF Without
<1> QED
  BY <1>2, <1>4 DEF Without

\* Appending in two steps or at once.
LEMMA Associative ==
  ASSUME NEW a, IsSeq(a), NEW b, IsSeq(b), NEW c, IsSeq(c)
  PROVE  (a \o b) \o c = a \o (b \o c)
<1>1. PICK S : a \in Seq(S)
  BY DEF IsSeq
<1>2. PICK T : b \in Seq(T)
  BY DEF IsSeq
<1>3. PICK U : c \in Seq(U)
  BY DEF IsSeq
<1>4. PICK V : a \in Seq(V) /\ b \in Seq(V) /\ c \in Seq(V)
  <2>1. /\ a \in Seq(S \cup T \cup U) /\ b \in Seq(S \cup T \cup U)
        /\ c \in Seq(S \cup T \cup U)
    BY <1>1, <1>2, <1>3
  <2> QED
    BY <2>1
<1> QED
  BY <1>4, ConcatAssociative, SMTT(30)

\* Handing a frame on, and taking one off.
LEMMA HandOn ==
  ASSUME NEW a, IsSeq(a), NEW b, IsSeq(b), b # <<>>
  PROVE  Append(a, Head(b)) \o Tail(b) = a \o b
<1>1. PICK S : a \in Seq(S)
  BY DEF IsSeq
<1>2. PICK T : b \in Seq(T)
  BY DEF IsSeq
<1>3. a \in Seq(S \cup T) /\ b \in Seq(S \cup T)
  BY <1>1, <1>2
<1> QED
  BY <1>3

LEMMA TakeOff ==
  ASSUME NEW a, IsSeq(a), NEW b, IsSeq(b), a # <<>>
  PROVE  /\ Tail(a) \o b = Tail(a \o b)
         /\ a \o b # <<>> /\ Head(a \o b) = Head(a)
<1>1. PICK S : a \in Seq(S)
  BY DEF IsSeq
<1>2. PICK T : b \in Seq(T)
  BY DEF IsSeq
<1>3. a \in Seq(S \cup T) /\ b \in Seq(S \cup T)
  BY <1>1, <1>2
<1> QED
  BY <1>3

-----------------------------------------------------------------------------
\* Steps, as far as the requests and the handshake are concerned.

Opens == /\ pc = "connect" /\ pc' = "settings"
         /\ Pending = <<>> /\ Pending' = <<Preface, send_http2_settings>>
         /\ UNCHANGED <<s2c, rcv_settings, rcv_settings_ack>>

SendsNothing ==
  /\ Pending' = Pending
  /\ UNCHANGED <<rcv_settings, rcv_settings_ack>>
  /\ s2c' = s2c \/ (s2c # <<>> /\ s2c' = Tail(s2c))
  /\ pc' = "settings" => pc = "settings"
  /\ pc' # "failed" => pc \notin {"connect", "failed"}

Reads == s2c # <<>> /\ s2c' = Tail(s2c)

Answers == /\ pc = "settings" /\ Reads /\ HandleSettings(Head(s2c))
           /\ Pending' = Pending \o out'

GivesCredit ==
  /\ pc = "data" /\ pc' \in {"data", "finish"} /\ Reads
  /\ Head(s2c).type = "DATA"
  /\ IF "END_STREAM" \in Head(s2c).flags
       THEN out' = <<send_http2_goaway(stream_id)>>
       ELSE out' = WindowUpdates(length(Head(s2c)))
  /\ Pending' = Pending \o out'
  /\ UNCHANGED <<rcv_settings, rcv_settings_ack>>

LEMMA ClientSends ==
  ASSUME Types, Stage, ClientStep
  PROVE  /\ request' = request /\ s_closed' = s_closed /\ pc' # "connect"
         /\ ~ s_closed => Opens \/ SendsNothing \/ Answers \/ GivesCredit
<1>0. /\ IsSeq(c2s) /\ IsSeq(out) /\ s_closed' = s_closed /\ pc' # "connect"
  BY ClientKeeps, ClientMoves DEF Types, ClientTypes, ConnectionTypes, ClientQueue
<1>1. ASSUME out = <<>>, out' = <<>>, c2s' = c2s  PROVE Pending' = Pending
  BY <1>1 DEF Pending
<1>2. ASSUME out = <<>>, c2s' = c2s  PROVE Pending' = Pending \o out'
  <2>1. c2s \o <<>> = c2s
    BY <1>0, NothingMore
  <2> QED
    BY <1>2, <2>1 DEF Pending
<1>3. request' = request
  BY DEF ClientStep, Connect, WriteFrame, WriteLost, WriteFails, ReadSettings, ReadHeaders,
         ReadContinuation, ReadData, ReadFails, Finish, Throw, HandleSettings,
         HandleHeaders, HandleContinuation, AddFragment, HandleData
<1> SUFFICES ASSUME ~ s_closed  PROVE Opens \/ SendsNothing \/ Answers \/ GivesCredit
  BY <1>0, <1>3
<1>4. CASE Connect
  <2>1. out = <<>> /\ c2s = <<>> /\ c2s' = c2s /\ s2c' = s2c
    BY <1>4 DEF Connect, Stage
  <2>2. CASE Throw
    BY <1>1, <1>4, <2>1, <2>2 DEF Connect, Throw, SendsNothing
  <2>3. CASE /\ pc' = "settings" /\ out' = <<Preface, send_http2_settings>>
             /\ UNCHANGED <<rcv_settings, rcv_settings_ack>>
    <3>1. IsSeq(<<Preface, send_http2_settings>>)
      BY SeqTwo
    <3>2. Pending = <<>> /\ Pending' = <<Preface, send_http2_settings>>
      BY <2>1, <2>3, <3>1, SeqEmpty, NothingMore DEF Pending
    <3> QED
      BY <1>4, <2>1, <2>3, <3>2 DEF Connect, Opens
  <2> QED
    BY <1>4, <2>2, <2>3 DEF Connect
<1>5. CASE WriteFrame
  <2>1. Pending' = Pending
    BY <1>0, <1>5, HandOn DEF WriteFrame, Pending
  <2> QED
    BY <1>5, <2>1 DEF WriteFrame, SendsNothing, Stage
<1>6. CASE ReadSettings
  <2>1. pc = "settings" /\ Reads /\ out = <<>> /\ c2s' = c2s
    BY <1>6 DEF ReadSettings, Receive, Reads
  <2>2. CASE Throw
    BY <1>1, <2>1, <2>2 DEF Throw, SendsNothing, Reads
  <2>3. CASE HandleSettings(Head(s2c))
    BY <1>2, <2>1, <2>3 DEF Answers
  <2> QED
    BY <1>6, <2>2, <2>3 DEF ReadSettings
<1>f. ASSUME NEW fragment, NEW last, AddFragment(fragment, last),
             Reads, out = <<>>, c2s' = c2s, pc \in {"headers", "continuation"}
      PROVE  SendsNothing
  BY <1>1, <1>f DEF AddFragment, Throw, SendsNothing, Reads
<1>7. CASE ReadHeaders \/ ReadContinuation
  <2>1. pc \in {"headers", "continuation"} /\ Reads /\ out = <<>> /\ c2s' = c2s
    BY <1>7 DEF ReadHeaders, ReadContinuation, Receive, Reads
  <2>2. CASE Throw
    BY <1>1, <2>1, <2>2 DEF Throw, SendsNothing, Reads
  <2> QED
    BY <1>7, <1>f, <2>1, <2>2
    DEF ReadHeaders, ReadContinuation, HandleHeaders, HandleContinuation
<1>8. CASE ReadData
  <2>1. pc = "data" /\ Reads /\ out = <<>> /\ c2s' = c2s
    BY <1>8 DEF ReadData, Receive, Reads
  <2>2. CASE Throw
    BY <1>1, <2>1, <2>2 DEF Throw, SendsNothing, Reads
  <2>3. CASE HandleData(Head(s2c)) /\ ~ Throw
    <3>1. /\ pc' \in {"data", "finish"} /\ Head(s2c).type = "DATA"
          /\ IF "END_STREAM" \in Head(s2c).flags
               THEN out' = <<send_http2_goaway(stream_id)>>
               ELSE out' = WindowUpdates(length(Head(s2c)))
          /\ UNCHANGED <<rcv_settings, rcv_settings_ack>>
      BY <2>1, <2>3 DEF HandleData
    <3> QED
      BY <1>2, <2>1, <3>1 DEF GivesCredit
  <2> QED
    BY <1>8, <2>2, <2>3 DEF ReadData
<1>9. CASE Finish
  BY <1>1, <1>9 DEF Finish, Throw, SendsNothing
<1> QED
  BY <1>4, <1>5, <1>6, <1>7, <1>8, <1>9
  DEF ClientStep, WriteLost, WriteFails, ReadFails

Asked == UNCHANGED <<c2s, s_state, s_block, s_acked, s_error>>

SendsFrame(f) ==
  /\ Asked /\ ServerFrame(f) /\ s2c' = Append(s2c, f) /\ s_closed' = s_closed
  /\ Kind(f) = "ack" => s_acks > 0 /\ s_acks' = s_acks - 1
  /\ Kind(f) # "ack" => s_acks' = s_acks
  /\ f.type = "DATA" /\ "END_STREAM" \notin f.flags /\ ~ EmptyData => length(f) > 0

LEMMA ServerSends ==
  ASSUME Types, ServerStep
  PROVE  \/ ServerReceive
         \/ Asked /\ UNCHANGED <<s2c, s_acks>> /\ s_closed'
         \/ \E f : SendsFrame(f)
<1> DEFINE Sends == \E f : SendsFrame(f)
<1>0. s_acks \in Nat
  BY DEF Types, ServerTypes
<1>1. ASSUME SendSettings  PROVE Sends
  <2> DEFINE f == Frame("SETTINGS", {}, 0, <<>>)
  <2>1. /\ ServerFrame(f) /\ f.type = "SETTINGS" /\ Kind(f) = "ask"
    BY HandshakeFrames DEF Frame, Kind
  <2> HIDE DEF f
  <2>2. Send(f) /\ UNCHANGED <<s_state, s_block, s_acks, s_acked, s_error>>
    BY <1>1 DEF SendSettings, f
  <2>3. SendsFrame(f)
    BY <2>1, <2>2 DEF Send, SendsFrame, Asked
  <2> QED
    BY <2>3
<1>2. ASSUME SendSettingsAck  PROVE Sends
  <2> DEFINE f == Frame("SETTINGS", {"ACK"}, 0, <<>>)
  <2>1. /\ ServerFrame(f) /\ f.type = "SETTINGS" /\ Kind(f) = "ack"
    BY HandshakeFrames DEF Frame, Kind
  <2> HIDE DEF f
  <2>2. /\ Send(f) /\ UNCHANGED <<s_state, s_block, s_acked, s_error>>
        /\ s_acks > 0 /\ s_acks' = s_acks - 1
    BY <1>2 DEF SendSettingsAck, f
  <2>3. SendsFrame(f)
    BY <2>1, <2>2 DEF Send, SendsFrame, Asked
  <2> QED
    BY <2>3
<1>3. ASSUME NEW f \in Extra, SendExtra(f)  PROVE Sends
  <2>1. f.type # "DATA" /\ Kind(f) # "ack" /\ ServerFrame(f)
    BY ExtraAssumption, ExtraFrames DEF Kind, FrameTypes
  <2>2. Send(f) /\ UNCHANGED <<s_state, s_block, s_acks, s_acked, s_error>>
    BY <1>3 DEF SendExtra
  <2>3. SendsFrame(f)
    BY <2>1, <2>2 DEF Send, SendsFrame, Asked
  <2> QED
    BY <2>3
<1>4. ASSUME NEW n \in 1 .. Len(reply.block), NEW flags \in HeaderFlags,
             NEW where \in EmptyBodyEnd, SendHeaders(n, flags, where)
      PROVE  Sends
  <2>1. PICK f : s2c' = Append(s2c, f) /\ ServerFrame(f) /\ f.type = "HEADERS"
    BY <1>4, HeadersFrames DEF Types
  <2>2. UNCHANGED <<c2s, s_closed, s_state, s_block, s_acks, s_acked, s_error>>
    BY <1>4 DEF SendHeaders, Send
  <2>3. SendsFrame(f)
    BY <2>1, <2>2 DEF SendsFrame, Asked, Kind
  <2> QED
    BY <2>3
<1>5. ASSUME NEW n \in 1 .. Len(reply.block), SendContinuation(n)
      PROVE  Sends
  <2> DEFINE f == Frame("CONTINUATION", EndHeaders(n), stream_id,
                        SubSeq(reply.block, block_sent + 1, n))
  <2>1. ServerFrame(f) /\ f.type = "CONTINUATION"
    BY ContinuationFrames DEF Types
  <2> HIDE DEF f
  <2>2. Send(f) /\ UNCHANGED <<s_state, s_block, s_acks, s_acked, s_error>>
    BY <1>5 DEF SendContinuation, f
  <2>3. SendsFrame(f)
    BY <2>1, <2>2 DEF Send, SendsFrame, Asked, Kind
  <2> QED
    BY <2>3
<1>6. ASSUME NEW n \in 0 .. MaxFrame, NEW end \in BOOLEAN, NEW padded \in DataPadding,
             SendData(n, end, padded)
      PROVE  Sends
  <2>1. PICK f : /\ s2c' = Append(s2c, f) /\ ServerFrame(f) /\ f.type = "DATA"
                 /\ length(f) = n + (IF padded THEN 2 ELSE 0)
                 /\ "END_STREAM" \in f.flags <=> end
    BY <1>6, DataFrames DEF Types
  <2>2. /\ UNCHANGED <<c2s, s_closed, s_state, s_block, s_acks, s_acked, s_error>>
        /\ n = 0 /\ ~ end => EmptyData
    BY <1>6 DEF SendData, Send
  <2>3. n > 0 => length(f) > 0
    BY <2>1, WindowAssumption
  <2>4. n \in Nat
    BY WindowAssumption
  <2>5. SendsFrame(f)
    BY <2>1, <2>2, <2>3, <2>4 DEF SendsFrame, Asked, Kind
  <2> QED
    BY <2>5
<1>7. ASSUME SendPush  PROVE Sends
  <2> DEFINE f == PushFrames[pushed + 1]
  <2>1. pushed + 1 \in 1 .. 3
    BY <1>7, PushedFrames DEF SendPush, Types, ServerTypes
  <2>2. /\ ServerFrame(f) /\ f.type \in {"PUSH_PROMISE", "HEADERS", "DATA"}
        /\ f.type = "DATA" => "END_STREAM" \in f.flags
    <3>1. pushed + 1 = 1 \/ pushed + 1 = 2 \/ pushed + 1 = 3
      BY <2>1
    <3> QED
      BY <2>1, <3>1, PushedFrames
  <2>3. Send(f) /\ UNCHANGED <<s_state, s_block, s_acks, s_acked, s_error>>
    BY <1>7 DEF SendPush
  <2> HIDE DEF f
  <2>4. SendsFrame(f)
    BY <2>2, <2>3 DEF Send, SendsFrame, Asked, Kind
  <2> QED
    BY <2>4
<1>8. CASE ServerClose
  BY <1>8 DEF ServerClose, server, Asked
<1>9. /\ SendSettings \/ SendSettingsAck \/ SendPush => Sends
      /\ \A f \in Extra : SendExtra(f) => Sends
      /\ \A n \in 1 .. Len(reply.block) : SendContinuation(n) => Sends
  BY <1>1, <1>2, <1>3, <1>5, <1>7
<1>10. /\ \A n \in 1 .. Len(reply.block), flags \in HeaderFlags, where \in EmptyBodyEnd :
            SendHeaders(n, flags, where) => Sends
       /\ \A n \in 0 .. MaxFrame, end \in BOOLEAN, padded \in DataPadding :
            SendData(n, end, padded) => Sends
  BY <1>4, <1>6
<1> HIDE DEF Sends
<1>11. ServerReceive \/ ServerClose \/ Sends
  BY <1>9, <1>10 DEF ServerStep
<1> QED
  BY <1>8, <1>11 DEF Sends

-----------------------------------------------------------------------------
\* The handshake.

\* The client's SETTINGS, or what is left of them, is in one place at most: not
\* sent, on its way, noted by the server, in an acknowledgement on its way, or
\* acknowledged.
OnePlace ==
  /\ s_acks \in {0, 1}
  /\ \A i, j \in At(Pending, {"ask"}) : i = j
  /\ \A i, j \in At(s2c, {"ack"}) : i = j
  /\ pc = "connect" =>
       /\ At(Pending, {"ask"}) = {} /\ s_acks = 0 /\ At(s2c, {"ack"}) = {}
       /\ ~ rcv_settings_ack /\ ~ rcv_settings
  /\ At(Pending, {"ask"}) # {} =>
       s_acks = 0 /\ At(s2c, {"ack"}) = {} /\ ~ rcv_settings_ack
  /\ s_acks = 1 => At(s2c, {"ack"}) = {} /\ ~ rcv_settings_ack
  /\ At(s2c, {"ack"}) # {} => ~ rcv_settings_ack

\* The server's SETTINGS, once received, are acknowledged, and the request goes
\* out after that.
Acknowledged ==
  /\ pc = "settings" /\ rcv_settings => s_acked \/ At(Pending, {"ack"}) # {}
  /\ \A i \in At(Pending, {"HEADERS"}) :
       /\ rcv_settings_ack
       /\ s_acked \/ \E j \in At(Pending, {"ack"}) : j < i

Handshake == ~ s_closed => OnePlace /\ Acknowledged

LEMMA HandshakeInitially == Init => Handshake
<1> SUFFICES ASSUME Init  PROVE Handshake
  OBVIOUS
<1>1. /\ pc = "connect" /\ out = <<>> /\ c2s = <<>> /\ s2c = <<>>
      /\ s_acks = 0 /\ rcv_settings = FALSE /\ rcv_settings_ack = FALSE
  BY DEF Init, ClientInit, ConnectionInit, ServerInit
<1>2. Pending = <<>>
  BY <1>1, SeqEmpty, NothingMore DEF Pending
<1> QED
  BY <1>1, <1>2, AtEmpty DEF Handshake, OnePlace, Acknowledged

LEMMA PendingType == Types => IsSeq(Pending) /\ IsSeq(s2c) /\ IsSeq(out) /\ IsSeq(c2s)
BY SeqConcat DEF Types, ClientTypes, ConnectionTypes, ClientQueue, ServerQueue, Pending

\* What is neither about SETTINGS nor a request moves no mark.
LEMMA HandshakeKept ==
  ASSUME Types, Handshake, NEW r, IsSeq(r), At(r, {"ask", "ack", "HEADERS"}) = {},
         Pending' = Pending \o r,
         s2c' = s2c \/ (s2c # <<>> /\ s2c' = Tail(s2c)),
         UNCHANGED <<s_acks, s_acked, s_closed, rcv_settings, rcv_settings_ack>>,
         pc' # "connect", pc' = "settings" => pc = "settings"
  PROVE  Handshake'
<1> SUFFICES ASSUME ~ s_closed  PROVE OnePlace' /\ Acknowledged'
  BY DEF Handshake
<1>0. IsSeq(Pending) /\ IsSeq(s2c)
  BY PendingType
<1>1. ASSUME NEW kinds \in {{"ask"}, {"ack"}, {"HEADERS"}}
      PROVE  At(Pending', kinds) = At(Pending, kinds)
  <2>1. At(r, kinds) = {}
    BY DEF At
  <2>2. \A i \in Nat : i \in At(Pending', kinds) <=> i \in At(Pending, kinds)
    BY <1>0, <2>1, AtConcat
  <2>3. IsSeq(Pending')
    BY <1>0, SeqConcat
  <2>4. \A i : (i \in At(Pending', kinds) => i \in Nat) /\ (i \in At(Pending, kinds) => i \in Nat)
    BY <1>0, <2>3, AtType
  <2> QED
    BY <2>2, <2>4
<1>2. /\ \A i, j \in At(s2c', {"ack"}) : i = j
      /\ At(s2c, {"ack"}) = {} => At(s2c', {"ack"}) = {}
  <2>1. CASE s2c' = s2c
    BY <2>1 DEF Handshake, OnePlace
  <2>2. CASE s2c # <<>> /\ s2c' = Tail(s2c)
    <3>1. \A i : i \in At(s2c', {"ack"}) => i \in Nat \ {0} /\ i + 1 \in At(s2c, {"ack"})
      BY <1>0, <2>2, AtTail
    <3>2. ASSUME NEW i \in At(s2c', {"ack"}), NEW j \in At(s2c', {"ack"})  PROVE i = j
      <4>1. i \in Nat /\ j \in Nat /\ i + 1 = j + 1
        BY <3>1 DEF Handshake, OnePlace
      <4> QED
        BY <4>1
    <3> QED
      BY <3>1, <3>2
  <2> QED
    BY <2>1, <2>2
<1>3. /\ At(Pending', {"ask"}) = At(Pending, {"ask"})
      /\ At(Pending', {"ack"}) = At(Pending, {"ack"})
      /\ At(Pending', {"HEADERS"}) = At(Pending, {"HEADERS"})
  BY <1>1
<1> QED
  BY <1>2, <1>3 DEF Handshake, OnePlace, Acknowledged

LEMMA NoRequestYet ==
  ASSUME Types, Stage, pc = "settings"
  PROVE  At(Pending, {"HEADERS"}) = {}
<1>1. IsSeq(out) /\ IsSeq(c2s) /\ IsSeq(Pending)
  BY PendingType
<1>2. ASSUME NEW q, Without(q, RequestTypes)  PROVE At(q, {"HEADERS"}) = {}
  BY <1>2 DEF Without, RequestTypes, At, Kind
<1>3. At(out, {"HEADERS"}) = {} /\ At(c2s, {"HEADERS"}) = {}
  BY <1>2 DEF Stage
<1>4. \A i \in Nat : i \notin At(Pending, {"HEADERS"})
  BY <1>1, <1>3, AtConcat DEF Pending
<1> QED
  BY <1>1, <1>4, AtType

\* What the client writes when it reads a frame before the request.
LEMMA AnswerFrames ==
  ASSUME Types, s2c # <<>>, HandleSettings(Head(s2c))
  PROVE  LET kind == Kind(Head(s2c))
         IN  /\ IsSeq(out')
             /\ rcv_settings_ack' = (rcv_settings_ack \/ kind = "ack")
             /\ rcv_settings' = (rcv_settings \/ kind = "ask")
             /\ At(out', {"ask"}) = {}
             /\ kind = "ask" => 1 \in At(out', {"ack"})
             /\ \A i \in At(out', {"HEADERS"}) :
                  /\ rcv_settings' /\ rcv_settings_ack'
                  /\ kind = "ask" => 1 < i
<1> DEFINE f == Head(s2c)
           kind == Kind(f)
           settings == f.type = "SETTINGS"
           ack == settings /\ "ACK" \in f.flags
           answer == IF settings /\ ~ ack THEN <<send_http2_settings_ack>> ELSE <<>>
           frames == send_http2_headers(request, MaxPayload)
<1>1. (settings /\ ~ ack <=> kind = "ask") /\ (ack <=> kind = "ack")
  <2>1. ServerFrame(f)
    BY ServerQueueTail DEF Types, ConnectionTypes
  <2>2. f.type # "ask" /\ f.type # "ack"
    BY <2>1 DEF ServerFrame, Header, Frames, FrameTypes
  <2> QED
    BY <2>2 DEF Kind
<1>2. /\ rcv_settings' = (rcv_settings \/ (settings /\ ~ ack))
      /\ rcv_settings_ack' = (rcv_settings_ack \/ ack)
      /\ IF rcv_settings' /\ rcv_settings_ack' THEN out' = answer \o frames ELSE out' = answer
  BY DEF HandleSettings
<1> HIDE DEF settings, ack
<1>3. /\ IsSeq(answer) /\ Len(answer) = (IF kind = "ask" THEN 1 ELSE 0)
      /\ At(answer, {"ask", "HEADERS"}) = {}
      /\ kind = "ask" => 1 \in At(answer, {"ack"})
  <2>1. CASE kind = "ask"
    <3>1. Kind(send_http2_settings_ack) = "ack"
      BY DEF Kind, send_http2_settings_ack, Frame
    <3>2. answer = <<send_http2_settings_ack>>
      BY <1>1, <2>1
    <3> QED
      BY <2>1, <3>1, <3>2, SeqOne DEF At
  <2>2. CASE kind # "ask"
    <3>1. answer = <<>>
      BY <1>1, <2>2
    <3> QED
      BY <2>2, <3>1, SeqEmpty, AtEmpty
  <2> QED
    BY <2>1, <2>2
<1> HIDE DEF answer
<1>4. IsSeq(frames) /\ At(frames, {"ask", "ack"}) = {}
  <2>1. request \in Seq(Byte)
    BY RequestsAssumption DEF Types, ClientTypes
  <2>2. /\ ClientQueue(frames)
        /\ \A i \in 1 .. Len(frames) :
             frames[i].type = IF i = 1 THEN "HEADERS" ELSE "CONTINUATION"
    BY <2>1, RequestFrames
  <2> HIDE DEF frames
  <2> QED
    BY <2>2 DEF At, Kind, ClientQueue
<1> HIDE DEF frames, kind
<1>5. CASE out' = answer
  <2>1. At(answer, {"ask"}) = {} /\ At(answer, {"HEADERS"}) = {}
    BY <1>3 DEF At
  <2> QED
    BY <1>1, <1>2, <1>3, <1>5, <2>1 DEF kind, f
<1>6. CASE rcv_settings' /\ rcv_settings_ack' /\ out' = answer \o frames
  <2>1. IsSeq(answer \o frames) /\ Len(answer) \in Nat
    BY <1>3, <1>4, SeqConcat
  <2>2. At(answer, {"ask"}) = {} /\ At(answer, {"HEADERS"}) = {} /\ At(frames, {"ask"}) = {}
    BY <1>3, <1>4 DEF At
  <2>3. \A i \in Nat : i \notin At(answer \o frames, {"ask"})
    BY <1>3, <1>4, <2>2, AtConcat
  <2>4. At(answer \o frames, {"ask"}) = {}
    BY <2>1, <2>3, AtType
  <2>5. kind = "ask" => 1 \in At(answer \o frames, {"ack"})
    BY <1>3, <1>4, AtConcat
  <2>6. ASSUME NEW i \in At(answer \o frames, {"HEADERS"}), kind = "ask"  PROVE 1 < i
    <3>1. i \in Nat
      BY <2>1, AtType
    <3>2. i - Len(answer) \in At(frames, {"HEADERS"})
      BY <1>3, <1>4, <2>2, <3>1, AtConcat
    <3>3. i - 1 \in Nat \ {0}
      BY <1>3, <1>4, <2>6, <3>2, AtType
    <3> QED
      BY <3>1, <3>3
  <2> QED
    BY <1>1, <1>2, <1>6, <2>1, <2>4, <2>5, <2>6 DEF kind, f
<1> QED
  BY <1>2, <1>5, <1>6

LEMMA ServerStays == ASSUME Types, ServerStep  PROVE s_closed => s_closed'
BY ServerSends DEF ServerReceive, SendsFrame, Types, ConnectionTypes

LEMMA HandshakeInductive == Types /\ Stage /\ Handshake /\ [Next]_vars => Handshake'
<1> SUFFICES ASSUME Types, Stage, Handshake, [Next]_vars  PROVE Handshake'
  OBVIOUS
<1>0. /\ IsSeq(Pending) /\ IsSeq(s2c) /\ IsSeq(out) /\ IsSeq(c2s)
      /\ Len(Pending) \in Nat /\ Len(s2c) \in Nat
  BY PendingType, SeqConcat
<1>1. ASSUME s_closed'  PROVE Handshake'
  BY <1>1 DEF Handshake
<1>2. CASE ClientStep /\ UNCHANGED server
  <2>1. /\ s_closed' = s_closed /\ pc' # "connect" /\ UNCHANGED <<s_acks, s_acked>>
        /\ ~ s_closed => Opens \/ SendsNothing \/ Answers \/ GivesCredit
    BY <1>2, ClientSends DEF server
  <2> SUFFICES ASSUME ~ s_closed  PROVE Handshake'
    BY <1>1, <2>1
  <2>2. OnePlace /\ Acknowledged
    BY DEF Handshake
  <2>3. CASE Opens
    <3>1. Kind(Preface) = "PREFACE" /\ Kind(send_http2_settings) = "ask"
      BY DEF Kind, Preface, send_http2_settings, Frame
    <3>2. /\ At(Pending', {"ask"}) = {2}
          /\ At(Pending', {"HEADERS"}) = {}
      BY <2>3, <3>1, SeqTwo DEF Opens, At
    <3> QED
      BY <2>1, <2>2, <2>3, <3>2 DEF Opens, Handshake, OnePlace, Acknowledged
  <2>4. CASE SendsNothing
    <3>1. Pending' = Pending \o <<>>
      BY <1>0, <2>4, NothingMore DEF SendsNothing
    <3> QED
      BY <2>1, <2>4, <3>1, SeqEmpty, AtEmpty, HandshakeKept DEF SendsNothing
  <2>5. CASE GivesCredit
    <3>1. IsSeq(out') /\ At(out', {"ask", "ack", "HEADERS"}) = {}
      <4>1. \A sid, n : /\ Kind(send_http2_goaway(sid)) = "GOAWAY"
                        /\ Kind(send_http2_window_update(sid, n)) = "WINDOW_UPDATE"
        BY DEF Kind, send_http2_goaway, send_http2_window_update, Frame
      <4>2. CASE out' = <<send_http2_goaway(stream_id)>>
        BY <4>1, <4>2, SeqOne DEF At
      <4>3. CASE out' = WindowUpdates(length(Head(s2c)))
        BY <4>1, <4>3, SeqTwo DEF At, WindowUpdates
      <4> QED
        BY <2>5, <4>2, <4>3 DEF GivesCredit
    <3> QED
      BY <2>1, <2>5, <3>1, HandshakeKept DEF GivesCredit, Reads
  <2>6. CASE Answers
    <3> DEFINE kind == Kind(Head(s2c))
               r == out'
    <3>1. /\ pc = "settings" /\ s2c # <<>> /\ s2c' = Tail(s2c)
          /\ Pending' = Pending \o r
          /\ HandleSettings(Head(s2c))
      BY <2>6 DEF Answers, Reads
    <3>2. /\ IsSeq(r)
          /\ rcv_settings_ack' = (rcv_settings_ack \/ kind = "ack")
          /\ rcv_settings' = (rcv_settings \/ kind = "ask")
          /\ At(r, {"ask"}) = {}
          /\ kind = "ask" => 1 \in At(r, {"ack"})
          /\ \A i \in At(r, {"HEADERS"}) :
               rcv_settings' /\ rcv_settings_ack' /\ (kind = "ask" => 1 < i)
      BY <3>1, AnswerFrames
    <3>3. /\ At(Pending', {"ask"}) = At(Pending, {"ask"})
          /\ \A i \in Nat : i \in At(Pending', {"HEADERS"}) => i - Len(Pending) \in At(r, {"HEADERS"})
          /\ \A i \in Nat : i \in At(Pending', {"ack"}) <=>
               i \in At(Pending, {"ack"}) \/ i - Len(Pending) \in At(r, {"ack"})
          /\ \A i \in At(Pending, {"ack"}) : i \in Nat /\ i <= Len(Pending)
      <4>1. \A i \in Nat : i \in At(Pending', {"ask"}) <=> i \in At(Pending, {"ask"})
        BY <1>0, <3>1, <3>2, AtConcat
      <4>2. IsSeq(Pending')
        BY <1>0, <3>1, <3>2, SeqConcat
      <4>3. \A i : (i \in At(Pending', {"ask"}) => i \in Nat) /\ (i \in At(Pending, {"ask"}) => i \in Nat)
        BY <1>0, <4>2, AtType
      <4>4. \A i \in Nat : i \in At(Pending', {"HEADERS"}) => i - Len(Pending) \in At(r, {"HEADERS"})
        BY <1>0, <3>1, <3>2, AtConcat, NoRequestYet
      <4>5. \A i \in At(Pending, {"ack"}) : i \in Nat /\ i <= Len(Pending)
        BY <1>0, AtType
      <4> HIDE DEF r
      <4>6. \A i \in Nat : i \in At(Pending', {"ack"}) <=>
               i \in At(Pending, {"ack"}) \/ i - Len(Pending) \in At(r, {"ack"})
        BY <1>0, <3>1, <3>2, AtConcat
      <4> QED
        BY <4>1, <4>3, <4>4, <4>5, <4>6
    <3> HIDE DEF r, kind
    <3>4. kind = "ack" <=> 1 \in At(s2c, {"ack"})
      BY <1>0, <3>1, AtTail DEF kind
    <3>5. \A i : i \in At(s2c', {"ack"}) => i \in Nat \ {0} /\ i + 1 \in At(s2c, {"ack"})
      BY <1>0, <3>1, AtTail
    <3>6. /\ \A i, j \in At(s2c', {"ack"}) : i = j
          /\ At(s2c, {"ack"}) = {} => At(s2c', {"ack"}) = {}
          /\ kind = "ack" => At(s2c', {"ack"}) = {}
      <4>1. ASSUME NEW i \in At(s2c', {"ack"}), NEW j \in At(s2c', {"ack"})  PROVE i = j
        <5>1. i \in Nat /\ j \in Nat /\ i + 1 = j + 1
          BY <2>2, <3>5 DEF OnePlace
        <5> QED
          BY <5>1
      <4>2. ASSUME NEW i \in At(s2c', {"ack"}), kind = "ack"  PROVE FALSE
        <5>1. i \in Nat \ {0} /\ i + 1 = 1
          BY <2>2, <3>4, <3>5, <4>2 DEF OnePlace
        <5> QED
          BY <5>1
      <4> QED
        BY <3>5, <4>1, <4>2
    <3>7. OnePlace'
      BY <2>1, <2>2, <3>2, <3>3, <3>4, <3>6 DEF OnePlace
    <3>8. kind = "ask" => Len(Pending) + 1 \in At(Pending', {"ack"})
      <4>1. Len(Pending) + 1 \in Nat /\ (Len(Pending) + 1) - Len(Pending) = 1
        BY <1>0
      <4> QED
        BY <3>2, <3>3, <4>1
    <3>9. \A i \in At(Pending, {"ack"}) : i \in At(Pending', {"ack"})
      BY <3>3
    <3>10. ASSUME NEW i \in At(Pending', {"HEADERS"})
           PROVE  rcv_settings_ack' /\ (s_acked' \/ \E j \in At(Pending', {"ack"}) : j < i)
      <4>0. IsSeq(Pending')
        BY <1>0, <3>1, <3>2, SeqConcat
      <4>1. i \in Nat /\ i - Len(Pending) \in At(r, {"HEADERS"})
        BY <3>3, <4>0, AtType
      <4>2. i - Len(Pending) \in Nat \ {0}
        BY <3>2, <4>1, AtType
      <4>3. rcv_settings' /\ rcv_settings_ack' /\ (kind = "ask" => 1 < i - Len(Pending))
        BY <3>2, <4>1
      <4>4. CASE kind = "ask"
        <5>1. Len(Pending) + 1 < i
          BY <1>0, <4>1, <4>3, <4>4
        <5> QED
          BY <3>8, <4>3, <4>4, <5>1
      <4>5. CASE rcv_settings /\ s_acked
        BY <2>1, <4>3, <4>5
      <4>6. ASSUME NEW j \in At(Pending, {"ack"})
            PROVE  j \in At(Pending', {"ack"}) /\ j < i
        <5>1. j \in Nat /\ j <= Len(Pending)
          BY <3>3
        <5> QED
          BY <1>0, <3>9, <4>1, <4>2, <5>1
      <4> QED
        BY <2>2, <3>1, <3>2, <4>3, <4>4, <4>5, <4>6 DEF Acknowledged
    <3>11. Acknowledged'
      BY <2>1, <2>2, <3>1, <3>2, <3>8, <3>9, <3>10 DEF Acknowledged
    <3> QED
      BY <3>7, <3>11 DEF Handshake
  <2> QED
    BY <2>1, <2>3, <2>4, <2>5, <2>6
<1>3. CASE ServerStep /\ UNCHANGED client
  <2> SUFFICES ASSUME ~ s_closed, ~ s_closed'  PROVE OnePlace' /\ Acknowledged'
    BY <1>3, ServerStays DEF Handshake
  <2>1. OnePlace /\ Acknowledged /\ UNCHANGED <<pc, out, rcv_settings, rcv_settings_ack>>
    BY <1>3 DEF Handshake, client
  <2>2. s_acks \in Nat
    BY DEF Types, ServerTypes
  <2>3. CASE ServerReceive
    <3> DEFINE f == Head(c2s)
    <3>1. /\ c2s # <<>> /\ c2s' = Tail(c2s) /\ s2c' = s2c
          /\ s_acks' = IF f.type = "SETTINGS" /\ "ACK" \notin f.flags THEN s_acks + 1 ELSE s_acks
          /\ s_acked' = (s_acked \/ (f.type = "SETTINGS" /\ "ACK" \in f.flags))
      BY <2>3 DEF ServerReceive
    <3>2. Pending # <<>> /\ Pending' = Tail(Pending) /\ Head(Pending) = f
      BY <1>0, <2>1, <3>1, TakeOff DEF Pending
    <3>3. /\ s_acks' = IF Kind(f) = "ask" THEN s_acks + 1 ELSE s_acks
          /\ s_acked' = (s_acked \/ Kind(f) = "ack")
      <4>1. ClientFrame(f)
        BY <3>1, ClientQueueTail DEF Types, ConnectionTypes
      <4>2. f.type # "ask" /\ f.type # "ack"
        BY <4>1 DEF ClientFrame, Header, Frames, FrameTypes
      <4> HIDE DEF f
      <4> QED
        BY <3>1, <4>2 DEF Kind
    <3> HIDE DEF f
    <3>4. ASSUME NEW kinds
          PROVE  /\ \A i : i \in At(Pending', kinds) <=> i \in Nat \ {0} /\ i + 1 \in At(Pending, kinds)
                 /\ 1 \in At(Pending, kinds) <=> Kind(f) \in kinds
      BY <1>0, <3>2, AtTail
    <3>5. Kind(f) = "ask" <=> 1 \in At(Pending, {"ask"})
      BY <3>4
    <3>6. Kind(f) = "ack" <=> 1 \in At(Pending, {"ack"})
      BY <3>4
    <3>7. \A i : i \in At(Pending', {"ask"}) => i \in Nat \ {0} /\ i + 1 \in At(Pending, {"ask"})
      BY <3>4
    <3>8. /\ \A i, j \in At(Pending', {"ask"}) : i = j
          /\ At(Pending, {"ask"}) = {} => At(Pending', {"ask"}) = {}
          /\ Kind(f) = "ask" => At(Pending', {"ask"}) = {}
      <4>1. ASSUME NEW i \in At(Pending', {"ask"}), NEW j \in At(Pending', {"ask"})  PROVE i = j
        <5>1. i \in Nat /\ j \in Nat /\ i + 1 = j + 1
          BY <2>1, <3>7 DEF OnePlace
        <5> QED
          BY <5>1
      <4>2. ASSUME NEW i \in At(Pending', {"ask"}), Kind(f) = "ask"  PROVE FALSE
        <5>1. i \in Nat \ {0} /\ i + 1 = 1
          BY <2>1, <3>5, <3>7, <4>2 DEF OnePlace
        <5> QED
          BY <5>1
      <4> QED
        BY <3>7, <4>1, <4>2
    <3>9. OnePlace'
      <4>1. CASE Kind(f) = "ask"
        <5>1. s_acks = 0 /\ At(s2c, {"ack"}) = {} /\ ~ rcv_settings_ack /\ pc # "connect"
          BY <2>1, <3>5, <4>1 DEF OnePlace
        <5>2. s_acks' = 1
          BY <3>3, <4>1, <5>1
        <5> QED
          BY <2>1, <3>1, <3>8, <4>1, <5>1, <5>2 DEF OnePlace
      <4>2. CASE Kind(f) # "ask"
        BY <2>1, <3>1, <3>3, <3>8, <4>2 DEF OnePlace
      <4> QED
        BY <4>1, <4>2
    <3>10. \A j \in At(Pending, {"ack"}) : j = 1 \/ (j \in Nat /\ j - 1 \in At(Pending', {"ack"}))
      <4>1. ASSUME NEW j \in At(Pending, {"ack"}), j # 1
            PROVE  j \in Nat /\ j - 1 \in At(Pending', {"ack"})
        <5>1. j \in Nat \ {0}
          BY <1>0, AtType
        <5>2. j - 1 \in Nat \ {0} /\ (j - 1) + 1 = j
          BY <4>1, <5>1
        <5> QED
          BY <3>4, <5>1, <5>2
      <4> QED
        BY <4>1
    <3>11. At(Pending, {"ack"}) # {} => s_acked' \/ At(Pending', {"ack"}) # {}
      BY <3>3, <3>6, <3>10
    <3>12. ASSUME NEW i \in At(Pending', {"HEADERS"})
           PROVE  rcv_settings_ack /\ (s_acked' \/ \E j \in At(Pending', {"ack"}) : j < i)
      <4>1. i \in Nat \ {0} /\ i + 1 \in At(Pending, {"HEADERS"})
        BY <3>4
      <4>2. ASSUME NEW j \in At(Pending, {"ack"}), j < i + 1, j # 1
            PROVE  j - 1 \in At(Pending', {"ack"}) /\ j - 1 < i
        BY <3>10, <4>1, <4>2
      <4> QED
        BY <2>1, <3>3, <3>6, <4>1, <4>2 DEF Acknowledged
    <3>13. Acknowledged'
      BY <2>1, <3>3, <3>11, <3>12 DEF Acknowledged
    <3> QED
      BY <3>9, <3>13
  <2>4. ASSUME NEW f, SendsFrame(f)  PROVE OnePlace' /\ Acknowledged'
    <3>1. /\ ServerFrame(f) /\ s2c' = Append(s2c, f) /\ Pending' = Pending /\ s_acked' = s_acked
          /\ Kind(f) = "ack" => s_acks > 0 /\ s_acks' = s_acks - 1
          /\ Kind(f) # "ack" => s_acks' = s_acks
      BY <2>1, <2>4 DEF SendsFrame, Asked, Pending
    <3>2. \A i : i \in At(s2c', {"ack"}) =>
                   i \in At(s2c, {"ack"}) \/ (Kind(f) = "ack" /\ i = Len(s2c) + 1)
      <4>1. /\ Len(s2c') = Len(s2c) + 1 /\ s2c'[Len(s2c) + 1] = f
            /\ \A i \in 1 .. Len(s2c) : s2c'[i] = s2c[i]
        BY <1>0, <3>1, SeqAppend
      <4>2. \A i \in 1 .. Len(s2c) + 1 : i = Len(s2c) + 1 \/ i \in 1 .. Len(s2c)
        BY <1>0
      <4> QED
        BY <4>1, <4>2 DEF At
    <3>3. OnePlace'
      <4>1. CASE Kind(f) = "ack"
        <5>1. s_acks = 1 /\ s_acks' = 0
          BY <2>1, <3>1, <4>1 DEF OnePlace
        <5> QED
          BY <2>1, <3>1, <3>2, <5>1 DEF OnePlace
      <4>2. CASE Kind(f) # "ack"
        BY <2>1, <3>1, <3>2, <4>2 DEF OnePlace
      <4> QED
        BY <4>1, <4>2
    <3> QED
      BY <2>1, <3>1, <3>3 DEF Acknowledged
  <2> QED
    BY <1>3, <2>3, <2>4, ServerSends
<1>4. CASE UNCHANGED vars
  <2>1. Pending' = Pending
    BY <1>4 DEF vars, client, connection, Pending
  <2> QED
    BY <1>4, <2>1
    DEF vars, client, connection, server, Handshake, OnePlace, Acknowledged
<1> QED
  BY <1>2, <1>3, <1>4 DEF Next, Terminated

\* Whatever the server does besides, and however the connection interleaves the
\* two directions, the request is not on the wire before each side has seen the
\* other's SETTINGS and the acknowledgement of its own (httpv2.cc:85-106).
THEOREM HandshakeFirstAlways == Spec => HandshakeFirst
<1>1. Init => IInv /\ Handshake
  BY TypesInitially, StageInitially, WindowsInitially, HandshakeInitially DEF IInv
<1>2. IInv /\ Handshake /\ [Next]_vars => (IInv /\ Handshake)'
  BY TypesInductive, StageInductive, WindowsInductive, HandshakeInductive DEF IInv
<1>3. IInv /\ Handshake /\ [Next]_vars
        => [s_state # s_state' /\ s_state = "idle" => s_acked /\ s_acks = 0]_vars
  <2> SUFFICES ASSUME Types, Stage, Handshake, [Next]_vars, s_state # s_state', s_state = "idle"
               PROVE  s_acked /\ s_acks = 0
    BY DEF IInv
  <2>1. ServerStep /\ ~ UNCHANGED vars
    BY DEF Next, Terminated, vars, server
  <2>2. ServerReceive
    BY <2>1, ServerSends DEF SendsFrame, Asked
  <2> DEFINE f == Head(c2s)
  <2>3. c2s # <<>> /\ ~ s_closed /\ f.type = "HEADERS"
    BY <2>2 DEF ServerReceive, Legal, RequestFragment
  <2>4. IsSeq(Pending) /\ IsSeq(c2s) /\ IsSeq(out)
    BY PendingType
  <2>5. Pending # <<>> /\ Head(Pending) = f
    BY <2>3, <2>4, TakeOff DEF Pending
  <2>6. 1 \in At(Pending, {"HEADERS"})
    BY <2>3, <2>4, <2>5, AtTail DEF Kind
  <2>7. ~ \E j \in At(Pending, {"ack"}) : j < 1
    BY <2>4, AtType
  <2> QED
    BY <2>3, <2>6, <2>7 DEF Handshake, OnePlace, Acknowledged
<1> QED
  BY <1>1, <1>2, <1>3, PTL DEF Spec, HandshakeFirst

-----------------------------------------------------------------------------
\* The request on its way.

ControlTypes == {"SETTINGS", "GOAWAY", "WINDOW_UPDATE"}

Open(f) == f.type = "HEADERS" /\ "END_HEADERS" \notin f.flags

\* The request begins at position i of q, in one frame or two.
Whole(q, i) ==
  IF "END_HEADERS" \in q[i].flags
    THEN q[i].payload = request
    ELSE /\ i < Len(q) /\ q[i + 1].type = "CONTINUATION"
         /\ q[i].payload \o q[i + 1].payload = request

\* A CONTINUATION frame at position i of q continues what is before it.
Continues(q, i) ==
  /\ "END_HEADERS" \in q[i].flags
  /\ \/ i = 1 /\ s_state = "continuation"
     \/ i > 1 /\ Open(q[i - 1])

\* The order of the frames the server has yet to receive, q.
InOrder(q) ==
  /\ \A i \in 1 .. Len(q) : q[i].type \in ControlTypes \cup RequestTypes \cup {"PREFACE"}
  /\ \A i \in 1 .. Len(q) : q[i].type = "PREFACE" => i = 1 /\ s_state = "preface"
  /\ s_state = "preface" /\ q # <<>> => q[1].type = "PREFACE"
  /\ \A i, j \in 1 .. Len(q) : q[i].type = "HEADERS" /\ q[j].type = "HEADERS" => i = j
  /\ \A i \in 1 .. Len(q) :
       q[i].type = "HEADERS" => s_state \in {"preface", "idle"} /\ Whole(q, i)
  /\ \A i \in 1 .. Len(q) : q[i].type = "CONTINUATION" => Continues(q, i)
  /\ s_state = "continuation" =>
       q # <<>> /\ q[1].type = "CONTINUATION" /\ s_block \o q[1].payload = request

Requesting ==
  /\ s_state \in {"preface", "idle"} => s_block = <<>>
  /\ s_state = "requested" => s_block = request
  /\ pc = "connect" => s_state = "preface"
  /\ ~ s_closed =>
       /\ InOrder(Pending)
       /\ pc \notin {"connect", "failed"} /\ s_state = "preface" => Pending # <<>>

LEMMA RequestingInitially == Init => Requesting
<1> SUFFICES ASSUME Init  PROVE Requesting
  OBVIOUS
<1>1. /\ pc = "connect" /\ out = <<>> /\ c2s = <<>>
      /\ s_state = "preface" /\ s_block = <<>>
  BY DEF Init, ClientInit, ConnectionInit, ServerInit
<1>2. Pending = <<>> /\ Len(<<>>) = 0
  BY <1>1, SeqEmpty, NothingMore DEF Pending
<1> QED
  BY <1>1, <1>2 DEF Requesting, InOrder

\* The case send_http2_headers gets right: at most two frames.  With a third one
\* every CONTINUATION carries END_HEADERS.
ShortRequests == \A r \in Requests : Len(r) <= 2 * MaxPayload

\* The frames of such a request.
LEMMA ShortFrames ==
  ASSUME Types, ShortRequests
  PROVE  \E r : /\ r = send_http2_headers(request, MaxPayload)
                /\ IsSeq(r) /\ r # <<>> /\ Len(r) \in {1, 2} /\ r[1].type = "HEADERS"
                /\ IF "END_HEADERS" \in r[1].flags
                     THEN Len(r) = 1 /\ r[1].payload = request
                     ELSE /\ Len(r) = 2 /\ r[2].type = "CONTINUATION"
                          /\ "END_HEADERS" \in r[2].flags
                          /\ r[1].payload \o r[2].payload = request
<1>0. PICK M \in Nat \ {0}, L \in Nat : M = MaxPayload /\ L = Len(request) /\ L <= 2 * M
  <2>1. request \in Requests /\ Len(request) \in Nat /\ MaxPayload \in Nat \ {0}
    BY RequestsAssumption DEF Types, ClientTypes
  <2> QED
    BY <2>1 DEF ShortRequests
<1>1. request \in Seq(Byte)
  BY RequestsAssumption DEF Types, ClientTypes
<1>2. CASE L <= M
  <2> DEFINE first == Frame("HEADERS", {"END_HEADERS", "END_STREAM"}, stream_id, request)
             r == <<first>>
  <2>1. r = send_http2_headers(request, MaxPayload)
    BY <1>0, <1>2 DEF send_http2_headers
  <2>2. first.type = "HEADERS" /\ "END_HEADERS" \in first.flags /\ first.payload = request
    BY DEF Frame
  <2> HIDE DEF first
  <2>3. IsSeq(r) /\ Len(r) = 1 /\ r[1] = first /\ r # <<>>
    BY SeqOne
  <2> HIDE DEF r
  <2> QED
    BY <2>1, <2>2, <2>3
<1>3. CASE ~ (L <= M)
  <2> DEFINE first == Frame("HEADERS", {"END_STREAM"}, stream_id, SubSeq(request, 1, M))
             len(offset) == IF L - offset < M THEN L - offset ELSE M
             continuation(offset) ==
               Frame("CONTINUATION", IF len(offset) <= M THEN {"END_HEADERS"} ELSE {},
                     stream_id, SubSeq(request, offset + 1, offset + len(offset)))
             count == (L - 1) \div M
             rest == [i \in 1 .. count |-> continuation(i * M)]
             second == Frame("CONTINUATION", {"END_HEADERS"}, stream_id,
                             SubSeq(request, M + 1, L))
             r == <<first, second>>
  <2>1. send_http2_headers(request, MaxPayload) = <<first>> \o rest
    BY <1>0, <1>3, Zenon DEF send_http2_headers
  <2>2. count = 1
    BY <1>0, <1>3
  <2>3. continuation(M) = second
    <3>1. len(M) <= M /\ M + len(M) = L
      BY <1>0, <1>3
    <3> HIDE DEF len
    <3> QED
      BY <3>1
  <2>4. rest = <<second>>
    <3>1. 1 * M = M
      OBVIOUS
    <3> HIDE DEF count, continuation, second
    <3> QED
      BY <2>2, <2>3, <3>1
  <2>5. /\ first.type = "HEADERS" /\ "END_HEADERS" \notin first.flags
        /\ first.payload = SubSeq(request, 1, M)
        /\ second.type = "CONTINUATION" /\ "END_HEADERS" \in second.flags
        /\ second.payload = SubSeq(request, M + 1, L)
    BY DEF Frame
  <2>6. SubSeq(request, 1, M) \o SubSeq(request, M + 1, L) = request
    <3>1. SubSeq(request, 1, M) \o SubSeq(request, M + 1, L) = SubSeq(request, 1, L)
      <4>1. M \in 1 - 1 .. Len(request) /\ L \in M .. Len(request) /\ 1 \in 1 .. Len(request) + 1
        BY <1>0, <1>3
      <4> QED
        BY <1>1, <4>1, ConcatAdjacentSubSeq
    <3>2. SubSeq(request, 1, L) = request
      BY <1>0, <1>1, SubSeqFull
    <3> QED
      BY <3>1, <3>2
  <2> HIDE DEF first, second, rest
  <2>7. r = send_http2_headers(request, MaxPayload)
    BY <2>1, <2>4
  <2>8. IsSeq(r) /\ Len(r) = 2 /\ r[1] = first /\ r[2] = second /\ r # <<>>
    BY SeqTwo
  <2> HIDE DEF r
  <2> QED
    BY <2>5, <2>6, <2>7, <2>8
<1> QED
  BY <1>2, <1>3

\* What is written after the frames that wait.
LEMMA InOrderControl ==
  ASSUME NEW q, IsSeq(q), InOrder(q), s_state = "preface" => q # <<>>,
         NEW r, IsSeq(r), \A i \in 1 .. Len(r) : r[i].type \in ControlTypes
  PROVE  InOrder(q \o r)
<1>1. PICK m \in Nat, n \in Nat : m = Len(q) /\ n = Len(r)
  BY SeqConcat
<1> DEFINE p == q \o r
<1>2. /\ IsSeq(p) /\ Len(p) = m + n
      /\ \A i \in 1 .. m : p[i] = q[i]
      /\ \A i \in 1 .. n : p[m + i] = r[i]
  BY <1>1, SeqConcat
<1> HIDE DEF p
<1>3. ASSUME NEW i \in 1 .. m + n  PROVE p[i].type \in ControlTypes \/ i \in 1 .. m
  <2>1. CASE i \notin 1 .. m
    <3>1. i - m \in 1 .. n /\ m + (i - m) = i
      BY <2>1
    <3>2. p[i] = r[i - m]
      BY <1>2, <3>1
    <3> QED
      BY <1>1, <3>1, <3>2
  <2> QED
    BY <2>1
<1>4. /\ "PREFACE" \notin ControlTypes /\ "HEADERS" \notin ControlTypes
      /\ "CONTINUATION" \notin ControlTypes
  BY DEF ControlTypes
<1>5. \A i \in 1 .. m + n : p[i].type \in ControlTypes \cup RequestTypes \cup {"PREFACE"}
  BY <1>1, <1>2, <1>3 DEF InOrder
<1>6. q # <<>> => m > 0 /\ p[1] = q[1]
  <2>1. q # <<>> => m \in Nat \ {0}
    BY <1>1, SeqTail
  <2> QED
    BY <1>2, <2>1
<1>7. ASSUME NEW i \in 1 .. m, p[i].type = "HEADERS"
      PROVE  s_state \in {"preface", "idle"} /\ Whole(p, i)
  <2>1. p[i] = q[i] /\ s_state \in {"preface", "idle"} /\ Whole(q, i)
    BY <1>1, <1>2, <1>7 DEF InOrder
  <2>2. i < m => i + 1 \in 1 .. m /\ p[i + 1] = q[i + 1] /\ i < m + n
    BY <1>2
  <2> QED
    BY <1>1, <1>2, <2>1, <2>2 DEF Whole
<1>8. ASSUME NEW i \in 1 .. m, p[i].type = "CONTINUATION"  PROVE Continues(p, i)
  <2>1. p[i] = q[i] /\ Continues(q, i)
    BY <1>1, <1>2, <1>8 DEF InOrder
  <2>2. i > 1 => p[i - 1] = q[i - 1]
    <3>1. i > 1 => i - 1 \in 1 .. m
      OBVIOUS
    <3> QED
      BY <1>2, <3>1
  <2> QED
    BY <2>1, <2>2 DEF Continues
<1>9. q = <<>> \/ q # <<>>
  OBVIOUS
<1>10. \A i \in 1 .. m : q[i] = p[i]
  BY <1>2
<1>11. \A i \in 1 .. m + n : p[i].type = "PREFACE" => i = 1 /\ s_state = "preface"
  BY <1>1, <1>3, <1>4, <1>10 DEF InOrder
<1>12. \A i, j \in 1 .. m + n : p[i].type = "HEADERS" /\ p[j].type = "HEADERS" => i = j
  BY <1>1, <1>3, <1>4, <1>10 DEF InOrder
<1>13. \A i \in 1 .. m + n :
         /\ p[i].type = "HEADERS" => s_state \in {"preface", "idle"} /\ Whole(p, i)
         /\ p[i].type = "CONTINUATION" => Continues(p, i)
  BY <1>3, <1>4, <1>7, <1>8
<1>14. s_state = "preface" => p[1].type = "PREFACE"
  BY <1>6 DEF InOrder
<1>15. s_state = "continuation" =>
         p # <<>> /\ p[1].type = "CONTINUATION" /\ s_block \o p[1].payload = request
  <2>1. m > 0 => p # <<>>
    BY <1>2, SeqEmpty
  <2> QED
    BY <1>6, <2>1 DEF InOrder
<1> QED
  BY <1>2, <1>5, <1>11, <1>12, <1>13, <1>14, <1>15 DEF InOrder, p

LEMMA InOrderRequest ==
  ASSUME NEW q, IsSeq(q), InOrder(q), s_state = "preface" => q # <<>>,
         Without(q, RequestTypes), s_state \in {"preface", "idle"},
         NEW r, IsSeq(r), Len(r) \in {1, 2}, r[1].type = "HEADERS",
         IF "END_HEADERS" \in r[1].flags
           THEN Len(r) = 1 /\ r[1].payload = request
           ELSE /\ Len(r) = 2 /\ r[2].type = "CONTINUATION"
                /\ "END_HEADERS" \in r[2].flags
                /\ r[1].payload \o r[2].payload = request
  PROVE  InOrder(q \o r)
<1>0. \/ "END_HEADERS" \in r[1].flags /\ Len(r) = 1 /\ r[1].payload = request
      \/ /\ Open(r[1]) /\ Len(r) = 2 /\ r[2].type = "CONTINUATION"
         /\ "END_HEADERS" \in r[2].flags /\ r[1].payload \o r[2].payload = request
  BY DEF Open
<1>1. PICK m \in Nat, n \in Nat : m = Len(q) /\ n = Len(r)
  BY SeqConcat
<1> DEFINE p == q \o r
<1>2. /\ IsSeq(p) /\ Len(p) = m + n
      /\ \A i \in 1 .. m : p[i] = q[i]
      /\ \A i \in 1 .. n : p[m + i] = r[i]
  BY <1>1, SeqConcat
<1> HIDE DEF p
<1>3. /\ n \in {1, 2} /\ p[m + 1] = r[1]
      /\ n = 2 => p[m + 2] = r[2]
  BY <1>1, <1>2
<1>4. /\ \A i \in 1 .. m : p[i].type \notin {"HEADERS", "CONTINUATION"}
      /\ p[m + 1].type = "HEADERS"
      /\ n = 2 => p[m + 2].type = "CONTINUATION"
  <2>1. n = 2 => r[2].type = "CONTINUATION"
    BY <1>0, <1>1
  <2> QED
    BY <1>1, <1>2, <1>3, <2>1 DEF Without, RequestTypes
<1>5. \A i \in 1 .. m + n : i \in 1 .. m \/ i = m + 1 \/ (n = 2 /\ i = m + 2)
  BY <1>3
<1>6. \A i \in 1 .. m + n : p[i].type \in ControlTypes \cup RequestTypes \cup {"PREFACE"}
  BY <1>1, <1>2, <1>4, <1>5 DEF InOrder, RequestTypes
<1>7. \A i \in 1 .. m + n : p[i].type = "PREFACE" => i = 1 /\ s_state = "preface"
  BY <1>1, <1>2, <1>4, <1>5 DEF InOrder
<1>8. s_state = "preface" => p[1].type = "PREFACE"
  <2>1. q # <<>> => m > 0
    BY <1>1, SeqTail
  <2> QED
    BY <1>2, <2>1 DEF InOrder
<1>9. \A i \in 1 .. m + n : p[i].type = "HEADERS" => i = m + 1
  BY <1>4, <1>5
<1>10. Whole(p, m + 1)
  <2>1. CASE "END_HEADERS" \in r[1].flags /\ Len(r) = 1 /\ r[1].payload = request
    BY <1>3, <2>1 DEF Whole
  <2>2. CASE /\ Open(r[1]) /\ Len(r) = 2 /\ r[2].type = "CONTINUATION"
             /\ r[1].payload \o r[2].payload = request
    <3>1. n = 2 /\ (m + 1) + 1 = m + 2 /\ m + 1 < m + n
      BY <1>1, <2>2
    <3>2. m + 1 < Len(p)
      BY <1>2, <3>1
    <3>3. p[(m + 1) + 1] = r[2] /\ "END_HEADERS" \notin p[m + 1].flags
      BY <1>3, <2>2, <3>1 DEF Open
    <3> QED
      BY <1>3, <2>2, <3>2, <3>3 DEF Whole
  <2> QED
    BY <1>0, <2>1, <2>2
<1>11. ASSUME NEW i \in 1 .. m + n, p[i].type = "CONTINUATION"  PROVE Continues(p, i)
  <2>1. n = 2 /\ i = m + 2
    BY <1>4, <1>5, <1>11
  <2>2. i > 1 /\ i - 1 = m + 1
    BY <2>1
  <2>3. Open(r[1]) /\ "END_HEADERS" \in r[2].flags
    BY <1>0, <1>1, <2>1
  <2> QED
    BY <1>3, <2>1, <2>2, <2>3 DEF Continues
<1>12. s_state # "continuation"
  OBVIOUS
<1> QED
  BY <1>2, <1>6, <1>7, <1>8, <1>9, <1>10, <1>11, <1>12 DEF InOrder, p

LEMMA InOrderOpening ==
  ASSUME s_state = "preface"
  PROVE  InOrder(<<Preface, send_http2_settings>>)
<1> DEFINE p == <<Preface, send_http2_settings>>
<1>1. Len(p) = 2 /\ p[1].type = "PREFACE" /\ p[2].type = "SETTINGS"
  BY SeqTwo DEF Preface, send_http2_settings, Frame
<1> HIDE DEF p
<1>2. \A i \in 1 .. 2 : i = 1 \/ i = 2
  OBVIOUS
<1> QED
  BY <1>1, <1>2 DEF InOrder, p, ControlTypes

\* What the server does with the frame it takes off.
LEMMA RequestReceived ==
  ASSUME Types, Stage, Requesting, ServerReceive, ~ s_closed', UNCHANGED <<out, request, pc>>
  PROVE  Requesting'
<1> DEFINE q == Pending
           f == Head(c2s)
<1>0. /\ IsSeq(q) /\ IsSeq(c2s) /\ IsSeq(out)
  BY PendingType
<1>1. /\ c2s # <<>> /\ c2s' = Tail(c2s) /\ ~ s_closed /\ Legal(f) /\ RequestFragment(f)
  BY DEF ServerReceive
<1>2. q # <<>> /\ Pending' = Tail(q) /\ Head(q) = f
  BY <1>0, <1>1, TakeOff DEF Pending
<1> HIDE DEF q, f
<1>3. PICK n \in Nat \ {0} : n = Len(q)
  BY <1>0, <1>2, SeqTail
<1>4. /\ f = q[1] /\ Len(Pending') = n - 1 /\ IsSeq(Pending')
      /\ \A i \in 1 .. n - 1 : i + 1 \in 1 .. n /\ Pending'[i] = q[i + 1]
  BY <1>0, <1>2, <1>3, SeqTail
<1>5. InOrder(q)
  BY <1>1 DEF Requesting, q
<1> DEFINE p == Pending'
<1>6. p = Pending'
  OBVIOUS
<1> HIDE DEF p
<1>7. /\ \A i \in 1 .. n - 1 : p[i].type \in ControlTypes \cup RequestTypes \cup {"PREFACE"}
      /\ \A i \in 1 .. n - 1 : p[i].type # "PREFACE"
      /\ \A i, j \in 1 .. n - 1 : p[i].type = "HEADERS" /\ p[j].type = "HEADERS" => i = j
  <2>1. ASSUME NEW i \in 1 .. n - 1, NEW j \in 1 .. n - 1,
               p[i].type = "HEADERS", p[j].type = "HEADERS"
        PROVE  i = j
    <3>1. i + 1 = j + 1
      BY <1>3, <1>4, <1>5, <1>6, <2>1 DEF InOrder
    <3> QED
      BY <3>1
  <2>2. \A i \in 1 .. n - 1 : i + 1 # 1
    OBVIOUS
  <2> QED
    BY <1>3, <1>4, <1>5, <1>6, <2>1, <2>2 DEF InOrder
<1>8. ASSUME NEW i \in 1 .. n - 1, Whole(q, i + 1)  PROVE Whole(p, i)
  <2>1. p[i] = q[i + 1]
    BY <1>4, <1>6
  <2>2. i + 1 < n => i < n - 1 /\ p[i + 1] = q[(i + 1) + 1]
    <3>1. i + 1 < n => i + 1 \in 1 .. n - 1 /\ i < n - 1
      OBVIOUS
    <3> QED
      BY <1>4, <1>6, <3>1
  <2>3. Len(q) = n /\ Len(p) = n - 1
    BY <1>3, <1>4, <1>6
  <2> QED
    BY <1>8, <2>1, <2>2, <2>3 DEF Whole
<1>9. ASSUME NEW i \in 1 .. n - 1, p[i].type = "CONTINUATION"
      PROVE  /\ "END_HEADERS" \in p[i].flags
             /\ \/ i = 1 /\ Open(f)
                \/ i > 1 /\ Open(p[i - 1])
  <2>1. p[i] = q[i + 1] /\ Continues(q, i + 1) /\ i + 1 > 1 /\ (i + 1) - 1 = i /\ i \in 1 .. n
    BY <1>3, <1>4, <1>5, <1>6, <1>9 DEF InOrder
  <2>2. i > 1 => i - 1 \in 1 .. n - 1 /\ (i - 1) + 1 = i /\ p[i - 1] = q[i]
    BY <1>4, <1>6
  <2> QED
    BY <1>4, <2>1, <2>2 DEF Continues
<1>10. f.type \in ControlTypes \cup RequestTypes \cup {"PREFACE"}
  BY <1>3, <1>4, <1>5 DEF InOrder
<1>11. /\ "PREFACE" \notin ControlTypes /\ "HEADERS" \notin ControlTypes
       /\ "CONTINUATION" \notin ControlTypes
  BY DEF ControlTypes
<1>12. f.type = "CONTINUATION" => /\ s_state = "continuation" /\ "END_HEADERS" \in f.flags
                                  /\ s_block \o f.payload = request
  <2>1. f.type = "CONTINUATION" => Continues(q, 1)
    BY <1>3, <1>4, <1>5 DEF InOrder
  <2> QED
    BY <1>4, <1>5, <2>1 DEF Continues, InOrder
<1>13. f.type = "HEADERS" => /\ s_state = "idle" /\ s_block = <<>>
                             /\ Whole(q, 1)
  BY <1>1, <1>3, <1>4, <1>5 DEF InOrder, Legal, Requesting
<1>14. s_state = "preface" => f.type = "PREFACE"
  BY <1>1 DEF Legal
<1>15. s_state' # "preface"
  BY <1>1, <1>14 DEF RequestFragment
<1>16. Open(f) <=> s_state' = "continuation"
  BY <1>1, <1>12, <1>13 DEF RequestFragment, Open, Legal
<1>17. \A i \in 1 .. n - 1 : p[i].type = "HEADERS" => s_state' = "idle" /\ Whole(p, i)
  <2> SUFFICES ASSUME NEW i \in 1 .. n - 1, p[i].type = "HEADERS"
               PROVE  s_state' = "idle" /\ Whole(p, i)
    OBVIOUS
  <2>1. q[i + 1].type = "HEADERS" /\ i + 1 \in 1 .. n /\ i + 1 # 1
    BY <1>4, <1>6
  <2>2. f.type # "HEADERS" /\ s_state \in {"preface", "idle"} /\ Whole(q, i + 1)
    BY <1>3, <1>4, <1>5, <2>1 DEF InOrder
  <2>3. f.type # "CONTINUATION"
    BY <1>12, <2>2
  <2> QED
    BY <1>1, <1>8, <1>14, <2>2, <2>3 DEF RequestFragment
<1>18. f.type = "HEADERS" => s_block \o f.payload = f.payload
  <2> SUFFICES ASSUME f.type = "HEADERS"  PROVE s_block \o f.payload = f.payload
    OBVIOUS
  <2>1. IsSeq(f.payload)
    BY <1>1, ClientQueueTail DEF Types, ConnectionTypes, ClientFrame, IsSeq, f
  <2> QED
    BY <1>13, <2>1, NothingMore
<1>19. s_state' = "continuation" =>
         /\ p # <<>> /\ p[1].type = "CONTINUATION"
         /\ s_block' \o p[1].payload = request
  <2> SUFFICES ASSUME Open(f)
               PROVE  /\ p # <<>> /\ p[1].type = "CONTINUATION"
                      /\ s_block' \o p[1].payload = request
    BY <1>16
  <2>1. /\ s_block' = f.payload
        /\ 1 < n /\ q[1 + 1].type = "CONTINUATION"
        /\ f.payload \o q[1 + 1].payload = request
    BY <1>1, <1>3, <1>4, <1>13, <1>18 DEF RequestFragment, Open, Whole
  <2>2. 1 \in 1 .. n - 1
    BY <2>1
  <2>3. p[1] = q[1 + 1] /\ Len(p) = n - 1 /\ n - 1 > 0
    BY <1>4, <1>6, <2>1, <2>2
  <2>4. p # <<>>
    BY <2>3, SeqEmpty
  <2> QED
    BY <2>1, <2>3, <2>4
<1>20. s_state' = "idle" => s_block' = <<>>
  <2>1. CASE f.type \in {"HEADERS", "CONTINUATION"}
    <3>1. s_state' # "idle"
      BY <1>1, <2>1 DEF RequestFragment
    <3> QED
      BY <3>1
  <2>2. CASE f.type \notin {"HEADERS", "CONTINUATION"}
    <3>1. s_block' = s_block /\ (s_state' = "idle" => s_state \in {"preface", "idle"})
      BY <1>1, <2>2 DEF RequestFragment, Legal
    <3> QED
      BY <3>1 DEF Requesting
  <2> QED
    BY <2>1, <2>2
<1>21. s_state' = "requested" => s_block' = request
  <2>1. CASE f.type = "HEADERS"
    BY <1>1, <1>4, <1>13, <1>18, <2>1 DEF RequestFragment, Whole
  <2>2. CASE f.type # "HEADERS"
    BY <1>1, <1>12, <2>2 DEF RequestFragment, Requesting
  <2> QED
    BY <2>1, <2>2
<1>22. pc # "connect"
  BY <1>1 DEF Stage
<1>23. \A i \in 1 .. n - 1 : Whole(p, i) => Whole(Pending, i)'
  BY <1>6 DEF Whole
<1>24. \A i \in 1 .. n - 1 : p[i].type = "CONTINUATION" => Continues(Pending, i)'
  BY <1>6, <1>9, <1>16 DEF Continues, Open
<1>25. InOrder(Pending)'
  <2>1. Len(Pending') = n - 1
    BY <1>4
  <2>2. /\ \A i \in 1 .. n - 1 :
             /\ Pending'[i].type \in ControlTypes \cup RequestTypes \cup {"PREFACE"}
             /\ Pending'[i].type # "PREFACE"
             /\ Pending'[i].type = "HEADERS" => s_state' = "idle" /\ Whole(Pending, i)'
             /\ Pending'[i].type = "CONTINUATION" => Continues(Pending, i)'
        /\ \A i, j \in 1 .. n - 1 :
             Pending'[i].type = "HEADERS" /\ Pending'[j].type = "HEADERS" => i = j
    BY <1>6, <1>7, <1>17, <1>23, <1>24
  <2>3. s_state' = "continuation" =>
          /\ Pending' # <<>> /\ Pending'[1].type = "CONTINUATION"
          /\ s_block' \o Pending'[1].payload = request'
    BY <1>6, <1>19
  <2> QED
    BY <1>15, <2>1, <2>2, <2>3 DEF InOrder
<1> QED
  BY <1>15, <1>20, <1>21, <1>22, <1>25 DEF Requesting

\* What the client does, with the frames it adds.
LEMMA RequestAdds ==
  ASSUME Requesting, NEW q, InOrder(q), Pending' = q, q # <<>> \/ s_state # "preface" \/ pc' = "failed",
         UNCHANGED <<s_state, s_block, request, s_closed>>, pc' # "connect"
  PROVE  Requesting'
<1>1. InOrder(Pending)'
  BY DEF InOrder, Whole, Continues
<1> QED
  BY <1>1 DEF Requesting

LEMMA RequestingInductive ==
  ASSUME ShortRequests, Types, Stage, Requesting, [Next]_vars
  PROVE  Requesting'
<1>0. /\ IsSeq(Pending) /\ IsSeq(s2c) /\ IsSeq(out) /\ IsSeq(c2s)
  BY PendingType
<1>1. CASE ClientStep /\ UNCHANGED server
  <2>1. /\ request' = request /\ s_closed' = s_closed /\ pc' # "connect"
        /\ UNCHANGED <<s_state, s_block>>
        /\ ~ s_closed => Opens \/ SendsNothing \/ Answers \/ GivesCredit
    BY <1>1, ClientSends DEF server
  <2>2. CASE s_closed
    BY <2>1, <2>2 DEF Requesting
  <2>3. CASE ~ s_closed /\ Opens
    <3>1. s_state = "preface" /\ Pending' = <<Preface, send_http2_settings>>
      BY <2>3 DEF Opens, Requesting
    <3>2. Pending' # <<>>
      BY <3>1
    <3> QED
      BY <2>1, <3>1, <3>2, InOrderOpening, RequestAdds
  <2>4. CASE ~ s_closed /\ SendsNothing
    <3>1. /\ InOrder(Pending) /\ Pending' = Pending
          /\ Pending # <<>> \/ s_state # "preface" \/ pc' = "failed"
      BY <2>4 DEF SendsNothing, Requesting
    <3> QED
      BY <2>1, <3>1, RequestAdds
  <2>5. ASSUME ~ s_closed, pc \notin {"connect", "failed"}
        PROVE  InOrder(Pending) /\ (s_state = "preface" => Pending # <<>>)
    BY <2>5 DEF Requesting
  <2>6. ASSUME ~ s_closed, pc \notin {"connect", "failed"}, NEW r, IsSeq(r),
               \A i \in 1 .. Len(r) : r[i].type \in ControlTypes
        PROVE  /\ InOrder(Pending \o r) /\ IsSeq(Pending \o r)
               /\ s_state = "preface" => Pending \o r # <<>>
    <3>1. Pending # <<>> => Pending \o r # <<>>
      BY <1>0, <2>6, TakeOff
    <3> QED
      BY <1>0, <2>5, <2>6, <3>1, InOrderControl, SeqConcat
  <2>7. CASE ~ s_closed /\ GivesCredit
    <3>1. IsSeq(out') /\ \A i \in 1 .. Len(out') : out'[i].type \in ControlTypes
      <4>1. \A sid, n : /\ send_http2_goaway(sid).type = "GOAWAY"
                        /\ send_http2_window_update(sid, n).type = "WINDOW_UPDATE"
        BY DEF send_http2_goaway, send_http2_window_update, Frame
      <4>2. CASE out' = <<send_http2_goaway(stream_id)>>
        BY <4>1, <4>2, SeqOne DEF ControlTypes
      <4>3. CASE out' = WindowUpdates(length(Head(s2c)))
        BY <4>1, <4>3, SeqTwo DEF ControlTypes, WindowUpdates
      <4> QED
        BY <2>7, <4>2, <4>3 DEF GivesCredit
    <3>2. pc \notin {"connect", "failed"} /\ Pending' = Pending \o out'
      BY <2>7 DEF GivesCredit
    <3> QED
      BY <2>1, <2>6, <2>7, <3>1, <3>2, RequestAdds
  <2>8. CASE ~ s_closed /\ Answers
    <3> DEFINE f == Head(s2c)
               settings == f.type = "SETTINGS"
               ack == settings /\ "ACK" \in f.flags
               answer == IF settings /\ ~ ack THEN <<send_http2_settings_ack>> ELSE <<>>
               frames == send_http2_headers(request, MaxPayload)
               q == Pending \o answer
    <3>1. /\ pc = "settings" /\ Pending' = Pending \o out'
          /\ out' = answer \/ out' = answer \o frames
      BY <2>8 DEF Answers, HandleSettings
    <3>2. IsSeq(answer) /\ \A i \in 1 .. Len(answer) : answer[i].type \in ControlTypes
      BY SeqOne, SeqEmpty DEF ControlTypes, send_http2_settings_ack, Frame
    <3> HIDE DEF answer
    <3>3. InOrder(q) /\ IsSeq(q) /\ (s_state = "preface" => q # <<>>)
      BY <2>6, <2>8, <3>1, <3>2
    <3>4. CASE out' = answer
      BY <2>1, <3>1, <3>3, <3>4, RequestAdds
    <3>5. CASE out' = answer \o frames
      <4>1. /\ IsSeq(frames) /\ frames # <<>> /\ Len(frames) \in {1, 2}
            /\ frames[1].type = "HEADERS"
            /\ IF "END_HEADERS" \in frames[1].flags
                 THEN Len(frames) = 1 /\ frames[1].payload = request
                 ELSE /\ Len(frames) = 2 /\ frames[2].type = "CONTINUATION"
                      /\ "END_HEADERS" \in frames[2].flags
                      /\ frames[1].payload \o frames[2].payload = request
        BY ShortFrames
      <4> HIDE DEF frames
      <4>2. Without(q, RequestTypes)
        <5>1. Without(out, RequestTypes) /\ Without(c2s, RequestTypes)
          BY <3>1 DEF Stage
        <5>2. Without(answer, RequestTypes)
          BY <3>2 DEF Without, RequestTypes, ControlTypes
        <5> QED
          BY <1>0, <3>2, <5>1, <5>2, WithoutConcat DEF Pending
      <4>3. s_state \in {"preface", "idle"}
        BY <3>1 DEF Stage
      <4>4. Pending' = q \o frames
        <5>1. (Pending \o answer) \o frames = Pending \o (answer \o frames)
          BY <1>0, <3>2, <4>1, Associative, SMTT(30)
        <5> QED
          BY <3>1, <3>5, <5>1
      <4> HIDE DEF q
      <4>5. InOrder(q \o frames)
        BY <3>3, <4>1, <4>2, <4>3, InOrderRequest
      <4>6. q # <<>> => q \o frames # <<>>
        BY <3>3, <4>1, TakeOff
      <4> QED
        BY <2>1, <3>3, <4>4, <4>5, <4>6, RequestAdds
    <3> QED
      BY <3>1, <3>4, <3>5
  <2> QED
    BY <2>1, <2>2, <2>3, <2>4, <2>7, <2>8
<1>2. CASE ServerStep /\ UNCHANGED client
  <2>1. UNCHANGED <<pc, out, request>>
    BY <1>2 DEF client
  <2>2. CASE ServerReceive
    <3>1. CASE s_closed'
      <4>1. ~ Legal(Head(c2s)) /\ UNCHANGED <<s_state, s_block>>
        BY <2>2, <3>1 DEF ServerReceive
      <4> QED
        BY <2>1, <3>1, <4>1 DEF Requesting
    <3>2. CASE ~ s_closed'
      BY <2>1, <2>2, <3>2, RequestReceived
    <3> QED
      BY <3>1, <3>2
  <2>3. ASSUME UNCHANGED <<c2s, s_state, s_block>>, s_closed' = s_closed \/ s_closed'
        PROVE  Requesting'
    <3>1. Pending' = Pending
      BY <2>1, <2>3 DEF Pending
    <3> QED
      BY <2>1, <2>3, <3>1 DEF Requesting, InOrder, Whole, Continues
  <2>4. ASSUME NEW f, SendsFrame(f)  PROVE Requesting'
    BY <2>3, <2>4 DEF SendsFrame, Asked
  <2> QED
    BY <1>2, <2>2, <2>3, <2>4, ServerSends DEF Asked
<1>3. CASE UNCHANGED vars
  <2>1. Pending' = Pending
    BY <1>3 DEF vars, client, connection, Pending
  <2> QED
    BY <1>3, <2>1
    DEF vars, client, connection, server, Requesting, InOrder, Whole, Continues
<1> QED
  BY <1>1, <1>2, <1>3 DEF Next, Terminated

\* Whatever else the two sides send and however they take turns, the request
\* the server puts together is the one that was encoded, for every header block
\* that fits into two frames (http2_socket.h send_http2_headers, httpv2.cc:106).
THEOREM RequestIntactAlways ==
  ASSUME ShortRequests
  PROVE  Spec => []RequestIntact
<1>1. Init => IInv /\ Requesting
  BY TypesInitially, StageInitially, WindowsInitially, RequestingInitially DEF IInv
<1>2. IInv /\ Requesting /\ [Next]_vars => (IInv /\ Requesting)'
  BY TypesInductive, StageInductive, WindowsInductive, RequestingInductive DEF IInv
<1>3. Requesting => RequestIntact
  BY DEF Requesting, RequestIntact
<1> QED
  BY <1>1, <1>2, <1>3, PTL DEF Spec

-----------------------------------------------------------------------------
\* The client and RFC 7540.

\* No WINDOW_UPDATE frame gives nothing back, as no DATA frame that asks for one
\* is empty.
Useful(f) == f.type = "WINDOW_UPDATE" => f.payload[1] > 0
Filled(f) == f.type = "DATA" /\ "END_STREAM" \notin f.flags => length(f) > 0

Updating ==
  ~ s_closed => /\ \A i \in 1 .. Len(Pending) : Useful(Pending[i])
                /\ \A i \in 1 .. Len(s2c) : Filled(s2c[i])

LEMMA AllConcat ==
  ASSUME NEW q, IsSeq(q), NEW r, IsSeq(r),
         \A i \in 1 .. Len(q) : Useful(q[i]), \A i \in 1 .. Len(r) : Useful(r[i])
  PROVE  \A i \in 1 .. Len(q \o r) : Useful((q \o r)[i])
<1>1. PICK m \in Nat, n \in Nat : m = Len(q) /\ n = Len(r)
  BY SeqConcat
<1>2. /\ Len(q \o r) = m + n
      /\ \A i \in 1 .. m : (q \o r)[i] = q[i]
      /\ \A i \in 1 .. n : (q \o r)[m + i] = r[i]
  BY <1>1, SeqConcat
<1>3. ASSUME NEW i \in 1 .. m + n, i \notin 1 .. m
      PROVE  i - m \in 1 .. n /\ m + (i - m) = i
  BY <1>3
<1> QED
  BY <1>1, <1>2, <1>3

\* What the client adds when it reads a frame.
LEMMA AddsUseful ==
  ASSUME Types, Stage, s2c # <<>>, Filled(Head(s2c)),
         Answers \/ GivesCredit
  PROVE  /\ IsSeq(out') /\ Pending' = Pending \o out'
         /\ \A i \in 1 .. Len(out') : Useful(out'[i])
<1>1. ServerFrame(Head(s2c))
  BY ServerQueueTail DEF Types, ConnectionTypes
<1>2. CASE Answers
  <2> DEFINE f == Head(s2c)
             settings == f.type = "SETTINGS"
             ack == settings /\ "ACK" \in f.flags
             answer == IF settings /\ ~ ack THEN <<send_http2_settings_ack>> ELSE <<>>
             frames == send_http2_headers(request, MaxPayload)
  <2>1. Pending' = Pending \o out' /\ (out' = answer \/ out' = answer \o frames)
    BY <1>2 DEF Answers, HandleSettings
  <2>2. IsSeq(answer) /\ \A i \in 1 .. Len(answer) : Useful(answer[i])
    BY SeqOne, SeqEmpty DEF Useful, send_http2_settings_ack, Frame
  <2>3. IsSeq(frames) /\ \A i \in 1 .. Len(frames) : Useful(frames[i])
    <3>1. request \in Seq(Byte)
      BY RequestsAssumption DEF Types, ClientTypes
    <3>2. /\ ClientQueue(frames)
          /\ \A i \in 1 .. Len(frames) :
               frames[i].type = IF i = 1 THEN "HEADERS" ELSE "CONTINUATION"
      BY <3>1, RequestFrames
    <3> HIDE DEF frames
    <3> QED
      BY <3>2 DEF Useful, ClientQueue
  <2> HIDE DEF answer, frames
  <2>4. IsSeq(answer \o frames) /\ \A i \in 1 .. Len(answer \o frames) : Useful((answer \o frames)[i])
    BY <2>2, <2>3, AllConcat, SeqConcat
  <2> QED
    BY <2>1, <2>2, <2>4
<1>3. CASE GivesCredit
  <2>1. Pending' = Pending \o out'
    BY <1>3 DEF GivesCredit
  <2>2. CASE out' = <<send_http2_goaway(stream_id)>>
    <3>1. send_http2_goaway(stream_id).type = "GOAWAY"
      BY DEF send_http2_goaway, Frame
    <3> QED
      BY <2>1, <2>2, <3>1, SeqOne DEF Useful
  <2>3. CASE "END_STREAM" \notin Head(s2c).flags /\ out' = WindowUpdates(length(Head(s2c)))
    <3> DEFINE n == length(Head(s2c))
    <3>1. n \in Nat /\ n > 0
      BY <1>1, <1>3, <2>3 DEF GivesCredit, ServerFrame, length, Filled
    <3> HIDE DEF n
    <3>2. /\ send_http2_window_update(stream_id, n).payload[1] > 0
          /\ send_http2_window_update(0, n).payload[1] > 0
      BY <3>1, ControlFrames
    <3>3. out' = <<send_http2_window_update(stream_id, n), send_http2_window_update(0, n)>>
      BY <2>3 DEF WindowUpdates, n
    <3> QED
      BY <2>1, <3>2, <3>3, SeqTwo DEF Useful
  <2> QED
    BY <1>3, <2>2, <2>3 DEF GivesCredit
<1> QED
  BY <1>2, <1>3

LEMMA UpdatingInitially == Init => Updating
<1> SUFFICES ASSUME Init  PROVE Updating
  OBVIOUS
<1>1. out = <<>> /\ c2s = <<>> /\ s2c = <<>>
  BY DEF Init, ClientInit, ConnectionInit
<1>2. Pending = <<>> /\ Len(<<>>) = 0
  BY <1>1, SeqEmpty, NothingMore DEF Pending
<1> QED
  BY <1>1, <1>2 DEF Updating

LEMMA UpdatingInductive ==
  ASSUME ~ EmptyData, Types, Stage, Updating, [Next]_vars
  PROVE  Updating'
<1>0. /\ IsSeq(Pending) /\ IsSeq(s2c) /\ IsSeq(out) /\ IsSeq(c2s)
  BY PendingType
<1>1. ASSUME s2c # <<>>, \A i \in 1 .. Len(s2c) : Filled(s2c[i])
      PROVE  Filled(Head(s2c)) /\ \A i \in 1 .. Len(Tail(s2c)) : Filled(Tail(s2c)[i])
  <2>1. /\ Len(s2c) \in Nat \ {0} /\ Head(s2c) = s2c[1] /\ Len(Tail(s2c)) = Len(s2c) - 1
        /\ \A i \in 1 .. Len(s2c) - 1 : Tail(s2c)[i] = s2c[i + 1]
    BY <1>0, <1>1, SeqTail
  <2>2. \A i \in 1 .. Len(s2c) - 1 : i + 1 \in 1 .. Len(s2c)
    BY <2>1
  <2> QED
    BY <1>1, <2>1, <2>2
<1>2. CASE ClientStep /\ UNCHANGED server
  <2> SUFFICES ASSUME ~ s_closed  PROVE Updating'
    BY <1>2, ClientSends DEF Updating
  <2>1. Opens \/ SendsNothing \/ Answers \/ GivesCredit
    BY <1>2, ClientSends
  <2>2. CASE Opens
    <3>1. Useful(Preface) /\ Useful(send_http2_settings)
      BY DEF Useful, Preface, send_http2_settings, Frame
    <3> QED
      BY <2>2, <3>1, SeqTwo DEF Updating, Opens
  <2>3. CASE SendsNothing
    BY <1>1, <2>3 DEF Updating, SendsNothing
  <2>4. CASE Answers \/ GivesCredit
    <3>1. s2c # <<>> /\ s2c' = Tail(s2c)
      BY <2>4 DEF Answers, GivesCredit, Reads
    <3>2. /\ IsSeq(out') /\ Pending' = Pending \o out'
          /\ \A i \in 1 .. Len(out') : Useful(out'[i])
      BY <1>1, <2>4, <3>1, AddsUseful DEF Updating
    <3>3. \A i \in 1 .. Len(Pending') : Useful(Pending'[i])
      BY <1>0, <3>2, AllConcat DEF Updating
    <3> QED
      BY <1>1, <3>1, <3>3 DEF Updating
  <2> QED
    BY <2>1, <2>2, <2>3, <2>4
<1>3. CASE ServerStep /\ UNCHANGED client
  <2> SUFFICES ASSUME ~ s_closed, ~ s_closed'  PROVE Updating'
    BY <1>3, ServerStays DEF Updating
  <2>1. out' = out
    BY <1>3 DEF client
  <2>2. CASE ServerReceive
    <3>1. c2s # <<>> /\ c2s' = Tail(c2s) /\ s2c' = s2c
      BY <2>2 DEF ServerReceive
    <3>2. Pending # <<>> /\ Pending' = Tail(Pending)
      BY <1>0, <2>1, <3>1, TakeOff DEF Pending
    <3>3. /\ Len(Pending) \in Nat \ {0} /\ Len(Tail(Pending)) = Len(Pending) - 1
          /\ \A i \in 1 .. Len(Pending) - 1 : Tail(Pending)[i] = Pending[i + 1]
      BY <1>0, <3>2, SeqTail
    <3>4. \A i \in 1 .. Len(Pending) - 1 : i + 1 \in 1 .. Len(Pending)
      BY <3>3
    <3> QED
      BY <3>1, <3>2, <3>3, <3>4 DEF Updating
  <2>3. ASSUME NEW f, SendsFrame(f)  PROVE Updating'
    <3>1. Pending' = Pending /\ Filled(f) /\ s2c' = Append(s2c, f)
      BY <2>1, <2>3 DEF SendsFrame, Asked, Pending, Filled
    <3>2. /\ Len(s2c) \in Nat /\ Len(s2c') = Len(s2c) + 1 /\ s2c'[Len(s2c) + 1] = f
          /\ \A i \in 1 .. Len(s2c) : s2c'[i] = s2c[i]
      BY <1>0, <3>1, SeqAppend
    <3>3. \A i \in 1 .. Len(s2c) + 1 : i = Len(s2c) + 1 \/ i \in 1 .. Len(s2c)
      BY <3>2
    <3> QED
      BY <3>1, <3>2, <3>3 DEF Updating
  <2> QED
    BY <1>3, <2>2, <2>3, ServerSends
<1>4. CASE UNCHANGED vars
  <2>1. Pending' = Pending
    BY <1>4 DEF vars, client, connection, Pending
  <2> QED
    BY <1>4, <2>1 DEF vars, connection, Updating
<1> QED
  BY <1>2, <1>3, <1>4 DEF Next, Terminated

\* The next frame to arrive is legal.
LEMMA NextIsLegal ==
  ASSUME Types, Stage, Requesting, Updating, ServerReceive
  PROVE  Legal(Head(c2s))
<1> DEFINE q == Pending
           f == Head(c2s)
<1>0. IsSeq(q) /\ IsSeq(c2s) /\ IsSeq(out)
  BY PendingType
<1>1. c2s # <<>> /\ ~ s_closed
  BY DEF ServerReceive
<1>2. q # <<>> /\ Head(q) = f
  BY <1>0, <1>1, TakeOff DEF Pending
<1>3. InOrder(q) /\ \A i \in 1 .. Len(q) : Useful(q[i])
  BY <1>1 DEF Requesting, Updating
<1> HIDE DEF q, f
<1>4. f = q[1] /\ 1 \in 1 .. Len(q)
  <2>1. Len(q) \in Nat \ {0} /\ Head(q) = q[1]
    BY <1>0, <1>2, SeqTail
  <2> QED
    BY <1>2, <2>1
<1>5. /\ f.type \in ControlTypes \cup RequestTypes \cup {"PREFACE"}
      /\ f.type = "PREFACE" <=> s_state = "preface"
      /\ f.type = "HEADERS" => s_state \in {"preface", "idle"}
      /\ f.type = "CONTINUATION" <=> s_state = "continuation"
      /\ Useful(f)
  BY <1>2, <1>3, <1>4 DEF InOrder, Continues
<1>6. Legal(f)
  BY <1>5 DEF Legal, Useful, ControlTypes, RequestTypes
<1> QED
  BY <1>6 DEF f

\* Every frame the client sends is one RFC 7540 allows at that point, towards
\* every server that sends no DATA frame that is empty and not the last (the
\* program answers one with a WINDOW_UPDATE of 0, httpv2.cc:167-179), and for
\* every header block that fits into two frames (httpv2.cc:77-203).
THEOREM ClientConformsAlways ==
  ASSUME ShortRequests, ~ EmptyData
  PROVE  Spec => []ClientConforms
<1> DEFINE Inv == IInv /\ Requesting /\ Updating /\ ~ s_error
<1>1. Init => Inv
  BY TypesInitially, StageInitially, WindowsInitially, RequestingInitially,
     UpdatingInitially
  DEF IInv, Init, ServerInit
<1>2. Inv /\ [Next]_vars => Inv'
  <2> SUFFICES ASSUME Types, Stage, Windows, Requesting, Updating, ~ s_error, [Next]_vars
               PROVE  Inv'
    BY DEF IInv
  <2>1. (IInv /\ Requesting /\ Updating)'
    BY TypesInductive, StageInductive, WindowsInductive, RequestingInductive,
       UpdatingInductive
    DEF IInv
  <2>2. ~ s_error'
    <3>1. CASE ServerStep
      <4>1. ServerReceive => ~ s_error'
        BY NextIsLegal DEF ServerReceive
      <4> QED
        BY <3>1, <4>1, ServerSends DEF Asked, SendsFrame
    <3> QED
      BY <3>1 DEF Next, Terminated, vars, server
  <2> QED
    BY <2>1, <2>2
<1>3. Inv => ClientConforms
  BY DEF ClientConforms
<1> QED
  BY <1>1, <1>2, <1>3, PTL DEF Spec

-----------------------------------------------------------------------------
\* The response.  The reply r is one sequence of items, the header block before the body.  A
\* frame carries its items from m + 1 to n, or none of them.

Begin(r) == Len(r.block)
All(r) == Len(r.block) + Len(r.body)

PushedData(f) == f.type = "DATA" /\ f.sid = PushedStream

Other(f, m, n) ==
  /\ m = n /\ f.type # "CONTINUATION"
  /\ f.type = "DATA" => PushedData(f)

First(r, f, m, n) ==
  /\ m = 0 /\ n \in 1 .. Begin(r)
  /\ f.type = "HEADERS"
  /\ FragmentMissing(f) \/ HeaderBlockFragment(f) = SubSeq(r.block, 1, n)
  /\ "END_HEADERS" \in f.flags <=> n = Begin(r)

Further(r, f, m, n) ==
  /\ 0 < m /\ m < n /\ n <= Begin(r)
  /\ f.type = "CONTINUATION" /\ f.payload = SubSeq(r.block, m + 1, n)
  /\ "END_HEADERS" \in f.flags <=> n = Begin(r)

Content(r, f, m, n) ==
  /\ Begin(r) <= m /\ m <= n /\ n <= All(r)
  /\ f.type = "DATA" /\ f.sid = stream_id
  /\ "PADDED" \notin f.flags => f.payload = SubSeq(r.body, m - Begin(r) + 1, n - Begin(r))
  /\ "END_STREAM" \in f.flags => n = All(r)

Piece(r, f, m, n) ==
  Other(f, m, n) \/ First(r, f, m, n) \/ Further(r, f, m, n) \/ Content(r, f, m, n)

\* The frames of q carry the items of r from k + 1 to top, in order.
Chain(r, q, off, top) ==
  /\ off \in [1 .. Len(q) + 1 -> 0 .. top] /\ off[Len(q) + 1] = top
  /\ \A i \in 1 .. Len(q) : Piece(r, q[i], off[i], off[i + 1])

CutAt(r, q, k, top) == \E off : Chain(r, q, off, top) /\ off[1] = k

LEMMA CutEmpty == ASSUME NEW r  PROVE CutAt(r, <<>>, 0, 0)
<1> DEFINE off == [i \in 1 .. 1 |-> 0]
<1>1. off \in [1 .. 1 -> 0 .. 0] /\ off[1] = 0
  OBVIOUS
<1> HIDE DEF off
<1>2. Len(<<>>) = 0 /\ Len(<<>>) + 1 = 1
  BY SeqEmpty
<1>3. Chain(r, <<>>, off, 0)
  BY <1>1, <1>2 DEF Chain
<1> QED
  BY <1>1, <1>3 DEF CutAt

LEMMA CutTail ==
  ASSUME NEW r, NEW q, IsSeq(q), q # <<>>, NEW k, NEW top \in Nat, CutAt(r, q, k, top)
  PROVE  /\ k \in 0 .. top
         /\ \E n \in 0 .. top : Piece(r, Head(q), k, n) /\ CutAt(r, Tail(q), n, top)
<1>1. PICK off : Chain(r, q, off, top) /\ off[1] = k
  BY DEF CutAt
<1>2. PICK l \in Nat : Len(q) = l + 1
  <2>1. Len(q) \in Nat \ {0}
    BY SeqTail
  <2>2. Len(q) - 1 \in Nat /\ Len(q) = (Len(q) - 1) + 1
    BY <2>1
  <2> QED
    BY <2>2
<1>3. /\ Head(q) = q[1] /\ Len(Tail(q)) = l
      /\ \A i \in 1 .. l : Tail(q)[i] = q[i + 1]
  BY <1>2, SeqTail
<1>4. /\ off \in [1 .. l + 2 -> 0 .. top] /\ off[l + 2] = top
      /\ \A i \in 1 .. l + 1 : Piece(r, q[i], off[i], off[i + 1])
  BY <1>1, <1>2 DEF Chain
<1> DEFINE o == [i \in 1 .. l + 1 |-> off[i + 1]]
<1>5. /\ o \in [1 .. l + 1 -> 0 .. top] /\ o[l + 1] = top /\ o[1] = off[2]
      /\ \A i \in 1 .. l : o[i] = off[i + 1] /\ o[i + 1] = off[(i + 1) + 1]
  <2>1. \A i \in 1 .. l + 1 : i + 1 \in 1 .. l + 2
    OBVIOUS
  <2>2. \A i \in 1 .. l : i \in 1 .. l + 1 /\ i + 1 \in 1 .. l + 1
    OBVIOUS
  <2>3. 1 \in 1 .. l + 1 /\ l + 1 \in 1 .. l + 1 /\ (l + 1) + 1 = l + 2 /\ 1 + 1 = 2
    OBVIOUS
  <2>4. \A i \in 1 .. l + 1 : o[i] = off[i + 1]
    OBVIOUS
  <2>5. o \in [1 .. l + 1 -> 0 .. top]
    BY <1>4, <2>1
  <2> HIDE DEF o
  <2> QED
    BY <1>4, <2>2, <2>3, <2>4, <2>5
<1> HIDE DEF o
<1>6. \A i \in 1 .. l : Piece(r, Tail(q)[i], o[i], o[i + 1])
  <2>1. \A i \in 1 .. l : i + 1 \in 1 .. l + 1
    OBVIOUS
  <2> QED
    BY <1>3, <1>4, <1>5, <2>1
<1>7. CutAt(r, Tail(q), off[2], top)
  BY <1>3, <1>5, <1>6 DEF Chain, CutAt
<1>8. off[1] \in 0 .. top /\ off[2] \in 0 .. top /\ Piece(r, q[1], off[1], off[2])
  <2>1. 1 \in 1 .. l + 1 /\ 1 \in 1 .. l + 2 /\ 2 \in 1 .. l + 2 /\ 1 + 1 = 2
    OBVIOUS
  <2> QED
    BY <1>4, <2>1
<1> QED
  BY <1>1, <1>3, <1>7, <1>8

LEMMA CutAppend ==
  ASSUME NEW r, NEW q, IsSeq(q), NEW k, NEW top \in Nat, CutAt(r, q, k, top),
         NEW f, NEW n \in Nat, top <= n, Piece(r, f, top, n)
  PROVE  CutAt(r, Append(q, f), k, n)
<1>1. PICK off : Chain(r, q, off, top) /\ off[1] = k
  BY DEF CutAt
<1>2. PICK l \in Nat : Len(q) = l
  BY SeqAppend
<1>3. /\ Len(Append(q, f)) = l + 1 /\ Append(q, f)[l + 1] = f
      /\ \A i \in 1 .. l : Append(q, f)[i] = q[i]
  BY <1>2, SeqAppend
<1>4. /\ off \in [1 .. l + 1 -> 0 .. top] /\ off[l + 1] = top
      /\ \A i \in 1 .. l : Piece(r, q[i], off[i], off[i + 1])
  BY <1>1, <1>2 DEF Chain
<1> DEFINE o == [i \in 1 .. l + 2 |-> IF i = l + 2 THEN n ELSE off[i]]
<1>5. /\ o \in [1 .. l + 2 -> 0 .. n] /\ o[l + 2] = n /\ o[l + 1] = top /\ o[1] = off[1]
      /\ \A i \in 1 .. l : o[i] = off[i] /\ o[i + 1] = off[i + 1]
  <2>1. \A i \in 1 .. l + 2 : i = l + 2 \/ i \in 1 .. l + 1
    OBVIOUS
  <2>2. \A i \in 1 .. l + 1 : i # l + 2 /\ i \in 1 .. l + 2
    OBVIOUS
  <2>3. /\ \A i \in 1 .. l : i \in 1 .. l + 1 /\ i + 1 \in 1 .. l + 1
        /\ 1 \in 1 .. l + 1 /\ l + 1 \in 1 .. l + 1 /\ l + 2 \in 1 .. l + 2
    OBVIOUS
  <2>4. \A i \in 1 .. l + 1 : o[i] = off[i]
    BY <2>2
  <2>5. o[l + 2] = n
    BY <2>3
  <2>6. \A i \in 0 .. top : i \in 0 .. n
    OBVIOUS
  <2>7. o \in [1 .. l + 2 -> 0 .. n]
    BY <1>4, <2>1, <2>6
  <2> HIDE DEF o
  <2> QED
    BY <1>4, <2>3, <2>4, <2>5, <2>7
<1> HIDE DEF o
<1>6. ASSUME NEW i \in 1 .. l + 1  PROVE Piece(r, Append(q, f)[i], o[i], o[i + 1])
  <2>1. CASE i \in 1 .. l
    BY <1>3, <1>4, <1>5, <2>1
  <2>2. CASE i = l + 1
    <3>1. i + 1 = l + 2
      BY <2>2
    <3> QED
      BY <1>3, <1>5, <2>2, <3>1
  <2>3. i \in 1 .. l \/ i = l + 1
    OBVIOUS
  <2> QED
    BY <2>1, <2>2, <2>3
<1>7. Len(Append(q, f)) + 1 = l + 2
  BY <1>3
<1> QED
  BY <1>1, <1>3, <1>5, <1>6, <1>7 DEF Chain, CutAt

-----------------------------------------------------------------------------
\* What the program has of the reply.  With k = 0 behind its HEADERS frame, it
\* has taken another one for it, and the next frame ends the program.

Got(k) ==
  /\ pc \in {"connect", "settings", "headers"} =>
       k = 0 /\ header_block = <<>> /\ response_body = <<>>
  /\ pc = "continuation" =>
       /\ response_body = <<>>
       /\ k = 0 \/ (k < Begin(reply) /\ header_block = SubSeq(reply.block, 1, k))
  /\ pc = "data" =>
       \/ k = 0 /\ response_body = <<>>
       \/ /\ k \in Begin(reply) .. All(reply)
          /\ header_list = decode(reply.block).headers
          /\ response_body = SubSeq(reply.body, 1, k - Begin(reply))

Underway == Reading \cup {"connect"}

\* A push is announced before it comes.
Announced(q) ==
  \E j \in 1 .. Len(q) : /\ q[j].type = "PUSH_PROMISE"
                         /\ \A i \in 1 .. Len(q) : PushedData(q[i]) => j < i

Announcing ==
  \/ pushed = 0 /\ \A i \in 1 .. Len(s2c) : ~ PushedData(s2c[i])
  \/ Announced(s2c)

\* The response that belongs to a header list and a body.
IsResponse(list, body) ==
  LET statuses == SelectSeq(list, IsStatus)
  IN  /\ response.headers = ResponseHeaders(list) /\ response.payload = body
      /\ response = [code |-> response.code, headers |-> response.headers,
                     payload |-> response.payload]
      /\ statuses # <<>> => /\ Head(statuses).value \in DOMAIN Stoi
                            /\ response.code = Stoi[Head(statuses).value]

Answered ==
  /\ pc \in Underway => /\ \E k : CutAt(reply, s2c, k, block_sent + body_sent) /\ Got(k)
                        /\ Announcing
  /\ body_sent > 0 => block_sent = Begin(reply)
  /\ \E k \in 0 .. Len(reply.body) : response_body = SubSeq(reply.body, 1, k)
  /\ pc = "finish" => /\ header_list = decode(reply.block).headers
                      /\ response_body = reply.body
  /\ pc = "done" => IsResponse(decode(reply.block).headers, reply.body)

LEMMA ReplyType ==
  ASSUME Types
  PROVE  /\ reply.block \in Seq(AllRepresentations) /\ reply.body \in Seq(Byte)
         /\ Begin(reply) \in Nat \ {0} /\ Len(reply.body) \in Nat
         /\ All(reply) = Begin(reply) + Len(reply.body)
         /\ block_sent \in 0 .. Begin(reply) /\ body_sent \in 0 .. Len(reply.body)
<1>1. reply.block \in Seq(AllRepresentations) /\ reply.body \in Seq(Byte) /\ reply.block # <<>>
  BY ReplyAssumption DEF Types, ServerTypes
<1>2. IsSeq(reply.block)
  BY <1>1 DEF IsSeq
<1>3. Len(reply.block) \in Nat \ {0}
  BY <1>1, <1>2, SeqTail
<1> QED
  BY <1>1, <1>3 DEF Types, ServerTypes, Begin, All

LEMMA AnsweredInitially == Init => Answered
<1> SUFFICES ASSUME Init  PROVE Answered
  OBVIOUS
<1>1. /\ pc = "connect" /\ s2c = <<>> /\ block_sent = 0 /\ body_sent = 0
      /\ header_block = <<>> /\ response_body = <<>> /\ pushed = 0
  BY DEF Init, ClientInit, ConnectionInit, ServerInit
<1>2. CutAt(reply, s2c, 0, block_sent + body_sent) /\ Got(0)
  BY <1>1, CutEmpty DEF Got
<1>3. Announcing
  BY <1>1, SeqEmpty DEF Announcing
<1>4. Len(reply.body) \in Nat /\ reply.body \in Seq(Byte)
  BY ReplyAssumption DEF Init, ServerInit
<1>5. 0 \in 0 .. Len(reply.body) /\ response_body = SubSeq(reply.body, 1, 0)
  BY <1>1, <1>4
<1> QED
  BY <1>1, <1>2, <1>3, <1>5 DEF Answered

-----------------------------------------------------------------------------
\* What the server sends next.

SendsPiece(f) ==
  /\ s2c' = Append(s2c, f) /\ UNCHANGED reply
  /\ block_sent' + body_sent' \in Nat
  /\ block_sent + body_sent <= block_sent' + body_sent'
  /\ Piece(reply, f, block_sent + body_sent, block_sent' + body_sent')
  /\ body_sent' > 0 => block_sent' = Begin(reply)
  /\ PushedData(f) => pushed > 0
  /\ pushed' = pushed \/ pushed > 0 \/ f.type = "PUSH_PROMISE"

LEMMA ServerAnswers ==
  ASSUME Types, Answered, ServerStep
  PROVE  \/ UNCHANGED <<s2c, reply, block_sent, body_sent, pushed>>
         \/ \E f : SendsPiece(f)
<1> DEFINE Sends == \E f : SendsPiece(f)
           r == reply
           m == block_sent + body_sent
<1>0. /\ reply.block \in Seq(AllRepresentations) /\ reply.body \in Seq(Byte)
      /\ Begin(reply) \in Nat \ {0} /\ Len(reply.body) \in Nat
      /\ All(reply) = Begin(reply) + Len(reply.body)
      /\ block_sent \in 0 .. Begin(reply) /\ body_sent \in 0 .. Len(reply.body)
      /\ body_sent > 0 => block_sent = Begin(reply)
      /\ pushed \in Nat
  BY ReplyType, PushedFrames DEF Answered, Types, ServerTypes
\* A frame that carries nothing of the reply.
<1>1. ASSUME NEW f, Send(f), UNCHANGED <<reply, block_sent, body_sent>>,
             f.type # "CONTINUATION", f.type = "DATA" => PushedData(f) /\ pushed > 0,
             pushed' = pushed \/ pushed > 0 \/ f.type = "PUSH_PROMISE"
      PROVE  Sends
  <2>1. Piece(reply, f, m, block_sent' + body_sent')
    BY <1>1 DEF Piece, Other
  <2>2. SendsPiece(f)
    BY <1>0, <1>1, <2>1 DEF SendsPiece, Send, PushedData
  <2> QED
    BY <2>2
<1>2. ASSUME SendSettings \/ SendSettingsAck  PROVE Sends
  <2> PICK t : t \in {Frame("SETTINGS", {}, 0, <<>>), Frame("SETTINGS", {"ACK"}, 0, <<>>)}
               /\ Send(t)
    BY <1>2 DEF SendSettings, SendSettingsAck
  <2>1. t.type = "SETTINGS"
    BY DEF Frame
  <2>2. UNCHANGED <<reply, block_sent, body_sent, pushed>>
    BY <1>2 DEF SendSettings, SendSettingsAck
  <2> HIDE DEF Sends
  <2> QED
    BY <1>1, <2>1, <2>2
<1>3. ASSUME NEW f \in Extra, SendExtra(f)  PROVE Sends
  <2>1. f.type \notin {"DATA", "CONTINUATION"}
    BY ExtraAssumption DEF FrameTypes
  <2>2. Send(f) /\ UNCHANGED <<reply, block_sent, body_sent, pushed>>
    BY <1>3 DEF SendExtra
  <2> HIDE DEF Sends
  <2> QED
    BY <1>1, <2>1, <2>2
<1>4. ASSUME NEW n \in 1 .. Len(reply.block), NEW flags \in HeaderFlags,
             NEW where \in EmptyBodyEnd, SendHeaders(n, flags, where)
      PROVE  Sends
  <2>1. PICK f : /\ s2c' = Append(s2c, f) /\ f.type = "HEADERS"
                 /\ "END_HEADERS" \in f.flags <=> n = Len(reply.block)
                 /\ HeaderBlockFragment(f) = SubSeq(reply.block, 1, n)
    BY <1>4, HeadersFrames DEF Types
  <2>2. block_sent = 0 /\ block_sent' = n /\ UNCHANGED <<reply, body_sent, pushed>>
    BY <1>4 DEF SendHeaders
  <2>3. body_sent = 0 /\ n \in 1 .. Begin(reply)
    BY <1>0, <2>2 DEF Begin
  <2>4. First(reply, f, 0, n)
    BY <2>1, <2>3 DEF First, Begin
  <2>5. block_sent' + body_sent' = n /\ m = 0
    BY <2>2, <2>3
  <2>6. Piece(reply, f, m, block_sent' + body_sent')
    BY <2>4, <2>5 DEF Piece
  <2>7. SendsPiece(f)
    BY <1>0, <2>1, <2>2, <2>3, <2>5, <2>6 DEF SendsPiece, PushedData
  <2> QED
    BY <2>7
<1>5. ASSUME NEW n \in 1 .. Len(reply.block), SendContinuation(n)
      PROVE  Sends
  <2> DEFINE f == Frame("CONTINUATION", EndHeaders(n), stream_id,
                        SubSeq(reply.block, block_sent + 1, n))
  <2>1. /\ f.type = "CONTINUATION" /\ f.payload = SubSeq(reply.block, block_sent + 1, n)
        /\ "END_HEADERS" \in f.flags <=> n = Begin(reply)
    BY DEF Frame, EndHeaders, Begin
  <2>2. /\ s2c' = Append(s2c, f) /\ block_sent' = n /\ UNCHANGED <<reply, body_sent, pushed>>
        /\ block_sent > 0 /\ block_sent < Begin(reply) /\ block_sent < n
    BY <1>0, <1>5 DEF SendContinuation, Send, InHeaderBlock, Begin
  <2> HIDE DEF f
  <2>3. body_sent = 0 /\ n \in 1 .. Begin(reply)
    BY <1>0, <2>2 DEF Begin
  <2>4. Further(reply, f, block_sent, n)
    BY <2>1, <2>2, <2>3 DEF Further, Begin
  <2>5. block_sent' + body_sent' = n /\ m = block_sent
    BY <1>0, <2>2, <2>3
  <2>6. Piece(reply, f, m, block_sent' + body_sent')
    BY <2>4, <2>5 DEF Piece
  <2>7. SendsPiece(f)
    BY <1>0, <2>1, <2>2, <2>3, <2>5, <2>6 DEF SendsPiece, PushedData
  <2> QED
    BY <2>7
<1>6. ASSUME NEW n \in 0 .. MaxFrame, NEW end \in BOOLEAN, NEW padded \in DataPadding,
             SendData(n, end, padded)
      PROVE  Sends
  <2>1. PICK f : /\ s2c' = Append(s2c, f) /\ f.type = "DATA" /\ f.sid = stream_id
                 /\ "END_STREAM" \in f.flags <=> end
                 /\ "PADDED" \in f.flags <=> padded
                 /\ ~ padded => f.payload = SubSeq(reply.body, body_sent + 1, body_sent + n)
    BY <1>6, DataFrames DEF Types
  <2>2. /\ block_sent' = block_sent /\ block_sent = Begin(reply)
        /\ body_sent' = body_sent + n /\ UNCHANGED <<reply, pushed>>
        /\ body_sent + n <= Len(reply.body)
        /\ end => body_sent + n = Len(reply.body)
    BY <1>6 DEF SendData, Begin
  <2>3. n \in Nat
    BY WindowAssumption
  <2>4. /\ m - Begin(reply) = body_sent
        /\ (block_sent' + body_sent') - Begin(reply) = body_sent + n
        /\ Begin(reply) <= m /\ m <= block_sent' + body_sent'
        /\ block_sent' + body_sent' <= All(reply)
        /\ end => block_sent' + body_sent' = All(reply)
        /\ block_sent' + body_sent' \in Nat
    BY <1>0, <2>2, <2>3
  <2> HIDE DEF m
  <2>5. Content(reply, f, m, block_sent' + body_sent')
    BY <2>1, <2>4 DEF Content
  <2>6. Piece(reply, f, m, block_sent' + body_sent')
    BY <2>5 DEF Piece
  <2>7. SendsPiece(f)
    BY <2>1, <2>2, <2>4, <2>6 DEF SendsPiece, PushedData, stream_id, PushedStream, m
  <2> QED
    BY <2>7
<1>7. ASSUME SendPush  PROVE Sends
  <2> DEFINE f == PushFrames[pushed + 1]
  <2>1. pushed + 1 \in 1 .. 3
    BY <1>7, PushedFrames DEF SendPush, Types, ServerTypes
  <2>2. /\ f.type # "CONTINUATION" /\ (f.type = "DATA" => PushedData(f) /\ pushed > 0)
        /\ pushed > 0 \/ f.type = "PUSH_PROMISE"
    <3>1. pushed + 1 = 1 \/ pushed + 1 = 2 \/ pushed + 1 = 3
      BY <2>1
    <3> QED
      BY <1>0, <3>1, PushedFrames DEF PushedData
  <2>3. Send(f) /\ UNCHANGED <<reply, block_sent, body_sent>>
    BY <1>7 DEF SendPush
  <2> HIDE DEF f, Sends
  <2> QED
    BY <1>1, <2>2, <2>3
<1>8. /\ SendSettings \/ SendSettingsAck \/ SendPush => Sends
      /\ \A f \in Extra : SendExtra(f) => Sends
      /\ \A n \in 1 .. Len(reply.block) : SendContinuation(n) => Sends
  BY <1>2, <1>3, <1>5, <1>7
<1>9. /\ \A n \in 1 .. Len(reply.block), flags \in HeaderFlags, where \in EmptyBodyEnd :
           SendHeaders(n, flags, where) => Sends
      /\ \A n \in 0 .. MaxFrame, end \in BOOLEAN, padded \in DataPadding :
           SendData(n, end, padded) => Sends
  BY <1>4, <1>6
<1> HIDE DEF Sends
<1>10. ServerReceive \/ ServerClose \/ Sends
  BY <1>8, <1>9 DEF ServerStep
<1> QED
  BY <1>10 DEF Sends, ServerReceive, ServerClose, server

-----------------------------------------------------------------------------
\* What the program takes off the connection.

LEMMA AnnouncedTail ==
  ASSUME NEW q, IsSeq(q), q # <<>>, Announced(q)
  PROVE  /\ ~ PushedData(Head(q))
         /\ Head(q).type # "PUSH_PROMISE" => Announced(Tail(q))
<1>1. PICK l \in Nat : Len(q) = l + 1
  <2>1. Len(q) \in Nat \ {0}
    BY SeqTail
  <2>2. Len(q) - 1 \in Nat /\ Len(q) = (Len(q) - 1) + 1
    BY <2>1
  <2> QED
    BY <2>2
<1>2. /\ Head(q) = q[1] /\ Len(Tail(q)) = l
      /\ \A i \in 1 .. l : Tail(q)[i] = q[i + 1]
  BY <1>1, SeqTail
<1>3. PICK j \in 1 .. l + 1 : /\ q[j].type = "PUSH_PROMISE"
                              /\ \A i \in 1 .. l + 1 : PushedData(q[i]) => j < i
  BY <1>1 DEF Announced
<1>4. 1 \in 1 .. l + 1 /\ ~ j < 1
  OBVIOUS
<1>5. ASSUME j # 1  PROVE Announced(Tail(q))
  <2>1. PICK h \in 1 .. l : j = h + 1
    <3>1. j - 1 \in 1 .. l /\ j = (j - 1) + 1
      BY <1>5
    <3> QED
      BY <3>1
  <2>2. ASSUME NEW i \in 1 .. l, PushedData(Tail(q)[i])  PROVE h < i
    <3>1. i + 1 \in 1 .. l + 1 /\ PushedData(q[i + 1])
      BY <1>2, <2>2
    <3>2. j < i + 1
      BY <1>3, <3>1
    <3> QED
      BY <2>1, <3>2
  <2>3. Tail(q)[h].type = "PUSH_PROMISE"
    BY <1>2, <1>3, <2>1
  <2> QED
    BY <1>2, <2>2, <2>3 DEF Announced
<1> QED
  BY <1>2, <1>3, <1>4, <1>5

\* Before the request there is no DATA frame on its way.
LEMMA NothingYet ==
  ASSUME Types, Stage, Answered, pc = "settings"
  PROVE  /\ block_sent + body_sent = 0 /\ pushed = 0
         /\ \A i \in 1 .. Len(s2c) : ~ PushedData(s2c[i])
<1>1. /\ block_sent \in 0 .. Begin(reply) /\ body_sent \in 0 .. Len(reply.body)
      /\ Begin(reply) \in Nat \ {0} /\ Len(reply.body) \in Nat
      /\ body_sent > 0 => block_sent = Begin(reply)
      /\ pushed \in Nat
  BY ReplyType, PushedFrames DEF Answered, Types, ServerTypes
<1>2. ~ block_sent > 0 /\ ~ pushed > 0
  BY DEF Stage
<1>3. block_sent = 0 /\ pushed = 0 /\ body_sent = 0
  BY <1>1, <1>2
<1> QED
  BY <1>3 DEF Stage, Without, PushedData

TakesOff == s2c # <<>> /\ s2c' = Tail(s2c) /\ UNCHANGED <<reply, block_sent, body_sent, pushed>>

LEMMA TakesPiece ==
  ASSUME Types, Stage, Answered, pc \in Reading, TakesOff
  PROVE  /\ \E k, n \in 0 .. block_sent + body_sent :
              /\ Got(k) /\ Piece(reply, Head(s2c), k, n)
              /\ CutAt(reply', s2c', n, block_sent' + body_sent')
         /\ ~ PushedData(Head(s2c))
         /\ Head(s2c).type # "PUSH_PROMISE" \/ pc = "settings" => Announcing'
<1>0. IsSeq(s2c) /\ s2c # <<>>
  BY DEF Types, ConnectionTypes, ServerQueue, TakesOff
<1>1. block_sent + body_sent \in Nat
  BY ReplyType
<1>2. PICK k : CutAt(reply, s2c, k, block_sent + body_sent) /\ Got(k)
  BY DEF Answered, Underway
<1>3. /\ k \in 0 .. block_sent + body_sent
      /\ \E n \in 0 .. block_sent + body_sent :
           Piece(reply, Head(s2c), k, n) /\ CutAt(reply, Tail(s2c), n, block_sent + body_sent)
  BY <1>0, <1>1, <1>2, CutTail
<1>4. \E n \in 0 .. block_sent + body_sent :
        Piece(reply, Head(s2c), k, n) /\ CutAt(reply', s2c', n, block_sent' + body_sent')
  BY <1>3 DEF TakesOff
<1>5. ASSUME pushed = 0, \A i \in 1 .. Len(s2c) : ~ PushedData(s2c[i])
      PROVE  ~ PushedData(Head(s2c)) /\ Announcing'
  <2>1. /\ Len(s2c) \in Nat \ {0} /\ Head(s2c) = s2c[1] /\ Len(Tail(s2c)) = Len(s2c) - 1
        /\ \A i \in 1 .. Len(s2c) - 1 : Tail(s2c)[i] = s2c[i + 1]
    BY <1>0, SeqTail
  <2>2. 1 \in 1 .. Len(s2c) /\ \A i \in 1 .. Len(s2c) - 1 : i + 1 \in 1 .. Len(s2c)
    BY <2>1
  <2> QED
    BY <1>5, <2>1, <2>2 DEF Announcing, TakesOff
<1>6. ASSUME pc # "settings", Announced(s2c)
      PROVE  ~ PushedData(Head(s2c)) /\ (Head(s2c).type # "PUSH_PROMISE" => Announcing')
  BY <1>0, <1>6, AnnouncedTail DEF Announcing, TakesOff
<1>7. CASE pc = "settings"
  BY <1>2, <1>3, <1>4, <1>5, <1>7, NothingYet
<1>8. CASE pc # "settings"
  <2>1. Announcing
    BY DEF Answered, Underway
  <2> QED
    BY <1>2, <1>3, <1>4, <1>5, <1>6, <1>8, <2>1 DEF Announcing
<1> QED
  BY <1>7, <1>8

\* The header block, a fragment longer.
LEMMA AddsFragment ==
  ASSUME NEW fragment, NEW last, AddFragment(fragment, last)
  PROVE  \/ Throw
         \/ /\ header_block' = header_block \o fragment
            /\ last => pc' = "data" /\ header_list' = decode(header_block').headers
            /\ ~ last => pc' = "continuation"
            /\ UNCHANGED <<response_body, response>>
BY DEF AddFragment

LEMMA BlockGrows ==
  ASSUME Types, NEW m \in 0 .. Begin(reply), NEW n \in 0 .. Begin(reply), m <= n
  PROVE  /\ SubSeq(reply.block, 1, m) \o SubSeq(reply.block, m + 1, n)
              = SubSeq(reply.block, 1, n)
         /\ SubSeq(reply.block, 1, Begin(reply)) = reply.block
         /\ <<>> \o SubSeq(reply.block, 1, n) = SubSeq(reply.block, 1, n)
<1>1. /\ reply.block \in Seq(AllRepresentations) /\ Begin(reply) \in Nat
      /\ Begin(reply) = Len(reply.block)
  BY ReplyType DEF Begin
<1>2. m \in 1 - 1 .. Len(reply.block) /\ n \in m .. Len(reply.block)
      /\ 1 \in 1 .. Len(reply.block) + 1
  BY <1>1
<1>3. SubSeq(reply.block, 1, n) \in Seq(AllRepresentations)
  BY <1>1, SubSeqType
<1> QED
  BY <1>1, <1>2, <1>3, ConcatAdjacentSubSeq, SubSeqFull, NothingMore DEF IsSeq

LEMMA BodyGrows ==
  ASSUME Types, NEW m \in 0 .. Len(reply.body), NEW n \in 0 .. Len(reply.body), m <= n
  PROVE  /\ SubSeq(reply.body, 1, m) \o SubSeq(reply.body, m + 1, n)
              = SubSeq(reply.body, 1, n)
         /\ SubSeq(reply.body, 1, Len(reply.body)) = reply.body
         /\ SubSeq(reply.body, 1, 0) = <<>>
<1>1. reply.body \in Seq(Byte) /\ Len(reply.body) \in Nat
  BY ReplyType
<1>2. m \in 1 - 1 .. Len(reply.body) /\ n \in m .. Len(reply.body)
      /\ 1 \in 1 .. Len(reply.body) + 1
  BY <1>1
<1> QED
  BY <1>1, <1>2, ConcatAdjacentSubSeq, SubSeqFull

\* Steps that take nothing off, and the failures.
LEMMA AnsweredKept ==
  ASSUME Answered, UNCHANGED <<reply, block_sent, body_sent, pushed, response_body>>,
         \/ Throw
         \/ /\ pc' = pc \/ (pc = "connect" /\ pc' = "settings")
            /\ UNCHANGED <<s2c, header_block, header_list, response>>
  PROVE  Answered'
<1>1. CASE Throw
  BY <1>1 DEF Throw, Answered, Underway, Reading
<1>2. CASE /\ pc' = pc \/ (pc = "connect" /\ pc' = "settings")
           /\ UNCHANGED <<s2c, header_block, header_list, response>>
  <2>1. \A k : Got(k) => Got(k)'
    BY <1>2 DEF Got
  <2>2. pc' \in Underway => pc \in Underway
    BY <1>2 DEF Underway
  <2>3. Announcing => Announcing'
    BY <1>2 DEF Announcing
  <2>4. \A k : CutAt(reply, s2c, k, block_sent + body_sent) =>
                 CutAt(reply', s2c', k, block_sent' + body_sent')
    BY <1>2
  <2>5. pc' \in Underway =>
          /\ \E k : CutAt(reply', s2c', k, block_sent' + body_sent') /\ Got(k)'
          /\ Announcing'
    BY <2>1, <2>2, <2>3, <2>4 DEF Answered
  <2>6. pc' = "finish" \/ pc' = "done" => pc' = pc
    BY <1>2
  <2> QED
    BY <1>2, <2>5, <2>6 DEF Answered, IsResponse
<1> QED
  BY <1>1, <1>2

LEMMA SettingsAnswered ==
  ASSUME Types, Stage, Answered, pc = "settings", TakesOff, HandleSettings(Head(s2c))
  PROVE  Answered'
<1>1. PICK k \in 0 .. block_sent + body_sent, n \in 0 .. block_sent + body_sent :
        /\ Got(k) /\ CutAt(reply', s2c', n, block_sent' + body_sent')
        /\ Announcing'
  BY TakesPiece DEF Reading
<1>2. k = 0 /\ n = 0
  BY <1>1, NothingYet
<1>3. /\ pc' \in {"settings", "headers"}
      /\ UNCHANGED <<header_block, response_body, reply, block_sent, body_sent>>
  BY DEF HandleSettings, TakesOff
<1>4. Got(0)'
  BY <1>1, <1>2, <1>3 DEF Got
<1> QED
  BY <1>1, <1>2, <1>3, <1>4 DEF Answered, Underway

LEMMA HeadersAnswered ==
  ASSUME Types, Stage, Answered, pc = "headers", TakesOff, HandleHeaders(Head(s2c)), ~ Throw
  PROVE  Answered'
<1> DEFINE f == Head(s2c)
           fragment == HeaderBlockFragment(f)
           last == "END_HEADERS" \in f.flags
<1>0. /\ Begin(reply) \in Nat \ {0} /\ Len(reply.body) \in Nat
      /\ All(reply) = Begin(reply) + Len(reply.body) /\ Begin(reply) = Len(reply.block)
  BY ReplyType DEF Begin
<1>1. f.type = "HEADERS" /\ ~ FragmentMissing(f) /\ AddFragment(fragment, last)
  BY DEF HandleHeaders
<1>2. PICK k \in 0 .. block_sent + body_sent, n \in 0 .. block_sent + body_sent :
        /\ Got(k) /\ Piece(reply, f, k, n)
        /\ CutAt(reply', s2c', n, block_sent' + body_sent')
        /\ Announcing'
  BY <1>1, TakesPiece DEF Reading
<1>3. k = 0 /\ header_block = <<>> /\ response_body = <<>>
  BY <1>2 DEF Got
<1> HIDE DEF fragment, last
<1>4. /\ header_block' = <<>> \o fragment
      /\ last => pc' = "data" /\ header_list' = decode(header_block').headers
      /\ ~ last => pc' = "continuation"
      /\ response_body' = <<>> /\ UNCHANGED <<response_body, reply, block_sent, body_sent>>
  BY <1>1, <1>3, AddsFragment DEF TakesOff
<1>5. Got(n)'
  <2>1. CASE n = 0
    BY <1>4, <2>1 DEF Got
  <2>2. CASE First(reply, f, k, n)
    <3>1. /\ n \in 1 .. Begin(reply) /\ fragment = SubSeq(reply.block, 1, n)
          /\ last <=> n = Begin(reply)
      BY <1>1, <2>2 DEF First, fragment, last
    <3>2. header_block' = SubSeq(reply.block, 1, n) /\ SubSeq(reply.block, 1, Begin(reply)) = reply.block
      BY <1>0, <1>4, <3>1, BlockGrows
    <3>3. CASE last
      <4>0. n = Begin(reply)
        BY <3>1, <3>3
      <4>1. n - Begin(reply) = 0 /\ n \in Begin(reply) .. All(reply)
        <5>1. \A b, c \in Nat : b - b = 0 /\ b \in b .. b + c
          OBVIOUS
        <5> QED
          BY <1>0, <4>0, <5>1
      <4>2. header_list' = decode(reply.block).headers
        BY <1>4, <3>2, <3>3, <4>0
      <4>3. response_body' = SubSeq(reply.body, 1, 0)
        BY <1>0, <1>4, BodyGrows
      <4> QED
        BY <1>4, <3>3, <4>1, <4>2, <4>3 DEF Got
    <3>4. CASE ~ last
      <4>1. n < Begin(reply)
        BY <1>0, <3>1, <3>4
      <4> QED
        BY <1>4, <3>2, <3>4, <4>1 DEF Got
    <3> QED
      BY <3>3, <3>4
  <2> QED
    BY <1>1, <1>2, <1>3, <2>1, <2>2 DEF Piece, Other, Further, Content
<1>6. pc' \in {"continuation", "data"}
  BY <1>4
<1> QED
  BY <1>2, <1>4, <1>5, <1>6 DEF Answered, Underway

LEMMA ContinuationAnswered ==
  ASSUME Types, Stage, Answered, pc = "continuation", TakesOff,
         HandleContinuation(Head(s2c)), ~ Throw
  PROVE  Answered'
<1> DEFINE f == Head(s2c)
           fragment == f.payload
           last == "END_HEADERS" \in f.flags
<1>0. /\ Begin(reply) \in Nat \ {0} /\ Len(reply.body) \in Nat
      /\ All(reply) = Begin(reply) + Len(reply.body) /\ Begin(reply) = Len(reply.block)
      /\ block_sent + body_sent \in Nat
  BY ReplyType DEF Begin
<1>1. f.type = "CONTINUATION" /\ AddFragment(fragment, last)
  BY DEF HandleContinuation
<1>2. PICK k \in 0 .. block_sent + body_sent, n \in 0 .. block_sent + body_sent :
        /\ Got(k) /\ Piece(reply, f, k, n)
        /\ CutAt(reply', s2c', n, block_sent' + body_sent')
        /\ Announcing'
  BY <1>1, TakesPiece DEF Reading
<1>3. /\ 0 < k /\ k < n /\ n <= Begin(reply)
      /\ fragment = SubSeq(reply.block, k + 1, n) /\ (last <=> n = Begin(reply))
  BY <1>1, <1>2 DEF Piece, Other, First, Further, Content
<1>4. header_block = SubSeq(reply.block, 1, k) /\ response_body = <<>>
  BY <1>2, <1>3 DEF Got
<1> HIDE DEF f, fragment, last
<1>5. /\ header_block' = header_block \o fragment
      /\ last => pc' = "data" /\ header_list' = decode(header_block').headers
      /\ ~ last => pc' = "continuation"
      /\ response_body' = <<>> /\ UNCHANGED <<response_body, reply, block_sent, body_sent>>
  <2>1. /\ header_block' = header_block \o fragment
        /\ last => pc' = "data" /\ header_list' = decode(header_block').headers
        /\ ~ last => pc' = "continuation"
        /\ UNCHANGED response_body
    BY <1>1, AddsFragment
  <2> QED
    BY <1>4, <2>1 DEF TakesOff
<1>6. k \in 0 .. Begin(reply) /\ n \in 0 .. Begin(reply) /\ k <= n
  BY <1>0, <1>3
<1>7. header_block' = SubSeq(reply.block, 1, n) /\ SubSeq(reply.block, 1, Begin(reply)) = reply.block
  BY <1>3, <1>4, <1>5, <1>6, BlockGrows
<1>8. Got(n)'
  <2>1. CASE last
    <3>0. n = Begin(reply)
      BY <1>3, <2>1
    <3>1. n - Begin(reply) = 0 /\ n \in Begin(reply) .. All(reply)
      <4>1. \A b, c \in Nat : b - b = 0 /\ b \in b .. b + c
        OBVIOUS
      <4> QED
        BY <1>0, <3>0, <4>1
    <3>2. header_list' = decode(reply.block).headers
      BY <1>5, <1>7, <2>1, <3>0
    <3>3. response_body' = SubSeq(reply.body, 1, 0)
      BY <1>0, <1>5, BodyGrows
    <3> QED
      BY <1>5, <2>1, <3>1, <3>2, <3>3 DEF Got
  <2>2. CASE ~ last
    <3>1. n < Begin(reply)
      BY <1>0, <1>3, <1>6, <2>2
    <3> QED
      BY <1>5, <1>7, <2>2, <3>1 DEF Got
  <2> QED
    BY <2>1, <2>2
<1>9. pc' \in {"continuation", "data"}
  BY <1>5
<1> QED
  BY <1>2, <1>5, <1>8, <1>9 DEF Answered, Underway

LEMMA DataAnswered ==
  ASSUME Types, Stage, Answered, pc = "data", TakesOff, HandleData(Head(s2c)), ~ Throw
  PROVE  Answered'
<1> DEFINE f == Head(s2c)
           B == Begin(reply)
<1>0. /\ B \in Nat \ {0} /\ Len(reply.body) \in Nat /\ All(reply) = B + Len(reply.body)
      /\ block_sent + body_sent \in Nat
  BY ReplyType
<1>1. /\ f.type = "DATA" /\ "PADDED" \notin f.flags
      /\ response_body' = response_body \o f.payload
      /\ pc' = IF "END_STREAM" \in f.flags THEN "finish" ELSE pc
      /\ UNCHANGED <<header_block, header_list, response, reply, block_sent, body_sent>>
  BY DEF HandleData, TakesOff
<1>2. PICK k \in 0 .. block_sent + body_sent, n \in 0 .. block_sent + body_sent :
        /\ Got(k) /\ Piece(reply, f, k, n)
        /\ CutAt(reply', s2c', n, block_sent' + body_sent')
        /\ Announcing' /\ ~ PushedData(f)
  BY <1>1, TakesPiece DEF Reading
<1> HIDE DEF f
<1>3. /\ B <= k /\ k <= n /\ n <= All(reply)
      /\ f.payload = SubSeq(reply.body, k - B + 1, n - B)
      /\ "END_STREAM" \in f.flags => n = All(reply)
  BY <1>1, <1>2 DEF Piece, Other, First, Further, Content
<1>4. /\ response_body = SubSeq(reply.body, 1, k - B)
      /\ header_list = decode(reply.block).headers
  BY <1>0, <1>2, <1>3 DEF Got
<1> HIDE DEF B
<1>5. k - B \in 0 .. Len(reply.body) /\ n - B \in 0 .. Len(reply.body) /\ k - B <= n - B
  BY <1>0, <1>3, SMTT(30)
<1>6. response_body' = SubSeq(reply.body, 1, n - B)
  BY <1>1, <1>3, <1>4, <1>5, BodyGrows
<1>7. CASE "END_STREAM" \in f.flags
  <2>1. n - B = Len(reply.body)
    BY <1>0, <1>3, <1>7
  <2>2. response_body' = reply.body
    BY <1>0, <1>6, <2>1, BodyGrows
  <2> QED
    BY <1>1, <1>4, <1>5, <1>6, <1>7, <2>2 DEF Answered, Underway, Reading
<1>8. CASE "END_STREAM" \notin f.flags
  <2>1. n \in B .. All(reply)
    BY <1>0, <1>3
  <2>2. Got(n)'
    BY <1>1, <1>4, <1>6, <1>8, <2>1 DEF Got, B
  <2> QED
    BY <1>1, <1>2, <1>5, <1>6, <1>8, <2>2 DEF Answered, Underway
<1> QED
  BY <1>7, <1>8

LEMMA FinishAnswered ==
  ASSUME Answered, Finish, ~ Throw, UNCHANGED <<reply, block_sent, body_sent, pushed>>
  PROVE  Answered'
<1> DEFINE list == header_list
           statuses == SelectSeq(list, IsStatus)
<1>1. header_list = decode(reply.block).headers /\ response_body = reply.body
  BY DEF Answered, Finish
<1>2. /\ pc' = "done" /\ response_body' = response_body
      /\ statuses # <<>> => Head(statuses).value \in DOMAIN Stoi
      /\ \E code \in IF statuses = <<>> THEN Codes ELSE {Stoi[Head(statuses).value]} :
           response' = [code |-> code, headers |-> ResponseHeaders(list),
                        payload |-> response_body]
  BY DEF Finish
<1> HIDE DEF statuses
<1>3. PICK code : /\ response' = [code |-> code, headers |-> ResponseHeaders(list),
                                  payload |-> response_body]
                  /\ statuses # <<>> => code = Stoi[Head(statuses).value]
  BY <1>2
<1>4. IsResponse(decode(reply.block).headers, reply.body)'
  BY <1>1, <1>2, <1>3 DEF IsResponse, statuses
<1> QED
  BY <1>2, <1>4 DEF Answered, Underway, Reading

LEMMA AnsweredInductive == Types /\ Stage /\ Answered /\ [Next]_vars => Answered'
<1> SUFFICES ASSUME Types, Stage, Answered, [Next]_vars  PROVE Answered'
  OBVIOUS
<1>1. CASE ClientStep /\ UNCHANGED server
  <2>0. UNCHANGED <<reply, block_sent, body_sent, pushed>>
    BY <1>1 DEF server
  <2>1. CASE Throw
    BY <2>0, <2>1, AnsweredKept DEF Throw
  <2>2. CASE ~ Throw /\ (Connect \/ WriteFrame \/ WriteLost)
    BY <2>0, <2>2, AnsweredKept DEF Connect, WriteFrame, WriteLost, connection
  <2>3. CASE ~ Throw /\ ReadSettings
    BY <2>0, <2>3, SettingsAnswered DEF ReadSettings, Receive, TakesOff
  <2>4. CASE ~ Throw /\ ReadHeaders
    BY <2>0, <2>4, HeadersAnswered DEF ReadHeaders, Receive, TakesOff
  <2>5. CASE ~ Throw /\ ReadContinuation
    BY <2>0, <2>5, ContinuationAnswered DEF ReadContinuation, Receive, TakesOff
  <2>6. CASE ~ Throw /\ ReadData
    BY <2>0, <2>6, DataAnswered DEF ReadData, Receive, TakesOff
  <2>7. CASE ~ Throw /\ Finish
    BY <2>0, <2>7, FinishAnswered
  <2> QED
    BY <1>1, <2>1, <2>2, <2>3, <2>4, <2>5, <2>6, <2>7
    DEF ClientStep, WriteFails, ReadFails
<1>2. CASE ServerStep /\ UNCHANGED client
  <2>0. UNCHANGED <<pc, header_block, header_list, response_body, response>>
    BY <1>2 DEF client
  <2>1. CASE UNCHANGED <<s2c, reply, block_sent, body_sent, pushed>>
    BY <2>0, <2>1, AnsweredKept
  <2>2. ASSUME NEW f, SendsPiece(f)  PROVE Answered'
    <3>1. /\ s2c' = Append(s2c, f) /\ UNCHANGED reply
          /\ block_sent' + body_sent' \in Nat /\ block_sent + body_sent \in Nat
          /\ block_sent + body_sent <= block_sent' + body_sent'
          /\ Piece(reply, f, block_sent + body_sent, block_sent' + body_sent')
          /\ IsSeq(s2c)
      BY <2>2, ReplyType DEF SendsPiece, Types, ConnectionTypes, ServerQueue
    <3>2. \A k : CutAt(reply, s2c, k, block_sent + body_sent) =>
                   CutAt(reply', s2c', k, block_sent' + body_sent')
      <4> SUFFICES ASSUME NEW k, CutAt(reply, s2c, k, block_sent + body_sent)
                   PROVE  CutAt(reply', s2c', k, block_sent' + body_sent')
        OBVIOUS
      <4>1. CutAt(reply, Append(s2c, f), k, block_sent' + body_sent')
        BY <3>1, CutAppend
      <4> QED
        BY <3>1, <4>1
    <3>3. \A k : Got(k) => Got(k)'
      BY <2>0, <3>1 DEF Got
    <3>4. /\ Len(s2c) \in Nat /\ Len(s2c') = Len(s2c) + 1 /\ s2c'[Len(s2c) + 1] = f
          /\ \A i \in 1 .. Len(s2c) : s2c'[i] = s2c[i]
          /\ \A i \in 1 .. Len(s2c) + 1 : i = Len(s2c) + 1 \/ i \in 1 .. Len(s2c)
      BY <3>1, SeqAppend
    <3>5. Announcing => Announcing'
      <4>1. CASE Announced(s2c)
        <5>1. PICK j \in 1 .. Len(s2c) :
                /\ s2c[j].type = "PUSH_PROMISE"
                /\ \A i \in 1 .. Len(s2c) : PushedData(s2c[i]) => j < i
          BY <4>1 DEF Announced
        <5>2. j \in 1 .. Len(s2c) + 1 /\ j < Len(s2c) + 1
          BY <3>4
        <5>3. \A i \in 1 .. Len(s2c) + 1 : PushedData(s2c'[i]) => j < i
          BY <3>4, <5>1, <5>2
        <5>4. Announced(s2c')
          BY <3>4, <5>1, <5>2, <5>3 DEF Announced
        <5> QED
          BY <5>4 DEF Announcing
      <4>2. CASE pushed = 0 /\ \A i \in 1 .. Len(s2c) : ~ PushedData(s2c[i])
        <5>1. ~ PushedData(f) /\ (pushed' = 0 \/ f.type = "PUSH_PROMISE")
          BY <2>2, <4>2 DEF SendsPiece
        <5>2. \A i \in 1 .. Len(s2c) + 1 : ~ PushedData(s2c'[i])
          BY <3>4, <4>2, <5>1
        <5>3. Len(s2c) + 1 \in 1 .. Len(s2c) + 1
          BY <3>4
        <5>4. f.type = "PUSH_PROMISE" => Announced(s2c')
          BY <3>4, <5>2, <5>3 DEF Announced
        <5> QED
          BY <3>4, <5>1, <5>2, <5>4 DEF Announcing
      <4> QED
        BY <4>1, <4>2 DEF Announcing
    <3>6. body_sent' > 0 => block_sent' = Begin(reply')
      BY <2>2, <3>1 DEF SendsPiece
    <3>7. pc' \in Underway =>
            /\ \E k : CutAt(reply', s2c', k, block_sent' + body_sent') /\ Got(k)'
            /\ Announcing'
      BY <2>0, <3>2, <3>3, <3>5 DEF Answered
    <3> QED
      BY <2>0, <3>1, <3>6, <3>7 DEF Answered, IsResponse
  <2> QED
    BY <1>2, <2>1, <2>2, ServerAnswers
<1>3. CASE UNCHANGED vars
  BY <1>3, AnsweredKept DEF vars, client, connection, server
<1> QED
  BY <1>1, <1>2, <1>3 DEF Next, Terminated


\* The code and the headers the server means are those its block decodes to.
WellFormedReplies ==
  \A r \in Replies :
    LET list == decode(r.block).headers
        statuses == SelectSeq(list, IsStatus)
    IN  /\ statuses # <<>> /\ r.code = Stoi[Head(statuses).value]
        /\ r.headers = ResponseHeaders(list)

\* However the reply is cut into frames, and whatever else the server sends and
\* whenever it stops, what get() returns is the reply: its code, its headers and
\* all of its body, and no part of another body before (httpv2.cc:108-203).
THEOREM ResponseFaithfulAlways ==
  ASSUME WellFormedReplies
  PROVE  Spec => []ResponseFaithful
<1>1. Init => IInv /\ Answered
  BY TypesInitially, StageInitially, WindowsInitially, AnsweredInitially DEF IInv
<1>2. IInv /\ Answered /\ [Next]_vars => (IInv /\ Answered)'
  BY TypesInductive, StageInductive, WindowsInductive, AnsweredInductive DEF IInv
<1>3. IInv /\ Answered => ResponseFaithful
  <2> SUFFICES ASSUME IInv, Answered  PROVE ResponseFaithful
    OBVIOUS
  <2>0. Types /\ reply \in Replies
    BY DEF IInv, Types, ServerTypes
  <2>1. IsPrefix(response_body, reply.body)
    <3> DEFINE body == reply.body
    <3>1. PICK k \in 0 .. Len(body) : response_body = SubSeq(body, 1, k)
      BY DEF Answered
    <3>2. body \in Seq(Byte)
      BY <2>0, ReplyType
    <3> HIDE DEF body
    <3>3. Len(response_body) = k /\ k <= Len(body)
      BY <3>1, <3>2
    <3>4. SubSeq(response_body, 1, k) = SubSeq(body, 1, k)
      BY <3>1, <3>2
    <3> QED
      BY <3>1, <3>3, <3>4 DEF IsPrefix, body
  <2>2. ASSUME pc = "done"
        PROVE  response = [code |-> reply.code, headers |-> reply.headers,
                           payload |-> reply.body]
    <3>1. IsResponse(decode(reply.block).headers, reply.body)
      BY <2>2 DEF Answered
    <3> QED
      BY <2>0, <3>1 DEF IsResponse, WellFormedReplies
  <2> QED
    BY <2>1, <2>2 DEF ResponseFaithful
<1> QED
  BY <1>1, <1>2, <1>3, PTL DEF Spec

=============================================================================
