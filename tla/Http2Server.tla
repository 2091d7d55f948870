---------------------------- MODULE Http2Server -----------------------------
(***************************************************************************)
(* The server at the other end: any server that follows RFC 7540, as far   *)
(* as the client can tell servers apart.  It is not part of the program.   *)
(* It reads frames whenever there are any, checks the client against the   *)
(* RFC, sends the reply within the flow-control windows, and may cut the   *)
(* reply into frames as it likes.  The constants say which liberties of    *)
(* the RFC it takes.                                                       *)
(***************************************************************************)
EXTENDS Http2Frames, Http2Connection

CONSTANTS
  Replies,      \* the replies it may give: header block, headers, code and body
  MaxFrame,     \* octets in a DATA frame, at most
  W,            \* initial flow-control window, of the stream and the connection
  HeaderFlags,  \* sets of optional flags ("PADDED", "PRIORITY") on HEADERS
  EmptyBodyEnd, \* where an empty body ends: "headers" and/or "data"
  Extra,        \* frames it may send that belong to no reply
  LateExtra,    \* whether it sends them after acknowledging SETTINGS, too
  DataPadding,  \* whether it may pad DATA frames, a subset of BOOLEAN
  EmptyData,    \* whether it sends empty DATA frames before the end
  MaxExtra,     \* bound on extra and empty frames together
  MayPush,      \* whether it may push a response nobody asked for
  MayClose      \* whether it may give up at any time

ASSUME WindowAssumption == W \in Nat \ {0} /\ MaxFrame \in Nat \ {0}
ASSUME ReplyAssumption ==
  \A r \in Replies : /\ r.block \in Seq(AllRepresentations) /\ r.block # <<>>
                     /\ r.body \in Seq(Byte)
ASSUME LibertiesAssumption ==
  /\ HeaderFlags \subseteq SUBSET {"PADDED", "PRIORITY"}
  /\ MaxExtra \in Nat

\* An extra frame is none of those that carry a reply after its HEADERS, and
\* acknowledges nothing.  If it is a HEADERS frame, what the client can take
\* for its fragment consists of representations.
ASSUME ExtraAssumption ==
  \A f \in Extra :
    /\ f.type \in FrameTypes \ {"DATA", "CONTINUATION"}
    /\ f.flags \subseteq FrameFlags /\ f.sid \in {0, stream_id}
    /\ f.type = "SETTINGS" => "ACK" \notin f.flags
    /\ f.type = "HEADERS" =>
         FragmentMissing(f) \/ HeaderBlockFragment(f) \in Seq(AllRepresentations)

VARIABLES
  reply,           \* the reply this server gives
  s_state,         \* of the request: "preface", "idle", "continuation", "requested"
  s_block,         \* the request header block received so far
  s_settings,      \* its SETTINGS frame is sent
  s_acks,          \* SETTINGS frames it has yet to acknowledge
  s_acked,         \* its SETTINGS frame is acknowledged
  s_error,         \* it found the client in breach of the RFC
  block_sent,      \* representations of the reply's header block sent
  body_sent,       \* octets of its body sent
  ended,           \* END_STREAM is sent
  extras,          \* extra and empty frames sent
  pushed,          \* frames of the push sent
  conn_window, stream_window

server == <<reply, s_state, s_block, s_settings, s_acks, s_acked, s_error,
            block_sent, body_sent, ended, extras, pushed, conn_window, stream_window>>

ServerInit ==
  /\ reply \in Replies
  /\ s_state = "preface" /\ s_block = <<>>
  /\ s_settings = FALSE /\ s_acks = 0 /\ s_acked = FALSE /\ s_error = FALSE
  /\ block_sent = 0 /\ body_sent = 0 /\ ended = FALSE
  /\ extras = 0 /\ pushed = 0
  /\ conn_window = W /\ stream_window = W

-----------------------------------------------------------------------------
\* What the RFC lets a client send next.
Legal(f) ==
  CASE s_state = "preface"      -> f.type = "PREFACE"
    [] s_state = "continuation" -> f.type = "CONTINUATION"
    [] OTHER -> \/ f.type \in {"SETTINGS", "GOAWAY"}
                \/ f.type = "HEADERS" /\ s_state = "idle"
                \/ f.type = "WINDOW_UPDATE" /\ f.payload[1] > 0

\* The request's fragments are put together as the flags say.
RequestFragment(f) ==
  IF f.type \in {"HEADERS", "CONTINUATION"}
    THEN /\ s_block' = s_block \o f.payload
         /\ s_state' = IF "END_HEADERS" \in f.flags THEN "requested" ELSE "continuation"
    ELSE /\ s_state' = IF f.type = "PREFACE" THEN "idle" ELSE s_state
         /\ UNCHANGED s_block

\* What a WINDOW_UPDATE frame adds to the window of stream sid.
Credit(f, sid) ==
  IF f.type = "WINDOW_UPDATE" /\ f.sid = sid THEN f.payload[1] ELSE 0

ServerReceive ==
  LET f == Head(c2s)
  IN  /\ c2s # <<>> /\ ~ s_closed
      /\ c2s' = Tail(c2s)
      /\ UNCHANGED <<s2c, c_closed, reply, s_settings, block_sent, body_sent, ended, extras,
                     pushed>>
      /\ IF Legal(f)
           THEN /\ RequestFragment(f)
                /\ s_acks' = IF f.type = "SETTINGS" /\ "ACK" \notin f.flags
                               THEN s_acks + 1 ELSE s_acks
                /\ s_acked' = (s_acked \/ (f.type = "SETTINGS" /\ "ACK" \in f.flags))
                /\ conn_window' = conn_window + Credit(f, 0)
                /\ stream_window' = stream_window + Credit(f, stream_id)
                /\ UNCHANGED <<s_error, s_closed>>
           ELSE /\ s_error' = TRUE /\ s_closed' = TRUE
                /\ UNCHANGED <<s_state, s_block, s_acks, s_acked, conn_window, stream_window>>

-----------------------------------------------------------------------------
\* Sending.  A server's first frame is its SETTINGS.

Send(f) == /\ ~ s_closed /\ ~ c_closed
           /\ Len(s2c) < Cap
           /\ s2c' = Append(s2c, f)
           /\ UNCHANGED <<c2s, c_closed, s_closed>>

SendSettings ==
  /\ ~ s_settings
  /\ Send(Frame("SETTINGS", {}, 0, <<>>))
  /\ s_settings' = TRUE
  /\ UNCHANGED <<reply, s_state, s_block, s_acks, s_acked, s_error, block_sent,
                 body_sent, ended, extras, pushed, conn_window,
                 stream_window>>

\* The header block of the reply is begun and not finished.
InHeaderBlock == block_sent \in 1 .. Len(reply.block) - 1

SendSettingsAck ==
  /\ s_settings /\ s_acks > 0 /\ ~ InHeaderBlock
  /\ Send(Frame("SETTINGS", {"ACK"}, 0, <<>>))
  /\ s_acks' = s_acks - 1
  /\ UNCHANGED <<reply, s_state, s_block, s_settings, s_acked, s_error, block_sent,
                 body_sent, ended, extras, pushed, conn_window,
                 stream_window>>

SendExtra(f) ==
  /\ s_settings /\ ~ InHeaderBlock
  /\ LateExtra \/ s_state = "preface" \/ s_acks > 0
  /\ extras < MaxExtra
  /\ Send(f)
  /\ extras' = extras + 1
  /\ UNCHANGED <<reply, s_state, s_block, s_settings, s_acks, s_acked, s_error,
                 block_sent, body_sent, ended, pushed, conn_window, stream_window>>

EndHeaders(n) == IF n = Len(reply.block) THEN {"END_HEADERS"} ELSE {}

\* The first n representations, in a frame with the optional flags given.
SendHeaders(n, flags, where) ==
  LET end     == reply.body = <<>> /\ where = "headers"
      padded  == "PADDED" \in flags
      before  == (IF padded THEN <<PadLength(1)>> ELSE <<>>)
                   \o (IF "PRIORITY" \in flags THEN [i \in 1 .. 5 |-> Priority] ELSE <<>>)
      after   == IF padded THEN <<Padding>> ELSE <<>>
  IN  /\ s_state = "requested" /\ s_settings
      /\ block_sent = 0
      /\ Send(Frame("HEADERS",
                    flags \cup EndHeaders(n) \cup (IF end THEN {"END_STREAM"} ELSE {}),
                    stream_id, before \o SubSeq(reply.block, 1, n) \o after))
      /\ block_sent' = n
      /\ ended' = end
      /\ UNCHANGED <<reply, s_state, s_block, s_settings, s_acks, s_acked, s_error,
                     body_sent, extras, pushed, conn_window,
                     stream_window>>

SendContinuation(n) ==
  /\ InHeaderBlock
  /\ n > block_sent
  /\ Send(Frame("CONTINUATION", EndHeaders(n), stream_id,
                SubSeq(reply.block, block_sent + 1, n)))
  /\ block_sent' = n
  /\ UNCHANGED <<reply, s_state, s_block, s_settings, s_acks, s_acked, s_error,
                 body_sent, ended, extras, pushed, conn_window,
                 stream_window>>

\* n octets of the body, within both windows; padding counts there as well.
SendData(n, end, padded) ==
  LET data  == SubSeq(reply.body, body_sent + 1, body_sent + n)
      total == n + (IF padded THEN 2 ELSE 0)
  IN  /\ block_sent = Len(reply.block) /\ ~ ended
      /\ total <= conn_window /\ total <= stream_window
      /\ body_sent + n <= Len(reply.body)
      /\ end => body_sent + n = Len(reply.body)
      /\ IF n = 0 /\ ~ end
           THEN EmptyData /\ extras < MaxExtra /\ extras' = extras + 1
           ELSE UNCHANGED extras
      /\ Send(Frame("DATA", (IF end THEN {"END_STREAM"} ELSE {})
                              \cup (IF padded THEN {"PADDED"} ELSE {}), stream_id,
                    IF padded THEN <<PadLength(1)>> \o data \o <<Padding>> ELSE data))
      /\ body_sent' = body_sent + n
      /\ ended' = end
      /\ conn_window' = conn_window - total
      /\ stream_window' = stream_window - total
      /\ UNCHANGED <<reply, s_state, s_block, s_settings, s_acks, s_acked, s_error,
                     block_sent, pushed>>

\* A push: the promise on the request's stream, then a response on the stream
\* that was promised.  The client's SETTINGS do not rule it out.
PushedStream == 2
PushFrames ==
  <<Frame("PUSH_PROMISE", {"END_HEADERS"}, stream_id, <<Opaque>>),
    Frame("HEADERS", {"END_HEADERS"}, PushedStream, <<Indexed(1)>>),
    Frame("DATA", {"END_STREAM"}, PushedStream, <<0>>)>>

SendPush ==
  LET f == PushFrames[pushed + 1]
      n == IF f.type = "DATA" THEN length(f) ELSE 0
  IN  /\ MayPush /\ s_state = "requested" /\ s_settings /\ ~ InHeaderBlock
      /\ pushed < Len(PushFrames)
      /\ ~ ended \/ pushed > 0
      /\ n <= conn_window
      /\ Send(f)
      /\ pushed' = pushed + 1
      /\ conn_window' = conn_window - n
      /\ UNCHANGED <<reply, s_state, s_block, s_settings, s_acks, s_acked, s_error,
                     block_sent, body_sent, ended, extras, stream_window>>

\* It closes after the client has, or gives up before.
ServerClose ==
  /\ ~ s_closed
  /\ c_closed \/ MayClose
  /\ s_closed' = TRUE
  /\ UNCHANGED <<c2s, s2c, c_closed>>
  /\ UNCHANGED server

ServerStep ==
  \/ ServerReceive
  \/ SendSettings
  \/ SendSettingsAck
  \/ \E f \in Extra : SendExtra(f)
  \/ \E n \in 1 .. Len(reply.block), flags \in HeaderFlags, where \in EmptyBodyEnd :
       SendHeaders(n, flags, where)
  \/ \E n \in 1 .. Len(reply.block) : SendContinuation(n)
  \/ \E n \in 0 .. MaxFrame, end \in BOOLEAN, padded \in DataPadding :
       SendData(n, end, padded)
  \/ SendPush
  \/ ServerClose

=============================================================================
