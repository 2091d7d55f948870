---------------------------- MODULE Http2Client -----------------------------
(***************************************************************************)
(* httpv2::get (httpv2.cc), one action per blocking call: each action is   *)
(* the code from one read to the next, and the frames it writes wait in    *)
(* `out` for the connection to take them one by one.  Any exception leaves *)
(* the function and ends the program (main.cc:133-136): Throw.             *)
(***************************************************************************)
EXTENDS Http2Frames, Http2Connection

CONSTANTS
  AlpnOutcomes,   \* what connecting can lead to: "h2", "other", "none", "error"
  VerboseChoices, \* whether -v is given
  Requests,       \* the encoded request header blocks
  MaxPayload,     \* max_payload_len of send_http2_headers (16384 in the code)
  StatusBase,     \* the name of ":status" without its colon
  Stoi,           \* the status values std::stoi understands, and what they mean
  Codes           \* what an int that was never assigned can hold

ASSUME RequestsAssumption == Requests \subseteq Seq(Byte) /\ MaxPayload \in Nat \ {0}
ASSUME VerboseAssumption == VerboseChoices \subseteq BOOLEAN

VARIABLES
  pc,               \* the read or write the program is at
  verbose,          \* g_verbose
  request,          \* the request's header block
  rcv_settings, rcv_settings_ack,
  out,              \* frames being written
  header_block, header_list, response_body,
  response          \* the http_response, once pc is "done"

client == <<pc, verbose, request, rcv_settings, rcv_settings_ack, out,
            header_block, header_list, response_body, response>>

Reading == {"settings", "headers", "continuation", "data"}
Stopped == {"done", "failed"}

ClientInit ==
  /\ pc = "connect"
  /\ verbose \in VerboseChoices
  /\ request \in Requests
  /\ rcv_settings = FALSE /\ rcv_settings_ack = FALSE
  /\ out = <<>>
  /\ header_block = <<>> /\ header_list = <<>> /\ response_body = <<>>
  /\ response = [code |-> 0, headers |-> <<>>, payload |-> <<>>]

-----------------------------------------------------------------------------
\* An exception leaves httpv2::get; the stream is destroyed on the way out.
Throw ==
  /\ pc' = "failed"
  /\ out' = <<>>
  /\ c_closed' = TRUE
  /\ UNCHANGED <<verbose, request, rcv_settings, rcv_settings_ack, header_block,
                 header_list, response_body, response>>

\* TCP, TLS and ALPN; then the preface and an empty SETTINGS frame.
Connect ==
  /\ pc = "connect"
  /\ UNCHANGED <<c2s, s2c, s_closed>>
  /\ \E alpn \in AlpnOutcomes :
       IF alpn = "h2"
         THEN /\ pc' = "settings"
              /\ out' = <<Preface, send_http2_settings>>
              /\ UNCHANGED <<verbose, request, rcv_settings, rcv_settings_ack,
                             header_block, header_list, response_body, response,
                             c_closed>>
         ELSE Throw

\* asio::write of the next frame.
WriteFrame ==
  /\ out # <<>>
  /\ ~ s_closed
  /\ Len(c2s) < Cap
  /\ c2s' = Append(c2s, Head(out))
  /\ out' = Tail(out)
  /\ UNCHANGED <<pc, verbose, request, rcv_settings, rcv_settings_ack, header_block,
                 header_list, response_body, response, s2c, c_closed, s_closed>>

\* Writing to a server that is gone: the frame is lost, or the write throws.
WriteLost ==
  /\ out # <<>>
  /\ s_closed
  /\ out' = Tail(out)
  /\ UNCHANGED <<pc, verbose, request, rcv_settings, rcv_settings_ack, header_block,
                 header_list, response_body, response>>
  /\ UNCHANGED connection

WriteFails ==
  /\ out # <<>>
  /\ s_closed
  /\ Throw
  /\ UNCHANGED <<c2s, s2c, s_closed>>

-----------------------------------------------------------------------------
\* read_http2_frame: the frame is taken off the connection and, with -v, shown.
Receive == /\ out = <<>>
           /\ s2c # <<>>
           /\ s2c' = Tail(s2c)
           /\ UNCHANGED <<c2s, s_closed>>

DumpFails(f) == IF verbose THEN DumpOutcomes(f) ELSE {FALSE}

\* Mutant of HandleSettings: the loop ends on the first frame, whatever it is.
HandleSettingsOnce(f) ==
  /\ rcv_settings' = TRUE /\ rcv_settings_ack' = TRUE
  /\ pc' = "headers"
  /\ out' = send_http2_headers(request, MaxPayload)
  /\ UNCHANGED <<verbose, request, header_block, header_list, response_body,
                 response, c_closed>>

\* The loop that waits for the server's SETTINGS and for the acknowledgement of
\* ours skips every other frame; the request follows it at once.
HandleSettings(f) ==
  LET settings == f.type = "SETTINGS"
      ack      == settings /\ "ACK" \in f.flags
      answer   == IF settings /\ ~ ack THEN <<send_http2_settings_ack>> ELSE <<>>
  IN  /\ rcv_settings' = (rcv_settings \/ (settings /\ ~ ack))
      /\ rcv_settings_ack' = (rcv_settings_ack \/ ack)
      /\ IF rcv_settings' /\ rcv_settings_ack'
           THEN /\ pc' = "headers"
                /\ out' = answer \o send_http2_headers(request, MaxPayload)
           ELSE pc' = pc /\ out' = answer
      /\ UNCHANGED <<verbose, request, header_block, header_list, response_body,
                     response, c_closed>>

\* The header block grows by a fragment; the last one has it decoded.
AddFragment(fragment, last) ==
  LET block == header_block \o fragment
  IN  \E decoded \in IF last THEN {decode(block)} ELSE {NewDecoder} :
      IF decoded.thrown
        THEN Throw
        ELSE /\ header_block' = block
             /\ header_list' = IF last THEN decoded.headers ELSE header_list
             /\ pc' = IF last THEN "data" ELSE "continuation"
             /\ UNCHANGED <<verbose, request, rcv_settings, rcv_settings_ack, out,
                            response_body, response, c_closed>>

\* Mutant of HandleHeaders: a frame of another type is skipped.
HandleHeadersSkippingOthers(f) ==
  IF f.type # "HEADERS"
    THEN UNCHANGED <<pc, verbose, request, rcv_settings, rcv_settings_ack, out,
                     header_block, header_list, response_body, response, c_closed>>
    ELSE IF FragmentMissing(f)
      THEN Throw
      ELSE AddFragment(HeaderBlockFragment(f), "END_HEADERS" \in f.flags)

HandleHeaders(f) ==
  IF f.type # "HEADERS" \/ FragmentMissing(f)
    THEN Throw
    ELSE AddFragment(HeaderBlockFragment(f), "END_HEADERS" \in f.flags)

HandleContinuation(f) ==
  IF f.type # "CONTINUATION"
    THEN Throw
    ELSE AddFragment(f.payload, "END_HEADERS" \in f.flags)

\* Mutant of WindowUpdates: the connection's window is forgotten.
StreamWindowUpdate(n) == <<send_http2_window_update(stream_id, n)>>

\* Mutant of WindowUpdates: the connection's window is given back twice.
DoubleWindowUpdate(n) == <<send_http2_window_update(0, n),
                           send_http2_window_update(0, n)>>

\* What was received is given back to both windows at once.
WindowUpdates(n) == <<send_http2_window_update(stream_id, n),
                      send_http2_window_update(0, n)>>

\* Mutant of HandleData: the payload of the last frame is not stored.
HandleDataDroppingLast(f) ==
  LET end == "END_STREAM" \in f.flags
  IN  IF f.type # "DATA" \/ "PADDED" \in f.flags
        THEN Throw
        ELSE /\ response_body' = IF end THEN response_body ELSE response_body \o f.payload
             /\ pc' = IF end THEN "finish" ELSE pc
             /\ out' = IF end THEN <<send_http2_goaway(stream_id)>>
                              ELSE WindowUpdates(length(f))
             /\ UNCHANGED <<verbose, request, rcv_settings, rcv_settings_ack,
                            header_block, header_list, response, c_closed>>

\* Mutant of HandleData: WINDOW_UPDATE goes out before END_STREAM is looked at.
HandleDataUpdatingFirst(f) ==
  LET end == "END_STREAM" \in f.flags
  IN  /\ response_body' = response_body \o f.payload
      /\ pc' = IF end THEN "finish" ELSE pc
      /\ out' = WindowUpdates(length(f))
                  \o (IF end THEN <<send_http2_goaway(stream_id)>> ELSE <<>>)
      /\ UNCHANGED <<verbose, request, rcv_settings, rcv_settings_ack, header_block,
                     header_list, response, c_closed>>

HandleData(f) ==
  IF f.type # "DATA" \/ "PADDED" \in f.flags
    THEN Throw
    ELSE /\ response_body' = response_body \o f.payload
         /\ IF "END_STREAM" \in f.flags
              THEN pc' = "finish" /\ out' = <<send_http2_goaway(stream_id)>>
              ELSE pc' = pc /\ out' = WindowUpdates(length(f))
         /\ UNCHANGED <<verbose, request, rcv_settings, rcv_settings_ack,
                        header_block, header_list, response, c_closed>>

ReadSettings ==
  /\ pc = "settings"
  /\ Receive
  /\ \E fails \in DumpFails(Head(s2c)) :
       IF fails THEN Throw ELSE HandleSettings(Head(s2c))

ReadHeaders ==
  /\ pc = "headers"
  /\ Receive
  /\ \E fails \in DumpFails(Head(s2c)) :
       IF fails THEN Throw ELSE HandleHeaders(Head(s2c))

ReadContinuation ==
  /\ pc = "continuation"
  /\ Receive
  /\ \E fails \in DumpFails(Head(s2c)) :
       IF fails THEN Throw ELSE HandleContinuation(Head(s2c))

ReadData ==
  /\ pc = "data"
  /\ Receive
  /\ \E fails \in DumpFails(Head(s2c)) :
       IF fails THEN Throw ELSE HandleData(Head(s2c))

\* End of file, or a reset that also takes frames still in flight.
ReadFails ==
  /\ pc \in Reading
  /\ out = <<>>
  /\ s_closed
  /\ Throw
  /\ UNCHANGED <<c2s, s2c, s_closed>>

-----------------------------------------------------------------------------
IsStatus(h) == h.name = [colon |-> TRUE, base |-> StatusBase]

\* The headers of the response: all but ":status", under their display names.
ResponseHeaders(list) ==
  LET rest == SelectSeq(list, LAMBDA h : ~ IsStatus(h))
  IN  [i \in 1 .. Len(rest) |->
         [name |-> convert_header_name(rest[i].name), value |-> rest[i].value]]

\* After GOAWAY the http_response is made and returned.  When there is no
\* ":status" the code constructs an exception but does not throw it, and code_
\* keeps whatever it held.
Finish ==
  LET statuses == SelectSeq(header_list, IsStatus)
      value    == Head(statuses).value
  IN  /\ pc = "finish"
      /\ out = <<>>
      /\ UNCHANGED <<c2s, s2c, s_closed>>
      /\ IF statuses # <<>> /\ value \notin DOMAIN Stoi
           THEN Throw
           ELSE /\ \E code \in IF statuses = <<>> THEN Codes ELSE {Stoi[value]} :
                     response' = [code |-> code, headers |-> ResponseHeaders(header_list),
                                  payload |-> response_body]
                /\ pc' = "done"
                /\ c_closed' = TRUE
                /\ UNCHANGED <<verbose, request, rcv_settings, rcv_settings_ack, out,
                               header_block, header_list, response_body>>

ClientStep ==
  \/ Connect
  \/ WriteFrame
  \/ WriteLost
  \/ WriteFails
  \/ ReadSettings
  \/ ReadHeaders
  \/ ReadContinuation
  \/ ReadData
  \/ ReadFails
  \/ Finish

=============================================================================
