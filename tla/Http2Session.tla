---------------------------- MODULE Http2Session ----------------------------
(***************************************************************************)
(* One run of http-dump --http2 against a server: httpv2::get and the      *)
(* server take turns in any order over the two directions of the           *)
(* connection.                                                             *)
(***************************************************************************)
EXTENDS Http2Client, Http2Server

vars == <<client, connection, server>>

Init == ClientInit /\ ConnectionInit /\ ServerInit

\* The program has ended and the server has noticed.
Terminated == pc \in Stopped /\ s_closed /\ UNCHANGED vars

Next == \/ ClientStep /\ UNCHANGED server
        \/ ServerStep /\ UNCHANGED client
        \/ Terminated

Spec == Init /\ [][Next]_vars

\* The program runs on while it can, and so does the server: it reads what has
\* arrived, and answers what it was asked.  Nobody is obliged to send extra or
\* empty frames, to push, or to close early.
Fairness ==
  /\ WF_vars(ClientStep /\ UNCHANGED server)
  /\ WF_vars(ServerReceive /\ UNCHANGED client)
  /\ WF_vars(SendSettings /\ UNCHANGED client)
  /\ WF_vars(SendSettingsAck /\ UNCHANGED client)
  /\ WF_vars((\E n \in 1 .. Len(reply.block), flags \in HeaderFlags,
                 where \in EmptyBodyEnd : SendHeaders(n, flags, where))
             /\ UNCHANGED client)
  /\ WF_vars((\E n \in 1 .. Len(reply.block) : SendContinuation(n)) /\ UNCHANGED client)
  /\ WF_vars((\E n \in 0 .. MaxFrame, end \in BOOLEAN, padded \in DataPadding :
                 (n > 0 \/ end) /\ SendData(n, end, padded)) /\ UNCHANGED client)
  /\ WF_vars(c_closed /\ ServerClose /\ UNCHANGED client)

FairSpec == Spec /\ Fairness

-----------------------------------------------------------------------------
Frames == [type : FrameTypes, flags : SUBSET FrameFlags,
           sid : {0, stream_id, PushedStream}]

Header(f) == [type |-> f.type, flags |-> f.flags, sid |-> f.sid]

\* The control state of both ends, and the frame headers in flight.
TypeOK ==
  /\ pc \in Reading \cup Stopped \cup {"connect", "finish"}
  /\ verbose \in BOOLEAN /\ request \in Requests
  /\ rcv_settings \in BOOLEAN /\ rcv_settings_ack \in BOOLEAN
  /\ \A q \in {out, c2s, s2c} : \A i \in DOMAIN q : Header(q[i]) \in Frames
  /\ c_closed \in BOOLEAN /\ s_closed \in BOOLEAN
  /\ header_list \in Seq(Headers)
  /\ s_state \in {"preface", "idle", "continuation", "requested"}
  /\ s_acks \in Nat /\ extras \in 0 .. MaxExtra /\ pushed \in 0 .. Len(PushFrames)
  /\ conn_window \in 0 .. W /\ stream_window \in 0 .. W

\* Flow control: while the program reads, every octet of a window is either
\* free, in a DATA frame on its way, or in a WINDOW_UPDATE frame on its way or
\* about to be written (httpv2.cc:161-179).  Nothing is lost and nothing is
\* given back twice, on the stream and on the connection.
DataOctets(f, sid) == IF f.type = "DATA" /\ sid \in {0, f.sid} THEN length(f) ELSE 0

InFlight(q, sid) == SumSeq([i \in 1 .. Len(q) |-> DataOctets(q[i], sid)])
Credits(q, sid) == SumSeq([i \in 1 .. Len(q) |-> Credit(q[i], sid)])

Accounted(window, sid) ==
  window + InFlight(s2c, sid) + Credits(c2s, sid) + Credits(out, sid)

WindowsConserved ==
  pc \in {"connect"} \cup Reading /\ ~ s_closed =>
    Accounted(conn_window, 0) = W /\ Accounted(stream_window, stream_id) = W

\* However the reply was cut into frames, the body is at every moment a prefix
\* of what the server sent, and a response that is returned is the reply: its
\* code, its headers in order and its whole body (httpv2.cc:108-203).
ResponseFaithful ==
  /\ IsPrefix(response_body, reply.body)
  /\ pc = "done" => response = [code |-> reply.code, headers |-> reply.headers,
                                payload |-> reply.body]

\* The code of a response that is returned is the one its ":status" header
\* gives; without the header there is no response ("status header not found.",
\* httpv2.cc:186-194).
CodeFromStatus ==
  pc = "done" =>
    \E i \in DOMAIN header_list :
      IsStatus(header_list[i]) /\ response.code = Stoi[header_list[i].value]

\* The server never has reason to close the connection on the client: every
\* frame it receives is one RFC 7540 allows at that point.
ClientConforms == ~ s_error

\* The request the server puts together is the one that was encoded.
RequestIntact == s_state = "requested" => s_block = request

\* The request is on the wire only after each side has seen the other's
\* SETTINGS and the acknowledgement of its own.
HandshakeFirst ==
  [][s_state # s_state' /\ s_state = "idle" => s_acked /\ s_acks = 0]_vars

\* The program ends.
Ends == <>(pc \in Stopped)

\* The program returns the response.
Responds == <>(pc = "done")

=============================================================================
