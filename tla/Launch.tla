------------------------------- MODULE Launch -------------------------------
(***************************************************************************)
(* A run of the program: main (main.cc) reads the command line, takes the  *)
(* URL apart (url.cc), resolves and connects (sync_stream_wrapper.cc),     *)
(* chooses the protocol, sends the request (httpv1.cc, http2_socket.h),    *)
(* reads the response and reports by what it prints and its exit status.   *)
(*                                                                         *)
(* Reading the response is the module Http1Response, composed here; of an  *)
(* HTTP/2 session only the request and the outcome appear, the response or *)
(* an exception, which is what Http2Session checks of it.                  *)
(***************************************************************************)
EXTENDS HttpHeader, Http1Messages

CONSTANTS
  MayClose,      \* see Http1Response
  Scenarios,     \* argv without the program's name (a sequence of texts) and a response
  OptionNames,   \* first pieces of the texts that begin with a dash
  Lower,         \* character -> its lower case, where that is another one
  Urls           \* text -> components, for the texts the regex of url.cc matches

Absent == {}  \* the value of an optional that holds nothing

\* The empty text is no URL; a port is a number.
ASSUME UrlsAssumption ==
  /\ <<>> \notin DOMAIN Urls
  /\ \A text \in DOMAIN Urls : \A p, q \in Urls[text].port : p \in Nat /\ p = q

\* A blank is the lower case of nothing, itself included.
ASSUME LowerAssumption ==
  Blank \notin DOMAIN Lower /\ \A c \in DOMAIN Lower : Lower[c] # Blank

ASSUME ScenariosAssumption ==
  \A s \in Scenarios : /\ s.argv \in Seq(Range(s.argv))
                       /\ \A text \in Range(s.argv) : text \in Seq(Range(text))

VARIABLES
  argv,
  stage,       \* where main is
  optind,      \* the argument getopt_long is at
  settings,    \* what the options set: use_http2, the globals and the headers
  connection,  \* what the server at the other end was asked for and answered
  request,     \* the request, once written
  trouble,     \* whether the network or the server failed the program
  exit,        \* the exit status and what was printed, once the program is over
  pc, message, wire, eof, receive_buffer, code_, headers_, payload_,
  content_length, transfer_encoding, chunk_size   \* see Http1Response

Reader == INSTANCE Http1Response

response == <<code_, headers_, payload_>>
reader == <<pc, message, wire, eof, receive_buffer, response,
            content_length, transfer_encoding, chunk_size>>
world == <<connection, request, trouble, exit>>
vars == <<argv, stage, optind, settings, world, reader>>

-----------------------------------------------------------------------------
\* The end of main.

Exit(status, printed) ==
  /\ stage' = "over"
  /\ exit' = {[status |-> status, printed |-> printed]}

\* usage(), a return 1 or the catch block: exit status 1.
Refuse == Exit(1, <<>>) /\ UNCHANGED <<argv, optind, settings, connection, request, trouble>>

\* The same, because of what the network or the server did.
Fail == /\ Exit(1, <<>>)
        /\ trouble' = TRUE
        /\ UNCHANGED <<argv, optind, settings, connection, request>>

GoTo(s) == stage' = s /\ UNCHANGED <<argv, trouble, exit>>

-----------------------------------------------------------------------------
\* The options.

IsOption(text) == text # <<>> /\ text[1] \in OptionNames

\* The last argument is the URL unless it looks like an option; otherwise the
\* URL is the empty string and no argument is left out.
UrlGiven == argv # <<>> /\ ~ IsOption(Last(argv))
opt_argc == IF UrlGiven THEN Len(argv) - 1 ELSE Len(argv)
url == IF UrlGiven THEN Last(argv) ELSE <<>>

TakesArgument(text) == text[1] \in {"-H", "--keylog"}

Set(newSettings, next) ==
  /\ settings' = newSettings
  /\ optind' = next
  /\ GoTo("options")
  /\ UNCHANGED <<connection, request>>

\* The cases of main's switch.  A -H line without a colon is dropped; -v makes
\* no difference to what is done.
ApplyOption(name, optarg) ==
  CASE name = "--http2" -> [settings EXCEPT !.use_http2 = TRUE]
    [] name = "--keylog" -> [settings EXCEPT !.g_keylog_file = {optarg}]
    [] name = "-H" -> [settings EXCEPT !.headers =
                         @ \o SetToSeq(create_http_header_from_header_line_or_null(optarg))]
    [] name = "-k" -> [settings EXCEPT !.g_verify_cert = FALSE]
    [] name = "-v" -> settings

\* getopt_long passes over an argument that is no option.
TakeOption ==
  LET text == argv[optind]
  IN  /\ stage = "options"
      /\ optind <= opt_argc
      /\ UNCHANGED reader
      /\ IF ~ IsOption(text) THEN Set(settings, optind + 1)
         ELSE IF TakesArgument(text) /\ optind < opt_argc
           THEN Set(ApplyOption(text[1], argv[optind + 1]), optind + 2)
         ELSE IF text[1] \in {"--http2", "-k", "-v"}
           THEN Set(ApplyOption(text[1], <<>>), optind + 1)
         ELSE Refuse

OptionsEnd ==
  /\ stage = "options"
  /\ optind > opt_argc
  /\ UNCHANGED reader
  /\ IF argv = <<>>
       THEN Refuse
       ELSE GoTo("url") /\ UNCHANGED <<optind, settings, connection, request>>

-----------------------------------------------------------------------------
\* The URL and the connection.

\* parse_url and main: the path defaults to "/", the port to the scheme's; the
\* port is kept in 16 bits.
parse_url(text) ==
  LET c == Urls[text]
      port == IF c.port # Absent THEN CHOOSE p \in c.port : TRUE
              ELSE IF c.scheme = "http" THEN 80 ELSE 443
  IN  [scheme |-> c.scheme, host |-> c.host, port |-> port % 2^16,
       path |-> IF c.path = Absent THEN "/" ELSE CHOOSE p \in c.path : TRUE]

\* main goes on with the URL only if parse_url returns and knows the scheme.
ParseUrl ==
  /\ stage = "url"
  /\ UNCHANGED reader
  /\ IF url \notin DOMAIN Urls \/ Urls[url].scheme \notin {"http", "https"}
       THEN Refuse
       ELSE GoTo("resolve") /\ UNCHANGED <<optind, settings, connection, request>>

components == parse_url(url)

Resolve ==
  /\ stage = "resolve"
  /\ UNCHANGED reader
  /\ \/ Fail
     \/ GoTo("connect") /\ UNCHANGED <<optind, settings, connection, request>>

\* Mutant of Http2Chosen: HTTP/2 is asked for without looking at the scheme.
Http2ChosenAnyway == settings.use_http2

Http2Chosen == settings.use_http2 /\ components.scheme = "https"

\* create_socket for HTTP/1.1; an HTTP/2 request always makes an ssl_stream.
UsesTls == components.scheme = "https"

\* The constructors and set_host of the stream wrappers.
NewConnection ==
  [host |-> components.host, port |-> components.port, offered |-> Http2Chosen,
   tls |-> FALSE, sni |-> Absent, verify |-> FALSE, valid |-> FALSE, selected |-> FALSE]

\* tcp_socket::connect, or the first half of ssl_stream::connect.
TcpConnect ==
  /\ stage = "connect"
  /\ UNCHANGED reader
  /\ \/ Fail
     \/ /\ connection' = {NewConnection}
        /\ GoTo(IF UsesTls THEN "handshake" ELSE "request")
        /\ UNCHANGED <<optind, settings, request>>

\* Mutant of Handshake: the certificate is not verified when HTTP/2 is used.
HandshakeUnverified ==
  /\ stage = "handshake"
  /\ UNCHANGED reader
  /\ \E valid, selected \in BOOLEAN :
       /\ \A c \in connection :
            connection' = {[c EXCEPT !.tls = TRUE, !.valid = valid, !.selected = selected]}
       /\ GoTo(IF Http2Chosen THEN "alpn" ELSE "request")
       /\ UNCHANGED <<optind, settings, request>>

\* The second half of ssl_stream::connect.  The name of the host is sent, and
\* the certificate verified, unless -k was given.
Handshake ==
  /\ stage = "handshake"
  /\ UNCHANGED reader
  /\ \E valid, selected \in BOOLEAN :
       /\ selected => Http2Chosen
       /\ IF settings.g_verify_cert /\ ~ valid
            THEN Fail
            ELSE /\ \A c \in connection :
                      connection' = {[c EXCEPT
                        !.tls = TRUE, !.valid = valid, !.selected = selected,
                        !.verify = settings.g_verify_cert,
                        !.sni = IF settings.g_verify_cert THEN {c.host} ELSE Absent]}
                 /\ GoTo(IF Http2Chosen THEN "alpn" ELSE "request")
                 /\ UNCHANGED <<optind, settings, request>>

-----------------------------------------------------------------------------
\* The request and the response.

\* httpv2::get throws "http/2 is not selected.", or its session follows.
CheckAlpn ==
  /\ stage = "alpn"
  /\ UNCHANGED reader
  /\ IF \A c \in connection : c.selected
       THEN GoTo("session") /\ UNCHANGED <<optind, settings, connection, request>>
       ELSE Fail

\* string_util::tolower.
tolower(text) ==
  [i \in DOMAIN text |-> IF text[i] \in DOMAIN Lower THEN Lower[text[i]] ELSE text[i]]

Lowered(h) == [h EXCEPT !.key = tolower(@)]

\* The header list of send_http2_headers, behind the handshake of the session.
WriteHttp2Request ==
  /\ stage = "session"
  /\ UNCHANGED reader
  /\ \/ Fail
     \/ /\ request' = {[path |-> components.path, host |-> components.host,
                        headers |-> [i \in DOMAIN settings.headers |->
                                       Lowered(settings.headers[i])]]}
        /\ GoTo("answer")
        /\ UNCHANGED <<optind, settings, connection>>

Http2Response ==
  /\ stage = "answer"
  /\ \/ Fail /\ UNCHANGED reader
     \/ /\ code_' = message.code /\ headers_' = message.headers
        /\ payload_' = message.body
        /\ GoTo("print")
        /\ UNCHANGED <<optind, settings, connection, request, pc, message, wire, eof,
                       receive_buffer, content_length, transfer_encoding, chunk_size>>

\* httpv1::get: the request line, Host and the headers of the command line.
WriteRequest ==
  /\ stage = "request"
  /\ UNCHANGED reader
  /\ \/ Fail
     \/ /\ request' = {[path |-> components.path, host |-> components.host,
                        headers |-> settings.headers]}
        /\ GoTo("response")
        /\ UNCHANGED <<optind, settings, connection>>

ReadResponse ==
  /\ stage = "response"
  /\ Reader!Next
  /\ UNCHANGED <<argv, stage, optind, settings, world>>

\* read_response returned or threw.
ResponseRead ==
  /\ stage = "response"
  /\ pc \in {"done", "failed"}
  /\ UNCHANGED reader
  /\ IF pc = "done"
       THEN GoTo("print") /\ UNCHANGED <<optind, settings, connection, request>>
       ELSE Refuse

\* The payload goes to the standard output, and nothing before it without -v.
PrintPayload ==
  /\ stage = "print"
  /\ Exit(0, payload_)
  /\ UNCHANGED <<argv, optind, settings, connection, request, trouble, reader>>

Terminated == stage = "over" /\ UNCHANGED vars

Init ==
  /\ Reader!Init
  /\ \E s \in Scenarios : argv = s.argv /\ message = s.message
  /\ stage = "options"
  /\ optind = 1
  /\ settings = [use_http2 |-> FALSE, g_verify_cert |-> TRUE,
                 g_keylog_file |-> Absent, headers |-> <<>>]
  /\ connection = Absent /\ request = Absent
  /\ trouble = FALSE
  /\ exit = Absent

Main == \/ TakeOption \/ OptionsEnd
        \/ ParseUrl \/ Resolve
        \/ TcpConnect \/ Handshake
        \/ CheckAlpn \/ WriteHttp2Request \/ Http2Response
        \/ WriteRequest \/ ResponseRead
        \/ PrintPayload

Next == Main \/ ReadResponse \/ Terminated

\* main runs while it can, and what the server sent arrives.
Fairness ==
  /\ WF_vars(Main)
  /\ WF_vars(stage = "response" /\ Reader!Program /\ UNCHANGED <<argv, stage, optind, settings, world>>)
  /\ WF_vars(/\ stage = "response"
             /\ \E n \in 1 .. Len(wire) : Reader!Deliver(n)
             /\ UNCHANGED <<argv, stage, optind, settings, world>>)

Spec == Init /\ [][Next]_vars /\ Fairness

-----------------------------------------------------------------------------
\* The stages, the settings, the connection, and the state of the reader.
TypeOK ==
  /\ \E s \in Scenarios : argv = s.argv
  /\ optind \in 1 .. Len(argv) + 1
  /\ stage \in {"options", "url", "resolve", "connect", "handshake", "alpn", "session",
                "answer", "request", "response", "print", "over"}
  /\ settings.use_http2 \in BOOLEAN /\ settings.g_verify_cert \in BOOLEAN
  /\ \A c \in connection : c.port \in 0 .. 2^16 - 1
  /\ exit # Absent <=> stage = "over"
  /\ pc # "status" => stage \in {"response", "print", "over"}
  /\ Reader!TypeOK

\* The positions at which getopt_long finds an option, not the argument of one.
isOption[i \in 1 .. Len(argv)] ==
  /\ IsOption(argv[i])
  /\ ~ (i > 1 /\ isOption[i - 1] /\ TakesArgument(argv[i - 1]))

OptionAt == {i \in 1 .. opt_argc : isOption[i]}

Given(name) == \E i \in OptionAt : argv[i][1] = name

\* The command line is one that usage() describes.
Legal ==
  /\ url \in DOMAIN Urls /\ Urls[url].scheme \in {"http", "https"}
  /\ \A i \in OptionAt :
       /\ argv[i][1] \in {"-v", "--http2", "--keylog", "-H", "-k"}
       /\ TakesArgument(argv[i]) => i < opt_argc

\* A connection is made only for a legal command line, to the host and the port
\* of its URL, with TLS if and only if that says https, and with HTTP/2 offered
\* only if both the option and the scheme ask for it, wherever the options stand
\* and whatever the arguments of others look like (main.cc:40-130, README.md:48).
ConnectsAsAsked ==
  \A c \in connection :
    /\ Legal
    /\ c.host = Urls[url].host
    /\ \A p \in Urls[url].port : p < 2^16 => c.port = p
    /\ Urls[url].port = Absent => c.port = IF Urls[url].scheme = "http" THEN 80 ELSE 443
    /\ c.offered <=> Given("--http2") /\ Urls[url].scheme = "https"
    /\ stage \in {"alpn", "session", "answer", "request", "response", "print"} =>
         (c.tls <=> Urls[url].scheme = "https")

\* The header that a line announces: what is around its first colon, without
\* the blanks at either end, its name in lower case if so asked.  Text that is
\* all blanks is left open.
Announces(line, h, lower) ==
  LET colon == Min(Colons(line))
      name == SubSeq(line, 1, colon - 1)
      Trimmed(s, t) ==
        \/ Others(s, Blank) = {}
        \/ t # <<>> /\ Head(t) # Blank /\ Last(t) # Blank
             /\ \E i \in 0 .. Len(s) - Len(t) :
                  /\ t = SubSeq(s, i + 1, i + Len(t))
                  /\ \A j \in (1 .. i) \cup (i + Len(t) + 1 .. Len(s)) : s[j] = Blank
  IN  /\ Trimmed(IF lower THEN tolower(name) ELSE name, h.key)
      /\ Trimmed(SubSeq(line, colon + 1, Len(line)), h.value)

\* The lines given with -H that have a colon, in order, without the line breaks
\* at their ends.
HeaderAt == {i \in OptionAt : argv[i][1] = "-H" /\ i < opt_argc /\ Colons(argv[i + 1]) # {}}

Bare(line) == IF Len(line) > 0 /\ Last(line) \in LineBreaks THEN Front(line) ELSE line

HeaderLines ==
  LET at == copy_if([i \in 1 .. Len(argv) |-> i], HeaderAt)
  IN  [i \in 1 .. Len(at) |-> Bare(Bare(argv[at[i] + 1]))]

\* The request asks for the path of the URL on its host and carries one header
\* for every -H line with a colon, in order, in HTTP/2 under a name in lower case
\* (httpv1.cc:14-25, http2_socket.h:121-132, http_header.cc).
\* Lines with a line break inside are excepted: see the hazard at
\* http_header.cc:29.
RequestFaithful ==
  \A r \in request :
    /\ r.host = Urls[url].host
    /\ r.path = IF Urls[url].path = Absent THEN "/" ELSE CHOOSE p \in Urls[url].path : TRUE
    /\ (\A i \in 1 .. Len(HeaderLines) : \A j \in 1 .. Len(HeaderLines[i]) :
          HeaderLines[i][j] \notin LineBreaks) =>
         /\ Len(r.headers) = Len(HeaderLines)
         /\ \A i \in 1 .. Len(HeaderLines) : Announces(HeaderLines[i], r.headers[i], Http2Chosen)

\* Exit status 0 means that the payload printed is that of a response read over
\* the kind of connection asked for: the certificate was valid unless -k was
\* given, and HTTP/2 was selected if it was chosen; and if nothing went wrong
\* on the way, it is the whole body.  Any other end is exit status 1 without
\* output, and has a reason in the command line, the network or the server
\* (main.cc:89-138, README.md:46-54).
ExitReports ==
  \A e \in exit :
    IF e.status = 0
      THEN /\ Legal /\ connection # Absent
           /\ e.printed = payload_
           /\ eof = "open" => e.printed = message.body
           /\ \A c \in connection :
                /\ c.tls => c.valid \/ Given("-k")
                /\ c.selected <=> Given("--http2") /\ Urls[url].scheme = "https"
      ELSE e.printed = <<>> /\ (~ Legal \/ trouble \/ eof # "open")

\* see Http1Response
ResponseExact == Reader!ResponseExact
InexactOnlyAtEof == Reader!InexactOnlyAtEof

\* The program always ends; if nothing goes wrong, with the response.
Exits == <>(exit # Absent)
Responds == <>(\/ trouble \/ ~ Legal \/ eof # "open"
               \/ \E e \in exit : e.status = 0)

=============================================================================
