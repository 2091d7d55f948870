------------------------------ MODULE MCLaunch ------------------------------
(***************************************************************************)
(* Responses: an identity body that contains CR LF, two chunks of which    *)
(* the first is a CR LF, an empty identity body and no chunk at all, and a *)
(* Content-Length with another header behind it.                           *)
(* Command lines: every combination of the options for the schemes, wrong  *)
(* and incomplete ones, arguments that look like options, ports at their   *)
(* limits, and every header line of up to MaxLine characters.              *)
(***************************************************************************)
EXTENDS Launch, TLC

CONSTANT MaxLine

L(x) == <<x, "CR", "LF">>
Empty == <<"CR", "LF">>

MCStatusCodes == "code" :> 200
MCContentLengths == ("length0" :> 0) @@ ("length1" :> 1) @@ ("length3" :> 3)
MCTransferEncodings == "te-chunked" :> "chunked"
MCOtherHeaders == {"server"}
MCChunkSizes == ("size0" :> 0) @@ ("size1" :> 1) @@ ("size2" :> 2)

Msg(hs, rest, body) ==
  [code |-> 200, headers |-> hs, body |-> body,
   octets |-> L("code") \o FlattenSeq([i \in 1 .. Len(hs) |-> L(hs[i])])
                \o Empty \o rest]

Identity == Msg(<<"server", "length3">>, <<"CR", "LF", "a">>, <<"CR", "LF", "a">>)
Chunked == Msg(<<"te-chunked">>,
               L("size2") \o <<"CR", "LF">> \o Empty \o L("size1") \o <<"a">> \o Empty
                 \o L("size0") \o Empty,
               <<"CR", "LF", "a">>)
EmptyIdentity == Msg(<<"length0">>, <<>>, <<>>)
EmptyChunked == Msg(<<"te-chunked", "server">>, L("size0") \o Empty, <<>>)

EarlyLength == Msg(<<"length1", "server">>, <<"a">>, <<"a">>)

MCMessages == {Identity, Chunked, EarlyLength, EmptyIdentity, EmptyChunked}

MCOptionNames == {"-v", "-h", "-k", "-H", "--http2", "--keylog", "-x"}

MCLower == ("X-Foo" :> "x-foo") @@ ("X-Bar" :> "x-bar")

T(x) == <<x>>
Url(scheme, rest) == <<scheme, ":", rest>>
Components(scheme, port, path) ==
  [scheme |-> scheme, host |-> "host", port |-> port, path |-> path]

MCUrls ==
     Url("http", "//host") :> Components("http", Absent, Absent)
  @@ Url("https", "//host/p") :> Components("https", Absent, {"/p"})
  @@ Url("https", "//host:65535/") :> Components("https", {65535}, {"/"})
  @@ Url("http", "//host:65616/") :> Components("http", {65616}, {"/"})
  @@ Url("ftp", "//host") :> Components("ftp", Absent, Absent)

Http == Url("http", "//host")
Https == Url("https", "//host/p")
Foo == <<"X-Foo", ":", " ", "bar">>
Bar == <<" ", "X-Bar", ":", "a", ":", "b", " ", "LF">>
NoColon == T("X-Foo")

\* Every line of up to n characters.
Lines(n) == UNION {[1 .. k -> {"a", ":", " ", "CR"}] : k \in 0 .. n}

Options ==
  {<<T("-H"), Foo, T("--http2"), T("-H"), Bar, Http>>,
   <<T("-k"), T("-H"), Bar, T("-H"), NoColon, T("-H"), Foo, Https>>,
   <<T("-H"), Bar, T("--http2"), T("-H"), Foo, Https>>,
   <<T("--http2"), Https>>, <<T("-v"), T("--http2"), T("-k"), Https>>,
   <<T("--keylog"), T("-h"), T("stray"), Https>>, <<T("-H"), T("-k"), Https>>}
Refused ==
  {<<>>, <<<<>>>>, <<T("-v")>>, <<T("-H"), Foo>>, <<T("-H"), Http>>, <<T("--keylog"), Http>>,
   <<T("-x"), Http>>, <<T("-h"), Https>>, <<Https, T("--http2")>>,
   <<T("nonsense")>>, <<Url("ftp", "//host")>>}
Ports == {<<Url("https", "//host:65535/")>>, <<Url("http", "//host:65616/")>>}
Headers == {<<T("-H"), line, Http>> : line \in Lines(MaxLine)}

MCScenarios ==
  [argv : {<<Http>>}, message : MCMessages]
  \cup [argv : {<<Https>>}, message : {Chunked}]
  \cup [argv : Options \cup Refused \cup Ports \cup Headers, message : {EmptyIdentity}]

====
