# http-dump: TLA+ models, model checking and proofs

`http-dump` fetches one URL over HTTP/1.1 or HTTP/2 and shows what goes over the
wire.  It is a single-threaded C++ program; what is hard about it is not inside
the process but between the process and the server: two directions of a
connection whose frames interleave freely, two flow-control windows, two copies
of the HPACK dynamic table that must stay equal, and a byte stream that arrives
in pieces and may end anywhere.  The modules here model that.

## Inventory

| Component (source) | State | Operations | Talks to |
|---|---|---|---|
| HPACK tables (`hpack_table.cc/.h`) | `entries_`, `max_size_`, `current_table_size_`; the constant static table | `add`, `set_maximum_table_size`, `evict`, `remove_tail`, `at`, `hpack_table_at` | the decoder |
| HPACK decoder (`hpack_decoder.cc`, `buffer_view.h`) | position in the block, dynamic table, header list | `decode`, `decode_representation`, `fetch_header` | tables, Huffman |
| Huffman decoder (`hpack_huffman.cc`) | none | `decode_huffman` | the decoder |
| HPACK encoder (`hpack_encoder.h`) | none | `encode`, `encode_integer` | `send_http2_headers` |
| Views of a buffer (`buffer_view.h`) | none | `at`, `subview`, `test_range` | the decoder, the dump |
| HTTP/2 frames (`http2_frame.*`, `http2_socket.h`) | one frame | `read_http2_frame`, `write_http2_frame`, `send_http2_*`, `dump` | the TLS stream |
| HTTP/2 request (`httpv2.cc`) | `rcv_settings`, `rcv_settings_ack`, `header_block`, `header_list`, `response_body`, the response | `httpv2::get`, a straight line of blocking calls | frames, decoder, server |
| HTTP/1.1 response (`socket.h`) | `receive_buffer`, framing headers, payload | `read_line`, `fill_streambuf`, `read_response` | TCP or TLS stream |
| HTTP/1.1 request (`httpv1.cc`) | none | `httpv1::get`: one write, then `read_response` | stream wrappers |
| Stream wrappers (`sync_stream_wrapper.*`) | socket, SSL context | `connect`, `read_some`, `write_some`, key log | asio, OpenSSL |
| Command line (`main.cc`, `url.cc`, `http_protocol.h`, `global.h`) | options, globals | parse, resolve, choose the protocol, report exceptions | all of it |
| Headers, strings, dumps (`http_header.*`, `string_util_*`, `dump.cc`, `debug.h`) | none | parsing and formatting | all of it |

There are no threads, no persistent state, no timers and no retries: no read has
a timeout, and every failure is an exception that `main` reports.  What can go
wrong is listed in `PROJECT.json` under `hazards`, line by line.  The main ones:

- **Flow control.**  The server stops when a window is empty, the client waits
  for DATA; if what the client gives back ever falls short, both wait for ever.
- **Order of frames.**  Handshake frames come in any order; after the handshake
  any frame but the expected one ends the program.
- **Fragmentation.**  Header blocks are cut into frames in both directions, and
  the HTTP/1.1 stream is cut into reads, at places nobody chose.
- **Two tables.**  Client and server compute entry sizes and evict separately,
  and never compare the result.
- **The end of the stream**, which `read_line` reports differently from every
  other read.
- **Octets from outside.**  Integers of any length, strings cut anywhere, padding
  longer than its frame: the code must stop, stay within its buffers, and not
  take half of something for the whole.
- **The command line**, whose last argument is a URL or not by its first
  character only, and the exit status, which has to tell a response from every
  kind of failure.

## Modules

| Module | Models |
|---|---|
| `SequenceSums` | partial sums of a sequence, as a recursive function that tlapm can reason about |
| `HpackTable` | pure: the tables of `hpack_table.cc`, one operator per member function |
| `HpackDynamicTable` | one `hpack_dynamic_table` as a state machine: `Add`, `SetMaximumTableSize` |
| `Rfc7541Table` | abstract: the dynamic table RFC 7541 asks for |
| `HpackDecode` | pure: `decode` and what it calls, over representations |
| `HpackExchange` | an RFC 7541 encoder and the decoder, one block |
| `Rfc7541Octets` | external, pure: how an RFC 7541 encoder may write a representation in octets |
| `HpackBlock` | abstract: a block of representations is decoded whole, in turn, or with an error |
| `HpackOctets` | the encoder of the request, and the decoder's integers, strings and positions over `buffer_view`; implements `HpackBlock` |
| `HuffmanCodes` | pure: the code table of `hpack_huffman.cc` |
| `HpackHuffman` | the tree that is built from a code table, and `decode_huffman` |
| `Http2Frames` | pure: frames, `send_http2_*`, fragments, the dump that can throw |
| `Http2Connection` | the two directions of the TLS connection and its closing |
| `Http2Client` | `httpv2::get`, one action per blocking call |
| `Http2Server` | external: any RFC 7540 server the client can tell apart |
| `Http2Session` | client, connection and server together; the properties |
| `Http1Messages` | external, pure: the responses an HTTP/1.1 server may send, and their octets |
| `Http1Response` | `read_response` over a stream in pieces |
| `HttpHeader` | pure: a header line is taken apart, with `trim` |
| `Launch` | `main` from the command line to the exit status, with `parse_url`, the stream wrappers, the choice of the protocol and `httpv1::get`; composes `Http1Response` |
| `SequenceSums_proofs` | lemmas: induction, sums, sequences and their parts |
| `HpackDecode_proofs` | lemmas: the table's operations, `decode` |
| `HpackDynamicTable_proofs`, `HpackExchange_proofs`, `HpackHuffman_proofs`, `HpackOctets_proofs`, `Http2Session_proofs`, `Launch_proofs` | theorems |
| `MC*` | instances for TLC |

### The HPACK table

A table is a record of the three fields of `hpack_dynamic_table`.  As in the
code, entries are kept oldest first and addressed newest first.  `evict`'s loop
is written as "the first number of removals after which the loop condition is
false"; `Removed(t, k)` is the table after k calls of `remove_tail`, with the
size counted down as the code counts it.  `hpack_table_at` keeps the code's
index arithmetic, sentinel included (`StaticSize`).  Strings are abstract: the
constants `NameSize` and `ValueSize` give their lengths, the only thing the
table looks at.

`Rfc7541Table` is written from RFC 7541, sections 2.3.2 and 4, which
`hpack_table.cc` names as its reference: newest first, room is made before an
entry is inserted.  `HpackDynamicTable` implements it with `rows` mapped to the
reversed entries.

### The HPACK exchange

The server may choose any legal representation of each header among those in
`Encodings`, keeps the table of the RFC and may start with a size update; the
client decodes the block with the code's table.  A name is its text without a
leading colon together with whether it has one, because every name of the code's
static table, pseudo-header or not, begins with a colon (`hpack_table.cc:9-72`),
which `convert_header_name` later drops.  The representations are elements of a
sequence; a string without an octet makes the parser throw (`StringParses`), as
`HpackOctets` has it octet by octet.

### The octets of HPACK

`HpackOctets` starts from a block in octets: one that `hpack_encoder` writes for a
request, or one of up to `MaxItems` representations as any encoder of the RFC may
write them (Huffman coded or not, with superfluous zero digits), whole or, up to
`MaxCut` octets, cut behind any octet.  `sent` and `starts` remember what the
block consists of; the decoder sees `octets` only.  One action is one turn of the
loop in `decode()`.

Positions are `std::size_t`: a number above the largest int is written as the
negative number it is congruent to, and `Below` compares two of them unsigned, so
that an `int` converted to a length, an index or a size keeps its value and
`offset + length` wraps around as it does in `buffer_view::subview`.  The
accumulation of an integer overflows `int` or shifts by more than its width from
the fifth digit on; what it yields then is chosen from `Overflowed`: two negative
numbers, zero, a small and a large one.

`HpackBlock` is what a reader of `decode()` believes: one representation after
the other, decoded whole, and an error when the block ends inside one.  It takes
its representations from `HpackDecode`, so that the octet level and
`HpackExchange` speak of the same decoder.  Of representations the code cannot
hold (an integer beyond `int`; a Huffman string of padding only, whose vector is
empty when its first element is addressed) it promises nothing
(`LeaveDefined`); `Advances` and `TypeOK` still hold then.

### The Huffman decoder

`HuffmanCodes` holds the 257 codes as the source has them; `HpackHuffman` takes a
table as its constant `Codes`, of which `CodesAssumption` says that it is a complete
canonical code and that EOS is written with ones only, more of them than padding
has.  TLC evaluates this on the table of the source.  A node of the tree is
the number made of a 1 and the bits that lead to it, so that the tree is a set of
numbers and a partial function to values.  One action is one call of
`insert_code`, with its check for a child below a value; the tree is built before
`main` starts.  Then one string is decoded, one action per turn of
`decode_huffman`'s loop.  The peer's encoding, with its padding of ones, is
external.

### The HTTP/2 session

Each action of `Http2Client` is the code from one blocking call to the next:

| Action | Code |
|---|---|
| `Connect` | `httpv2.cc:55-85`: connect, ALPN, preface, SETTINGS |
| `WriteFrame`, `WriteLost`, `WriteFails` | `http2_socket.h:46-62` |
| `ReadSettings` / `HandleSettings` | `httpv2.cc:87-106`, with the request that follows |
| `ReadHeaders` / `HandleHeaders` | `httpv2.cc:111-128` |
| `ReadContinuation` / `HandleContinuation` | `httpv2.cc:130-143` |
| `AddFragment` | the growing block, and `decode` at its end (`httpv2.cc:124-148`) |
| `ReadData` / `HandleData` | `httpv2.cc:163-182`, WINDOW_UPDATE twice or GOAWAY |
| `ReadFails`, `Throw` | an exception, caught at `main.cc:133-136` |
| `Finish` | `httpv2.cc:184-205` |

What the code writes before its next read waits in `out`, and the connection
takes it frame by frame: a write may block while the other direction fills, as it
does on a socket.  `Cap` bounds each direction.  A frame is one element of a
direction although the code writes its header and payload separately: the server
cannot act on half a frame.  With `-v`, every frame read is dumped first.  The
dump looks into payloads with fixed offsets and throws when they are shorter
(`DumpReads`, `DumpThrows`); for a frame of an unknown type it reads past a
literal, and either gets away with it or not (`DumpOutcomes`).  The frames the
client itself writes are dumped too, but are always long enough.  A HEADERS frame
whose padding or priority does not fit in its payload ends the program
(`FragmentMissing`): `insert` throws for a negative range, and the first octet of
an empty vector cannot be read.

`Http2Server` is external.  It is as free as the RFC lets it be: it reads
whenever there is something to read, cuts the reply into HEADERS, CONTINUATION
and DATA frames at any point within its windows, may pad, may add a priority, may
send PING and further SETTINGS, may push a response, may send empty DATA, may
close.  It checks every
frame of the client against the RFC (`Legal`) and closes on a breach
(`s_error`).  Constants say which liberties a run gives it; with `Extra` it may
also send frames the RFC does not allow.

### The HTTP/1.1 response

`Http1Response` keeps `receive_buffer` and the octets on their way.  While the
read in progress is not satisfied, `Deliver` moves any number of octets at once:
`read_until` and `transfer_at_least` take what has arrived.  With `MayClose` the
stream may end after any octet, cleanly (`eof`) or not (`error`); `read_line`
returns false on the first and throws on the second, `fill_streambuf` throws on
both.  A non-empty line is one octet here, followed by CR and LF; what `atoi`,
`stoi` and `split` make of it is given by constants.  When the stream ends before
the status line, the code reads past a vector (`socket.h:64-66`); `NoStatusLine`
lets that end the program or go on.

### From the command line to the exit status

`Launch` is `main`, one action per call that can fail: an option (`TakeOption`),
`ParseUrl`, `Resolve`, `TcpConnect`, `Handshake`, then for HTTP/2 `CheckAlpn`,
`WriteHttp2Request`, `Http2Response`, for HTTP/1.1 `WriteRequest` and the actions
of `Http1Response` (`Reader!Next`), and `PrintPayload`.  A text of the command
line is a sequence of pieces; `OptionNames` are those that begin with a dash, and
`Urls` gives what the regular expression of `url.cc` makes of a text it matches.
The header list keeps what `create_http_header_from_header_line_or_null` makes of
each `-H`, in HTTP/2 with the name in lower case.  `connection` holds what the
other end was asked for and what it answered: TLS, SNI, verification, ALPN,
whether its certificate is valid.  `trouble` records that the network or the
server failed the program, so that an exit status can be held against its cause.
Of an HTTP/2 session only the request's headers and the outcome appear; the rest
is `Http2Session`.

## Runs

Bounds are constants of the `.cfg` files; nothing else limits the state spaces.

| Run | Shows |
|---|---|
| `MCHpackDynamicTable` | `SizeTracked`, `WithinLimit`, `ImplementsRfc7541` over all sequences of insertions and size updates.  Headers of several sizes against maxima that hold none, one or a few of them: the table is finite, so no bound on the sequence is needed. |
| `MCHpackExchange` | `DecodedAsSent`, `LegalBlockDecodes`, `TablesAgree` for all blocks of up to three headers, in encodings that refer to the static table or to none and insert entries under new names.  Three headers are two more than it takes to overfill a table of 84 octets with entries of 42. |
| `MCHpackHuffman` | `CanonicalTree`, `BitsAccounted`, `TextRecovered`: the whole table; every symbol alone and behind one of five bits, so that codes begin inside an octet and every length of padding occurs, and a string that EOS breaks off. |
| `MCHpackOctets` | `EncodedAsRfc`, `Advances`, `DecodesBlock`: about fifty representations alone and in pairs, with indices, lengths and sizes on both sides of every limit of their prefixes (15, 31, 63, 127, 255), Huffman codes, zero digits, integers beyond `int`; blocks of up to 30 octets cut behind every octet.  Two representations suffice for a wrong position to be read by the next one. |
| `Http2Exchange` | `WindowsConserved`, `ResponseFaithful`, `ClientConforms`, `RequestIntact`, `HandshakeFirst`, `Responds`.  Windows of three octets against bodies of five and six, so that the server must wait for WINDOW_UPDATE; requests of one frame and of two; header blocks of two and three representations, cut anywhere, padded or with a priority; up to two extra frames during the handshake. |
| `Http2Failures` | `WindowsConserved`, `ResponseFaithful`, `ClientConforms`, `Ends`, when connecting fails, ALPN refuses, the server closes at any time, pads DATA, pushes a response, or sends one of fourteen frames at any time (`Strange`): control frames with payloads that are long enough or not, an informational response, a HEADERS frame without a fragment, an unknown type, padding and priority that do not fit; with and without `-v`. |
| `MCLaunch` | `ConnectsAsAsked`, `RequestFaithful`, `ExitReports`, `ResponseExact`, `InexactOnlyAtEof`, `Exits`, `Responds`: legal and wrong command lines, arguments that look like options, ports at and beyond 2^16, every header line of up to four characters (`MaxLine`: a name, a colon, a value and a blank or a CR in any place), every call failing, five responses, every division into reads, every end of the stream. |

What the properties say, in short:

- `WindowsConserved`: on the stream and on the connection, the free window, the
  DATA octets in flight and the WINDOW_UPDATE octets in flight or about to be
  written add up to the initial window at every moment the client reads.
- `ResponseFaithful`: the body is always a prefix of the server's, and a response
  that is returned is the reply, whatever was cut, padded, lost or closed.
- `ClientConforms`: no frame the client sends gives the server reason to close.
- `RequestIntact`, `HandshakeFirst`: the request is put together exactly, and
  is on the wire only after both SETTINGS and both acknowledgements.
- `CanonicalTree`: the table is complete and canonical, as RFC 7541 5.2 says.  A
  canonical code is determined by its lengths, so a wrong digit in the bits of
  any code breaks it, and a wrong length breaks completeness.
- `BitsAccounted`: the symbols decoded and the walk in progress spell exactly the
  bits read so far.
- `TablesAgree`: after the block both sides hold the same dynamic table.
- `EncodedAsRfc`: `hpack_encoder` writes the octets RFC 7541 asks for.
- `DecodesBlock`: at every position the header list and the table are those of the
  representations that lie before it, and a block cut inside a representation
  throws.  `Advances`: whatever the octets, each turn of the loop moves forward
  and stays inside, so that `decode()` ends.
- `ConnectsAsAsked`: a connection is made only for a legal command line, to the
  host and port of its URL, with TLS for https and HTTP/2 offered only for
  `--http2` with https (README.md:48), wherever the options stand.
- `RequestFaithful`: the request carries the path, the host and one header for
  every `-H` line with a colon, in order.
- `ExitReports`: exit status 0 means that what was printed is the payload of a
  response over the connection asked for, with a valid certificate unless `-k`;
  1 means that nothing was printed, and that something gave reason for it.
- `InexactOnlyAtEof`: `read_response` returns a wrong body in exactly two ways,
  both when the stream ends cleanly: a chunked response between two chunks is cut
  short, and behind a Content-Length line the header section itself passes for
  the body (`HeadersForBody`).

### Where the code disagrees

Five runs expect a violation; each names the line of the code and the sentence
it contradicts (`findings`).

| Run | Shows |
|---|---|
| `Http2EndStreamOnHeaders` | A response without a body that ends on its HEADERS frame leaves the client waiting for DATA for ever (`httpv2.cc:164`). |
| `Http2ThreeFragments` | Every CONTINUATION frame carries END_HEADERS (`http2_socket.h:177`), so a request of three frames is malformed. |
| `Http2NoStatus` | "status header not found." is constructed and not thrown (`httpv2.cc:193`). |
| `HpackDynamicIndex` | The sentinel of the static table counts as an entry (`hpack_table.cc:169`): dynamic indices are off by one. |
| `HpackEmptyString` | A header with an empty value makes the parser throw (`hpack_decoder.cc:60`). |

The passing runs of the exchange and the session leave these five cases out of
what the server sends: bodiless replies end on an empty DATA frame, requests take at most two frames, replies
have a `:status`, `MCHpackExchange` uses no dynamic index and no empty value.
Three smaller ones are left out as well and can be reproduced with the same
modules (the first and the third), or only end the program (the second, in
`Http2Failures`): a WINDOW_UPDATE of increment 0 after an empty DATA frame
(`EmptyData = TRUE` breaks `ClientConforms`, `httpv2.cc:177`); the dump of a
short HEADERS frame with a priority ends the program under `-v`
(`VerboseChoices = {TRUE}` in `Http2Exchange.cfg` breaks `Responds`,
`http2_frame.cc:20`); and an entry
inserted under a static name of a regular header is counted one octet too large,
because of the colon (`<<"incremental", "static">>` in `Encodings` breaks
`TablesAgree`, `hpack_table.cc:90`).

What else the models have as the code has it, and the properties say or except:

- the end of the stream inside the header section, behind Content-Length, yields a
  response whose body is header text (`socket.h:73`, `HeadersForBody`);
- a port of 2^16 or more is cut to 16 bits (`main.cc:102`);
- a value of `-H` is taken from the line with its line breaks, at a position found
  in the line without them (`http_header.cc:29`);
- `-k` also leaves out SNI (`sync_stream_wrapper.cc:79-85`), where README.md:54
  speaks of the verification only;
- `trim` returns a text of blanks only as it is (`string_util_trim.h:14`);
- `test_range` ignores its length (`buffer_view.h:78`), which `decode()` calls with
  1 and `dump` with 6;
- an index beyond both tables drops the header without an error
  (`hpack_decoder.cc:148`);
- the stream of a received frame is never looked at: a pushed body stays out of the
  response only because PUSH_PROMISE ends the program first (`httpv2.cc:165`).

### Fairness

The client is one thread that runs until its next blocking call returns: weak
fairness of `ClientStep`, no more.  The server is fair in what it owes: reading,
its SETTINGS, its acknowledgements, the reply, and closing once the client has
closed.  It owes no extra frame, no empty frame and no early close.  In
`Launch`, `main` runs while it can (`WF` on `Main` and on the steps of the
reader) and octets that were sent arrive; no close and no failure is owed.
`Ends`, `Exits` and the two `Responds` therefore say that nobody waits for
something that nobody owes; that a silent server blocks the client for ever (no
read has a timeout) is outside them.  `HpackOctets` needs no fairness: `Advances`
bounds the loop.

## Proofs

A run checks a property on small instances; the theorems state it for every value
of the constants: every static table, every canonical code, every length of a
string, every window, every block of octets, every size of frame, reply, request,
message and command line.

| Theorem | Module | Under |
|---|---|---|
| `TypeCorrect`, `SizeTrackedAlways`, `WithinLimitAlways`, `ImplementsRfc7541Always` | `HpackDynamicTable_proofs` | |
| `TypeOKAlways` | `HpackExchange_proofs` | |
| `DecodedAsSentAlways` | `HpackExchange_proofs` | `NoDynamicIndex` |
| `LegalBlockDecodesAlways` | `HpackExchange_proofs` | `NoDynamicIndex`, `NoEmptyStrings` |
| `TablesAgreeAlways` | `HpackExchange_proofs` | `InsertsNewNames` |
| `CanonicalTreeAlways`, `BitsAccountedAlways`, `TextRecoveredAlways` | `HpackHuffman_proofs` | |
| `TypeOKAlways`, `AdvancesAlways`, `EncodedAsRfcAlways`, `DecodesBlockAlways` | `HpackOctets_proofs` | |
| `TypeOKAlways`, `WindowsConservedAlways` | `Http2Session_proofs` | |
| `HandshakeFirstAlways` | `Http2Session_proofs` | |
| `RequestIntactAlways` | `Http2Session_proofs` | `ShortRequests` |
| `ClientConformsAlways` | `Http2Session_proofs` | `ShortRequests`, `~ EmptyData` |
| `ResponseFaithfulAlways` | `Http2Session_proofs` | `WellFormedReplies` |
| `TypeOKAlways`, `ConnectsAsAskedAlways`, `ExitReportsAlways`, `ResponseExactAlways`, `InexactOnlyAtEofAlways`, `RequestFaithfulAlways` | `Launch_proofs` | |

The hypotheses in the last column are the cases in which the code does otherwise,
and no more; the constants of the passing run that checks the property satisfy
them, and another instance shows what happens without each of them:

- `NoDynamicIndex`: no representation refers to the dynamic table, where the code
  is off by one (run `HpackDynamicIndex`);
- `NoEmptyStrings`: no name or value is empty (run `HpackEmptyString`);
- `InsertsNewNames`: no entry is inserted under a name of the static table, whose
  colon the code counts;
- `ShortRequests`: the header block fits into two frames (run
  `Http2ThreeFragments`);
- `~ EmptyData`: the server sends no empty DATA frame before the last one, which the
  code answers with an increment of zero;
- `WellFormedReplies`: the reply's code and headers are those in its header block,
  which has a `:status` (run `Http2NoStatus`).

### Assumptions

What is assumed of the constants is written as `ASSUME` where they are declared, and
TLC evaluates it on every run:

- HPACK: sizes of strings are natural numbers, the static table is a sequence of
  headers (`SizesAssumption`, `StaticTableAssumption`, `DefaultMaxSizeAssumption`,
  `MaxSizesAssumption`); encodings are the RFC's and the server sends headers under
  the RFC's names (`EncodingsAssumption`, `SendableAssumption`, `BoundsAssumption`);
- the Huffman code: codes of 1 to 30 bits, in order of length and then of symbol,
  none the start of another; beside every start of a code there is one that ends in
  the other bit; EOS is at least eight ones (`CodesAssumption`); a text is a sequence
  of symbols (`TextsAssumption`).  That the table of the source is such a code is
  what TLC finds when it evaluates the assumption;
- the octets of HPACK: strings are octets (`HeadersAssumption`, `HuffmanAssumption`),
  and the numbers written in front of them, the indices and the sizes have at most
  four digits of seven bits (`ItemsAssumption`, `RequestsAssumption`): a block is sent
  in frames of less than 2^24 octets.  Integers beyond that are not left out, they are
  among the representations the code cannot hold, whose octets are arbitrary.
  `Overflowed` is any set of integers (`OverflowedAssumption`);
- HTTP/2: types and positive bounds (`RequestsAssumption`, `VerboseAssumption`,
  `CapAssumption`, `WindowAssumption`); a reply has a header block
  (`ReplyAssumption`); a frame the server sends besides is neither DATA nor
  CONTINUATION, and acknowledges nothing (`LibertiesAssumption`,
  `ExtraAssumption`);
- HTTP/1.1: the octets of a response are its status line, its headers, an empty line
  and its body, which has the length given last or comes in chunks
  (`SizesAssumption`, `MessagesAssumption`).  These are the two framings
  `read_response` knows; without either it throws (`socket.h:96`);
- the command line: the arguments are sequences, a URL is not empty and has at most
  one port (`UrlsAssumption`, `ScenariosAssumption`); a blank is not the lower case
  of another character, nor has it one (`LowerAssumption`).

### The dynamic table

`TypeOK` alone is not inductive: that a removal does not count below zero follows
only from the tracked size being the real one.  The inductive invariant is
`Consistent(table) /\ WithinLimit`: a record of the right type whose tracked size
is the sum of its entries, within its maximum.  `RemovedConsistent` shows that k
removals keep a table consistent, `EvictCorrect` that `evict` stops, at the
latest when the table is empty.  For the refinement, `EvictIsNewest` shows that
what is left after the first number of removals at which the loop condition is
false is, newest first, what the RFC calls the newest rows that fit: sums over a
reversed sequence are the complements of sums over the sequence
(`PartialSumsReverse`).  `AddKeepsNewest` and `ResizeKeepsNewest` say it of the two
operations; `HpackExchange_proofs` uses them again.

They rest on `SequenceSums_proofs`.  Induction is done with sets
instead of operator parameters (`SetInduction`, from the least element of a set of
numbers), which the provers can instantiate, and recursive functions are shown to
exist and to be unique (`RecursionExists`, `PartialSumsAre`).

### The exchange

`Types` bounds both ends.  Two invariants relate them while the block is on its way:

- `Aligned`: the representations that are left stand, one by one, for the headers not
  decoded yet, behind at most one size update (`Left`).  Because nothing refers to
  the dynamic table, what a representation stands for does not depend on it.
- `Synchronised`: there is a sequence of tables, one for each representation left,
  that leads from the client's table to the server's (`Ahead`).  The server
  extends it at its end with the RFC's operations, the client shortens it at its
  beginning with the code's; that both are the same function is the refinement
  above.

`decode()` is proved to be the run of `DecodeNext` over the block (`DecodeIsRun`),
so that the session and the exchange speak of the same function.

### The Huffman decoder

Three invariants make `TextRecovered` inductive.  `Built`: the tree consists of the
ways to the first `next` codes, and the ends of these, and no other nodes, have
values; because no code is the start of another (`PrefixFree`), the next one fits
(`CodeFits`) and, once all are there, no walk meets a value before the end of a code
(`WholeTree`).  `Waiting`: nothing was decoded before a string arrives.  `Walking`: the
symbols decoded are the first k of the text, and the walk has begun the code of the
next one, at the place in the input where this begins (`BitsBefore`).  The padding
needs no case of its own: it is the beginning of EOS (`EndIsOnes`), too short to
end it, so that `RowBehind` puts EOS behind every text.

What the numbers of nodes say (their depth, their digits, the node some levels up)
rests on the powers of two up to 2^31, which the provers know only one by one
(`PowerDoubles`), and on induction over sets.  `CanonicalTree` follows from `Built`:
both children exist because the table is complete (`BothChildren`), and the order of
the leaves is that of the codes (`LeavesInOrder`).

### The octets of HPACK

`Types` is `TypeOK` with the octets in it: the block is laid out (`Laid`) as the
beginning of a row of items, each of which the decoder may find anywhere between
two `starts`, and the last of which may be cut.  It is inductive because a turn of
the loop changes neither the block nor its outline, and because what a parser
returns is a position within the block, whatever an overflowed integer makes of
`offset + length` (`ApplyTypes`).  `Advances` needs of the parsers only that what
they return lies behind the position they started at.

`EncodedAsRfc` holds initially or never.  `encode_integer` writes the digits of a
number one after the other, `Rfc7541Octets` has them all at once: `DigitsStep`
relates the digits of v to those of v divided by 128, and the recursion of the code
ends after at most four of them.

For `DecodesBlock`, the lemmas follow the calls of `decode()`.  `SumsAre` shows that
the digits of a number add up to it without an overflow, so that
`parse_integer_representation` returns the number (`IntegerReads`), and throws if a
digit is missing; `StringReads`, `FetchReads` and `TurnDecodes` say the same of a
string, a header and one turn of the loop, with `Holds` for as much of the octets as
there is.  A turn therefore does what `DecodeNext` of `HpackDecode` does with the
representation at the position.  The refinement mapping counts the starts in front of
the position (`Begun`); `Placed`, that the position is a start or the end of the
block, is the second inductive invariant, and holds as long as nothing was
decoded that the code cannot hold: then `Begun` is one less than the number of the
next item.  `BlockStart` maps the initial states, `BlockStep` every step:
to `Decode`, to the error or the end of `HpackBlock`, or to `LeaveDefined`.

### The session

`IInv == Types /\ Stage /\ Windows`.  `Windows` says of both windows that the free
part, DATA in flight and credit in flight or being written never exceed W, and are
W while the program reads; `Stage`, that nothing is asked or answered before the
handshake.  Each further theorem adds one conjunct:

- `Handshake`: the client's SETTINGS are in one place at most, from `out` to the
  acknowledgement received (`OnePlace`), and the acknowledgement of the server's
  SETTINGS is ahead of the request in the same queue (`Acknowledged`);
- `Requesting`: the frames the server has yet to receive are in an order it accepts
  (`InOrder`), and what it has of the header block and what is on its way is the
  request;
- `Updating`: no WINDOW_UPDATE in flight has the increment zero; with it, the server
  never finds an error (`s_error`);
- `Answered`: the reply is one sequence of items, the header block before the body.
  Every frame in flight carries the items between two offsets, or none, and the
  offsets lead from what the client has to what the server has sent (`Chain`,
  `Got`).  Padding, priority, pushed responses, and frames without a fragment are cases of
  it; a pushed body does not get into the response because its announcement
  comes first (`Announcing`) and ends the program.

### A run of the program

`IInv` of `Launch_proofs` has two halves.  `Reading`, of the reader: there is a
position `pos` up to which the message has been taken and an `end` up to which it
arrives, what is between them is in the buffer and on the wire (`Stream`), and
`Place` says for every state of `read_response` what of the message has been
understood at that position: headers read, chunks read, or that the stream ended
cleanly and passed for an empty line (`CutShort`).  `Going`, of `main`: the options
before `optind` are those that are set (`OptionsRead`), the URL has a scheme the
program knows, and the connection is as asked (`Connected`); when the program is
over, `ExitReports` and `ConnectsAsAsked` hold and stay.

`RequestFaithful` has an invariant of its own, `HInv`: the headers that are set are
those of the `-H` lines in front of `optind`, in order (`HeadersSet`), because the
positions at which there is one grow with every option taken; and `trim` leaves of a
text what `Announces` asks for.  The request is written once, with them.

### What is only model-checked

- `Responds`, `Ends` and `Exits`: liveness under fairness is out of the prover's
  reach, as is `ENABLED`.
- That the 257 codes of the source satisfy `CodesAssumption`, which is a computation.

## Not modelled

- What `decode_huffman` makes of illegal padding, which RFC 7541 5.2 forbids and
  the code accepts; `HpackOctets` takes the decoder's results as a constant.
- The octets of a frame header (`http2_frame.h:30-54`), and the content of
  SETTINGS, which the program ignores (README.md:79).
- The regular expression of `url.cc`, given by `Urls` (a port beyond `int` makes
  `stoi` throw, which is the same to `main` as no match), and what `getopt_long`
  does with abbreviations, joined short options and `--`.
- In `Http1Response`, a line is one octet and what `split`, `atoi`, `stoi` and the
  header parser make of it is a constant; `HttpHeader` checks that parser on its
  own, for the command line.
- What is printed with `-v` (`dump.cc`, `debug.h`, the dumps of the table, the
  frames and the response; `join` always joins with a comma), and the key log.
- Certificates beyond whether one is valid for the host, and TLS itself.
- A server that stays silent, and resources (memory, the size of a stream buffer).

## Plan

Done: tables, decoder and encoder down to octets, Huffman, session, HTTP/1.1,
command line; theorems for the dynamic table, the exchange, Huffman, the octets, the
session and a run of the program: all safety properties the runs check.

Left: the Huffman decoder in place of the constant `HuffmanText`, which `HpackHuffman`
and `HpackOctets` could share.
