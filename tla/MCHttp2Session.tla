--------------------------- MODULE MCHttp2Session ---------------------------
(***************************************************************************)
(* Small instances of a session.  Frames hold two items, the windows three *)
(* octets and a direction of the connection two frames, so that a request  *)
(* takes one, two or three frames, a body of five octets outruns the       *)
(* windows, and both sides come to wait for the other.                     *)
(***************************************************************************)
EXTENDS Http2Session

CONSTANTS status, ctype, custom,   \* bases of names
          v200, text, none         \* values

BaseSize == (status :> 6) @@ (ctype :> 5) @@ (custom :> 4)

MCNames == {n \in [colon : BOOLEAN, base : {status, ctype, custom}] :
              n.base = custom => ~ n.colon}
MCNameSize == [n \in MCNames |-> BaseSize[n.base] + (IF n.colon THEN 1 ELSE 0)]
MCValues == {v200, text, none}
MCValueSize == (v200 :> 3) @@ (text :> 4) @@ (none :> 0)
MCStaticTable ==
  <<[name |-> [colon |-> TRUE, base |-> status], value |-> v200],
    [name |-> [colon |-> TRUE, base |-> ctype], value |-> none]>>

MCStoi == v200 :> 200
MCCodes == {0, 200}

Plain(base) == [colon |-> FALSE, base |-> base]
Octet(n) == [i \in 1 .. n |-> i]

MCReplies(octets) ==
  {[block |-> <<Indexed(1), LiteralIndexedName("without", 2, text)>>,
    code |-> 200,
    headers |-> <<[name |-> Plain(ctype), value |-> text]>>,
    body |-> Octet(n)] : n \in octets}

\* A block of three representations, with an insertion and a size update.
LongReplies(octets) ==
  {[block |-> <<SizeUpdate(0), Indexed(1),
                LiteralNewName("incremental", Plain(custom), text)>>,
    code |-> 200,
    headers |-> <<[name |-> Plain(custom), value |-> text]>>,
    body |-> Octet(n)] : n \in octets}

\* A malformed reply: no ":status".
NoStatus ==
  {[block |-> <<LiteralIndexedName("without", 2, text)>>,
    code |-> 200,
    headers |-> <<[name |-> Plain(ctype), value |-> text]>>,
    body |-> <<1>>]}

Bodies == MCReplies({0, 5}) \cup LongReplies({6})
EmptyBodies == MCReplies({0})
OneOctet == MCReplies({1})
Mixed == MCReplies({0, 4})

Short == {Octet(2)}
Fragmented == {Octet(2), Octet(4)}
TooLong == {Octet(5)}

NoFlags == {{}}
AnyFlags == SUBSET {"PADDED", "PRIORITY"}
Ping == Frame("PING", {}, 0, <<>>)
MCExtra == {Ping, Frame("SETTINGS", {}, 0, <<>>)}
NoExtra == {}

OpaqueOctets(n) == [i \in 1 .. n |-> Opaque]

\* What a server, or something that passes for one, may send besides: control
\* frames that are legal, an informational response, a type without a name,
\* payloads shorter than their frames need, and HEADERS frames whose padding or
\* priority does not fit.
Strange ==
  {Ping, Frame("SETTINGS", {}, 0, OpaqueOctets(6)), Frame("SETTINGS", {}, 0, OpaqueOctets(7)),
   Frame("WINDOW_UPDATE", {}, 0, OpaqueOctets(4)), Frame("WINDOW_UPDATE", {}, 0, OpaqueOctets(3)),
   Frame("GOAWAY", {}, 0, OpaqueOctets(8)), Frame("GOAWAY", {}, 0, OpaqueOctets(4)),
   Frame("RST_STREAM", {}, stream_id, OpaqueOctets(3)),
   Frame("unknown", {}, 0, <<>>),
   Frame("HEADERS", {"END_HEADERS"}, stream_id, <<Indexed(1)>>),
   Frame("HEADERS", {"END_HEADERS"}, stream_id, <<>>),
   Frame("HEADERS", {"END_HEADERS", "PADDED"}, stream_id, <<>>),
   Frame("HEADERS", {"END_HEADERS", "PADDED"}, stream_id, <<PadLength(2), Indexed(1)>>),
   Frame("HEADERS", {"END_HEADERS", "PRIORITY"}, stream_id,
         [i \in 1 .. 4 |-> Priority])}

=============================================================================
