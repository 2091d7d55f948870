-------------------------- MODULE MCHpackExchange ---------------------------
(***************************************************************************)
(* Blocks of up to three headers over a pseudo-header, a header of the     *)
(* static table and one that is in neither table.  Two entries fill the    *)
(* table of 84 octets exactly (42 + 42) or overfill it, so that eviction   *)
(* happens within a block.                                                 *)
(***************************************************************************)
EXTENDS HpackExchange

CONSTANTS status, ctype, custom,   \* bases of names
          ok, text, none           \* values

Bases == {status, ctype, custom}
BaseSize == (status :> 6) @@ (ctype :> 6) @@ (custom :> 8)

MCNames == {n \in [colon : BOOLEAN, base : Bases] :
              n.base = custom => ~ n.colon}
MCNameSize == [n \in MCNames |-> BaseSize[n.base] + (IF n.colon THEN 1 ELSE 0)]
MCValues == {ok, text, none}
MCValueSize == (ok :> 3) @@ (text :> 4) @@ (none :> 0)

\* As in the code, the names of the static table all begin with a colon.
MCStaticTable ==
  <<[name |-> [colon |-> TRUE, base |-> status], value |-> ok],
    [name |-> [colon |-> TRUE, base |-> ctype], value |-> none]>>

MCPseudo == {status}
AllHeaders == {h \in [name : MCNames, value : MCValues] :
                 h.name.colon <=> h.name.base = status}
NonEmptyHeaders == {h \in AllHeaders : h.value # none}

MCMaxSizes == {0, 42, 84}

Kinds == {"incremental", "without", "never"}

\* Every representation that needs nothing from the dynamic table, except
\* inserting an entry under a name of the static table.
StaticEncodings ==
  {<<"indexed", "static">>} \cup (Kinds \X {"new"})
    \cup ({"without", "never"} \X {"static"})

\* Encoders that also refer to entries they inserted.
DynamicEncodings == StaticEncodings \cup {<<"indexed", "dynamic">>}

=============================================================================
