------------------------ MODULE MCHpackDynamicTable -------------------------
(***************************************************************************)
(* A table of at most 170 octets: zero to five entries of 33 to 64 octets, *)
(* limits below one entry, between entries, and at an exact sum of sizes   *)
(* (33 + 44 + 33 = 110).                                                   *)
(***************************************************************************)
EXTENDS HpackDynamicTable

CONSTANTS short, long, empty, text   \* model values

MCNames == {short, long}
MCValues == {empty, text}
MCNameSize == (short :> 1) @@ (long :> 12)
MCValueSize == (empty :> 0) @@ (text :> 20)
MCStaticTable == <<[name |-> short, value |-> empty], [name |-> long, value |-> text]>>
MCMaxSizes == {0, 50, 110, 170}

=============================================================================
