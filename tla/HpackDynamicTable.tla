------------------------- MODULE HpackDynamicTable --------------------------
(***************************************************************************)
(* The life of one hpack_dynamic_table (hpack_table.cc): the decoder adds  *)
(* the header of each literal with incremental indexing and changes the    *)
(* maximum size on each size update, in any order.                         *)
(***************************************************************************)
EXTENDS HpackTable, SequencesExt

CONSTANT MaxSizes   \* the sizes a size update may ask for

ASSUME MaxSizesAssumption == MaxSizes \subseteq Nat

VARIABLE table

Init == table = EmptyTable

Add(h) == table' = add(table, h)

SetMaximumTableSize(size) == table' = set_maximum_table_size(table, size)

Next == \/ \E h \in Headers : Add(h)
        \/ \E size \in MaxSizes : SetMaximumTableSize(size)

Spec == Init /\ [][Next]_table

-----------------------------------------------------------------------------
\* The table is a record of entries and two sizes (hpack_table.h:15-17).
TypeOK == table \in Tables

\* current_table_size_, kept up to date by add() and remove_tail(), is the
\* size recomputed from the entries: dump() would never print its
\* "Calculated Table Size mismatched".
SizeTracked == table.current_table_size = calc_table_size(table)

\* Between two operations the table is never over its maximum, whatever
\* entries were added and however the maximum was moved (evict()).
WithinLimit == calc_table_size(table) <= table.max_size

\* Adding at the back and then evicting from the front (the code) amounts to
\* the table of RFC 7541, which makes room first and inserts afterwards.
Promised == INSTANCE Rfc7541Table WITH
              Entry <- Headers, Size <- entry_size,
              InitialLimit <- DefaultMaxSize, Limits <- MaxSizes,
              rows <- Reverse(table.entries), limit <- table.max_size

ImplementsRfc7541 == Promised!Spec

=============================================================================
