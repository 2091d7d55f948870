----------------------------- MODULE HpackTable -----------------------------
(***************************************************************************)
(* The HPACK header tables of hpack_table.cc: the static table, the        *)
(* dynamic table with its size accounting and eviction, and the lookup     *)
(* that addresses both with one index space.                               *)
(*                                                                         *)
(* A dynamic table is the record of hpack_dynamic_table's fields.  As in   *)
(* the code, entries are kept oldest first (push_back) and indexed newest  *)
(* first.  Strings are abstract; only their sizes are known.               *)
(***************************************************************************)
EXTENDS SequenceSums

CONSTANTS
  Names,          \* header names
  Values,         \* header values
  NameSize,       \* octets of each name
  ValueSize,      \* octets of each value
  StaticTable,    \* the static table without the sentinel the code keeps at 0
  DefaultMaxSize  \* initial max_size_ (4096 in the code)

Headers == [name : Names, value : Values]

ASSUME SizesAssumption == /\ NameSize \in [Names -> Nat]
                          /\ ValueSize \in [Values -> Nat]
ASSUME StaticTableAssumption == StaticTable \in Seq(Headers)
ASSUME DefaultMaxSizeAssumption == DefaultMaxSize \in Nat

Tables == [entries : Seq(Headers), max_size : Nat, current_table_size : Nat]

EmptyTable ==
  [entries |-> <<>>, max_size |-> DefaultMaxSize, current_table_size |-> 0]

-----------------------------------------------------------------------------
\* Size accounting and eviction.

entry_size(h) == NameSize[h.name] + ValueSize[h.value] + 32

EntrySizes(entries) == [i \in 1 .. Len(entries) |-> entry_size(entries[i])]

calc_table_size(t) == SumSeq(EntrySizes(t.entries))

\* Mutant of Removed: remove_tail() erases an entry without reading its size.
RemovedUncounted(t, k) == [t EXCEPT !.entries = SubSeq(@, k + 1, Len(@))]

\* The loop of evict() after k calls of remove_tail().
Removed(t, k) ==
  [entries |-> SubSeq(t.entries, k + 1, Len(t.entries)),
   max_size |-> t.max_size,
   current_table_size |->
     t.current_table_size - PartialSums(EntrySizes(t.entries))[k]]

\* Mutant of EvictionStops: evict() goes on while the size equals the maximum.
EvictionStopsBelow(t, k) ==
  \/ k = Len(t.entries)
  \/ Removed(t, k).current_table_size < t.max_size

\* The condition of evict()'s loop is false after k removals.
EvictionStops(t, k) ==
  \/ k = Len(t.entries)
  \/ Removed(t, k).current_table_size <= t.max_size

evict(t) ==
  Removed(t, CHOOSE k \in 0 .. Len(t.entries) :
               /\ EvictionStops(t, k)
               /\ \A j \in 0 .. k - 1 : ~ EvictionStops(t, j))

\* Mutant of add: the overhead of 32 octets is not counted in.
AddWithoutOverhead(t, h) ==
  evict([t EXCEPT !.entries = Append(@, h),
                  !.current_table_size = @ + entry_size(h) - 32])

add(t, h) ==
  evict([entries |-> Append(t.entries, h),
         max_size |-> t.max_size,
         current_table_size |-> t.current_table_size + entry_size(h)])

\* Mutant of set_maximum_table_size: nothing is evicted until the next add().
ResizeWithoutEvict(t, size) == [t EXCEPT !.max_size = size]

set_maximum_table_size(t, size) == evict([t EXCEPT !.max_size = size])

-----------------------------------------------------------------------------
\* Lookup.  The outcome of a lookup is a header, std::nullopt or an exception.

Found(h) == [outcome |-> "header", header |-> h]
Nullopt  == [outcome |-> "nullopt"]
Thrown   == [outcome |-> "thrown"]

\* hpack_static_table.size(): the sentinel at index 0 counts.
StaticSize == Len(StaticTable) + 1

\* Mutant of hpack_static_table_at: the last entry is out of range.
StaticTableAtShort(index) ==
  IF index = 0 \/ index + 1 >= StaticSize THEN Thrown ELSE Found(StaticTable[index])

hpack_static_table_at(index) ==
  IF index = 0 \/ index >= StaticSize THEN Thrown ELSE Found(StaticTable[index])

\* hpack_dynamic_table::at: index 0 is the newest entry.
at(t, index) ==
  IF index >= Len(t.entries)
    THEN Thrown
    ELSE Found(t.entries[Len(t.entries) - index])

hpack_table_at(t, index) ==
  CASE index = 0 -> Nullopt
    [] index \in 1 .. StaticSize -> hpack_static_table_at(index)
    [] index \in StaticSize + 1 .. StaticSize + Len(t.entries) ->
         at(t, index - StaticSize - 1)
    [] OTHER -> Nullopt

=============================================================================
