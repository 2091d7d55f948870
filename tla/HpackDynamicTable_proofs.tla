---------------------- MODULE HpackDynamicTable_proofs ----------------------
(***************************************************************************)
(* The invariants of hpack_dynamic_table, and that it implements the table *)
(* of RFC 7541, for every choice of headers, string sizes, initial maximum *)
(* and size updates.                                                       *)
(***************************************************************************)
EXTENDS HpackDynamicTable, HpackDecode_proofs

-----------------------------------------------------------------------------
\* The inductive invariant.  WithinLimit alone is not inductive: eviction
\* compares the tracked size, which must first be known to be the real one.
IInv == Consistent(table) /\ WithinLimit

LEMMA Initially == Init => IInv
<1> SUFFICES ASSUME Init PROVE IInv
  OBVIOUS
<1>1. /\ table.entries = <<>> /\ table.max_size = DefaultMaxSize
      /\ table.current_table_size = 0 /\ table \in Tables
  BY DefaultMaxSizeAssumption DEF Init, EmptyTable, Tables
<1>2. EntrySizes(<<>>) = <<>>
  BY DEF EntrySizes
<1>3. calc_table_size(table) = 0
  BY <1>1, <1>2, SumSeqEmpty DEF calc_table_size
<1> QED
  BY <1>1, <1>3, DefaultMaxSizeAssumption DEF IInv, Consistent, WithinLimit

LEMMA Inductive == IInv /\ [Next]_table => IInv'
<1> SUFFICES ASSUME IInv, [Next]_table PROVE IInv'
  OBVIOUS
<1>1. ASSUME NEW h \in Headers, Add(h)  PROVE IInv'
  BY <1>1, AddCorrect DEF IInv, Add, WithinLimit, Consistent, calc_table_size
<1>2. ASSUME NEW size \in MaxSizes, SetMaximumTableSize(size)  PROVE IInv'
  BY <1>2, MaxSizesAssumption, ResizeCorrect
     DEF IInv, SetMaximumTableSize, WithinLimit, Consistent, calc_table_size
<1>3. CASE UNCHANGED table
  BY <1>3 DEF IInv, WithinLimit, Consistent, calc_table_size
<1> QED
  BY <1>1, <1>2, <1>3 DEF Next

\* The table always has its type.
THEOREM TypeCorrect == Spec => []TypeOK
<1>1. IInv => TypeOK
  BY DEF IInv, Consistent, TypeOK
<1> QED
  BY <1>1, Initially, Inductive, PTL DEF Spec

\* The tracked size is always the size of the entries: the mismatch dump()
\* looks for never happens.
THEOREM SizeTrackedAlways == Spec => []SizeTracked
<1>1. IInv => SizeTracked
  BY DEF IInv, Consistent, SizeTracked
<1> QED
  BY <1>1, Initially, Inductive, PTL DEF Spec

\* The entries never take more than the maximum.
THEOREM WithinLimitAlways == Spec => []WithinLimit
<1>1. IInv => WithinLimit
  BY DEF IInv
<1> QED
  BY <1>1, Initially, Inductive, PTL DEF Spec

-----------------------------------------------------------------------------
\* Each operation of the code is the operation of the RFC.

LEMMA NewestPromised ==
  ASSUME NEW s, NEW room
  PROVE  Promised!Newest(s, room) = Newest(s, room)
<1>1. EntrySizes(s) = Promised!Sizes(s)
  BY DEF Promised!Sizes, EntrySizes
<1>2. Promised!PartialSums(EntrySizes(s)) = PartialSums(EntrySizes(s))
  BY DEF Promised!PartialSums, PartialSums
<1> QED
  BY <1>1, <1>2, Zenon DEF Promised!Newest, Newest

LEMMA AddInserts ==
  ASSUME NEW h \in Headers, Consistent(table), Add(h)
  PROVE  Promised!Insert(h)
BY AddKeepsNewest, NewestPromised DEF Promised!Insert, Add

LEMMA SetMaximumTableSizeResizes ==
  ASSUME NEW size \in Nat, Consistent(table), SetMaximumTableSize(size)
  PROVE  Promised!Resize(size)
BY ResizeKeepsNewest, NewestPromised DEF Promised!Resize, SetMaximumTableSize

\* hpack_dynamic_table implements the dynamic table of RFC 7541: adding at the
\* back and evicting from the front until the size fits keeps exactly the rows
\* that making room first and inserting in front keeps.
THEOREM ImplementsRfc7541Always == Spec => ImplementsRfc7541
<1>1. Init => Promised!Init
  <2>1. SUFFICES ASSUME Init PROVE Promised!Init
    OBVIOUS
  <2>2. table.entries = <<>> /\ table.max_size = DefaultMaxSize
    BY <2>1 DEF Init, EmptyTable
  <2> QED
    BY <2>2 DEF Promised!Init, Reverse
<1>2. IInv /\ [Next]_table => [Promised!Next]_(Promised!vars)
  <2>1. SUFFICES ASSUME IInv, [Next]_table PROVE [Promised!Next]_(Promised!vars)
    OBVIOUS
  <2>2. ASSUME NEW h \in Headers, Add(h)  PROVE Promised!Next
    BY <2>1, <2>2, AddInserts DEF IInv, Promised!Next
  <2>3. ASSUME NEW size \in MaxSizes, SetMaximumTableSize(size)  PROVE Promised!Next
    BY <2>1, <2>3, MaxSizesAssumption, SetMaximumTableSizeResizes DEF IInv, Promised!Next
  <2>4. CASE UNCHANGED table
    BY <2>4 DEF Promised!vars
  <2> QED
    BY <2>1, <2>2, <2>3, <2>4 DEF Next
<1> QED
  BY <1>1, <1>2, Initially, Inductive, PTL DEF Spec, ImplementsRfc7541, Promised!Spec

=============================================================================
