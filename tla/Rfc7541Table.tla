---------------------------- MODULE Rfc7541Table ----------------------------
(***************************************************************************)
(* What hpack_dynamic_table promises: the dynamic table of RFC 7541,       *)
(* sections 2.3.2 and 4, the document hpack_table.cc refers to.  Entries   *)
(* are newest first; room is made BEFORE an entry is inserted, and an      *)
(* entry larger than the whole table leaves it empty.                      *)
(***************************************************************************)
EXTENDS SequenceSums

CONSTANTS Entry, Size(_), InitialLimit, Limits

VARIABLES rows, limit

vars == <<rows, limit>>

Sizes(s) == [i \in 1 .. Len(s) |-> Size(s[i])]

\* The longest prefix of s (its newest entries) that takes at most room octets.
Newest(s, room) ==
  SubSeq(s, 1, CHOOSE k \in 0 .. Len(s) :
                 /\ PartialSums(Sizes(s))[k] <= room
                 /\ k = Len(s) \/ PartialSums(Sizes(s))[k + 1] > room)

Init == rows = <<>> /\ limit = InitialLimit

Insert(h) ==
  /\ rows' = IF Size(h) > limit
               THEN <<>>
               ELSE <<h>> \o Newest(rows, limit - Size(h))
  /\ UNCHANGED limit

Resize(n) ==
  /\ limit' = n
  /\ rows' = Newest(rows, n)

Next == (\E h \in Entry : Insert(h)) \/ (\E n \in Limits : Resize(n))

Spec == Init /\ [][Next]_vars

=============================================================================
