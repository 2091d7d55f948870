----------------------------- MODULE HttpHeader -----------------------------
(***************************************************************************)
(* A header line is taken apart (http_header.cc) with the trimming of      *)
(* string_util_trim.h.  A line is a sequence of characters; a character    *)
(* other than ":", " ", "CR" and "LF" may stand for any piece of text.     *)
(***************************************************************************)
EXTENDS Integers, Sequences, FiniteSetsExt

LineBreaks == {"CR", "LF"}
Blank == " "

\* The positions of the characters of s that are not ch.
Others(s, ch) == {i \in 1 .. Len(s) : s[i] # ch}

\* A string of nothing but ch is returned as it is.
ltrim(s, ch) == IF Others(s, ch) = {} THEN s ELSE SubSeq(s, Min(Others(s, ch)), Len(s))
rtrim(s, ch) == IF Others(s, ch) = {} THEN s ELSE SubSeq(s, 1, Max(Others(s, ch)))
trim(s, ch) == rtrim(ltrim(s, ch), ch)

Colons(s) == {i \in 1 .. Len(s) : s[i] = ":"}

\* What copy_if has copied behind each position of s, and in the end: the
\* elements at the positions in kept, in order.
Copied(s, kept) ==
  LET copied[i \in 0 .. Len(s)] ==
        IF i = 0 THEN <<>>
        ELSE IF i \in kept THEN Append(copied[i - 1], s[i]) ELSE copied[i - 1]
  IN  copied

copy_if(s, kept) == Copied(s, kept)[Len(s)]

\* Mutant of create_http_header_from_header_line_or_null: the last colon counts.
HeaderAtLastColon(line) ==
  IF Colons(line) = {} THEN {}
  ELSE {[key |-> trim(SubSeq(line, 1, Max(Colons(line)) - 1), Blank),
         value |-> trim(SubSeq(line, Max(Colons(line)) + 1, Len(line)), Blank)]}

\* The header, or the empty set for a null pointer.  The colon is looked for
\* in the line without its line breaks; the value is taken from the line as it
\* is, from that position on and as long as if there were no line breaks in it.
create_http_header_from_header_line_or_null(line) ==
  LET stripped == copy_if(line, {i \in 1 .. Len(line) : line[i] \notin LineBreaks})
      pos == Min(Colons(stripped))
  IN  IF Colons(stripped) = {} THEN {}
      ELSE {[key |-> trim(SubSeq(stripped, 1, pos - 1), Blank),
             value |-> trim(SubSeq(line, pos + 1, Len(stripped)), Blank)]}

=============================================================================
