---------------------------- MODULE ReaderProps ----------------------------
(***************************************************************************)
(* What the reader must satisfy: wherever the buffers of the source end,   *)
(* the same characters come out, once each and in order.                   *)
(***************************************************************************)
EXTENDS Reader

Utf8Input == input.sniffed # 2

\* The characters queued are those of the input, each once and in order, and
\* at its end all of them.
InOrder == /\ decoded = [i \in 1..Len(decoded) |-> i]
           /\ eof => Len(decoded) = Len(Chars) /\ input.cut = 0

\* UTF-8 is decoded in order wherever the buffers of the source end.
DecodedInOrder == Utf8Input => InOrder

\* So is UTF-16: read_utf16_buffered consumes "all of the valid bytes in the
\* buffer first" (reader.rs:185-186).
Utf16InOrder == ~Utf8Input => InOrder

\* The offset that an error reports is that of the first character not
\* decoded, counted from the byte order mark.
OffsetInPlace == Utf8Input => offset = Start(Len(decoded) + 1) - MarkWidth

\* Only a malformed input is refused, and not before its malformed part:
\* that is the next character, or the last one, which lacks bytes.
OnlyMalformedRefused ==
  (Utf8Input /\ at \in {"failed", "panic"}) =>
    \/ Len(decoded) = Len(Chars) - 1 /\ input.cut > 0
    \/ Len(decoded) < Len(Chars) /\ Chars[Len(decoded) + 1].kind # "valid"

\* Each request of the scanner is answered: by as many characters as it asks
\* for, the end of the input or an error.
RequestAnswered == (at = "reading") ~> (at # "reading")
=============================================================================
