------------------------------- MODULE Reader -------------------------------
(***************************************************************************)
(* The decoder of src/reader.rs, between a BufRead, whose buffer may end   *)
(* in the middle of a character, and the queue of characters the scanner   *)
(* looks ahead in.  A character is its place in the input, its width in    *)
(* bytes and whether it decodes ("invalid" does not) and is allowed        *)
(* ("control" is not).  In UTF-16 it is its code units too: the code loses  *)
(* its place there, and decodes what stands across two units.              *)
(*                                                                         *)
(* The source follows std::io::BufReader: fill_buf() returns what is left  *)
(* of the buffer, refilling it with any number of bytes once it is empty.  *)
(* Interrupted reads are retried at once and change nothing.               *)
(***************************************************************************)
EXTENDS Naturals, Sequences, FiniteSetsExt, SequencesExt

CONSTANTS Inputs,  \* the inputs: see ReaderAssumption
          Wants    \* the lengths the scanner asks for

CharKind == {"valid", "control", "invalid"}

\* The code units that begin and end a surrogate pair.
First(u) == u \in 55296..56319
Second(u) == u \in 56320..57343

is_utf16_surrogate(u) == First(u) \/ Second(u)

\* The other code units that push_char allows; it allows every pair.
Allowed(u) == \/ u \in {9, 10, 13, 133} \cup 32..126
              \/ u \in 160..55295 \/ u \in 57344..65533

\* A character in UTF-16: a unit, which is invalid as the second of no pair, or
\* a pair.
IsUtf16(units) == \/ Len(units) = 1 /\ units[1] \in 0..65535 /\ ~First(units[1])
                  \/ Len(units) = 2 /\ First(units[1]) /\ Second(units[2])

Utf16Char(units) == [width |-> 2 * Len(units),
                     kind |-> IF Len(units) = 2 \/ Allowed(units[1]) THEN "valid"
                              ELSE IF Second(units[1]) THEN "invalid" ELSE "control"]

\* An input begins with a byte that announces a byte order mark of sniffed
\* bytes (0: with any other byte), which is one or not; the characters after
\* the mark follow, of which the last lacks its last cut bytes; in UTF-16 coded
\* holds the code units of each and units all of them, their bytes in one of the
\* two orders.
ReaderAssumption ==
  /\ Wants \subseteq Nat
  /\ \A i \in Inputs : /\ i.sniffed \in {0, 2, 3} /\ i.isMark \in BOOLEAN
                       /\ i.cut \in Nat
                       /\ i.chars \in Seq([width : 1..4, kind : CharKind])
                       /\ i.cut > 0 => i.chars # <<>> /\ i.cut < Last(i.chars).width
                       /\ i.sniffed = 2 =>
                            /\ i.bigEndian \in BOOLEAN
                            /\ \A n \in DOMAIN i.coded : IsUtf16(i.coded[n])
                            /\ i.chars = [n \in DOMAIN i.coded |-> Utf16Char(i.coded[n])]
                            /\ i.units = FlattenSeq(i.coded)
ASSUME ReaderAssumption

VARIABLES input,     \* what is being read
          pos,       \* bytes consumed
          limit,     \* where the bytes buffered by the BufRead end
          decoded,   \* the characters queued so far, by their place (0: none of them)
          taken,     \* how many of them the scanner has taken
          offset,    \* the reader's own count of bytes
          eof,
          encoding,
          want,      \* the length the scanner asked for
          at         \* "idle", "reading", "failed", "broken" (an I/O error), "panic"

readerVars == <<input, pos, limit, decoded, taken, offset, eof, encoding, want, at>>

-----------------------------------------------------------------------------
Chars == input.chars

MarkWidth == IF input.isMark THEN input.sniffed ELSE 0

\* Where character i begins; the one after the last would begin at the end.
Start(i) ==
  LET bytes[n \in 0..Len(Chars)] == IF n = 0 THEN MarkWidth ELSE bytes[n - 1] + Chars[n].width
  IN bytes[i - 1]

Total == Start(Len(Chars) + 1) - input.cut

\* The character that begins at a position, 0 if none does.
CharAt(p) == IF \E i \in 1..Len(Chars) : Start(i) = p
             THEN CHOOSE i \in 1..Len(Chars) : Start(i) = p
             ELSE 0

\* fill_buf(): where the buffer may end.
Filled == IF limit > pos THEN {limit} ELSE IF pos = Total THEN {pos} ELSE (pos + 1)..Total

\* The whole characters between position p and the end l of the buffer that
\* decode, up to the first that does not.
Decodable(p, l) ==
  {j \in 1..Len(Chars) : /\ Start(j) >= p /\ Start(j + 1) <= l
                         /\ \A i \in 1..j : Start(i) >= p => Chars[i].kind # "invalid"}

Controls(js) == {j \in js : Chars[j].kind = "control"}

\* The characters that push_char accepts before the first it does not.
Accepted(js) == {j \in js : \A i \in Controls(js) : j < i}

\* Characters that follow one another, and the bytes they take.
Queue(js) == decoded' = decoded \o [i \in 1..Cardinality(js) |-> Min(js) + i - 1]

Width(js) == IF js = {} THEN 0 ELSE Start(Max(js) + 1) - Start(Min(js))

Answer(a) == at' = a

\* The BufRead after p bytes have been consumed across its buffers.
Consumed(p) == /\ pos' = p
               /\ limit' \in IF limit >= p THEN {limit} ELSE p..Total

-----------------------------------------------------------------------------
\* The scanner's cache(length).
cache ==
  /\ at = "idle"
  /\ \E n \in Wants :
       /\ Len(decoded) - taken < n
       /\ want' = n
  /\ at' = "reading"
  /\ UNCHANGED <<input, pos, limit, decoded, taken, offset, eof, encoding>>

\* The scanner takes characters (skip_char, read_char).
Take == /\ at = "idle" /\ taken < Len(decoded)
        /\ taken' = taken + 1
        /\ UNCHANGED <<input, pos, limit, decoded, offset, eof, encoding, want, at>>

Reading == at = "reading" /\ Len(decoded) - taken < want /\ ~eof

\* yaml_parser_determine_encoding: the first byte tells whether to expect a
\* byte order mark.
determine_encoding ==
  /\ Reading /\ encoding = "Any"
  /\ \/ /\ Total = 0
        /\ eof' = TRUE /\ Answer("idle") /\ UNCHANGED <<encoding, pos, limit>>
     \/ /\ Total > 0 /\ input.sniffed = 0
        /\ limit' \in Filled
        /\ encoding' = "Utf8" /\ UNCHANGED <<pos, eof, at>>
     \/ /\ Total > 0 /\ input.sniffed > 0
        /\ Consumed(Min({input.sniffed, Total}))
        /\ IF input.isMark
           THEN encoding' = (IF input.sniffed = 2 THEN "Utf16" ELSE "Utf8") /\ UNCHANGED at
           ELSE Answer("failed") /\ UNCHANGED encoding
        /\ UNCHANGED eof
  /\ UNCHANGED <<input, decoded, taken, offset, want>>

\* Mutant: the loop goes on at the end of the input.
EndOfInputIgnored == /\ Reading /\ encoding # "Any" /\ pos = Total
                     /\ UNCHANGED readerVars

\* The end of the input.
EndOfInput == /\ Reading /\ encoding # "Any" /\ pos = Total
              /\ eof' = TRUE /\ Answer("idle")
              /\ UNCHANGED <<input, pos, limit, decoded, taken, offset, encoding, want>>

\* Mutant: the incomplete character is consumed with those before it.
Utf8AllConsumed ==
  /\ Reading /\ encoding = "Utf8" /\ pos < Total
  /\ limit' \in Filled
  /\ LET js == Decodable(pos, limit') next == pos + Width(js)
     IN /\ Queue(Accepted(js))
        /\ offset' = offset + Width(Accepted(js))
        /\ Controls(js) = {}
        /\ pos' = limit'
  /\ UNCHANGED <<input, taken, eof, encoding, want, at>>

\* Mutant: the bytes of an invalid sequence are counted before it is reported.
InvalidCounted(js, next) ==
  /\ Controls(js) = {} /\ next < limit'
  /\ Chars[CharAt(next)].kind = "invalid" /\ next + Chars[CharAt(next)].width <= limit'
  /\ Queue(js)
  /\ offset' = offset + Width(js) + Chars[CharAt(next)].width
  /\ Answer("failed")
  /\ UNCHANGED pos

\* Mutant: a character that the buffer splits is taken for an invalid one.
SplitRefused(js, next) ==
  /\ Controls(js) = {} /\ next < limit'
  /\ Queue(js)
  /\ offset' = offset + Width(js)
  /\ Answer("failed")
  /\ UNCHANGED pos

\* An invalid sequence behind the characters js is reported, and nothing consumed.
InvalidUtf8(js, next) ==
  /\ Controls(js) = {} /\ next < limit'
  /\ Chars[CharAt(next)].kind = "invalid" /\ next + Chars[CharAt(next)].width <= limit'
  /\ Queue(js)
  /\ offset' = offset + Width(js)
  /\ Answer("failed")
  /\ UNCHANGED pos

\* read_utf8_buffered, of the characters the buffer holds.
read_utf8_buffered ==
  /\ Reading /\ encoding = "Utf8" /\ pos < Total
  /\ limit' \in Filled
  /\ LET js == Decodable(pos, limit') next == pos + Width(js)
     IN \/ /\ Controls(js) # {}
           /\ Queue(Accepted(js))
           /\ offset' = offset + Width(Accepted(js))
           /\ Answer("failed")
           /\ UNCHANGED pos
        \/ InvalidUtf8(js, next)
        \/ /\ Controls(js) = {} /\ js # {}
           /\ \/ next = limit'
              \/ next < limit' /\ limit' < next + Chars[CharAt(next)].width
           /\ Queue(js)
           /\ offset' = offset + Width(js)
           /\ pos' = next
           /\ UNCHANGED at
  /\ UNCHANGED <<input, taken, eof, encoding, want>>

\* read_utf8_char_unbuffered: the buffer begins with an incomplete character.
read_utf8_char_unbuffered ==
  LET i == CharAt(pos) IN
  /\ Reading /\ encoding = "Utf8" /\ pos < Total
  /\ \E l \in Filled : l < Start(i + 1)
  /\ IF Start(i + 1) > Total
     THEN Consumed(Total) /\ Answer("failed") /\ UNCHANGED <<decoded, offset>>
     ELSE /\ Consumed(Start(i + 1))
          /\ IF Chars[i].kind = "valid"
             THEN Queue({i}) /\ offset' = offset + Chars[i].width /\ UNCHANGED at
             ELSE Answer("failed") /\ UNCHANGED <<decoded, offset>>
  /\ UNCHANGED <<input, taken, eof, encoding, want>>

-----------------------------------------------------------------------------
\* The code unit of the two bytes at a position.  Behind an odd number of bytes
\* it is made of two: the last byte of one and the first byte of the next.
UnitAt(p) ==
  LET units == input.units
      k == (p - MarkWidth) \div 2 + 1
      odd == (p - MarkWidth) % 2 = 1
  IN CASE ~odd -> units[k]
       [] odd /\ input.bigEndian -> 256 * (units[k] % 256) + units[k + 1] \div 256
       [] odd /\ ~input.bigEndian -> 256 * (units[k + 1] % 256) + units[k] \div 256

\* The bytes before l that decode as one character at p; none if they do not.
Utf16Width(p, l) ==
  IF p + 2 > l THEN 0
  ELSE IF ~is_utf16_surrogate(UnitAt(p)) THEN 2
  ELSE IF p + 4 <= l /\ First(UnitAt(p)) /\ Second(UnitAt(p + 2)) THEN 4 ELSE 0

\* Whether push_char accepts it.
Utf16Accepted(p) == is_utf16_surrogate(UnitAt(p)) \/ Allowed(UnitAt(p))

\* Where the characters begin that decode_utf16 makes of the bytes from p to l,
\* up to what is none.
decode_utf16(p, l) ==
  LET from[q \in p..l] == IF Utf16Width(q, l) = 0 THEN <<>>
                          ELSE <<q>> \o from[q + Utf16Width(q, l)]
  IN from[p]

\* Those before the first that push_char does not accept, as a prefix.
Utf16Prefix(ps) == LET refused == SelectInSeq(ps, LAMBDA p : ~Utf16Accepted(p))
                   IN IF refused = 0 THEN ps ELSE SubSeq(ps, 1, refused - 1)

\* read_utf16_buffered consumes as many bytes as there were code units, and adds
\* them to the offset a second time.
read_utf16_buffered ==
  /\ Reading /\ encoding = "Utf16" /\ pos < Total
  /\ limit' \in Filled
  /\ LET ps == decode_utf16(pos, limit')
         read == Utf16Prefix(ps)
         units == IF read = <<>> THEN 0
                  ELSE (Last(read) + Utf16Width(Last(read), limit') - pos) \div 2
     IN /\ ps # <<>>
        /\ decoded' = decoded \o [i \in DOMAIN read |-> CharAt(read[i])]
        /\ IF read = ps
           THEN offset' = offset + units + units /\ pos' = pos + units /\ UNCHANGED at
           ELSE offset' = offset + units /\ Answer("failed") /\ UNCHANGED pos
  /\ UNCHANGED <<input, taken, eof, encoding, want>>

\* read_utf16_char_unbuffered, behind an assertion of debug builds that the
\* buffer holds no code unit.
read_utf16_char_unbuffered ==
  LET width == IF pos + 2 <= Total /\ is_utf16_surrogate(UnitAt(pos)) THEN 4 ELSE 2
      end == pos + width
  IN
  /\ Reading /\ encoding = "Utf16" /\ pos < Total
  /\ \E l \in Filled :
       /\ decode_utf16(pos, l) = <<>>
       /\ \/ l >= pos + 2 /\ Answer("panic") /\ limit' = l /\ UNCHANGED <<pos, decoded, offset>>
          \/ IF end <= Total /\ Utf16Width(pos, end) = width /\ Utf16Accepted(pos)
             THEN /\ Consumed(end)
                  /\ decoded' = Append(decoded, CharAt(pos)) /\ offset' = offset + width
                  /\ UNCHANGED at
             ELSE /\ Consumed(Min({end, Total}))
                  /\ Answer("failed") /\ UNCHANGED <<decoded, offset>>
  /\ UNCHANGED <<input, taken, eof, encoding, want>>

\* fill_buf() fails where it would refill the buffer.
ReadError == /\ Reading /\ limit = pos
             /\ Answer("broken")
             /\ UNCHANGED <<input, pos, limit, decoded, taken, offset, eof, encoding, want>>

-----------------------------------------------------------------------------
\* The loop of yaml_parser_update_buffer is over.
Enough == /\ at = "reading" /\ (Len(decoded) - taken >= want \/ eof)
          /\ Answer("idle")
          /\ UNCHANGED <<input, pos, limit, decoded, taken, offset, eof, encoding, want>>

ReaderInit == /\ input \in Inputs
              /\ pos = 0 /\ limit = 0 /\ decoded = <<>> /\ taken = 0 /\ offset = 0
              /\ eof = FALSE /\ encoding = "Any" /\ want = 0 /\ at = "idle"

\* A turn of its loop when the source answers.
Turn == \/ determine_encoding \/ EndOfInput
        \/ read_utf8_buffered \/ read_utf8_char_unbuffered
        \/ read_utf16_buffered \/ read_utf16_char_unbuffered
        \/ Enough

update_buffer == Turn \/ ReadError

ReaderNext == cache \/ Take \/ update_buffer

ReaderSpec == ReaderInit /\ [][ReaderNext]_readerVars

\* A call of update_buffer runs on for as long as the source answers.
FairReaderSpec == ReaderSpec /\ WF_readerVars(Turn)
=============================================================================
