------------------------------ MODULE MCReader ------------------------------
(***************************************************************************)
(* TLC instances of the reader: up to three characters of one to four      *)
(* bytes, well formed or not, in buffers of any size.                      *)
(***************************************************************************)
EXTENDS ReaderProps

CharsOf(widths, kinds) == BoundedSeq([width : widths, kind : kinds], 3)

\* The last character lacks none of its bytes, all but one, or half of them.
Cut(chars) ==
  {0} \cup (IF chars = <<>> THEN {} ELSE {Last(chars).width - 1, Last(chars).width \div 2})

InputsOf(charss, sniffed, isMark) ==
  UNION {[chars : {cs}, cut : Cut(cs), sniffed : {sniffed}, isMark : {isMark}] : cs \in charss}

MCWants == {1, 4}

\* UTF-8 without a mark and with one.  No character of four bytes is a control
\* character.
MCUtf8 == InputsOf(CharsOf({1, 3}, CharKind), 0, FALSE)
            \cup InputsOf({cs \in CharsOf({1, 4}, CharKind) :
                             [width |-> 4, kind |-> "control"] \notin Range(cs)}, 3, TRUE)

\* The letter A, two letters whose bytes look like those of a pair when they are
\* read from the middle of a unit, a control character, a pair and half of one.
Units == {<<65>>, <<216>>, <<220>>, <<1>>, <<55296, 56320>>, <<56321>>}

Utf16Chars(unitss) == [n \in DOMAIN unitss |-> Utf16Char(unitss[n])]

MCUnits == BoundedSeq(Units, 2) \cup [1..3 -> {<<65>>, <<216>>, <<220>>}]

\* UTF-16 of either order of bytes: two characters, or three letters.
MCUtf16 ==
  UNION {[chars : {Utf16Chars(us)}, cut : Cut(Utf16Chars(us)), sniffed : {2}, isMark : {TRUE},
          coded : {us}, units : {FlattenSeq(us)}, bigEndian : BOOLEAN] : us \in MCUnits}

\* UTF-8 whose first character shares its first byte with the mark.
MCLookalike == InputsOf(CharsOf({3}, {"valid"}) \ {<<>>}, 3, FALSE)

MCBoth == MCUtf8 \cup MCUtf16
=============================================================================
