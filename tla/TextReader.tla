----------------------------- MODULE TextReader -----------------------------
(***************************************************************************)
(* How the scanner of src/scanner.rs reads scalars, tags, anchors and      *)
(* directives character by character: the scan_* functions, which Scanner  *)
(* takes for whole lexemes.                                                *)
(*                                                                         *)
(* s is the place in the text, [text, pos, column, line]; c is indent, the *)
(* scanner's indentation, and flow, whether it is in a flow collection.    *)
(* A result holds the place behind, what was read and the answer: "ok",    *)
(* "error" (set_scanner_error) or "panic".                                 *)
(***************************************************************************)
EXTENDS Characters, SequencesExt

Place(text, column) == [text |-> text, pos |-> 1, column |-> column, line |-> 0]

Look(s, k) == IF s.pos + k <= Len(s.text) THEN s.text[s.pos + k] ELSE EOF

Skip(s, k) == [s EXCEPT !.pos = @ + k, !.column = @ + k]
SkipBreak(s) == [s EXCEPT !.pos = @ + 1, !.column = 0, !.line = @ + 1]

\* read_line_break() keeps the breaks of three bytes and reads others as \n.
LineBreak(ch) == IF ch \in {"LS", "PS"} THEN ch ELSE "\n"

Result(answer, s, value) == [answer |-> answer, s |-> s, value |-> value]

\* The characters from here on while they are in a class.
RECURSIVE Run(_, _, _)
Run(s, class, read) == IF Look(s, 0) \in class THEN Run(Skip(s, 1), class, Append(read, Look(s, 0)))
                       ELSE [s |-> s, read |-> read]

Blanks == {" ", "\t"}
SkipBlanks(s) == Run(s, Blanks, <<>>).s

\* A comment up to the end of its line.
RECURSIVE SkipLine(_)
SkipLine(s) == IF is_breakz(Look(s, 0)) THEN s ELSE SkipLine(Skip(s, 1))
SkipComment(s) == IF Look(s, 0) = "#" THEN SkipLine(s) ELSE s

\* At the start of a line: "---" or "..." on their own.
DocumentIndicator(s) ==
  /\ s.column = 0
  /\ Look(s, 0) \in {"-", "."} /\ Look(s, 1) = Look(s, 0) /\ Look(s, 2) = Look(s, 0)
  /\ is_blankz(Look(s, 3))

-----------------------------------------------------------------------------
(* Plain and quoted scalars *)

\* Blanks and breaks behind a word: white on its line, then its break, then more.
RECURSIVE BlankRun(_, _, _)
BlankRun(s, indent, b) ==
  LET ch == Look(s, 0)
  IN IF ch = "\t" /\ b.broken /\ s.column < indent THEN [b EXCEPT !.answer = "error", !.s = s]
     ELSE IF is_blank(ch)
       THEN BlankRun(Skip(s, 1), indent, IF b.broken THEN b ELSE [b EXCEPT !.white = Append(@, ch)])
     ELSE IF is_break(ch)
       THEN BlankRun(SkipBreak(s), indent,
                     IF b.broken THEN [b EXCEPT !.more = Append(@, LineBreak(ch))]
                     ELSE [b EXCEPT !.broken = TRUE, !.lead = <<LineBreak(ch)>>])
     ELSE [b EXCEPT !.s = s]

NoBlanks(s, broken) == [answer |-> "ok", s |-> s, broken |-> broken,
                        white |-> <<>>, lead |-> <<>>, more |-> <<>>]

\* What stands for them: one break is a space, more are one less.
Joined(b) ==
  IF ~b.broken THEN b.white
  ELSE IF b.lead = <<"\n">> THEN IF b.more = <<>> THEN <<" ">> ELSE b.more
  ELSE b.lead \o b.more

FlowEnds == {",", "[", "]", "{", "}"}

\* Where a word of a plain scalar ends.
PlainEnds(s, c) ==
  \/ is_blankz(Look(s, 0))
  \/ Look(s, 0) = ":" /\ is_blankz(Look(s, 1))
  \/ c.flow /\ Look(s, 0) \in FlowEnds

RECURSIVE PlainWord(_, _, _)
PlainWord(s, c, word) ==
  IF c.flow /\ Look(s, 0) = ":" /\ Look(s, 1) \in FlowEnds \cup {"?"} THEN Result("error", s, word)
  ELSE IF PlainEnds(s, c) THEN Result("ok", s, word)
  ELSE PlainWord(Skip(s, 1), c, Append(word, Look(s, 0)))

RECURSIVE PlainWords(_, _, _, _), PlainBlanks(_, _, _)
PlainWords(s, c, value, blanks) ==
  IF DocumentIndicator(s) \/ Look(s, 0) = "#" THEN Result("ok", s, value)
  ELSE LET word == PlainWord(s, c, <<>>)
       IN PlainBlanks([word EXCEPT !.value = IF @ = <<>> THEN value ELSE value \o blanks \o @],
                      c, BlankRun(word.s, c.indent + 1, NoBlanks(word.s, FALSE)))

\* Behind a word blanks have been read, up to b.
PlainBlanks(word, c, b) ==
  IF word.answer = "error" \/ (b.s = word.s /\ b.answer = "ok") THEN word
  ELSE IF b.answer = "error" THEN Result("error", b.s, word.value)
  ELSE IF ~c.flow /\ b.s.column < c.indent + 1 THEN Result("ok", b.s, word.value)
  ELSE PlainWords(b.s, c, word.value, Joined(b))

scan_plain_scalar(s, c) == PlainWords(s, c, <<>>, <<>>)

\* The characters that stand behind a backslash, and the numbers; those that
\* no text here needs are one.
Escape == [c \in {"0", "a", "b", "t", "\t", "n", "v", "f", "r", "e", " ", "\"", "/", "\\",
                  "N", "_", "L", "P"} |->
             CASE c = "a" -> "BEL" [] c = "t" -> "\t" [] c = "n" -> "\n"
               [] c = "N" -> "NEL" [] c = "L" -> "LS" [] c = "P" -> "PS"
               [] c \in {" ", "\t", "\"", "/", "\\"} -> c
               [] OTHER -> "other"]
CodeLength == [c \in {"x", "u", "U"} |-> CASE c = "x" -> 2 [] c = "u" -> 4 [] c = "U" -> 8]

CharOf(digits) == IF digits = <<"E", "9">> THEN "eacute" ELSE "other"

\* Mutant: a number that ends too early is unwrapped as well.
NumberUnwrapped(s, word) ==
  LET code == Look(s, 1)
      length == CodeLength[code]
      digits == [k \in 1..length |-> Look(s, k + 1)]
  IN CASE code = EOF -> Result("panic", s, word)
       [] code \in DOMAIN Escape -> Result("ok", Skip(s, 2), Append(word, Escape[code]))
       [] code \in DOMAIN CodeLength ->
            IF \A k \in 1..length : digits[k] \in HexDigits
              THEN Result("ok", Skip(s, 2 + length), Append(word, CharOf(digits)))
              ELSE Result("panic", s, word)
       [] OTHER -> Result("error", s, word)

\* A backslash and what it escapes; a text that ends there is unwrapped.
ReadEscape(s, word) ==
  LET code == Look(s, 1)
      length == CodeLength[code]
      digits == [k \in 1..length |-> Look(s, k + 1)]
  IN CASE code = EOF -> Result("panic", s, word)
       [] code \in DOMAIN Escape -> Result("ok", Skip(s, 2), Append(word, Escape[code]))
       [] code \in DOMAIN CodeLength ->
            IF \A k \in 1..length : digits[k] \in HexDigits
              THEN Result("ok", Skip(s, 2 + length), Append(word, CharOf(digits)))
              ELSE Result("error", s, word)
       [] OTHER -> Result("error", s, word)

\* A word of a quoted scalar; broken, if it ended at an escaped line break.
RECURSIVE QuotedWord(_, _, _)
QuotedWord(s, quote, word) ==
  LET ch == Look(s, 0)
      single == quote = "'"
  IN IF is_blankz(ch) THEN Result("ok", s, word) @@ [broken |-> FALSE]
     ELSE IF single /\ ch = "'" /\ Look(s, 1) = "'"
       THEN QuotedWord(Skip(s, 2), quote, Append(word, "'"))
     ELSE IF ch = quote THEN Result("ok", s, word) @@ [broken |-> FALSE]
     ELSE IF ~single /\ ch = "\\"
       THEN IF is_break(Look(s, 1))
              THEN Result("ok", SkipBreak(Skip(s, 1)), word) @@ [broken |-> TRUE]
              ELSE LET e == ReadEscape(s, word)
                   IN IF e.answer = "ok" THEN QuotedWord(e.s, quote, e.value)
                      ELSE e @@ [broken |-> FALSE]
     ELSE QuotedWord(Skip(s, 1), quote, Append(word, ch))

RECURSIVE QuotedWords(_, _, _), QuotedBlanks(_, _, _)
QuotedWords(s, quote, value) ==
  IF DocumentIndicator(s) \/ Look(s, 0) = EOF THEN Result("error", s, value)
  ELSE LET word == QuotedWord(s, quote, value)
       IN QuotedBlanks(word, quote, BlankRun(word.s, 0, NoBlanks(word.s, word.broken)))

QuotedBlanks(word, quote, b) ==
  IF word.answer # "ok" THEN Result(word.answer, word.s, word.value)
  ELSE IF Look(word.s, 0) = quote THEN Result("ok", Skip(word.s, 1), word.value)
  ELSE QuotedWords(b.s, quote, word.value \o Joined(b))

scan_flow_scalar(s, c, single) == QuotedWords(Skip(s, 1), IF single THEN "'" ELSE "\"", <<>>)

-----------------------------------------------------------------------------
(* Literal and folded scalars *)

DigitValue == [d \in Digits |-> CASE d = "0" -> 0 [] d = "1" -> 1 [] d = "2" -> 2
                                  [] d = "3" -> 3 [] d = "5" -> 5 [] d = "9" -> 9]

\* The chomping and indentation indicators, in either order.
BlockHeader(s) ==
  LET Sign(t) == Look(t, 0) \in {"+", "-"}
      Digit(t) == Look(t, 0) \in Digits
      signFirst == Sign(s)
      sign == IF signFirst THEN Look(s, 0)
              ELSE IF Digit(s) /\ Sign(Skip(s, 1)) THEN Look(s, 1) ELSE ""
      rest == IF signFirst THEN Skip(s, 1) ELSE s
      digit == IF Digit(rest) THEN Look(rest, 0) ELSE ""
      end == Skip(s, (IF sign = "" THEN 0 ELSE 1) + (IF digit = "" THEN 0 ELSE 1))
  IN [s |-> SkipComment(SkipBlanks(end)), sign |-> sign, zero |-> digit = "0",
      increment |-> IF digit = "" THEN 0 ELSE DigitValue[digit]]

RECURSIVE SkipIndent(_, _)
SkipIndent(s, indent) == IF Look(s, 0) = " " /\ (indent = 0 \/ s.column < indent)
                           THEN SkipIndent(Skip(s, 1), indent) ELSE s

Larger(m, n) == IF m > n THEN m ELSE n

\* scan_block_scalar_breaks(): empty lines up to the next text, whose column
\* is the indentation if none is known yet (indent is 0).
RECURSIVE BlockBreaks(_, _, _, _, _)
BlockBreaks(s, c, indent, breaks, widest) ==
  LET t == SkipIndent(s, indent)
      max == Larger(widest, t.column)
  IN IF Look(t, 0) = "\t" /\ (indent = 0 \/ t.column < indent)
       THEN Result("error", t, breaks) @@ [indent |-> indent]
     ELSE IF is_break(Look(t, 0))
       THEN BlockBreaks(SkipBreak(t), c, indent, Append(breaks, LineBreak(Look(t, 0))), max)
     ELSE Result("ok", t, breaks)
            @@ [indent |-> IF indent # 0 THEN indent ELSE Larger(Larger(max, c.indent + 1), 1)]

\* Mutant: a text that is indented further is folded too.
FoldsIndented(l, blank, literal) == ~literal /\ l.lead = <<"\n">>

\* Whether the break between two lines is folded: l is the line before, the
\* next one starts with a blank or not.
FoldsLine(l, blank, literal) == ~literal /\ l.lead = <<"\n">> /\ ~l.blank /\ ~blank

\* One line after the other: l holds the value so far, the break of the last
\* line, the empty lines behind it, and whether it started with a blank.
\* read_line_break() finds no break where the input ends: it panics.
RECURSIVE BlockLines(_, _, _, _, _)
BlockLines(s, c, indent, literal, l) ==
  IF s.column # indent \/ Look(s, 0) = EOF THEN Result("ok", s, l)
  ELSE
    LET blank == is_blank(Look(s, 0))
        joined == IF ~FoldsLine(l, blank, literal) THEN l.lead \o l.more
                  ELSE IF l.more = <<>> THEN <<" ">> ELSE l.more
        end == SkipLine(s)
        b == BlockBreaks(SkipBreak(end), c, indent, <<>>, 0)
        line == SubSeq(s.text, s.pos, end.pos - 1)
    IN IF Look(end, 0) = EOF THEN Result("panic", end, l)
       ELSE IF b.answer = "error" THEN b
       ELSE BlockLines(b.s, c, indent, literal,
                       [value |-> l.value \o joined \o line, lead |-> <<LineBreak(Look(end, 0))>>,
                        more |-> b.value, blank |-> blank])

Chomped(sign, l) == CASE sign = "-" -> l.value
                      [] sign = "+" -> l.value \o l.lead \o l.more
                      [] OTHER -> l.value \o l.lead

BlockEnd(sign, l) == IF l.answer # "ok" THEN l ELSE Result("ok", l.s, Chomped(sign, l.value))

\* The lines behind the first breaks b.
BlockText(sign, c, literal, b) ==
  IF b.answer = "error" THEN b
  ELSE BlockEnd(sign, BlockLines(b.s, c, b.indent, literal,
                                 [value |-> <<>>, lead |-> <<>>, more |-> b.value, blank |-> FALSE]))

BlockBody(h, c, literal) ==
  IF h.zero \/ ~is_breakz(Look(h.s, 0)) THEN Result("error", h.s, <<>>)
  ELSE BlockText(h.sign, c, literal,
                 BlockBreaks(IF is_break(Look(h.s, 0)) THEN SkipBreak(h.s) ELSE h.s, c,
                             IF h.increment = 0 THEN 0 ELSE Larger(c.indent, 0) + h.increment,
                             <<>>, 0))

scan_block_scalar(s, c, literal) == BlockBody(BlockHeader(Skip(s, 1)), c, literal)

-----------------------------------------------------------------------------
(* Anchors, tags and directives *)

Alpha == Letters \cup Digits \cup {"_", "-"}

scan_anchor(s) ==
  LET name == Run(Skip(s, 1), Alpha, <<>>)
      end == Look(name.s, 0)
  IN Result(IF name.read # <<>> /\ (is_blankz(end) \/ end \in {"?", ":", ",", "]", "}", "%", "@", "backtick"})
              THEN "ok" ELSE "error", name.s, name.read)

\* "!", "!!" or "!name!"; elsewhere than in a directive a name that no "!"
\* closes is the start of a suffix.
scan_tag_handle(s, directive) ==
  LET name == Run(Skip(s, 1), Alpha, <<"!">>)
      closed == Look(name.s, 0) = "!"
      handle == IF closed THEN Append(name.read, "!") ELSE name.read
  IN IF Look(s, 0) # "!" \/ (directive /\ ~closed /\ handle # <<"!">>)
       THEN Result("error", s, <<>>)
     ELSE Result("ok", IF closed THEN Skip(name.s, 1) ELSE name.s, handle)

\* Each octet is pushed as the character of that number, those above 7F too.
Octet == [d \in HexDigits \X HexDigits |->
            CASE d = <<"2", "1">> -> "!" [] d = <<"2", "5">> -> "%" [] d = <<"2", "3">> -> "#"
              [] d = <<"2", "0">> -> " " [] OTHER -> "other"]

\* How many octets begin with this one; 0 if it begins none.
OctetWidth(d) == CASE d[1] \in Digits \ {"9"} -> 1 [] d[1] = "C" -> 2 [] d[1] = "E" -> 3
                   [] d[1] = "F" -> 4 [] OTHER -> 0

RECURSIVE scan_uri_escapes(_, _, _)
scan_uri_escapes(s, width, read) ==
  LET d == <<Look(s, 1), Look(s, 2)>>
      left == (IF width = 0 THEN OctetWidth(d) ELSE width) - 1
  IN IF \/ Look(s, 0) # "%" \/ d[1] \notin HexDigits \/ d[2] \notin HexDigits
        \/ left < 0 \/ (width # 0 /\ d[1] \notin {"9", "A"})
       THEN Result("error", s, read)
     ELSE IF left = 0 THEN Result("ok", Skip(s, 3), Append(read, Octet[d]))
     ELSE scan_uri_escapes(Skip(s, 3), left, Append(read, Octet[d]))

TagChars == Alpha \cup {";", "/", "?", ":", "@", "&", "=", "+", "$", ".", "!", "~", "*", "'",
                        "(", ")"}

RECURSIVE UriRun(_, _, _)
UriRun(s, more, read) ==
  IF Look(s, 0) = "%"
    THEN LET e == scan_uri_escapes(s, 0, read)
         IN IF e.answer = "ok" THEN UriRun(e.s, more, e.value) ELSE e
  ELSE IF Look(s, 0) \in TagChars \cup more THEN UriRun(Skip(s, 1), more, Append(read, Look(s, 0)))
  ELSE Result("ok", s, read)

\* The rest of a URI whose head, with its "!", has been read as a handle.
scan_tag_uri(s, uriChar, head) ==
  LET NotEmpty(uri) == IF uri.answer = "ok" /\ head = <<>> /\ uri.value = <<>>
                         THEN Result("error", uri.s, <<>>) ELSE uri
  IN NotEmpty(UriRun(s, IF uriChar THEN {",", "[", "]"} ELSE {}, SubSeq(head, 2, Len(head))))

Tag(handle, suffix) == [handle |-> handle, suffix |-> suffix]

\* Behind a tag a "," in a flow collection has no answer but a panic.
TagEnd(s, c, tag) ==
  IF is_blankz(Look(s, 0)) THEN Result("ok", s, tag)
  ELSE Result(IF c.flow /\ Look(s, 0) = "," THEN "panic" ELSE "error", s, tag)

VerbatimTag(uri, c) ==
  IF uri.answer # "ok" \/ Look(uri.s, 0) # ">" THEN Result("error", uri.s, <<>>)
  ELSE TagEnd(Skip(uri.s, 1), c, Tag(<<>>, uri.value))

NamedTag(handle, uri, c) ==
  IF uri.answer # "ok" THEN uri ELSE TagEnd(uri.s, c, Tag(handle, uri.value))

UnnamedTag(uri, c) ==
  IF uri.answer # "ok" THEN uri
  ELSE TagEnd(uri.s, c, IF uri.value = <<>> THEN Tag(<<>>, <<"!">>) ELSE Tag(<<"!">>, uri.value))

TagWith(handle, c) ==
  IF Len(handle.value) > 1 /\ Last(handle.value) = "!"
    THEN NamedTag(handle.value, scan_tag_uri(handle.s, FALSE, <<>>), c)
    ELSE UnnamedTag(scan_tag_uri(handle.s, FALSE, handle.value), c)

\* scan_tag(): "!<uri>", "!handle!suffix", "!suffix" or "!" alone.
scan_tag(s, c) == IF Look(s, 1) = "<" THEN VerbatimTag(scan_tag_uri(Skip(s, 2), TRUE, <<>>), c)
                  ELSE TagWith(scan_tag_handle(s, FALSE), c)

\* A comment may stand behind a directive, and a line break ends it.
DirectiveEnd(s, read) ==
  IF is_break(Look(s, 0)) THEN Result("ok", SkipBreak(s), read)
  ELSE Result(IF Look(s, 0) = EOF THEN "ok" ELSE "error", s, read)

Version(major, minor) ==
  IF major.read # <<>> /\ Look(major.s, 0) = "." /\ minor.read # <<>>
    THEN DirectiveEnd(SkipComment(SkipBlanks(minor.s)), [major |-> major.read, minor |-> minor.read])
    ELSE Result("error", minor.s, <<>>)

scan_version_directive_value(major) == Version(major, Run(Skip(major.s, 1), Digits, <<>>))

Prefixed(handle, prefix) ==
  IF /\ handle.answer = "ok" /\ is_blank(Look(handle.s, 0))
     /\ prefix.answer = "ok" /\ is_blankz(Look(prefix.s, 0))
    THEN DirectiveEnd(SkipComment(SkipBlanks(prefix.s)), [handle |-> handle.value, prefix |-> prefix.value])
    ELSE Result("error", prefix.s, <<>>)

scan_tag_directive_value(handle) ==
  Prefixed(handle, scan_tag_uri(SkipBlanks(handle.s), TRUE, <<>>))

\* A version, or the handle and prefix of tags.
DirectiveNamed(name) ==
  IF ~is_blankz(Look(name.s, 0)) THEN Result("error", name.s, <<>>)
  ELSE CASE name.read = <<"Y", "A", "M", "L">> ->
              scan_version_directive_value(Run(SkipBlanks(name.s), Digits, <<>>))
         [] name.read = <<"T", "A", "G">> ->
              scan_tag_directive_value(scan_tag_handle(SkipBlanks(name.s), TRUE))
         [] OTHER -> Result("error", name.s, <<>>)

scan_directive(s) == DirectiveNamed(Run(Skip(s, 1), Alpha, <<>>))

-----------------------------------------------------------------------------
(* From token to token *)

\* Spaces, comments and breaks in front of the next token; tabs too in a flow
\* collection, and where no simple key may start.
RECURSIVE scan_to_next_token(_, _)
scan_to_next_token(s, tabs) ==
  LET t == SkipComment(Run(s, IF tabs THEN Blanks ELSE {" "}, <<>>).s)
  IN IF is_break(Look(t, 0)) THEN scan_to_next_token(SkipBreak(t), tabs) ELSE t

NoStart == {"-", "?", ":", ",", "[", "]", "{", "}", "#", "&", "*", "!", "|", ">", "'", "\"",
            "%", "@", "backtick"}

\* fetch_next_token(): which token starts here.
TokenAt(s, c) ==
  LET ch == Look(s, 0)
      apart == is_blankz(Look(s, 1))
  IN IF DocumentIndicator(s) THEN IF ch = "-" THEN "start" ELSE "end"
     ELSE CASE ch = EOF -> "end"
            [] s.column = 0 /\ ch = "%" -> "directive"
            [] ch \in FlowEnds -> "flow"
            [] ch = "-" /\ apart -> "entry"
            [] ch \in {"?", ":"} /\ (c.flow \/ apart) -> "pair"
            [] ch = "*" -> "alias"
            [] ch = "&" -> "anchor"
            [] ch = "!" -> "tag"
            [] ch = "|" /\ ~c.flow -> "literal"
            [] ch = ">" /\ ~c.flow -> "folded"
            [] ch = "'" -> "single"
            [] ch = "\"" -> "double"
            [] \/ ch # EOF /\ ~is_blankz(ch) /\ ch \notin NoStart
               \/ ch = "-" /\ ~apart
               \/ ch \in {"?", ":"} /\ ~c.flow /\ ~apart -> "plain"
            [] OTHER -> "none"

\* The scalar that starts here.
ScanScalar(s, c) ==
  LET token == TokenAt(s, c)
  IN CASE token = "plain" -> scan_plain_scalar(s, c)
       [] token \in {"single", "double"} -> scan_flow_scalar(s, c, token = "single")
       [] token \in {"literal", "folded"} -> scan_block_scalar(s, c, token = "literal")
       [] token = "none" -> Result("error", s, <<>>)
=============================================================================
