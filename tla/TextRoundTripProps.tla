------------------------- MODULE TextRoundTripProps -------------------------
(***************************************************************************)
(* What must hold between the text that the emitter writes for a node and  *)
(* the node that the scanner and the parser read from it.                  *)
(***************************************************************************)
EXTENDS TextRoundTrip

Node == Placed(input)
NodeRead == phase = "read" /\ IsNode(input)
Style == select_scalar_style(Node.event, Settings(Node))

\* What does not come back, in libyaml neither: a root written as nothing,
\* since check_empty_document() is never true (emitter.rs:884) ...
Vanishes == /\ Node.place = "root" /\ ~Node.document.explicit /\ ~Node.canonical
            /\ text \in {<<>>, <<"\n">>}

\* ... and tags with "," "[" "]" behind a handle, which write_tag_content()
\* leaves as they are and scan_tag_uri() reads in "!<...>" only (emitter.rs:1425,
\* scanner.rs:1180), or outside ASCII, whose octets are read one by one (:1281).
Carried == LET t == WrittenTag(Node.event, Settings(Node))
           IN /\ t.handle # <<>> => \A i \in DOMAIN t.suffix : t.suffix[i] \notin {",", "[", "]"}
              /\ \A i \in DOMAIN t.suffix : is_ascii(t.suffix[i])

-----------------------------------------------------------------------------
\* All but the value: the names, the directives, and that reading ends in
\* front of the next token, at the column where it is looked for; a simple
\* key and its ":" are on one line.
FrameReadsBack ==
  /\ result.answer = "ok"
  /\ result.anchor = Node.event.anchor /\ result.alias = Node.event.alias
  /\ result.rest = Follower(Node, WrittenNode(Node))
  /\ OnNewLine(Node) /\ result.rest # <<>> => result.column = R!Larger(FollowerIndent(Node), 0)
  /\ Node.place = "key" => result.line = 0
  /\ Node.place = "root" =>
       /\ result.minor = (CASE Node.document.minor = 0 -> <<>>
                            [] Node.document.minor = 1 -> <<"1">>
                            [] Node.document.minor = 2 -> <<"2">>)
       /\ result.tags = Node.document.tags

ValueReadsBack == ~Node.event.alias => result.value = Node.event.value

\* What process_scalar() writes in the style that select_scalar_style() has
\* chosen from analyze_scalar(), wherever it stands, is read as the same
\* value by the scanner, which does not know that choice.
NodeReadsBack ==
  NodeRead /\ Carried /\ (~Node.event.alias => Style # "folded") =>
    IF Vanishes THEN result.answer = "no document" ELSE FrameReadsBack /\ ValueReadsBack

-----------------------------------------------------------------------------
\* Where the line of the i-th character starts.
LineStart(v, i) == SelectLastInSubSeq(v, 1, i - 1, is_break) + 1

\* A break at whose next line write_folded_scalar() looks one character too
\* far: it is written twice where once is right, or the other way round.
Misjudged(v) ==
  \E i \in 2..Len(v) :
    /\ v[i] = "\n" /\ ~is_break(v[i - 1]) /\ ~is_blank(v[LineStart(v, i)])
    /\ LET next == SelectInSubSeq(v, i + 1, Len(v), LAMBDA ch : ~is_break(ch))
       IN is_blankz(IF next = 0 THEN EOF ELSE v[next]) # is_blankz(SkipBreaks(v, i))

\* A line that starts with a blank is folded when it is too long, and is not
\* put together again; that is so in libyaml too.
BlankLineFolded(v, indent, width) ==
  \E i \in 2..Len(v) :
    /\ is_blank(v[LineStart(v, i)]) /\ LineStart(v, i) < i
    /\ is_space(v[i]) /\ ~is_space(After(v, i))
    /\ indent + i - LineStart(v, i) > width

\* A folded scalar is read back as another value exactly where one of these
\* two happens; what stands around it is read in any case.
FoldedReadsBack ==
  NodeRead /\ Carried /\ ~Node.event.alias /\ Style = "folded" =>
    LET v == Node.event.value
        indent == R!Larger(Settings(Node).indent, 0) + BestIndent
    IN /\ FrameReadsBack
       /\ ValueReadsBack <=> ~Misjudged(v) /\ ~BlankLineFolded(v, indent, Node.width)

-----------------------------------------------------------------------------
\* The parser resolves a scalar (parser.rs:467-473) in a way that the event
\* allowed: by its content, as a string, or by the tag it had.  Style, flags
\* and tag are decided apart from each other in select_scalar_style().
ResolutionKept ==
  NodeRead /\ Carried /\ ~Node.event.alias /\ result.answer = "ok" =>
    LET e == Node.event
    IN CASE result.tag = <<>> -> IF result.implicit = "plain" THEN e.plain ELSE e.quoted
         [] result.tag = <<"!">> -> e.plain \/ e.tag = <<"!">>
         [] OTHER -> result.tag = e.tag

\* Where the scanner panics at s: at a backslash in double quotes that is the
\* last character (scanner.rs:1541), ...
AtCutEscape(s) == /\ R!Look(s, 0) = "\\" /\ R!Look(s, 1) = EOF
                  /\ \E i \in 1..s.pos - 1 : text[i] = "\""

\* ... at the end of a text whose last line has no break, below the header of a
\* block scalar (scanner.rs:166), ...
AtCutLine(s) == /\ R!Look(s, 0) = EOF /\ ~is_break(Last(text))
                /\ \E i \in 1..LineStart(text, s.pos) - 1 : text[i] \in {"|", ">"}

\* ... or at a "," directly behind a tag (scanner.rs:1112).
AtTagEnd(s) == /\ R!Look(s, 0) = ","
               /\ \E i \in 1..s.pos - 1 : /\ text[i] = "!"
                                          /\ \A j \in i..s.pos - 1 : ~is_blankz(text[j])

\* A text makes the scanner panic in one of these three places only; what the
\* emitter has written, behind a tag in a flow sequence alone, if it is not
\* Carried.  A tag makes the emitter panic only outside ASCII, where it would
\* not come back anyway.
KnownPanicsOnly ==
  /\ phase = "panic" => \E i \in DOMAIN Node.event.tag : ~is_ascii(Node.event.tag[i])
  /\ phase = "read" /\ result.answer = "panic" =>
       IF IsNode(input) THEN ~Carried /\ Node.place \in FlowPlaces /\ AtTagEnd(result.s)
       ELSE \/ ~input.flow /\ AtCutLine(result.s)
            \/ AtCutEscape(result.s)
            \/ input.flow /\ AtTagEnd(result.s)

\* Reading and writing answer.  read_line_break() is to be "Equivalent to the
\* libyaml macro READ_LINE" (scanner.rs:162), which does nothing where no break
\* is, and "the same inputs should generate the same general errors"
\* (README.md:45-46) as in libyaml, which does not panic.
TextNeverPanics == phase # "panic" /\ (phase = "read" => result.answer # "panic")
=============================================================================
