----------------------------- MODULE TextWriter -----------------------------
(***************************************************************************)
(* What the emitter of src/emitter.rs writes for a scalar or an alias with *)
(* its tag and anchor, and for the directives of a document: a pure        *)
(* function of the event, the settings and the place where it stands.      *)
(*                                                                         *)
(* w is what has been written and what the emitter knows of it; c is the   *)
(* settings (width, unicode, canonical), the indentation and context       *)
(* (indent, flow, simple) and the tag directives of the document; e is an  *)
(* event [value, style, plain, quoted, tag, anchor, alias], where <<>> is  *)
(* no tag or no anchor.  The buffer in front of the output is left out.    *)
(***************************************************************************)
EXTENDS Characters, SequencesExt

BestIndent == 2

Writer(column, whitespace, indention) ==
  [out |-> <<>>, column |-> column, whitespace |-> whitespace,
   indention |-> indention, openEnded |-> 0]

-----------------------------------------------------------------------------
(* The output *)

put(w, c) == [w EXCEPT !.out = Append(@, c), !.column = @ + 1]

put_break(w) == [w EXCEPT !.out = Append(@, "\n"), !.column = 0]

write_str(w, s) == [w EXCEPT !.out = @ \o s, !.column = @ + Len(s)]

write_break(w, c) == IF c = "\n" THEN put_break(w) ELSE [put(w, c) EXCEPT !.column = 0]

\* A new line unless only indentation has been written to this one.
write_indent(w, to) ==
  LET indent == IF to >= 0 THEN to ELSE 0
      v == IF ~w.indention \/ w.column > indent \/ (w.column = indent /\ ~w.whitespace)
             THEN put_break(w) ELSE w
  IN [write_str(v, [i \in 1..(indent - v.column) |-> " "])
        EXCEPT !.whitespace = TRUE, !.indention = TRUE]

write_indicator(w, s, needWhitespace, isWhitespace, isIndention) ==
  LET v == IF needWhitespace /\ ~w.whitespace THEN put(w, " ") ELSE w
  IN [write_str(v, s) EXCEPT !.whitespace = isWhitespace, !.indention = @ /\ isIndention]

\* What follows a scalar, an anchor or a tag.
Closed(w) == [w EXCEPT !.whitespace = FALSE, !.indention = FALSE]

-----------------------------------------------------------------------------
(* What a value may be written as *)

FlowIndicators == {",", "?", "[", "]", "{", "}"}
FirstIndicators == {"#", ",", "[", "]", "{", "}", "&", "*", "!", "|", ">", "'", "\"", "%", "@", "backtick"}

\* Mutant: a "-" is no indicator.
DashForgotten(v) ==
  LET n == Len(v)
  IN \/ n >= 3 /\ SubSeq(v, 1, 3) \in {<<"-", "-", "-">>, <<".", ".", ".">>}
     \/ v[1] \in FirstIndicators
     \/ \E i \in 2..n : v[i] = "#" /\ is_blankz(v[i - 1])

Indicators(v) ==
  LET n == Len(v)
  IN \/ n >= 3 /\ SubSeq(v, 1, 3) \in {<<"-", "-", "-">>, <<".", ".", ".">>}
     \/ v[1] \in FirstIndicators
     \/ v[1] \in {"?", "-"} /\ is_blankz(After(v, 1))
     \/ \E i \in 2..n : v[i] = "#" /\ is_blankz(v[i - 1])

\* analyze_scalar(): which styles can say the value.
analyze_scalar(v, unicode) ==
  LET n == Len(v)
      block == \/ Indicators(v)
               \/ \E i \in 1..n : v[i] = ":" /\ is_blankz(After(v, i))
      flow == \/ Indicators(v)
              \/ v[1] \in {"?", ":"}
              \/ \E i \in 2..n : v[i] \in FlowIndicators \cup {":"}
      special == \E i \in 1..n : ~is_printable(v[i]) \/ (~is_ascii(v[i]) /\ ~unicode)
      breaks == \E i \in 1..n : is_break(v[i])
      edge == \/ is_space(v[1]) \/ is_break(v[1])
              \/ is_space(v[n]) \/ is_break(v[n])
      breakSpace == \E i \in 2..n : is_break(v[i - 1]) /\ is_space(v[i])
      spaceBreak == \E i \in 2..n : is_space(v[i - 1]) /\ is_break(v[i])
      lost == spaceBreak \/ special
      plain == ~edge /\ ~breakSpace /\ ~lost /\ ~breaks
  IN IF v = <<>>
       THEN [multiline |-> FALSE, flowPlain |-> FALSE, blockPlain |-> TRUE,
             single |-> TRUE, block |-> FALSE]
       ELSE [multiline |-> breaks, flowPlain |-> plain /\ ~flow, blockPlain |-> plain /\ ~block,
             single |-> ~breakSpace /\ ~lost, block |-> ~is_space(v[n]) /\ ~lost]

NoTag == [handle |-> <<>>, suffix |-> <<>>]

Fits(tag, d) == Len(d.prefix) < Len(tag) /\ SubSeq(tag, 1, Len(d.prefix)) = d.prefix

\* analyze_tag(): the first directive whose prefix the tag begins with.
analyze_tag(tag, directives) ==
  LET fits == SelectSeq(directives, LAMBDA d : Fits(tag, d))
  IN IF fits = <<>> THEN [handle |-> <<>>, suffix |-> tag]
     ELSE [handle |-> Head(fits).handle,
           suffix |-> SubSeq(tag, Len(Head(fits).prefix) + 1, Len(tag))]

\* It cuts as many bytes off the tag as the prefix has, and panics in the
\* middle of a character.
ByteLength(s) == FoldLeft(LAMBDA n, ch : n + Width(ch), 0, s)

CutsCharacter(tag, directives) ==
  \E i \in DOMAIN directives :
    LET cut == ByteLength(directives[i].prefix)
    IN /\ cut < ByteLength(tag)
       /\ \A k \in 1..Len(tag) : ByteLength(SubSeq(tag, 1, k)) # cut
       /\ \A j \in 1..(i - 1) : ~Fits(tag, directives[j])

\* A scalar without implicit flags needs its tag; others have it left out.
NeedsTag(e, c) == e.tag # <<>> /\ (c.canonical \/ (~e.plain /\ ~e.quoted))

TagOf(e, c) == IF NeedsTag(e, c) THEN analyze_tag(e.tag, c.directives) ELSE NoTag

\* A key of one line goes without "?" (none here is longer than 128 bytes).
check_simple_key(e, c) == e.alias \/ ~analyze_scalar(e.value, c.unicode).multiline

\* select_scalar_style(), one decision after the other; a is what the value
\* may be written as.
Asked(e, c, a) == IF c.canonical \/ (c.simple /\ a.multiline) THEN "double"
                  ELSE IF e.style = "any" THEN "plain" ELSE e.style

Unplain(e, c, a) == \/ IF c.flow THEN ~a.flowPlain ELSE ~a.blockPlain
                    \/ e.value = <<>> /\ (c.flow \/ c.simple)
                    \/ TagOf(e, c) = NoTag /\ ~e.plain

Undoubled(style, c, a) == /\ style = "single" => a.single
                          /\ style \in {"literal", "folded"} => a.block /\ ~c.flow /\ ~c.simple

Selected(style, e, c, a) ==
  IF style = "plain" /\ Unplain(e, c, a) THEN IF a.single THEN "single" ELSE "double"
  ELSE IF Undoubled(style, c, a) THEN style ELSE "double"

SelectedBy(e, c, a) == Selected(Asked(e, c, a), e, c, a)

select_scalar_style(e, c) == SelectedBy(e, c, analyze_scalar(e.value, c.unicode))

\* Mutant: a quoted scalar that is to be resolved as a plain one is not marked.
NeverMarked(e, c) == TagOf(e, c)

\* A scalar that is not plain and may not be resolved as a quoted one is
\* given the tag "!".
WrittenTag(e, c) ==
  IF TagOf(e, c) = NoTag /\ ~e.quoted /\ select_scalar_style(e, c) # "plain"
    THEN [handle |-> <<"!">>, suffix |-> <<>>] ELSE TagOf(e, c)

\* It is refused if nothing says how to resolve it.
Refused(e, c) == ~e.alias /\ TagOf(e, c) = NoTag /\ ~e.plain /\ ~e.quoted

-----------------------------------------------------------------------------
(* Scalars *)

\* Where a space may become a line break with indentation: not next to
\* another one, and only in a line that is too long.
Folds(acc, v, i, c) ==
  /\ ~c.simple /\ ~acc.spaces /\ acc.w.column > c.width /\ ~is_space(After(v, i))

\* A first break is written twice, since reading folds one into a space.
FlowBreak(acc, ch) ==
  LET v == IF ~acc.breaks /\ ch = "\n" THEN put_break(acc.w) ELSE acc.w
  IN [acc EXCEPT !.w = [write_break(v, ch) EXCEPT !.indention = TRUE], !.breaks = TRUE]

\* Behind breaks the line is indented.
Indented(acc, c) == IF acc.breaks THEN write_indent(acc.w, c.indent) ELSE acc.w

FlowChar(acc, chars, c) ==
  [w |-> [write_str(Indented(acc, c), chars) EXCEPT !.indention = FALSE],
   spaces |-> FALSE, breaks |-> FALSE]

FlowSpace(acc, folds, c) ==
  [acc EXCEPT !.w = IF folds THEN write_indent(@, c.indent) ELSE put(@, " "), !.spaces = TRUE]

write_plain_scalar(w, v, c) ==
  LET start == IF ~w.whitespace /\ (v # <<>> \/ c.flow) THEN put(w, " ") ELSE w
      Step(acc, i) == CASE is_space(v[i]) -> FlowSpace(acc, Folds(acc, v, i, c), c)
                        [] is_break(v[i]) -> FlowBreak(acc, v[i])
                        [] OTHER -> FlowChar(acc, <<v[i]>>, c)
  IN Closed(FoldLeftDomain(Step, [w |-> start, spaces |-> FALSE, breaks |-> FALSE], v).w)

write_single_quoted_scalar(w, v, c) ==
  LET start == write_indicator(w, <<"'">>, TRUE, FALSE, FALSE)
      Step(acc, i) ==
        CASE is_space(v[i]) -> FlowSpace(acc, Folds(acc, v, i, c) /\ 1 < i /\ i < Len(v), c)
          [] is_break(v[i]) -> FlowBreak(acc, v[i])
          [] OTHER -> FlowChar(acc, IF v[i] = "'" THEN <<"'", "'">> ELSE <<v[i]>>, c)
      text == FoldLeftDomain(Step, [w |-> start, spaces |-> FALSE, breaks |-> FALSE], v)
  IN Closed(write_indicator(Indented(text, c), <<"'">>, FALSE, FALSE, FALSE))

\* What follows the backslash: a letter, or the number of the character.
Escapes == [c \in {"BEL", "\t", "\n", "\"", "\\", "NEL", "LS", "PS", "eacute"} |->
              CASE c = "BEL" -> <<"a">> [] c = "\t" -> <<"t">> [] c = "\n" -> <<"n">>
                [] c = "NEL" -> <<"N">> [] c = "LS" -> <<"L">> [] c = "PS" -> <<"P">>
                [] c = "eacute" -> <<"x", "E", "9">>
                [] OTHER -> <<c>>]

Escaped(ch, unicode) ==
  ~is_printable(ch) \/ (~unicode /\ ~is_ascii(ch)) \/ is_break(ch) \/ ch \in {"\"", "\\"}

\* A space at the start of a folded line needs a backslash in front.
write_double_quoted_scalar(w, v, c) ==
  LET start == write_indicator(w, <<"\"">>, TRUE, FALSE, FALSE)
      Fold(acc, i) == /\ ~c.simple /\ ~acc.spaces /\ acc.w.column > c.width
                      /\ 1 < i /\ i < Len(v)
      Folded(x, i) == LET y == write_indent(x, c.indent)
                      IN IF is_space(After(v, i)) THEN put(y, "\\") ELSE y
      Step(acc, i) ==
        CASE Escaped(v[i], c.unicode) ->
               [w |-> write_str(acc.w, <<"\\">> \o Escapes[v[i]]), spaces |-> FALSE]
          [] is_space(v[i]) ->
               [w |-> IF Fold(acc, i) THEN Folded(acc.w, i) ELSE put(acc.w, " "), spaces |-> TRUE]
          [] OTHER -> [w |-> put(acc.w, v[i]), spaces |-> FALSE]
      text == FoldLeftDomain(Step, [w |-> start, spaces |-> FALSE], v)
  IN Closed(write_indicator(text.w, <<"\"">>, FALSE, FALSE, FALSE))

\* The width of the indentation, where the text does not show it, and what
\* becomes of the breaks at the end: "-" there is none, "+" there are several.
write_block_scalar_hints(w, v) ==
  LET n == Len(v)
      first == IF is_space(v[1]) \/ is_break(v[1]) THEN <<"2">> ELSE <<>>
      keep == is_break(v[n]) /\ (n = 1 \/ is_break(v[n - 1]))
      chomp == IF ~is_break(v[n]) THEN <<"-">> ELSE IF keep THEN <<"+">> ELSE <<>>
  IN [write_indicator(w, first \o chomp, FALSE, FALSE, FALSE)
        EXCEPT !.openEnded = IF keep THEN 2 ELSE 0]

BlockStart(w, v, indicator) ==
  LET u == write_block_scalar_hints(write_indicator(w, <<indicator>>, TRUE, FALSE, FALSE), v)
  IN [put_break(u) EXCEPT !.indention = TRUE, !.whitespace = TRUE]

BlockBreak(acc, w, ch) ==
  [acc EXCEPT !.w = [write_break(w, ch) EXCEPT !.indention = TRUE], !.breaks = TRUE]

write_literal_scalar(w, v, c) ==
  LET Step(acc, i) ==
        IF is_break(v[i]) THEN BlockBreak(acc, acc.w, v[i])
        ELSE [w |-> [put(Indented(acc, c), v[i]) EXCEPT !.indention = FALSE], breaks |-> FALSE]
  IN FoldLeftDomain(Step, [w |-> BlockStart(w, v, "|"), breaks |-> TRUE], v).w

\* The character that decides whether a break of a folded text is written
\* twice: the loop over the breaks takes the first that is none with it, and
\* the character behind that one is looked at.
SkipBreaks(v, i) ==
  LET next == SelectInSubSeq(v, i + 1, Len(v), LAMBDA ch : ~is_break(ch))
  IN IF next = 0 THEN EOF ELSE After(v, next)

write_folded_scalar(w, v, c) ==
  LET Break(acc, i) ==
        BlockBreak(acc, IF /\ ~acc.breaks /\ ~acc.leading /\ v[i] = "\n"
                           /\ ~is_blankz(SkipBreaks(v, i))
                          THEN put_break(acc.w) ELSE acc.w, v[i])
      Char(acc, i) ==
        LET u == Indented(acc, c)
            folds == /\ ~acc.breaks /\ is_space(v[i]) /\ ~is_space(After(v, i))
                     /\ u.column > c.width
        IN [w |-> [IF folds THEN write_indent(u, c.indent) ELSE put(u, v[i])
                     EXCEPT !.indention = FALSE],
            leading |-> IF acc.breaks THEN is_blank(v[i]) ELSE acc.leading,
            breaks |-> FALSE]
      Step(acc, i) == IF is_break(v[i]) THEN Break(acc, i) ELSE Char(acc, i)
  IN FoldLeftDomain(Step, [w |-> BlockStart(w, v, ">"), breaks |-> TRUE, leading |-> TRUE], v).w

WriteScalar(w, v, style, c) ==
  CASE style = "plain" -> write_plain_scalar(w, v, c)
    [] style = "single" -> write_single_quoted_scalar(w, v, c)
    [] style = "double" -> write_double_quoted_scalar(w, v, c)
    [] style = "literal" -> write_literal_scalar(w, v, c)
    [] style = "folded" -> write_folded_scalar(w, v, c)

process_scalar(w, e, c) == WriteScalar(w, e.value, select_scalar_style(e, c), c)

-----------------------------------------------------------------------------
(* Tags, anchors and directives *)

UriChars == {";", "/", "?", ":", "@", "&", "=", "+", "$", ",", "_", ".", "~", "*", "'",
             "(", ")", "[", "]"}

\* The octets of a character that a URI has to escape.
Octets == [c \in {"!", "%", "#", " ", "eacute"} |->
             CASE c = "!" -> <<"%", "2", "1">> [] c = "%" -> <<"%", "2", "5">>
               [] c = "#" -> <<"%", "2", "3">> [] c = " " -> <<"%", "2", "0">>
               [] c = "eacute" -> <<"%", "C", "3", "%", "A", "9">>]

write_tag_content(w, s, need) ==
  LET v == IF need /\ ~w.whitespace THEN put(w, " ") ELSE w
      Chars(ch) == IF is_alpha(ch) \/ ch \in UriChars THEN <<ch>> ELSE Octets[ch]
  IN Closed(write_str(v, FlattenSeq([i \in DOMAIN s |-> Chars(s[i])])))

write_tag_handle(w, handle) ==
  Closed(write_str(IF ~w.whitespace THEN put(w, " ") ELSE w, handle))

process_tag(w, t) ==
  IF t = NoTag THEN w
  ELSE IF t.handle # <<>>
    THEN LET v == write_tag_handle(w, t.handle)
         IN IF t.suffix # <<>> THEN write_tag_content(v, t.suffix, FALSE) ELSE v
  ELSE LET v == write_indicator(w, <<"!", "<">>, TRUE, FALSE, FALSE)
       IN write_indicator(write_tag_content(v, t.suffix, FALSE), <<">">>, FALSE, FALSE, FALSE)

process_anchor(w, e) ==
  IF e.anchor = <<>> THEN w
  ELSE Closed(write_str(write_indicator(w, <<IF e.alias THEN "*" ELSE "&">>, TRUE, FALSE, FALSE),
                        e.anchor))

\* emit_alias() and emit_scalar(): the scalar is indented from where it stands.
emit_node(w, e, c) ==
  IF e.alias
    THEN LET v == process_anchor(w, e) IN IF c.simple THEN put(v, " ") ELSE v
    ELSE LET inner == [c EXCEPT !.indent = IF @ < 0 THEN BestIndent ELSE @ + BestIndent]
         IN process_scalar(process_tag(process_anchor(w, e), WrittenTag(e, c)), e, inner)

DefaultDirectives == <<[handle |-> <<"!">>, prefix |-> <<"!">>],
                       [handle |-> <<"!", "!">>, prefix |-> <<"t", "a", "g", ":">>]>>

\* Those of the document come first, a handle it declares is its own.
Directives(d) ==
  d.tags \o SelectSeq(DefaultDirectives,
                      LAMBDA t : \A i \in DOMAIN d.tags : d.tags[i].handle # t.handle)

\* emit_document_start() writes the directives of the document, and "---"
\* behind them or where the document is not implicit.
emit_document_start(w, d, explicit, canonical) ==
  LET WriteVersion(v) == write_indent(write_indicator(
          write_indicator(v, <<"%", "Y", "A", "M", "L">>, TRUE, FALSE, FALSE),
          <<"1", ".", IF d.minor = 1 THEN "1" ELSE "2">>, TRUE, FALSE, FALSE), -1)
      WriteTag(v, t) == write_indent(write_tag_content(write_tag_handle(
          write_indicator(v, <<"%", "T", "A", "G">>, TRUE, FALSE, FALSE), t.handle),
          t.prefix, TRUE), -1)
      versioned == IF d.minor # 0 THEN WriteVersion(w) ELSE w
      directed == FoldLeft(WriteTag, versioned, d.tags)
      marked == write_indicator(write_indent(directed, -1), <<"-", "-", "-">>, TRUE, FALSE, FALSE)
  IN IF explicit \/ canonical \/ d.minor # 0 \/ d.tags # <<>>
       THEN IF canonical THEN write_indent(marked, -1) ELSE marked
       ELSE w
=============================================================================
