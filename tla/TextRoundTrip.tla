---------------------------- MODULE TextRoundTrip ----------------------------
(***************************************************************************)
(* What the emitter writes for a node is read by the scanner and resolved  *)
(* by the parser: the text between the two, character by character.  Other *)
(* modules take it for one lexeme of a kind (Scanner) or a look (Emitter). *)
(*                                                                         *)
(* An input is an event, the settings, a document [minor, tags, explicit]  *)
(* with its directives (minor 0 is no %YAML), and the place where the node *)
(* stands; or any text at all, of which a scalar or a tag is read.         *)
(***************************************************************************)
EXTENDS TextWriter, TLC

CONSTANTS Nodes,    \* sequence of sets of [event, width, unicode, canonical, document, place]
          Texts     \* sequence of sets of [text, flow]

VARIABLES input, phase, text, result

textVars == <<input, phase, text, result>>

R == INSTANCE TextReader

-----------------------------------------------------------------------------
(* Places: the node's indentation in the emitter and in the scanner, and    *)
(* what the emitter has written of its line.                                *)

At(indent, scanned, writer) == [indent |-> indent, scanned |-> scanned, writer |-> writer]

FlowPlaces == {"list", "far list"}

\* emit_flow_sequence_item() begins a new line if this one is long.
FlowItem(w, n) == IF n.canonical \/ w.column > n.width THEN write_indent(w, BestIndent) ELSE w

StandsAt(n) ==
  CASE n.place = "root" ->
         At(-1, -1, emit_document_start(Writer(0, TRUE, TRUE), n.document,
                                        n.document.explicit, n.canonical))
    [] n.place = "value" -> At(0, 0, Writer(2, FALSE, FALSE))      \* k:
    [] n.place = "far value" -> At(0, 0, Writer(7, FALSE, FALSE))
    [] n.place = "item" -> At(0, 0, Writer(1, FALSE, TRUE))        \* -
    [] n.place = "deep item" -> At(2, 2, Writer(3, FALSE, TRUE))
    [] n.place = "list" -> At(BestIndent, -1, FlowItem(Writer(1, TRUE, FALSE), n))   \* [
    [] n.place = "far list" -> At(BestIndent, -1, FlowItem(Writer(7, FALSE, FALSE), n))
    [] n.place = "key" -> At(0, -1, Writer(0, TRUE, TRUE))
    [] n.place = "? key" -> At(0, 0, Writer(1, FALSE, TRUE))

\* emit_block_mapping_key() writes "?" in front of a key that is not simple.
Placed(n) == IF n.place = "key" /\ ~check_simple_key(n.event, n) THEN [n EXCEPT !.place = "? key"]
             ELSE n

Settings(n) ==
  [width |-> n.width, unicode |-> n.unicode, canonical |-> n.canonical,
   indent |-> StandsAt(n).indent, flow |-> n.place \in FlowPlaces, simple |-> n.place = "key",
   directives |-> Directives(n.document)]

\* What is written behind the node: the next key or item, ":", "," or the end
\* of the document, with "..." if that is explicit or has been left open.
Ends(n, w) == n.document.explicit \/ w.openEnded = 2

Follower(n, w) ==
  CASE n.place \in {"value", "far value"} -> <<"k", ":">>
    [] n.place \in {"item", "deep item"} -> <<"-", " ", "k">>
    [] n.place \in {"key", "? key"} -> <<":", " ", "k">>
    [] n.place \in FlowPlaces -> <<",", " ", "k">>
    [] n.place = "root" -> IF Ends(n, w) THEN <<".", ".", ".", "\n">> ELSE <<>>

\* The next item of a nested sequence, and the "?" of a key.
OnNewLine(n) == n.place \notin FlowPlaces \cup {"key"}
FollowerIndent(n) == IF n.place = "root" THEN -1 ELSE StandsAt(n).indent

WrittenNode(n) == emit_node(StandsAt(n).writer, n.event, Settings(n))

Followed(n, w) ==
  write_str(IF OnNewLine(n) THEN write_indent(w, FollowerIndent(n)) ELSE w, Follower(n, w)).out

WrittenText(n) == Followed(n, WrittenNode(n))

-----------------------------------------------------------------------------
(* Reading *)

\* What has been read of a node so far.
NoNode == [value |-> <<>>, style |-> "none", tag |-> <<>>, tagged |-> FALSE, token |-> NoTag,
           anchor |-> <<>>, alias |-> FALSE, implicit |-> "plain", minor |-> <<>>, tags |-> <<>>]

Answer(r, node) == [answer |-> r.answer, s |-> r.s] @@ node

\* No token of the node: the next key, item or collection begins, or ends.
Over(s, c) == \/ R!TokenAt(s, c) \in {"end", "start", "flow", "entry", "pair", "directive"}
              \/ ~c.flow /\ s.column <= c.indent

\* The tokens of a node, up to its scalar or alias; that of a tag is held
\* until the others have been read.
RECURSIVE ReadTokens(_, _, _), ReadToken(_, _, _, _)
ReadTokens(s, c, node) ==
  LET next == R!scan_to_next_token(s, c.flow)
  IN IF Over(next, c) THEN Answer(R!Result("ok", next, <<>>), node)
     ELSE ReadToken(next, R!TokenAt(next, c), c, node)

ReadToken(s, token, c, node) ==
  LET Then(r, with) == IF r.answer = "ok" THEN ReadTokens(r.s, c, with) ELSE Answer(r, node)
      Tagged(r) == Then(r, [node EXCEPT !.tagged = TRUE, !.token = r.value])
      Anchored(r) == Then(r, [node EXCEPT !.anchor = r.value])
      Aliased(r) == Answer(r, [node EXCEPT !.anchor = r.value, !.alias = TRUE])
      Valued(r) == Answer(r, [node EXCEPT !.value = r.value, !.style = token])
  IN CASE token = "tag" -> Tagged(R!scan_tag(s, c))
       [] token = "anchor" -> Anchored(R!scan_anchor(s))
       [] token = "alias" -> Aliased(R!scan_anchor(s))
       [] OTHER -> Valued(R!ScanScalar(s, c))

DirectivesFor(handle, directives) == SelectSeq(directives, LAMBDA d : d.handle = handle)

\* The flags of the scalar event; a scalar that is not there has its tag alone.
Implicit(style, tag) ==
  IF (style \in {"plain", "none"} /\ tag = <<>>) \/ (style # "none" /\ tag = <<"!">>) THEN "plain"
  ELSE IF tag = <<>> THEN "quoted" ELSE "neither"

\* parse_node() puts the prefix in front of the suffix; a handle that no
\* directive declares is refused.
WithTag(r, tag) == [r EXCEPT !.tag = tag, !.implicit = Implicit(r.style, tag)]

Resolved(r, directives) ==
  LET declared == DirectivesFor(r.token.handle, directives)
  IN IF r.answer # "ok" THEN r
     ELSE IF ~r.tagged \/ r.token.handle = <<>> THEN WithTag(r, r.token.suffix)
     ELSE IF declared = <<>> THEN [r EXCEPT !.answer = "error"]
     ELSE WithTag(r, Head(declared).prefix \o r.token.suffix)

ReadNode(s, c, directives, node) == Resolved(ReadTokens(s, c, node), directives)

\* The directives of the document up to "---".  A text with no token at all
\* holds no document.
RECURSIVE ReadDocument(_, _, _), ReadDirective(_, _, _), ReadStart(_, _, _)
ReadDocument(s, c, d) == ReadStart(R!scan_to_next_token(s, FALSE), c, d)

\* process_directives(): one version, 1.1 or 1.2, and handles that differ.
Accepts(d, value) ==
  IF "major" \in DOMAIN value
    THEN d.minor = <<>> /\ value.major = <<"1">> /\ value.minor \in {<<"1">>, <<"2">>}
    ELSE DirectivesFor(value.handle, d.tags) = <<>>

ReadDirective(r, c, d) ==
  IF r.answer # "ok" THEN Answer(r, NoNode)
  ELSE IF ~Accepts(d, r.value) THEN Answer(R!Result("error", r.s, <<>>), NoNode)
  ELSE ReadDocument(r.s, c, IF "major" \in DOMAIN r.value THEN [d EXCEPT !.minor = r.value.minor]
                            ELSE [d EXCEPT !.tags = Append(@, r.value)])

ReadStart(s, c, d) ==
  LET token == R!TokenAt(s, c)
      node == [NoNode EXCEPT !.minor = d.minor, !.tags = d.tags]
  IN IF token = "directive" THEN ReadDirective(R!scan_directive(s), c, d)
     ELSE IF (d.minor # <<>> \/ d.tags # <<>>) /\ token # "start"
       THEN Answer(R!Result("error", s, <<>>), node)
     ELSE IF R!Look(s, 0) = EOF THEN Answer(R!Result("no document", s, <<>>), node)
     ELSE ReadNode(IF token = "start" THEN R!Skip(s, 3) ELSE s, c, Directives(d), node)

\* Where reading ends, and what of the text is left from the next token on.
Left(t, end) == [rest |-> SubSeq(t, end.pos, Len(t)), column |-> end.column, line |-> end.line]

WithRest(t, r) ==
  IF r.answer = "ok" THEN Left(t, R!scan_to_next_token(r.s, FALSE)) @@ r ELSE r

ReadText(n, t) ==
  LET c == [indent |-> StandsAt(n).scanned, flow |-> n.place \in FlowPlaces]
  IN WithRest(t, IF n.place = "root"
                   THEN ReadDocument(R!Place(t, 0), c, [minor |-> <<>>, tags |-> <<>>])
                   ELSE ReadNode(R!Place(t, StandsAt(n).writer.column), c, DefaultDirectives, NoNode))

-----------------------------------------------------------------------------
IsNode(i) == "event" \in DOMAIN i

TextInit == /\ \/ /\ \E i \in DOMAIN Nodes : input \in Nodes[i]
                  /\ ~Refused(input.event, Settings(Placed(input)))
               \/ \E i \in DOMAIN Texts : input \in Texts[i]
            /\ phase = "chosen" /\ text = <<>> /\ result = NoNode

Panics(n) == /\ ~n.event.alias /\ NeedsTag(n.event, n)
             /\ CutsCharacter(n.event.tag, Directives(n.document))

\* emit() does not come back.
WritePanics == /\ phase = "chosen" /\ IsNode(input) /\ Panics(input)
               /\ phase' = "panic"
               /\ UNCHANGED <<input, text, result>>

Write == /\ phase = "chosen" /\ IsNode(input) /\ ~Panics(input)
         /\ text' = WrittenText(Placed(input))
         /\ phase' = "written"
         /\ UNCHANGED <<input, result>>

Read == /\ phase = "written"
        /\ result' = ReadText(Placed(input), text)
        /\ phase' = "read"
        /\ UNCHANGED <<input, text>>

\* A text that the emitter has not written.
Scan == /\ phase = "chosen" /\ ~IsNode(input)
        /\ text' = input.text
        /\ result' = ReadNode(R!Place(text', 0), [indent |-> -1, flow |-> input.flow],
                              DefaultDirectives, NoNode)
        /\ phase' = "read"
        /\ UNCHANGED input

TextNext == Write \/ WritePanics \/ Read \/ Scan

TextSpec == TextInit /\ [][TextNext]_textVars
=============================================================================
