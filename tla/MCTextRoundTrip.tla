--------------------------- MODULE MCTextRoundTrip ---------------------------
(***************************************************************************)
(* TLC instances of the text round trip: short values over the characters  *)
(* that one decision of the emitter or the scanner tells apart.            *)
(***************************************************************************)
EXTENDS TextRoundTripProps

Values(chars, n) == BoundedSeq(chars, n)

\* Events that say no more than a value, in some styles.
Said(values, styles) ==
  [value : values, style : styles, plain : {TRUE}, quoted : {TRUE}, tag : {<<>>}, anchor : {<<>>},
   alias : {FALSE}]

NoDirectives == [minor |-> 0, tags |-> <<>>, explicit |-> FALSE]

\* A width of five is the least there is: lines are folded at "far" places.
Written(events, unicodes, places) ==
  [event : events, width : {5}, unicode : unicodes, canonical : {FALSE}, document : {NoDirectives},
   place : places]

Styles == {"plain", "single", "double", "literal", "folded"}
Places == {"root", "value", "far value", "item", "deep item", "list", "far list", "key"}

Folding == Written(Said(Values({"x", " ", "\n", "LS"}, 5), Styles), {TRUE}, Places)

Folded == Written(Said(Values({"x", " ", "\n"}, 7), {"folded"}), {TRUE}, {"value"})

Marking == Written(Said(Values({"x", " ", ":", "#", "-", ",", "?"}, 4), {"plain"}), {TRUE}, Places)

Delimiting == Written(Said(Values({"-", ".", " ", "\n"}, 5), Styles), {TRUE}, {"root"})

Quoting == Written(Said(Values({"x", " ", "\t", "'", "\"", "\\", "eacute", "BEL"}, 4),
                        {"single", "double", "literal"}), BOOLEAN, {"value", "far list", "key"})

\* Flags, tags and names with short values, whatever the style.
Short == {<<>>, <<"x">>, <<"x", "\n">>, <<" ">>, <<"-">>}

Tags == {<<>>, <<"!">>, <<"!", "x">>, <<"!", "e", "!", "x">>, <<"x">>, <<"t", "a", "g", ":", "x">>,
         <<"t", "a", "g", ":">>, <<"!", "x", ",">>, <<"x", ",", "%", "#">>,
         <<"eacute">>, <<"x", "eacute">>}

Naming ==
  [event : [value : Short, style : Styles \cup {"any"}, plain : BOOLEAN, quoted : BOOLEAN,
            tag : Tags, anchor : {<<>>, <<"a">>}, alias : {FALSE}],
   width : {5}, unicode : {TRUE}, canonical : BOOLEAN, document : {NoDirectives},
   place : {"root", "far value", "list", "key"}]

Aliases ==
  [event : [value : {<<>>}, style : {"any"}, plain : {FALSE}, quoted : {FALSE}, tag : {<<>>},
            anchor : {<<"a">>, <<"x", "-", "1">>}, alias : {TRUE}],
   width : {5}, unicode : {TRUE}, canonical : {FALSE}, document : {NoDirectives},
   place : Places \ {"root"}]

\* Directives with a handle that is new or a default one, or of both kinds.
DirectiveHandles == {<<"!", "e", "!">>, <<"!", "!">>, <<"!">>}
DirectivePrefixes == {<<"!", "x">>, <<"t", "a", "g", ":", "x">>, <<"x", ",">>}

Declared ==
  {<<>>} \cup {<<d>> : d \in [handle : DirectiveHandles, prefix : DirectivePrefixes]}
         \cup {<<[handle |-> <<"!", "e", "!">>, prefix |-> p],
                 [handle |-> <<"!", "!">>, prefix |-> q]>> : p, q \in DirectivePrefixes}

Directing ==
  [event : [value : {<<"x">>}, style : {"any"}, plain : {FALSE}, quoted : {FALSE},
            tag : {<<"!", "k">>, <<"!", "x", "k">>, <<"t", "a", "g", ":", "k">>,
                   <<"t", "a", "g", ":", "x", "k">>, <<"x", ",", "k">>},
            anchor : {<<>>}, alias : {FALSE}],
   width : {5}, unicode : {TRUE}, canonical : BOOLEAN,
   document : [minor : {0, 1, 2}, tags : Declared, explicit : BOOLEAN], place : {"root"}]

MCNodes == <<Folding, Folded, Marking, Delimiting, Quoting, Naming, Aliases, Directing>>

\* Any text at all: what starts a quoted or a block scalar, a tag or an
\* anchor, and what may follow.
Given(chars, n) == [text : BoundedSeq(chars, n), flow : BOOLEAN]

BlockTexts == Given({"|", "2", "-", " ", "x", "\n"}, 6)

MCTexts == <<Given({"\"", "\\", "x", "0", "\n"}, 6), Given({"'", " ", "\t", "x", "\n"}, 5),
             BlockTexts, Given({">", "0", "+", "\t", "#", "\n"}, 5),
             Given({"!", "<", ">", "%", "2", "x", ","}, 5), Given({"&", "*", "!", "x", " ", ","}, 5)>>

MCNone == <<>>
MCBlocks == <<BlockTexts>>
=============================================================================
