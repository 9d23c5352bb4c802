# TLA+ models of libyaml-safer

libyaml-safer is a YAML reader and writer in safe Rust, a port of libyaml. This
directory holds TLA+ modules for its parts, TLC configurations that check them on small
instances, and proofs checked by TLAPS. Paths such as `parser.rs:333` are under
`src/src/`; "the repository's README" is `src/README.md`.

## The system

```
 bytes --> Reader --> Scanner --> Parser --> Document::load --> Document
          (chars)    (tokens)    (events)                         |
 bytes <---------------------- Emitter <--- Document::dump <------+
```

Nothing runs concurrently: each part calls the one to its left for more input, through
`&mut` borrows, and everything is driven by the caller. What makes the code hard is the
order of things. Every part is a state machine with stacks and queues; it looks ahead, in
tokens, characters or events, and decides about something it has already queued; its caller
decides when to call, and whether to call again after an error, since every call returns a
`Result` and no part records that it has failed.

| component | state | operations | called by | hard behaviour |
|---|---|---|---|---|
| Reader (`reader.rs`) | the source's buffer, `encoding`, `offset`, `eof` | determine the encoding, decode UTF-8 and UTF-16 from a buffer that ends anywhere, refuse what is malformed | Scanner, `cache(n)` | characters split across buffers; errors in the middle |
| Scanner (`scanner.rs`) | queue of tokens, `tokens_parsed`, `simple_keys` per flow level, `indents`, `simple_key_allowed`, the `stream_*` flags | `peek`, `skip_token`, `fetch_more_tokens`, one `fetch_*` per token | Parser | `Key` and `BlockMappingStart` are inserted *behind* tokens already queued, at a position computed from two counters |
| Parser (`parser.rs`) | `state`, `states`, `marks`, `tag_directives`, `aliases` | `parse()`: one `parse_*` handler per call | the application, `load` | a pushdown automaton kept by hand: each push must meet its pop many events later |
| Loader (`document.rs`, `load*`) | `nodes`, the stack of open collections, `aliases` | `load()`, one `load_*` per event | the application | anchors scoped to a document; errors in the middle of one |
| Dumper (`document.rs`, `dump*`) | `anchors`, `last_anchor_id` in the emitter, the recursion | `dump()`: number the anchors, then emit the nodes | the application | shared and cyclic nodes; errors in the middle |
| Emitter (`emitter.rs`) | queue of `events`, `state`, `states`, `indents`, `flow_level`, `tag_directives`, flags about what was written last | `emit()`, one `emit_*` per state, `analyze_*`, `write_*`, `flush` | the application, `dump` | events are held back until enough follow to decide how to write them |

What makes each correct:

- **Reader**: each character of a well-formed input comes out once and in order, wherever
  buffers end; only what is malformed is refused, at its offset; every request is answered.
- **Characters of scanner and emitter**: the scanner reads back what the emitter writes, in
  every style, width and place, which the two decide apart from each other; no text makes
  either panic.
- **Scanner**: a token is released only when nothing can be inserted before it; the
  simple keys stand at tokens in the queue; block collections close in the order of their
  indentation; every call answers.
- **Parser**: its stacks agree with each other and never run out; its events follow the
  grammar of events; tags resolve in the scope of their document; at the end of the input
  the stream ends.
- **Loader**: no assertion fails; a document is complete and says what its events said;
  anchors do not outlive their document.
- **Dumper**: its events follow the grammar; each alias follows its anchor and names it
  alone; loading what was dumped gives the same document.
- **Emitter**: it writes events in order, once, and never before it has what it needs to
  decide; its stacks agree; what it opened it closes.

## The modules

Every module is translated from the source named in its head; `PROJECT.json` maps each
definition to its lines. Operations keep the names of the functions they model.

| module | models | extends or instantiates |
|---|---|---|
| `EventGrammar` | abstract: the well-formed sequences of events | |
| `TokenStream` | abstract: the well-formed sequences of tokens | |
| `Reader`, `ReaderProps`, `ReaderProofs` | `reader.rs` | |
| `Scanner`, `ScannerProps`, `ScannerProofs` | the token queue of `scanner.rs` | `TokenStream`, refined |
| `Parser`, `ParserProps`, `ParserProofs` | `parser.rs` | `EventGrammar`, refined |
| `Composer`, `ComposerProps`, `ComposerProofs` | `Document::load` | extends `EventGrammar`, its environment |
| `Dumper`, `DumperProps`, `DumperProofs` | the building of documents and `Document::dump` | `EventGrammar`, refined |
| `RoundTrip`, `RoundTripProofs` | an application that dumps and loads | extends `Dumper`, instantiates `Composer` |
| `Emitter`, `EmitterProps`, `EmitterProofs` | the state machine of `emitter.rs` | `EventGrammar`, refined |
| `Characters` | the character classes of `macros.rs` | |
| `TextWriter` | `analyze_*`, `select_scalar_style`, `process_*` and `write_*` of `emitter.rs` | extends `Characters` |
| `TextReader` | the `scan_*` functions of `scanner.rs` | extends `Characters` |
| `TextRoundTrip`, `TextRoundTripProps` | a node written, and read again by scanner and parser | extends `TextWriter`, instantiates `TextReader` |
| `StackLemmas` | facts that the proofs share: sequences as stacks, induction over numbers, elements counted, sequences joined | |
| `MC*` | instances for TLC | |

The state and the actions of each, and what it leaves out:

- **Reader.** The input is a sequence of characters of 1 to 4 bytes, each valid, a refused
  control character, or not decodable, after an optional byte order mark; the last may lack
  some of its bytes. `pos` and `limit` are what the `BufRead` has given and what it still
  buffers, and `fill_buf` chooses where the buffer ends. A turn of the loop of `cache` is one action: the
  encoding is determined, then `read_utf8_buffered`, `read_utf8_char_unbuffered`,
  `read_utf16_buffered` or `read_utf16_char_unbuffered` runs whole, with its
  calls of `consume`. The values of characters are left out in UTF-8. In UTF-16 the code goes on
  at any byte of a unit, so an input has its code units and the order of their bytes:
  `UnitAt` is what stands at a byte, across two units as well, and `decode_utf16` what those of
  a buffer decode to. A character that is none of the input is queued as 0.
  `read_utf16_char_unbuffered` panics with the assertion of a debug build, or reads on.
  Left out: an error of `cache(1)` before the first token (`scanner.rs:305`), which changes no state.
- **Scanner.** The text is a sequence of lexemes; of each its beginning, its end and the
  branch of `fetch_next_token` it takes are chosen. `tokens`, `tokensParsed`,
  `tokenAvailable`, `simpleKeys`, `simpleKeyAllowed`, `indents`, `flowLevel` are the fields
  of `Scanner` (`indents` with the current `indent` on top). A call of
  `fetch_more_tokens` is the loop over the control states "testing" (is the head of the queue
  a possible key?), "skipping" (`scan_to_next_token`) and "fetching" (one `fetch_*`, with its
  calls of `unroll_indent`, `roll_indent`, `stale_simple_keys`, `save_simple_key`,
  `remove_simple_key`). A lexeme's `scan_*` function answers with a token or an error; what it
  makes of the characters is the subject of `TextReader`.
- **Parser.** One action per `parse_*` handler, with its calls of `peek` and `skip_token`. The
  tokens come from `Supply`: any token after any other, or a scan error. So what is shown
  holds for every scanner. A mark is the number of states that were stacked when its
  collection began. `declared` is a history variable. The states
  `BlockNodeOrIndentlessSequence` and `FlowNode` are dead in the code: no
  handler assigns or pushes them; the model has no action for them.
- **Composer.** One step per event: the event is chosen as `EventGrammar` allows and its
  `load_*` handler runs on it. `nodes`, `ctx` and `aliases` are the fields; a node keeps its
  kind and its children. `at` tells in which part of `load` the loader is. `log` is a history
  variable: the events of this document. `DocumentSaysEvents` reads the document off it without
  the loader's fields: the place of an event among those that begin a node is the node's index,
  an event is a child of the collection it directly lies in, and its place among these
  (a number of positions counted) is its place among the node's children.
- **Dumper.** `build` is `add_*` and `append_*`; the recursion of `dump_node` is the
  stack `work`, one step per event emitted. `emit()` succeeds or fails.
- **RoundTrip.** The events of `Dumper` are handed to `Composer` one by one; emitter,
  scanner and parser between them are a channel. Several documents follow each other, and
  failures are followed by a reset of both.
- **Emitter.** `emit()` queues an event; each turn of its loop takes the event at the head,
  if `need_more_events` has enough, and runs the `emit_*` handler of the state on it. Of an
  event its type and its *look* are kept: the answers of `check_simple_key`,
  `select_scalar_style` and `analyze_*` that the handler depends on. Of the output the
  document indicators are kept.

- **Text round trip.** `TextWriter` is what the emitter writes for a scalar or an alias, its tag
  and anchor and the directives of its document: a function of the event, the settings and the
  place. A writer is the output with the fields `column`, `whitespace`, `indention` and
  `open_ended`; each `write_*` function is a fold over the characters of the value.
  `TextReader` is what the `scan_*` functions read from a place in a text, characters consumed
  one by one. `TextRoundTrip` puts a node at a place (the root of a document, a
  value or key of a block mapping, an item of a sequence, nested or in flow style, near or far from
  the start of the line), and has it written (`Write`; `WritePanics`, where `analyze_tag` cuts a
  character), then read and resolved as `parse_node` does (`Read`). A place stands for the events
  before the node: its indentation and column are those that the handlers leave. What is written
  behind the node is there as well, since the scanner has to stop in front of it. `Scan` reads
  texts that no emitter has written. The characters are those that a class of `macros.rs`, an
  indicator or an escape tells apart; `tag:yaml.org,2002:` is shortened to `tag:`, other escapes
  and octets are one character "other", `\r` and the limits on the length of keys and version numbers are left out.

What stands outside of `src/` is the source of bytes (modelled from `BufRead`'s use in
`reader.rs`) and the application (the bounds on its input; when it calls again).

## What is checked

A definition of `*Props` is one property. There is one type invariant where the types of the
module are not implied by the rest.

| run | instance | what it shows |
|---|---|---|
| `parser_documents` | one handle to declare beside the two defaults, nodes up to three stacked states | `ParserTypeOK`; `StackFramed` and `MarksMatchStates`: the two stacks agree with the open collections; `NoPanic`: no pop of an empty stack; `NoBlockInFlow`; `TagScope`; `EventsFollowGrammar` (a refinement); `EndReached` (liveness) |
| `parser_repoll` | depth 2, the caller goes on after an error | **violated:** `NoPanic` |
| `scanner_queue` | two lines of four columns, two flow levels, keys of at most one column, the caller goes on after errors | `KeysInQueue`: nothing is inserted before a token already handed out; `NoKeyDropped`; `IndentsAgree`: indentations rise and belong to the open block collections; `DeliversStream` (a refinement of `TokenStream`); `FetchAnswers` (liveness) |
| `reader_buffers` | UTF-8 with and without a mark, and UTF-16: up to three characters, requests of 1 and 4 | `DecodedInOrder`, `OffsetInPlace`, `OnlyMalformedRefused` for UTF-8, and `RequestAnswered` (liveness) for both |
| `reader_utf16` | UTF-16, up to three characters | **violated:** `Utf16InOrder` |
| `reader_lookalike` | UTF-8 that begins with a byte 0xEF and is no mark | **violated:** `OnlyMalformedRefused` |
| `composer_documents` | documents of four nodes and five references, two anchor names, calls after errors | `ContextMirrorsFrames`, `AnchorsLocal`, `DocumentComplete`, `DocumentSaysEvents`, `PanicOnlyAfterError` (an action property) |
| `dumper_deep` | three nodes, four references | **violated:** `DumpNeverPanics` |
| `round_trip` | three nodes, four references, any number of documents | `PanicOnlyBelowRoot`: where `dump` panics and where it does not; `AnchorsDistinct`; `DumpFollowsGrammar` (a refinement); `SameDocument`: what is loaded is what was dumped, up to the numbering of nodes; `DumpIsLoaded` (liveness) |
| `emitter_documents` | collections nested twice, canonical or not; either events in order, with documents implicit, explicit and with directives, or events in any order | `StacksAgree`, `IndentsNest`, `NoEmptyBlock`, `DirectivesInScope`, `DocumentsDelimited`, `EmitterNeverPanics`, `WritesGrammar` (a refinement), `RefusesOnlyWrong` (an action property) |
| `text_round_trip` | 425,000 nodes and texts: values of up to five characters (seven for folded ones) from alphabets for folding, indicators, document markers, quotes and escapes, in five styles and eight places; flags, tags, anchors, directives | `NodeReadsBack`: value, names and directives come back and reading ends where the node does; `FoldedReadsBack`: exactly which folded values do not; `ResolutionKept`: the tag or the flags of what is read were allowed by the event; `KnownPanicsOnly`: the three places where the scanner panics, and the one in what the emitter writes |
| `text_panics` | literal scalars of up to six characters | **violated:** `TextNeverPanics` |

Why the bounds are enough to be of interest:

- *Parser*: three stacked states are a document's root, a collection, and a collection within
  it with a pair open in a flow sequence; every pair of a handler and its caller occurs. The
  number of documents, tokens and errors is not bounded; the proofs remove the bound on depth.
- *Scanner*: two lines and four columns hold a key that crosses a line, a key that is too long
  (`KeyLimit` stands for the 1024 of the code), a block collection in another at a larger
  indentation, and one that two lines end. Two flow levels hold a key per level.
- *Reader*: three characters with buffers that end at every byte hold a character that is split,
  one before and one after it, and malformed bytes at the start, within and at the end. Widths
  of 1 and 3 or 1 and 4 bytes exercise each path of the length table. UTF-16 has two characters
  of six (a letter, two whose bytes look like halves of a pair, a control character, a pair, half
  a pair), or three letters, which are enough for a pair made of the bytes of three.
- *Composer*: four nodes hold a mapping with a pair of which one half is a collection, and
  an alias to an enclosing collection.
- *Round trip*: three nodes are enough to share a node below the root (root, child,
  grandchild), which is what `anchor_node` does not see, and for every cycle of length up
  to three.
- *Emitter*: depth 2 and a queue of at most four events (`need_more_events` waits for at
  most three more) hold each look-ahead to its end. `ScalarLooks` leaves out "quoted"
  and "literal", which take the branches of "short" and "kept" apart from the simple-key test;
  "implicit" is enough where the order of events is in question.
- *Text round trip*: the emitter and the scanner look at most two characters ahead and behind
  (three at a document marker), and decide by a flag about the rest. Five characters hold two
  words with a run of blanks or breaks between them and at both ends; seven hold two breaks in a
  folded text with a line between. The width of 5 is the least that `emit_stream_start` leaves as
  it is with an indentation of 2 (`emitter.rs:505`), so that lines fold at each of the "far" places
  and not at the near ones until text follows. Each alphabet is for one decision; the
  `Nodes` of an instance are a sequence of such families.

`CHECK_DEADLOCK FALSE` stands in every configuration because every part may stop: the caller
stops at a panic, at an error, or at the end of the stream.

Each property of a passing run has a mutant in `PROJECT.json`: a definition beside the one it
models, with a plausible error, under which the property fails.

### Fairness

Nothing in the library runs on its own; fairness says that a call, once made, runs to its end,
and in the parser that the caller makes it.

- `FairParserSpec`: weak fairness of `Parse`. Every driver of the parser (`load_nodes`, the
  iterator at `parser.rs:129`, the test programs) calls `parse()` in a loop until the stream
  ends.
- `FairScannerSpec`: weak fairness of `Fetch`: `fetch_more_tokens` is a loop, and nothing can
  run while it does. It does not say that the caller asks for a token.
- `FairReaderSpec`: weak fairness of `Turn`, the loop of `cache`. A blocking read that never
  returns is outside of the model, as is a source that is interrupted for ever.
- `RoundTripSpec`: weak fairness of the steps of `dump` once it is called
  (`at # "building"`). The recursion ends on cyclic documents: that is what `DumpIsLoaded` says.

### What the violated runs show

1. `parser_repoll` — `parse()` after an error. A handler that reports a syntax error of a
   collection pops its mark and leaves the state as it was. The next call is in the same
   collection, and its error pops a mark of the enclosing collection or unwraps an empty stack
   (`parser.rs:604`, `:677`, `:726`, `:831`). libyaml answers such a call with no event.
2. `reader_utf16` — `read_utf16_buffered` (`reader.rs:195`) consumes as many *bytes* as it
   decoded 16-bit *code units*, half of them, and decodes the rest again, or from
   the middle of a unit. TLC's shortest trace reads `AA`: the first letter is decoded from a buffer
   that ends behind it, one of its bytes is consumed, and the next character is made of its other
   byte and the first of the second letter.
3. `reader_lookalike` — the characters U+F000 to U+FFFD begin with the byte 0xEF in UTF-8. As
   the first character of a document without a mark they are refused as "invalid byte order
   marker" (`reader.rs:24`).
4. `dumper_deep` — `anchor_node` (`document.rs:602`) visits the root and its children only. A
   node shared further down has no anchor when `dump_node` meets it again, and `unwrap`
   panics (`document.rs:635`). `PanicOnlyBelowRoot` says that these documents are the only ones.
5. `text_panics` — a block scalar whose last line ends with the input, without a line break,
   makes `read_line_break` panic (`scanner.rs:166`).

Passing runs show more of the kind, stated as what does hold:

- `composer_documents` — `load()` after a composer error reads on in the middle of the refused
  document and panics (`document.rs:312`); `PanicOnlyAfterError` says that it does so then only.
- `text_round_trip` — in a folded scalar `write_folded_scalar` (`emitter.rs:1736`) looks one
  character too far behind a line break: `"a\nb"` is read back as `"a b"`. `FoldedReadsBack` says
  which values are concerned. A tag of characters outside ASCII makes `analyze_tag` panic
  (`emitter.rs:1133`), a tag in front of `,` the scanner (`scanner.rs:1112`), in text that the
  emitter has written as well, and so does a backslash at the end of the input
  (`scanner.rs:1541`). `KnownPanicsOnly` compares the place where the scanner stands with the
  text: it is at a last backslash in double quotes, at the end of a last line without a break
  below the header of a block scalar, or at a `,` directly behind a tag in a flow collection;
  in what the emitter has written, at the last of these only.

Not carried by the round trip in libyaml either, and excluded by name in `TextRoundTripProps`: an
implicit document of one empty plain scalar is written as nothing, and read as no document
(`Vanishes`); a tag with `,` `[` `]` behind a handle, or outside ASCII, is not read back
(`Carried`); a long line that starts with a blank is folded in a folded scalar, and stays so
(`BlankLineFolded`).

## What is proved

TLAPS checks these for every value of the constants and every length of a behaviour. Each
proof module begins with the argument; here is what it comes to.

| part | theorems | which, of what its run checks, liveness aside |
|---|---|---|
| Parser | `ParserTypeCorrect`, `ParserStackFramed`, `ParserMarksMatch`, `ParserNeverPanics`, `ParserFlowHoldsFlow`, `ParserTagScope`, `ParserFollowsGrammar` | all safety properties and the refinement |
| Scanner | `KeysStayInQueue`, `PendingKeysKept`, `IndentsAlwaysAgree`, `ScannerDeliversStream` | all safety properties and the refinement |
| Reader | `AlwaysDecodedInOrder`, `OffsetAlwaysInPlace`, `RefusesOnlyMalformed` | all safety properties |
| Loader | `ComposerTypeCorrect`, `ContextMirrors`, `ComposerAnchorsLocal`, `ComposerPanicsOnlyAfterError`, `DocumentsComplete`, `DocumentsSayEvents` | all safety properties and the action property |
| Dumper | `AnchorsAlwaysDistinct`, `PanicsOnlyBelowRoot`, `DumpAlwaysFollowsGrammar` | all safety properties of the dump and the refinement |
| Round trip | `RoundTripDumps`, `RoundTripLoads`, `RoundTripSameDocument` | what was proved of dumper and loader holds here, and `SameDocument` |
| Emitter | `NoStackUnderflows`, `StacksAlwaysAgree`, `IndentsAlwaysNest`, `BlocksHaveContent`, `DirectivesStayInScope`, `DocumentsAlwaysDelimited`, `EmitterWritesGrammar`, `RefusesOnlyTheWrong` | all properties, the refinement and the action property |

**Parser** (`ParserProofs`), under `StopsAtError` (the caller calls
`parse()` no more after an error; without it `parser_repoll` shows the contrary). The
invariants follow from `ParserInvInductive`: the conjunction
`ParserInv` of these properties with `TagsScoped` is inductive, and none of them is alone. That no pop finds
`states` empty needs its frame (`DocumentEnd` at the bottom and nowhere else); that no pop finds
`marks` empty needs `MarksMatchStates`; that one, when a flow collection closes, needs that no
block collection is within it; and the scope of a tag at the next node needs the scope of the
directives in force, which is `TagsScoped`. A handler within a collection can fail, stay, descend
or ascend (`CollectionShape`); each handler is shown to have that shape, and the shape to keep each
conjunct. For the refinement each handler writes one node, opens or closes a pair, closes its
collection or fails (`Writes`), and that is a step of `EventGrammar` on the frames that the stack
of states stands for.

**Scanner** (`ScannerProofs`), without assumption on the text or the caller, who may go on after
errors. `ScannerInv` says of the simple keys that they are numbered by tokens of the queue, rise
with the flow level, lie before the mark, and that the innermost is not on this line where a key is
allowed; of the indentations that they rise up to the column of what is fetched; of the queue that
with the collections delivered it is balanced, in the order of the input, and that a key's token is
one a key can begin with. Nearly every step appends tokens of one mark (`AppendsKeeps`); the two
that do not are the delivery of a token and the insertion before a key, where the argument is that what
is inserted has the mark of the key, behind those of the tokens before it, and that a collection
begun there leaves every balance behind it higher.

**Reader** (`ReaderProofs`), for UTF-8. `ReaderInv` says that the reader stands behind some number
of characters: those are what is queued, and the two counts of bytes are where they end. The
positions are sums of widths; that they grow, and that what a buffer holds is an interval of
characters, is proved by induction. `RefusesOnlyMalformed` assumes that a byte that announces a byte
order mark begins one; `reader_lookalike` shows that it has to.

**Loader** (`ComposerProofs`), without assumption on the caller, from
`ComposerInvInductive`. `ComposerInv` adds two facts to the checked properties: where
the input stands when `load` is called, calls and has returned (`Phases`), and that the
indices of the open collections rise (`Rising`). The second is what makes `ContextMirrorsFrames`
inductive: attaching a child changes the innermost open collection, and the others are left alone
only since it is another node than they are. `AttachKeeps` is the step from there: the
collection moves on (an item; a key; a value) exactly as the frame of the input does. The panics
are then unreachable because the parent of a node is never a scalar, the end of a collection meets
a collection of its kind, and a call that begins where the last one ended meets a `DocumentStart`.
`DocumentsComplete` adds `DocumentInv`: every node but the root has an earlier parent, and a pair
without a value is in a collection that is open, so that none is left when the document closes.
`DocumentsSayEvents` needs an invariant of the history, `LogInv`: the positions of the
collections that were begun and not ended are those of the context, in the same order (`OpenAt`),
and the anchors registered are those of the history (`Named`). `DocumentSaysEvents` alone is not
inductive: it does not say that the node on top of the context is the one the next event lies in.
With `OpenAt` the next event is a child of the innermost open collection and of no other, whose
counts of children and nodes then change by one exactly where the node does.

**Dumper** (`DumperProofs`), for documents of any size. The fold of `anchor_node` is unfolded by
induction over the references it visits (`Tallied`). The recursion of `dump_node` is a chain of
loops; the references still to be visited, in its loops and among the children of nodes not yet
taken out, are counted against those of the document, and the panic is then a matter of numbers:
a node met again has two references, one without an anchor fewer than two at the root.
`RoundTripDumps` carries the theorems over to the specification that `round_trip` checks.

**Round trip** (`RoundTripProofs`), for documents of any size, any number of them, and failures
between. `RoundTripLoads` shows that each event of `dump` makes a step of `Composer`, so that the
loader's invariants hold of it; the only steps that do not are the application dropping a document
or starting over.
`CopyInv` compares the two while a document is under way: a function `f` maps the nodes that
`dump_node` has marked one-to-one to the nodes loaded (`Copies`), the loops of `dump_node` are the
open collections of the loader, and what a loop has still to visit is what its copy lacks
(`Loops`); every other copy has all of its children (`Settled`); and the anchors
registered are those of marked nodes. `SameDocument` speaks of the end only, so all of that is what
it takes to get there. At the end one step remains: `Reached` is a closure of as many rounds as the
document has nodes. A node is copied within as many rounds as there are copies before it, so each copy
is reached; and the nodes copied hold the root and the children of each of them, so each node
reached is copied.

**Emitter** (`EmitterProofs`), for any nesting and events in any order. The stack of states, with
the state of a collection already begun, has `DocumentEnd` at its bottom and nowhere else, its flow
states above the others as many as `flow_level`, and an indentation for each that goes further than
the one before unless the code says otherwise (`Further`). Handlers push, replace or pop a state;
`Pushes`, `Replaces` and `Pops` show what that does.

Induction: theorems with an operator as parameter cannot be used here, so it is stated on
sets (`NatSetInduction`: a set of numbers that holds 0 and successors holds all), and a recursive
function or a fold is unfolded through its definition (`SumsExist`, `JoinsExist`, `ClosureExists`,
and the counts of `DumperProofs`). That reaches recursion over one number or one set, not the nested folds of
`TextWriter` and the recursive operators of `TextReader`.

What stays with TLC:

- liveness under fairness (`EndReached`, `FetchAnswers`, `RequestAnswered`, `DumpIsLoaded`):
  it needs ENABLED, which is out of the prover's reach;
- the text round trip (`NodeReadsBack`, `FoldedReadsBack`, `ResolutionKept`,
  `KnownPanicsOnly`): functions recursive over text.

## What is not modelled

- `flush()`, its encodings and the buffers in front of it; `emit()` may fail in it.
- The refusals of malformed anchors, versions and `%TAG` directives (`analyze_anchor`,
  `analyze_version_directive`, `analyze_tag_directive`): an outcome of `Emitter`, and the round
  trip is given well-formed ones.
- Collections in the text round trip: a node stands at a place of one, its brackets and indicators
  are those of the place.
- `error.rs`, the data types, and the test programs.
- The emitter after an error of its own: the application of the model resets it.

Observed while reading and outside of the models:

- `emitter.rs:1768`: `flush()` after a `flush()` that failed halfway writes bytes twice.
- `scanner.rs:1281`: the octets of a URI escape are pushed one by one as characters, so that
  `%C3%A9` is read as two letters.
- `macros.rs:112`: `is_bom` compares with U+7EFF and not with U+FEFF: the one is escaped in vain,
  the other because it is not printable either.
- `scanner.rs:436`: a line of more than 2^31 columns would fail the assertion of `roll_indent`.
- `document.rs:582`: dumping an empty document closes the emitter for all later documents.

## Plan

Done: every part (parser, loader, scanner, reader, dumper, emitter), the abstract specifications
of events and tokens, the characters between emitter and scanner, and the proofs of the safety
properties and refinements listed above.

Next, in this order:

1. *Composition of scanner and parser*: `Parser` with `Supply` replaced by a queue that satisfies
   `TokenStream`, to find which of the parser's errors a scanner's stream can reach, and what
   reading ahead past an error does to both. Both sides are proved against `TokenStream` and
   `EventGrammar` already.
2. *Emitter after an error*: the caller goes on with `emit()` after a refusal
   (`emitter.rs:308`): which of `StacksAgree` and `WritesGrammar` survive.
3. *Reader after an error* (`reader.rs:93`, `:130`).
