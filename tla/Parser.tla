------------------------------- MODULE Parser -------------------------------
(***************************************************************************)
(* The pushdown parser of src/parser.rs: one action per parse_* handler of *)
(* state_machine, run by one call of Parser::parse().  It reads tokens     *)
(* from the scanner by peek() and skip_token(), keeps a stack of states to *)
(* return to and a stack of marks (where each open collection began), and  *)
(* answers with one event, an error, or (an unwrap of an empty stack) a    *)
(* panic.                                                                  *)
(*                                                                         *)
(* The scanner is abstracted to its interface: any token may follow any    *)
(* other, peek() may fail ("ScanError"), StreamStart is the first token    *)
(* and StreamEnd the last.  Of a token only the type is kept; the handle   *)
(* of a tag or of a %TAG directive is chosen when the parser reads it.     *)
(* A mark is the number of states that were stacked when its collection    *)
(* began, which orders marks as the positions in the input do.             *)
(***************************************************************************)
EXTENDS Naturals, Sequences, SequencesExt

CONSTANTS Handles,   \* the handles that %TAG directives may declare
          MaxDepth,  \* no collection opens in the input at this many stacked states
          Repoll     \* does the caller call parse() again after an error?

\* The handles every document has, declared or not.
DefaultHandles == {"!", "!!"}

AllHandles == Handles \cup DefaultHandles

ASSUME ParserAssumption == /\ "" \notin Handles
                           /\ MaxDepth \in Nat \ {0}
                           /\ Repoll \in BOOLEAN

VARIABLES state,          \* the current ParserState
          states,         \* the states to return to
          marks,          \* where the open collections began
          tagDirectives,  \* the handles the %TAG directives in force define
          look,           \* the token at the head of the scanner's queue, if peeked
          streamEnded,    \* scanner.stream_end_produced
          event,          \* the answer of the last call of parse()
          declared        \* history: the handles of the last DocumentStart event

parserVars == <<state, states, marks, tagDirectives, look, streamEnded, event, declared>>

-----------------------------------------------------------------------------
\* The states.  parse() never enters BlockNodeOrIndentlessSequence and
\* FlowNode: no handler assigns or pushes them.
BlockStates == {"BlockSequenceEntry", "BlockMappingKey", "BlockMappingValue"}
FlowStates == {"FlowSequenceEntry", "FlowSequenceEntryMappingKey",
               "FlowSequenceEntryMappingValue", "FlowSequenceEntryMappingEnd",
               "FlowMappingKey", "FlowMappingValue", "FlowMappingEmptyValue"}
FirstStates == {"BlockSequenceFirstEntry", "BlockMappingFirstKey",
                "FlowSequenceFirstEntry", "FlowMappingFirstKey"}
DocumentStates == {"DocumentContent", "BlockNode", "DocumentEnd"}
StreamStates == {"StreamStart", "ImplicitDocumentStart", "DocumentStart", "End"}

ParserState == BlockStates \cup FlowStates \cup FirstStates \cup DocumentStates
                 \cup StreamStates \cup {"IndentlessSequenceEntry"}

\* The states that are pushed to be returned to after a node.
ReturnStates == {"DocumentEnd", "BlockSequenceEntry", "IndentlessSequenceEntry",
                 "BlockMappingKey", "BlockMappingValue", "FlowSequenceEntry",
                 "FlowSequenceEntryMappingValue", "FlowSequenceEntryMappingEnd",
                 "FlowMappingKey", "FlowMappingValue", "FlowMappingEmptyValue"}

Directives == {"VersionDirective", "TagDirective"}
Openers == {"BlockSequenceStart", "BlockMappingStart",
            "FlowSequenceStart", "FlowMappingStart"}
TokenType == Directives \cup Openers \cup
             {"StreamStart", "StreamEnd", "DocumentStart", "DocumentEnd", "BlockEnd",
              "FlowSequenceEnd", "FlowMappingEnd", "BlockEntry", "FlowEntry",
              "Key", "Value", "Alias", "Anchor", "Tag", "Scalar"}

NoHandle == ""

Event(type, handle) == [type |-> type, handle |-> handle]

EventTypes == {"None", "StreamStart", "StreamEnd", "DocumentStart", "DocumentEnd",
               "Alias", "Scalar", "SequenceStart", "SequenceEnd",
               "MappingStart", "MappingEnd", "Error", "Panic"}

-----------------------------------------------------------------------------
\* What the next peek() of a token not yet seen may find.
Supply == IF state = "StreamStart" THEN {"StreamStart", "ScanError"}
          ELSE {"ScanError"} \cup (TokenType \ (IF Len(states) >= MaxDepth
                                                THEN Openers \cup {"StreamStart"}
                                                ELSE {"StreamStart"}))

\* The first peek() of a handler.
Peeked == IF look = "NoToken" THEN Supply ELSE {look}

Fail(t) == /\ event' = Event("Error", NoHandle)
           /\ look' = IF t = "ScanError" THEN "NoToken" ELSE t

\* self.state = self.states.pop().unwrap()
Return(stack, e) ==
  IF stack = <<>>
  THEN /\ event' = Event("Panic", NoHandle)
       /\ UNCHANGED <<state, states>>
  ELSE /\ event' = e
       /\ state' = Last(stack)
       /\ states' = Front(stack)

\* Mutant: the next state is forgotten.
EmptyScalarUnmoved(s, stack) == /\ event' = Event("Scalar", NoHandle)
                                /\ states' = stack
                                /\ UNCHANGED state

\* process_empty_scalar(), leaving the parser in state s.
EmptyScalar(s, stack) == /\ event' = Event("Scalar", NoHandle)
                         /\ state' = s
                         /\ states' = stack

\* The anchor and the tag that may come before a node, in either order: the
\* properties t starts, the handle the tag looks up and the token after them.
NodeProperties(t) ==
  CASE t = "Anchor" ->
         [some : {TRUE}, handle : {NoHandle}, next : Supply \ {"Tag"}]
           \cup [some : {TRUE}, handle : AllHandles \cup {NoHandle}, next : Supply]
    [] t = "Tag" -> [some : {TRUE}, handle : AllHandles \cup {NoHandle}, next : Supply]
    [] OTHER -> [some : {FALSE}, handle : {NoHandle}, next : {t}]

Collection(s, stack, e, t) == /\ state' = s /\ states' = stack
                              /\ event' = e /\ look' = t

\* The collection that a token starts: the state that reads its entries and
\* the event that announces it.
CollectionState == [BlockEntry |-> "IndentlessSequenceEntry",
                    FlowSequenceStart |-> "FlowSequenceFirstEntry",
                    FlowMappingStart |-> "FlowMappingFirstKey",
                    BlockSequenceStart |-> "BlockSequenceFirstEntry",
                    BlockMappingStart |-> "BlockMappingFirstKey"]

CollectionEvent(t) == IF t \in {"FlowMappingStart", "BlockMappingStart"}
                      THEN "MappingStart" ELSE "SequenceStart"

\* The tokens that start a collection where a node is expected.
StartTokens(block, indentless) ==
  {"FlowSequenceStart", "FlowMappingStart"}
    \cup (IF block THEN {"BlockSequenceStart", "BlockMappingStart"} ELSE {})
    \cup (IF indentless THEN {"BlockEntry"} ELSE {})

\* The content of a node with properties p, whose parent resumes from stack.
NodeContent(block, indentless, p, stack) ==
  CASE p.next = "Scalar" ->
         Return(stack, Event("Scalar", p.handle)) /\ look' = "NoToken"
    [] p.next \in StartTokens(block, indentless) ->
         Collection(CollectionState[p.next], stack,
                    Event(CollectionEvent(p.next), p.handle), p.next)
    [] p.some /\ p.next \notin StartTokens(block, indentless) \cup {"Scalar", "ScanError"} ->
         Return(stack, Event("Scalar", p.handle)) /\ look' = p.next
    [] OTHER -> Fail(p.next) /\ states' = stack /\ UNCHANGED state

\* parse_node, with t peeked and the caller's return state already on stack.
Node(block, indentless, t, stack) ==
  IF t = "Alias"
  THEN Return(stack, Event("Alias", NoHandle)) /\ look' = "NoToken"
  ELSE \E p \in NodeProperties(t) :
         IF p.handle \in AllHandles \ tagDirectives   \* found undefined tag handle
         THEN Fail(p.next) /\ states' = stack /\ UNCHANGED state
         ELSE NodeContent(block, indentless, p, stack)

-----------------------------------------------------------------------------
\* The caller stops after a panic and, unless it polls again, after an error.
Polling == /\ event.type # "Panic"
           /\ event.type = "Error" => Repoll

\* A call of parse() that runs a handler.
Calling == Polling /\ ~streamEnded /\ state # "End"

parse_stream_start ==
  /\ Calling /\ state = "StreamStart"
  /\ \E t \in Peeked :
       IF t = "StreamStart"
       THEN /\ event' = Event("StreamStart", NoHandle)
            /\ state' = "ImplicitDocumentStart"
            /\ look' = "NoToken"
       ELSE Fail(t) /\ UNCHANGED state
  /\ UNCHANGED <<states, marks, tagDirectives, streamEnded, declared>>

\* process_directives from token t: the handles D are declared and u is the
\* first token that is no directive.
DirectivesRead(t, D, u) ==
  IF t \in Directives
  THEN /\ D \cap tagDirectives = {}
       /\ t = "TagDirective" => D # {}
       /\ u \in Supply \ Directives
  ELSE D = {} /\ u = t

\* A directive that is repeated or of an incompatible version is left unread.
BadDirective(t) ==
  /\ t \in Directives
  /\ \E D \in SUBSET (Handles \ tagDirectives) : \E u \in Directives :
       /\ t # u => t = "VersionDirective" \/ D # {}
       /\ u = "TagDirective" => tagDirectives \cup D # {}
       /\ tagDirectives' = tagDirectives \cup D
       /\ Fail(u)
  /\ UNCHANGED <<state, states, streamEnded, declared>>

\* Mutant: the state to go to and the state to return to are confused.
ImplicitDocumentPushed(t) ==
  /\ tagDirectives' = tagDirectives \cup DefaultHandles
  /\ declared' = {}
  /\ states' = Append(states, "DocumentContent")
  /\ state' = "BlockNode"
  /\ event' = Event("DocumentStart", NoHandle)
  /\ look' = t
  /\ UNCHANGED streamEnded

ImplicitDocument(t) ==
  /\ tagDirectives' = tagDirectives \cup DefaultHandles
  /\ declared' = {}
  /\ states' = Append(states, "DocumentEnd")
  /\ state' = "BlockNode"
  /\ event' = Event("DocumentStart", NoHandle)
  /\ look' = t
  /\ UNCHANGED streamEnded

ExplicitDocument(t) ==
  \E D \in SUBSET Handles : \E u \in Supply \cup {t} :
    /\ DirectivesRead(t, D, u)
    /\ tagDirectives' = tagDirectives \cup D
                          \cup (IF u = "ScanError" THEN {} ELSE DefaultHandles)
    /\ IF u = "DocumentStart"
       THEN /\ declared' = D
            /\ states' = Append(states, "DocumentEnd")
            /\ state' = "DocumentContent"
            /\ event' = Event("DocumentStart", NoHandle)
            /\ look' = "NoToken"
       ELSE Fail(u) /\ UNCHANGED <<state, states, declared>>
    /\ UNCHANGED streamEnded

StreamOver ==
  /\ state' = "End"
  /\ event' = Event("StreamEnd", NoHandle)
  /\ look' = "NoToken"
  /\ streamEnded' = TRUE
  /\ UNCHANGED <<states, tagDirectives, declared>>

parse_document_start(implicit) ==
  /\ Calling
  /\ state = IF implicit THEN "ImplicitDocumentStart" ELSE "DocumentStart"
  /\ \E t0 \in Peeked :
     \E t \in IF ~implicit /\ t0 = "DocumentEnd" THEN Supply \ {"DocumentEnd"} ELSE {t0} :
       CASE t = "ScanError" ->
              Fail(t) /\ UNCHANGED <<state, states, tagDirectives, streamEnded, declared>>
         [] t = "StreamEnd" -> StreamOver
         [] implicit /\ t \notin Directives \cup {"DocumentStart", "StreamEnd", "ScanError"} ->
              ImplicitDocument(t)
         [] OTHER -> ExplicitDocument(t) \/ BadDirective(t)
  /\ UNCHANGED marks

\* Mutant: an empty document moves on to DocumentEnd without the pop.
DocumentContentUnpopped ==
  /\ Calling /\ state = "DocumentContent"
  /\ \E t \in Peeked :
       IF t \in Directives \cup {"DocumentStart", "DocumentEnd", "StreamEnd"}
       THEN EmptyScalar("DocumentEnd", states) /\ look' = t
       ELSE Node(TRUE, FALSE, t, states)
  /\ UNCHANGED <<marks, tagDirectives, streamEnded, declared>>

parse_document_content ==
  /\ Calling /\ state = "DocumentContent"
  /\ \E t \in Peeked :
       IF t \in Directives \cup {"DocumentStart", "DocumentEnd", "StreamEnd"}
       THEN Return(states, Event("Scalar", NoHandle)) /\ look' = t
       ELSE Node(TRUE, FALSE, t, states)
  /\ UNCHANGED <<marks, tagDirectives, streamEnded, declared>>

\* Mutant: the directives of the document are kept.
DocumentEndUncleared ==
  /\ Calling /\ state = "DocumentEnd"
  /\ \E t \in Peeked :
       IF t = "ScanError"
       THEN Fail(t) /\ UNCHANGED state
       ELSE /\ look' = IF t = "DocumentEnd" THEN "NoToken" ELSE t
            /\ state' = "DocumentStart"
            /\ event' = Event("DocumentEnd", NoHandle)
  /\ UNCHANGED <<states, marks, tagDirectives, streamEnded, declared>>

parse_document_end ==
  /\ Calling /\ state = "DocumentEnd"
  /\ \E t \in Peeked :
       IF t = "ScanError"
       THEN Fail(t) /\ UNCHANGED <<state, tagDirectives>>
       ELSE /\ look' = IF t = "DocumentEnd" THEN "NoToken" ELSE t
            /\ tagDirectives' = {}
            /\ state' = "DocumentStart"
            /\ event' = Event("DocumentEnd", NoHandle)
  /\ UNCHANGED <<states, marks, streamEnded, declared>>

parse_block_node ==
  /\ Calling /\ state = "BlockNode"
  /\ \E t \in Peeked : Node(TRUE, FALSE, t, states)
  /\ UNCHANGED <<marks, tagDirectives, streamEnded, declared>>

-----------------------------------------------------------------------------
\* Mutant: the start of a collection is not marked.
EnteredUnmarked(first) ==
  IF ~first
  THEN [tok : Peeked, marks : {marks}, ended : {FALSE}]
  ELSE [tok : IF look = "StreamEnd" THEN {look} ELSE Supply,
        marks : {marks}, ended : {look = "StreamEnd"}]

\* How the handler of a collection begins: the first call of a collection
\* marks its start and skips the token that opened it.
Entered(first) ==
  IF ~first
  THEN [tok : Peeked, marks : {marks}, ended : {FALSE}]
  ELSE [tok : IF look = "StreamEnd" THEN {look} ELSE Supply,
        marks : {Append(marks, Len(states))},
        ended : {look = "StreamEnd"}]
         \cup (IF look = "NoToken" THEN [tok : {"ScanError"}, marks : {marks}, ended : {FALSE}]
               ELSE {})

\* Mutant: the mark of the collection is left behind.
CollectionOverMarked(type, m) == /\ Return(states, Event(type, NoHandle))
                                 /\ marks' = m
                                 /\ look' = "NoToken"

\* The end token of the collection is read: its mark goes, the parent resumes.
CollectionOver(type, m) == /\ Return(states, Event(type, NoHandle))
                           /\ marks' = IF m = <<>> THEN m ELSE Front(m)
                           /\ look' = "NoToken"

\* Mutant: an empty node stands for whatever is missing.
UnexpectedTolerated(t, m) == /\ event' = Event("Scalar", NoHandle)
                             /\ marks' = m /\ look' = t
                             /\ UNCHANGED <<state, states>>

\* marks.pop().unwrap() for the context of the error.
Unexpected(t, m) == /\ IF m = <<>> THEN event' = Event("Panic", NoHandle) /\ look' = t
                                   ELSE Fail(t)
                    /\ marks' = IF m = <<>> THEN m ELSE Front(m)
                    /\ UNCHANGED <<state, states>>

ScanFailed(m) == Fail("ScanError") /\ marks' = m /\ UNCHANGED <<state, states>>

\* The token after an indicator: an empty node if it is in ends (the parser
\* stays with or moves to state s), a node after which s resumes otherwise.
EntryContent(t, ends, s, indentless) ==
  CASE t = "ScanError" -> Fail(t) /\ UNCHANGED <<state, states>>
    [] t \in ends -> EmptyScalar(s, states) /\ look' = t
    [] OTHER -> Node(TRUE, indentless, t, Append(states, s))

parse_block_sequence_entry(first) ==
  /\ Calling
  /\ state = IF first THEN "BlockSequenceFirstEntry" ELSE "BlockSequenceEntry"
  /\ \E e \in Entered(first) :
       /\ streamEnded' = e.ended
       /\ CASE e.tok = "BlockEntry" ->
                 /\ \E t \in Supply :
                      EntryContent(t, {"BlockEntry", "BlockEnd"}, "BlockSequenceEntry", FALSE)
                 /\ marks' = e.marks
            [] e.tok = "BlockEnd" -> CollectionOver("SequenceEnd", e.marks)
            [] e.tok = "ScanError" -> ScanFailed(e.marks)
            [] OTHER -> Unexpected(e.tok, e.marks)
  /\ UNCHANGED <<tagDirectives, declared>>

parse_indentless_sequence_entry ==
  /\ Calling /\ state = "IndentlessSequenceEntry"
  /\ \E t \in Peeked :
       CASE t = "BlockEntry" ->
              \E u \in Supply :
                EntryContent(u, {"BlockEntry", "Key", "Value", "BlockEnd"},
                             "IndentlessSequenceEntry", FALSE)
         [] t = "ScanError" -> Fail(t) /\ UNCHANGED <<state, states>>
         [] OTHER -> Return(states, Event("SequenceEnd", NoHandle)) /\ look' = t
  /\ UNCHANGED <<marks, tagDirectives, streamEnded, declared>>

parse_block_mapping_key(first) ==
  /\ Calling
  /\ state = IF first THEN "BlockMappingFirstKey" ELSE "BlockMappingKey"
  /\ \E e \in Entered(first) :
       /\ streamEnded' = e.ended
       /\ CASE e.tok = "Key" ->
                 /\ \E t \in Supply :
                      EntryContent(t, {"Key", "Value", "BlockEnd"}, "BlockMappingValue", TRUE)
                 /\ marks' = e.marks
            [] e.tok = "BlockEnd" -> CollectionOver("MappingEnd", e.marks)
            [] e.tok = "ScanError" -> ScanFailed(e.marks)
            [] OTHER -> Unexpected(e.tok, e.marks)
  /\ UNCHANGED <<tagDirectives, declared>>

parse_block_mapping_value ==
  /\ Calling /\ state = "BlockMappingValue"
  /\ \E t \in Peeked :
       CASE t = "Value" ->
              \E u \in Supply :
                EntryContent(u, {"Key", "Value", "BlockEnd"}, "BlockMappingKey", TRUE)
         [] t = "ScanError" -> Fail(t) /\ UNCHANGED <<state, states>>
         [] OTHER -> EmptyScalar("BlockMappingKey", states) /\ look' = t
  /\ UNCHANGED <<marks, tagDirectives, streamEnded, declared>>

-----------------------------------------------------------------------------
\* Mutant: block collections are accepted in flow context.
FlowNodeBlock(t, s) == Node(TRUE, FALSE, t, Append(states, s))

FlowNode(t, s) == Node(FALSE, FALSE, t, Append(states, s))

\* An entry of a flow sequence at token t, its "," read.
FlowSequenceItem(t, m) ==
  CASE t = "Key" ->
         /\ Collection("FlowSequenceEntryMappingKey", states,
                       Event("MappingStart", NoHandle), "NoToken")
         /\ marks' = m
    [] t = "FlowSequenceEnd" -> CollectionOver("SequenceEnd", m)
    [] t = "ScanError" -> ScanFailed(m)
    [] OTHER -> FlowNode(t, "FlowSequenceEntry") /\ marks' = m

parse_flow_sequence_entry(first) ==
  /\ Calling
  /\ state = IF first THEN "FlowSequenceFirstEntry" ELSE "FlowSequenceEntry"
  /\ \E e \in Entered(first) :
       /\ streamEnded' = e.ended
       /\ CASE first \/ e.tok = "FlowSequenceEnd" -> FlowSequenceItem(e.tok, e.marks)
            [] ~first /\ e.tok = "FlowEntry" -> \E t \in Supply : FlowSequenceItem(t, e.marks)
            [] ~first /\ e.tok = "ScanError" -> ScanFailed(e.marks)
            [] OTHER -> Unexpected(e.tok, e.marks)
  /\ UNCHANGED <<tagDirectives, declared>>

\* The key of a single pair in a flow sequence: an indicator in its place is
\* skipped with the empty key.
parse_flow_sequence_entry_mapping_key ==
  /\ Calling /\ state = "FlowSequenceEntryMappingKey"
  /\ \E t \in Peeked :
       CASE t = "ScanError" -> Fail(t) /\ UNCHANGED <<state, states>>
         [] t \in {"Value", "FlowEntry", "FlowSequenceEnd"} ->
              EmptyScalar("FlowSequenceEntryMappingValue", states) /\ look' = "NoToken"
         [] OTHER -> FlowNode(t, "FlowSequenceEntryMappingValue")
  /\ UNCHANGED <<marks, tagDirectives, streamEnded, declared>>

\* The value of a pair at token t: after a Value token there may be a node;
\* s resumes after it.
FlowValue(t, ends, s) ==
  CASE t = "Value" ->
         \E u \in Supply :
           CASE u = "ScanError" -> Fail(u) /\ UNCHANGED <<state, states>>
             [] u \in ends -> EmptyScalar(s, states) /\ look' = u
             [] OTHER -> FlowNode(u, s)
    [] t = "ScanError" -> Fail(t) /\ UNCHANGED <<state, states>>
    [] OTHER -> EmptyScalar(s, states) /\ look' = t

parse_flow_sequence_entry_mapping_value ==
  /\ Calling /\ state = "FlowSequenceEntryMappingValue"
  /\ \E t \in Peeked :
       FlowValue(t, {"FlowEntry", "FlowSequenceEnd"}, "FlowSequenceEntryMappingEnd")
  /\ UNCHANGED <<marks, tagDirectives, streamEnded, declared>>

parse_flow_sequence_entry_mapping_end ==
  /\ Calling /\ state = "FlowSequenceEntryMappingEnd"
  /\ \E t \in Peeked :
       IF t = "ScanError"
       THEN Fail(t) /\ UNCHANGED state
       ELSE /\ state' = "FlowSequenceEntry"
            /\ event' = Event("MappingEnd", NoHandle)
            /\ look' = t
  /\ UNCHANGED <<states, marks, tagDirectives, streamEnded, declared>>

\* A pair of a flow mapping at token t, its "," read.
FlowMappingPair(t, m) ==
  CASE t = "Key" ->
         /\ \E u \in Supply :
              CASE u = "ScanError" -> Fail(u) /\ UNCHANGED <<state, states>>
                [] u \in {"Value", "FlowEntry", "FlowMappingEnd"} ->
                     EmptyScalar("FlowMappingValue", states) /\ look' = u
                [] OTHER -> FlowNode(u, "FlowMappingValue")
         /\ marks' = m
    [] t = "FlowMappingEnd" -> CollectionOver("MappingEnd", m)
    [] t = "ScanError" -> ScanFailed(m)
    [] OTHER -> FlowNode(t, "FlowMappingEmptyValue") /\ marks' = m

parse_flow_mapping_key(first) ==
  /\ Calling
  /\ state = IF first THEN "FlowMappingFirstKey" ELSE "FlowMappingKey"
  /\ \E e \in Entered(first) :
       /\ streamEnded' = e.ended
       /\ CASE first \/ e.tok = "FlowMappingEnd" -> FlowMappingPair(e.tok, e.marks)
            [] ~first /\ e.tok = "FlowEntry" -> \E t \in Supply : FlowMappingPair(t, e.marks)
            [] ~first /\ e.tok = "ScanError" -> ScanFailed(e.marks)
            [] OTHER -> Unexpected(e.tok, e.marks)
  /\ UNCHANGED <<tagDirectives, declared>>

parse_flow_mapping_value(empty) ==
  /\ Calling
  /\ state = IF empty THEN "FlowMappingEmptyValue" ELSE "FlowMappingValue"
  /\ \E t \in Peeked :
       IF empty
       THEN IF t = "ScanError"
            THEN Fail(t) /\ UNCHANGED <<state, states>>
            ELSE EmptyScalar("FlowMappingKey", states) /\ look' = t
       ELSE FlowValue(t, {"FlowEntry", "FlowMappingEnd"}, "FlowMappingKey")
  /\ UNCHANGED <<marks, tagDirectives, streamEnded, declared>>

-----------------------------------------------------------------------------
ParserInit == /\ state = "StreamStart" /\ states = <<>> /\ marks = <<>>
              /\ tagDirectives = {} /\ look = "NoToken" /\ streamEnded = FALSE
              /\ event = Event("None", NoHandle) /\ declared = {}

\* parse() once the stream is over.
ParseAfterEnd == /\ Polling
                 /\ streamEnded \/ state = "End"
                 /\ event' = Event("StreamEnd", NoHandle)
                 /\ UNCHANGED <<state, states, marks, tagDirectives, look, streamEnded, declared>>

\* Parser::reset(), which forgets the input as well.
Reset == /\ event.type # "Panic"
         /\ state' = "StreamStart" /\ states' = <<>> /\ marks' = <<>>
         /\ tagDirectives' = {} /\ look' = "NoToken" /\ streamEnded' = FALSE
         /\ event' = Event("None", NoHandle) /\ declared' = {}

Parse == \/ parse_stream_start
         \/ \E implicit \in BOOLEAN : parse_document_start(implicit)
         \/ parse_document_content
         \/ parse_document_end
         \/ parse_block_node
         \/ \E first \in BOOLEAN : \/ parse_block_sequence_entry(first)
                                   \/ parse_block_mapping_key(first)
                                   \/ parse_flow_sequence_entry(first)
                                   \/ parse_flow_mapping_key(first)
         \/ parse_indentless_sequence_entry
         \/ parse_block_mapping_value
         \/ parse_flow_sequence_entry_mapping_key
         \/ parse_flow_sequence_entry_mapping_value
         \/ parse_flow_sequence_entry_mapping_end
         \/ \E empty \in BOOLEAN : parse_flow_mapping_value(empty)

ParserNext == Parse \/ ParseAfterEnd \/ Reset

ParserSpec == ParserInit /\ [][ParserNext]_parserVars

\* Every driver of the parser calls parse() in a loop.
FairParserSpec == ParserSpec /\ WF_parserVars(Parse)
=============================================================================
