-------------------------------- MODULE Emitter --------------------------------
(***************************************************************************)
(* The emitter of src/emitter.rs: emit() queues an event and then handles  *)
(* the events at the head of the queue, one action per emit_* handler of   *)
(* state_machine, for as long as enough are queued to decide how each is   *)
(* written.  After an error the application starts over with reset().      *)
(*                                                                         *)
(* An event has a type and a look, what its handler asks about the rest:   *)
(*   a scalar is "short" (may be a simple key), "quoted" (too long or of   *)
(*   several lines), a "literal" block, or a block to be "kept" with its   *)
(*   last breaks ("|+"); a collection asks for "block" or "flow" style, or *)
(*   has an anchor or a tag and is "named"; a document starts or ends      *)
(*   "implicit", "explicit", or starts with "directives".                  *)
(* Of what is written, the indicators between documents are kept, and      *)
(* whether the line holds indentation only (indention).  root_context and  *)
(* sequence_context are never read and left out.                           *)
(***************************************************************************)
EXTENDS Integers, Sequences, SequencesExt, FiniteSets

CONSTANTS ScalarLooks, CollectionLooks, DocumentLooks,  \* the looks in the input,
                            \* by whether it is in the order of EventGrammar
          MaxDepth          \* the collections that are open in the input at once

ASSUME EmitterAssumption ==
  /\ MaxDepth \in Nat
  /\ ScalarLooks \in [BOOLEAN -> SUBSET {"short", "quoted", "literal", "kept"}]
  /\ CollectionLooks \in [BOOLEAN -> SUBSET {"block", "flow", "named"}]
  /\ DocumentLooks \in [BOOLEAN -> SUBSET {"implicit", "explicit", "directives"}]

VARIABLES canonical,             \* set before the stream is opened
          state, states,         \* the EmitterState and those to return to
          events,                \* the queue
          indents, indent,       \* the indentation of each open collection
          flowLevel,
          mappingContext, simpleKeyContext,
          indention, openEnded,
          tagDirectives,         \* the handles of the directives in force
          at,       \* "idle" between calls, "emitting" in one; stopped: "refused"
                    \* by a handler, "broken" by its data or the output, "panic"
          orderly,                 \* are the events given in order?
          inPhase, inOpen, given,  \* what emit() was given, as in EventGrammar
          handled,  \* history: the type of the event last handled
          declared, \* history: the handles that the open document declares
          written,  \* history: the document indicators since the last content
          kept      \* history: was that content a block scalar to be kept?

stackVars == <<state, states, indents, indent, flowLevel>>
contextVars == <<mappingContext, simpleKeyContext, indention>>
inputVars == <<orderly, inPhase, inOpen, given>>
historyVars == <<handled, declared, written, kept>>
emitterVars == <<canonical, stackVars, contextVars, openEnded, tagDirectives, events, at, inputVars,
                 historyVars>>

-----------------------------------------------------------------------------
BestIndent == 2

\* The states in which a flow or block collection has been begun.
FlowStates == {"FlowSequenceItem", "FlowMappingKey", "FlowMappingSimpleValue",
               "FlowMappingValue"}
BlockStates == {"BlockSequenceItem", "BlockMappingKey", "BlockMappingSimpleValue",
                "BlockMappingValue"}
FirstStates == {"FlowSequenceFirstItem", "FlowMappingFirstKey",
                "BlockSequenceFirstItem", "BlockMappingFirstKey"}
EmitterState == FlowStates \cup BlockStates \cup FirstStates \cup
                {"StreamStart", "FirstDocumentStart", "DocumentStart",
                 "DocumentContent", "DocumentEnd", "End"}

DefaultHandles == {"!", "!!"}
DeclaredBy(e) == IF e.look = "directives" THEN {"!e!"} ELSE {}

Openers == {"SequenceStart", "MappingStart"}
Looks(type) == CASE type \in {"DocumentStart"} -> DocumentLooks[orderly]
                 [] type = "DocumentEnd" -> DocumentLooks[orderly] \ {"directives"}
                 [] type = "Scalar" -> ScalarLooks[orderly]
                 [] type \in Openers -> CollectionLooks[orderly]
                 [] OTHER -> {""}
Types == {"StreamStart", "StreamEnd", "DocumentStart", "DocumentEnd", "Alias", "Scalar",
          "SequenceStart", "SequenceEnd", "MappingStart", "MappingEnd"}

Input == INSTANCE EventGrammar WITH phase <- inPhase, open <- inOpen, emitted <- given

-----------------------------------------------------------------------------
\* emit() queues its event.
Within(e) == e.type \in Openers =>
               Len(states) + Len(SelectSeq(events, LAMBDA q : q.type \in Openers)) <= MaxDepth

emit == /\ at = "idle"
        /\ \E type \in Types : \E look \in Looks(type) :
             LET e == [type |-> type, look |-> look]
             IN /\ Within(e)
                /\ events' = Append(events, e)
                /\ given' = type
        /\ IF orderly THEN Input!GrammarNext ELSE UNCHANGED <<inPhase, inOpen>>
        /\ at' = "emitting"
        /\ UNCHANGED <<canonical, stackVars, contextVars, openEnded, tagDirectives, orderly,
                       historyVars>>

\* Mutant: a mapping is begun without a look at what follows its first node.
SequencesOnly(type) == CASE type = "DocumentStart" -> 1
                         [] type = "SequenceStart" -> 2
                         [] OTHER -> 0

\* How many events must follow the first one.
Accumulate(type) == CASE type = "DocumentStart" -> 1
                      [] type = "SequenceStart" -> 2
                      [] type = "MappingStart" -> 3
                      [] OTHER -> 0

\* How far the first n queued events nest, and whether the first is closed.
Level(n) ==
  LET Of(types) == Cardinality({i \in 1..n : events[i].type \in types})
  IN Of(Openers \cup {"StreamStart", "DocumentStart"})
       - Of({"StreamEnd", "DocumentEnd", "SequenceEnd", "MappingEnd"})

\* needs_mode_events() answers with the first event.
Ready == /\ events # <<>>
         /\ \/ Accumulate(Head(events).type) = 0
            \/ Len(events) > Accumulate(Head(events).type)
            \/ \E n \in DOMAIN events : Level(n) = 0

\* The loop of emit() ends.
Return == /\ at = "emitting" /\ ~Ready
          /\ at' = "idle"
          /\ UNCHANGED <<canonical, stackVars, contextVars, openEnded, tagDirectives, events,
                         inputVars, historyVars>>

-----------------------------------------------------------------------------
\* A turn of the loop handles the first event, in one of the states ss.
First == Head(events)

Handling(ss, types) == /\ at = "emitting" /\ Ready
                       /\ state \in ss /\ First.type \in types

\* Mutant: the directives taken away are put back in any case.
RestoredAlways == UNCHANGED tagDirectives

\* The tag directives are taken away for the turn and put back after it,
\* unless a new document has put its own in their place.
Restored == tagDirectives' = IF First.type = "DocumentStart"
                             THEN DeclaredBy(First) \cup DefaultHandles
                             ELSE tagDirectives

\* The turn succeeds.
Handled == /\ events' = Tail(events)
           /\ handled' = First.type
           /\ Restored
           /\ UNCHANGED <<canonical, at, inputVars>>

\* The turn ends the call and the use of the emitter.
Stop(how) == /\ at' = how
             /\ events' = Tail(events)
             /\ UNCHANGED <<canonical, stackVars, contextVars, openEnded, tagDirectives, inputVars,
                            historyVars>>

\* Analysis of the event's data, or writing, fails.
Breaks == /\ at = "emitting" /\ Ready
          /\ Stop("broken")

-----------------------------------------------------------------------------
emit_stream_start ==
  /\ Handling({"StreamStart"}, {"StreamStart"})
  /\ Handled
  /\ state' = "FirstDocumentStart"
  /\ indent' = -1 /\ indention' = TRUE /\ openEnded' = 0
  /\ UNCHANGED <<states, indents, flowLevel, mappingContext, simpleKeyContext,
                 declared, written, kept>>

\* Mutant: openEnded is reset before it is looked at.
Unterminated == FALSE

\* A "..." must come between a document and the directives of the next.
Terminates == First.look = "directives" /\ openEnded # 0

Explicit == First.look # "implicit" \/ state = "DocumentStart" \/ canonical

emit_document_start ==
  /\ Handling({"FirstDocumentStart", "DocumentStart"}, {"DocumentStart"})
  /\ Handled
  /\ written' = written \o (IF Terminates THEN <<"...">> ELSE <<>>)
                        \o (IF First.look = "directives" THEN <<"%TAG">> ELSE <<>>)
                        \o (IF Explicit THEN <<"---">> ELSE <<>>)
  /\ indention' = IF Explicit THEN canonical ELSE indention
  /\ openEnded' = 0
  /\ state' = "DocumentContent"
  /\ declared' = DeclaredBy(First)
  /\ UNCHANGED <<states, indents, indent, flowLevel, mappingContext, simpleKeyContext, kept>>

\* emit_document_start() at the end of the stream.
emit_stream_end ==
  /\ Handling({"FirstDocumentStart", "DocumentStart"}, {"StreamEnd"})
  /\ Handled
  /\ IF openEnded = 2
     THEN written' = Append(written, "...") /\ openEnded' = 0 /\ indention' = TRUE
     ELSE UNCHANGED <<written, openEnded, indention>>
  /\ state' = "End"
  /\ UNCHANGED <<states, indents, indent, flowLevel, mappingContext, simpleKeyContext,
                 declared, kept>>

emit_document_end ==
  /\ Handling({"DocumentEnd"}, {"DocumentEnd"})
  /\ Handled
  /\ IF First.look = "explicit"
     THEN written' = Append(written, "...") /\ openEnded' = 0
     ELSE openEnded' = (IF openEnded = 0 THEN 1 ELSE openEnded) /\ UNCHANGED written
  /\ state' = "DocumentStart" /\ indention' = TRUE
  /\ UNCHANGED <<states, indents, indent, flowLevel, mappingContext, simpleKeyContext,
                 declared, kept>>

-----------------------------------------------------------------------------
\* Nodes: emit_node() and the emit_* function of each type of node.
Nodes == Openers \cup {"Alias", "Scalar"}
EndOf == [SequenceStart |-> "SequenceEnd", MappingStart |-> "MappingEnd"]

\* check_empty_sequence() and check_empty_mapping()
CheckEmpty == Len(events) > 1 /\ events[2].type = EndOf[First.type]

\* check_simple_key(), for lengths that allow it.
CheckSimpleKey == \/ First.type = "Alias"
                  \/ First.type = "Scalar" /\ First.look = "short"
                  \/ First.type \in Openers /\ CheckEmpty

\* The state that a collection begins in.
FirstState(level) ==
  LET flow == level # 0 \/ canonical \/ First.look = "flow" \/ CheckEmpty
  IN IF First.type = "SequenceStart"
     THEN IF flow THEN "FlowSequenceFirstItem" ELSE "BlockSequenceFirstItem"
     ELSE IF flow THEN "FlowMappingFirstKey" ELSE "BlockMappingFirstKey"

\* select_scalar_style(): is the scalar written as a block?
BlockScalar(level, simple) == /\ First.type = "Scalar" /\ First.look \in {"literal", "kept"}
                              /\ level = 0 /\ ~simple /\ ~canonical

\* write_block_scalar_hints()
Hints(level, simple) ==
  openEnded' = IF BlockScalar(level, simple)
               THEN IF First.look = "kept" THEN 2 ELSE 0
               ELSE openEnded

\* Mutant: the root returns nowhere.
PushedInside(return) == IF states = <<>> THEN states ELSE Append(states, return)

Pushed(return) == Append(states, return)

\* emit_node() at a flow level, to return to a state; indented tells whether
\* only indentation stands before the node.
emit_node(return, level, mapping, simple, indented) ==
  LET block == BlockScalar(level, simple)
  IN /\ mappingContext' = mapping /\ simpleKeyContext' = simple
     /\ IF First.type \in Openers
        THEN states' = Pushed(return) /\ state' = FirstState(level)
        ELSE UNCHANGED states /\ state' = return
     /\ indention' \in CASE First.type \in Openers -> {indented /\ First.look # "named"}
                         [] block -> IF First.look = "kept" THEN {TRUE} ELSE BOOLEAN
                         [] OTHER -> {FALSE}
     /\ Hints(level, simple)
     /\ kept' = (block /\ First.look = "kept")
     /\ written' = <<>>

emit_document_content ==
  /\ Handling({"DocumentContent"}, Nodes)
  /\ Handled
  /\ emit_node("DocumentEnd", flowLevel, FALSE, FALSE, indention)
  /\ UNCHANGED <<indents, indent, flowLevel, declared>>

\* Mutant: a collection is not set in.
NeverIndented(flow, indentless) ==
  /\ indents' = Append(indents, indent)
  /\ indent' = IF indent < 0 /\ ~flow THEN 0 ELSE indent

\* increase_indent()
increase_indent(flow, indentless) ==
  /\ indents' = Append(indents, indent)
  /\ indent' = CASE indent < 0 -> IF flow THEN BestIndent ELSE 0
                 [] indent >= 0 /\ ~indentless -> indent + BestIndent
                 [] OTHER -> indent

Opens(first, flow, indentless) ==
  IF first THEN increase_indent(flow, indentless) ELSE UNCHANGED <<indents, indent>>

\* Mutant: the indentation stays on the stack.
ClosesNone(first) == UNCHANGED <<indents, indent>>

\* What the end of a collection pops; at once if it was pushed just now.
Closes(first) == IF first THEN UNCHANGED <<indents, indent>>
                 ELSE indents' = Front(indents) /\ indent' = Last(indents)

\* The flow level behind it, raised just now if it is empty.
Lowered(first, writing) == IF writing /\ ~first THEN flowLevel - 1 ELSE flowLevel

\* The end of a collection in the states first and ss; writing tells whether
\* it has a closing bracket.
CollectionEnd(first, ss, type, writing) ==
  /\ Handling({first} \cup ss, {type})
  /\ IF states = <<>> \/ (indents = <<>> /\ state # first)
     THEN Stop("panic")
     ELSE
        /\ Handled
        /\ Closes(state = first)
        /\ flowLevel' = Lowered(state = first, writing)
        /\ state' = Last(states) /\ states' = Front(states)
        /\ IF writing THEN indention' = FALSE /\ kept' = FALSE /\ written' = <<>>
                      ELSE UNCHANGED <<indention, kept, written>>
        /\ UNCHANGED <<mappingContext, simpleKeyContext, openEnded, declared>>

emit_flow_sequence_end ==
  CollectionEnd("FlowSequenceFirstItem", {"FlowSequenceItem"}, "SequenceEnd", TRUE)
emit_flow_mapping_end ==
  CollectionEnd("FlowMappingFirstKey", {"FlowMappingKey"}, "MappingEnd", TRUE)
emit_block_sequence_end ==
  CollectionEnd("BlockSequenceFirstItem", {"BlockSequenceItem"}, "SequenceEnd", FALSE)
emit_block_mapping_end ==
  CollectionEnd("BlockMappingFirstKey", {"BlockMappingKey"}, "MappingEnd", FALSE)

\* In flow style indention does not matter, and is given as FALSE.
FlowLevelOf(first) == IF first THEN flowLevel + 1 ELSE flowLevel

emit_flow_sequence_item ==
  LET first == state = "FlowSequenceFirstItem"
  IN /\ Handling({"FlowSequenceFirstItem", "FlowSequenceItem"}, Nodes)
     /\ Handled
     /\ Opens(first, TRUE, FALSE)
     /\ flowLevel' = FlowLevelOf(first)
     /\ emit_node("FlowSequenceItem", flowLevel', FALSE, FALSE, FALSE)
     /\ UNCHANGED declared

emit_flow_mapping_key ==
  LET first == state = "FlowMappingFirstKey"
      simple == ~canonical /\ CheckSimpleKey
  IN /\ Handling({"FlowMappingFirstKey", "FlowMappingKey"}, Nodes)
     /\ Handled
     /\ Opens(first, TRUE, FALSE)
     /\ flowLevel' = FlowLevelOf(first)
     /\ emit_node(IF simple THEN "FlowMappingSimpleValue" ELSE "FlowMappingValue",
                  flowLevel', TRUE, simple, FALSE)
     /\ UNCHANGED declared

\* Mutant: a value is followed by a value.
ValueAgain ==
  /\ Handling({"FlowMappingSimpleValue", "FlowMappingValue"}, Nodes)
  /\ Handled
  /\ emit_node("FlowMappingSimpleValue", flowLevel, TRUE, FALSE, FALSE)
  /\ UNCHANGED <<indents, indent, flowLevel, declared>>

emit_flow_mapping_value ==
  /\ Handling({"FlowMappingSimpleValue", "FlowMappingValue"}, Nodes)
  /\ Handled
  /\ emit_node("FlowMappingKey", flowLevel, TRUE, FALSE, FALSE)
  /\ UNCHANGED <<indents, indent, flowLevel, declared>>

emit_block_sequence_item ==
  /\ Handling({"BlockSequenceFirstItem", "BlockSequenceItem"}, Nodes)
  /\ Handled
  /\ Opens(state = "BlockSequenceFirstItem", FALSE, mappingContext /\ ~indention)
  /\ emit_node("BlockSequenceItem", flowLevel, FALSE, FALSE, TRUE)
  /\ UNCHANGED <<flowLevel, declared>>

emit_block_mapping_key ==
  /\ Handling({"BlockMappingFirstKey", "BlockMappingKey"}, Nodes)
  /\ Handled
  /\ Opens(state = "BlockMappingFirstKey", FALSE, FALSE)
  /\ emit_node(IF CheckSimpleKey THEN "BlockMappingSimpleValue" ELSE "BlockMappingValue",
               flowLevel, TRUE, CheckSimpleKey, TRUE)
  /\ UNCHANGED <<flowLevel, declared>>

\* Behind a simple key the value goes on in the line of its ":".
emit_block_mapping_value ==
  /\ Handling({"BlockMappingSimpleValue", "BlockMappingValue"}, Nodes)
  /\ Handled
  /\ emit_node("BlockMappingKey", flowLevel, TRUE, FALSE, state = "BlockMappingValue")
  /\ UNCHANGED <<indents, indent, flowLevel, declared>>

-----------------------------------------------------------------------------
\* Mutant: the stream may not end before its first document.
DocumentFirst(s) ==
  CASE s = "StreamStart" -> {"StreamStart"}
    [] s = "FirstDocumentStart" -> {"DocumentStart"}
    [] s = "DocumentStart" -> {"DocumentStart", "StreamEnd"}
    [] s = "DocumentEnd" -> {"DocumentEnd"}
    [] OTHER -> Types

\* The events that a state expects; the others are refused.
ExpectedIn(s) ==
  CASE s = "StreamStart" -> {"StreamStart"}
    [] s \in {"FirstDocumentStart", "DocumentStart"} -> {"DocumentStart", "StreamEnd"}
    [] s = "DocumentEnd" -> {"DocumentEnd"}
    [] s = "End" -> {}
    [] s \in {"FlowSequenceFirstItem", "FlowSequenceItem",
              "BlockSequenceFirstItem", "BlockSequenceItem"} -> Nodes \cup {"SequenceEnd"}
    [] s \in {"FlowMappingFirstKey", "FlowMappingKey",
              "BlockMappingFirstKey", "BlockMappingKey"} -> Nodes \cup {"MappingEnd"}
    [] OTHER -> Nodes

Refuses == /\ at = "emitting" /\ Ready
           /\ First.type \notin ExpectedIn(state)
           /\ Stop("refused")

EmitterInit ==
  /\ canonical \in BOOLEAN /\ orderly \in BOOLEAN
  /\ state = "StreamStart" /\ states = <<>> /\ events = <<>>
  /\ indents = <<>> /\ indent = 0 /\ flowLevel = 0
  /\ mappingContext = FALSE /\ simpleKeyContext = FALSE /\ indention = FALSE
  /\ openEnded = 0 /\ tagDirectives = {} /\ at = "idle"
  /\ Input!GrammarInit
  /\ handled = "None" /\ declared = {} /\ written = <<"stream">> /\ kept = FALSE

\* Emitter::reset()
reset ==
  /\ at \in {"idle", "refused", "broken"}
  /\ canonical' \in BOOLEAN
  /\ state' = "StreamStart" /\ states' = <<>> /\ events' = <<>>
  /\ indents' = <<>> /\ indent' = 0 /\ flowLevel' = 0
  /\ mappingContext' = FALSE /\ simpleKeyContext' = FALSE /\ indention' = FALSE
  /\ openEnded' = 0 /\ tagDirectives' = {} /\ at' = "idle"
  /\ Input!Reset /\ UNCHANGED orderly
  /\ handled' = "None" /\ declared' = {} /\ written' = <<"stream">> /\ kept' = FALSE

state_machine ==
  \/ emit_stream_start \/ emit_document_start \/ emit_stream_end \/ emit_document_end
  \/ emit_document_content
  \/ emit_flow_sequence_item \/ emit_flow_sequence_end
  \/ emit_flow_mapping_key \/ emit_flow_mapping_value \/ emit_flow_mapping_end
  \/ emit_block_sequence_item \/ emit_block_sequence_end
  \/ emit_block_mapping_key \/ emit_block_mapping_value \/ emit_block_mapping_end

EmitterNext == emit \/ state_machine \/ Refuses \/ Breaks \/ Return \/ reset

EmitterSpec == EmitterInit /\ [][EmitterNext]_emitterVars
=============================================================================
