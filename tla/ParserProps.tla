----------------------------- MODULE ParserProps -----------------------------
(***************************************************************************)
(* What the parser must satisfy: its type, the agreement of its two        *)
(* stacks, the scope of %TAG directives, the grammar of its events and its *)
(* progress at the end of the input.                                       *)
(***************************************************************************)
EXTENDS Parser, FiniteSets

\* The call before was neither an error nor a panic.
Healthy == event.type \notin {"Error", "Panic"}

\* Type invariant of the parser's fields (struct ParserInner).
ParserTypeOK ==
  /\ state \in ParserState
  /\ states \in Seq(ReturnStates)
  /\ marks \in Seq(Nat)
  /\ tagDirectives \in SUBSET AllHandles
  /\ look \in TokenType \cup {"NoToken"}
  /\ streamEnded \in BOOLEAN
  /\ event \in [type : EventTypes, handle : AllHandles \cup {NoHandle}]
  /\ declared \in SUBSET Handles

-----------------------------------------------------------------------------
\* Inside a document the bottom of the stack, and nothing above it, returns
\* to DocumentEnd; outside a document the stack is empty.  No pop of states
\* can then find it empty.
StackFramed ==
  Healthy =>
    IF state \in StreamStates \cup {"DocumentEnd"}
    THEN states = <<>>
    ELSE /\ states # <<>>
         /\ \A i \in DOMAIN states : states[i] = "DocumentEnd" <=> i = 1

\* The states in which the collection they belong to has a mark of its own:
\* all but indentless sequences and collections whose start is still unread.
Marked == BlockStates \cup FlowStates

MarkedDepths == {i - 1 : i \in {j \in DOMAIN states : states[j] \in Marked}}
                  \cup (IF state \in Marked THEN {Len(states)} ELSE {})

\* The marks are those of the open collections, innermost last: an error
\* names the collection it occurred in and no pop of marks finds it empty.
MarksMatchStates ==
  Healthy =>
    /\ {marks[i] : i \in DOMAIN marks} = MarkedDepths
    /\ \A i, j \in DOMAIN marks : i < j => marks[i] < marks[j]

\* No .unwrap() of an empty stack (parser.rs:333 and every pop of a handler).
NoPanic == event.type # "Panic"

\* A flow collection holds no block collection, however deep it nests.
NoBlockInFlow ==
  \A i \in DOMAIN states :
    states[i] \in FlowStates =>
      /\ \A j \in i..Len(states) : states[j] \in FlowStates
      /\ Healthy => state \in FlowStates \cup {"FlowSequenceFirstEntry", "FlowMappingFirstKey"}

\* A tag is resolved only through the directives its own document declares
\* and the two defaults: none survives from an earlier document.
TagScope == event.handle = NoHandle \/ event.handle \in declared \cup DefaultHandles

-----------------------------------------------------------------------------
\* The frames of EventGrammar that a parser state stands for.
FramesOf(s) ==
  CASE s \in {"DocumentContent", "BlockNode"} -> <<"root">>
    [] s = "DocumentEnd" -> <<"closed">>
    [] s \in {"BlockSequenceFirstEntry", "BlockSequenceEntry", "IndentlessSequenceEntry",
              "FlowSequenceFirstEntry", "FlowSequenceEntry"} -> <<"items">>
    [] s \in {"BlockMappingFirstKey", "BlockMappingKey",
              "FlowMappingFirstKey", "FlowMappingKey"} -> <<"key">>
    [] s \in {"BlockMappingValue", "FlowMappingValue", "FlowMappingEmptyValue"} -> <<"value">>
    [] s \in {"FlowSequenceEntryMappingKey", "FlowSequenceEntryMappingEnd"} -> <<"items", "key">>
    [] s = "FlowSequenceEntryMappingValue" -> <<"items", "value">>
    [] OTHER -> <<>>

\* The frames of the states on a stack.
FrameStack(stack) == FlattenSeq([i \in DOMAIN stack |-> FramesOf(stack[i])])

OpenFrames ==
  IF event.type = "Error" THEN <<>>
  ELSE IF state \in {"DocumentContent", "BlockNode"} THEN <<"root">>
  ELSE FrameStack(states) \o FramesOf(state)

StreamPhase == CASE event.type = "Error" -> "failed"
                 [] event.type # "Error" /\ streamEnded -> "end"
                 [] event.type = "None" -> "before"
                 [] OTHER -> "stream"

Grammar == INSTANCE EventGrammar
             WITH phase <- StreamPhase, open <- OpenFrames, emitted <- event.type

\* The events of the parser, whatever the tokens, follow the grammar.
EventsFollowGrammar == Grammar!GrammarSpec

\* At the end of the input the parser closes what is open and ends the
\* stream, or fails: it does not answer with empty nodes for ever.
Finished == streamEnded \/ ~Healthy \/ event.type = "None"
EndReached == look = "StreamEnd" ~> Finished
=============================================================================
