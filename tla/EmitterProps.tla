------------------------------ MODULE EmitterProps ------------------------------
(***************************************************************************)
(* What the emitter must satisfy: it accepts the grammar of events and     *)
(* nothing else, decides with enough events at hand and holds back no more *)
(* than it needs, and what it writes can be told apart again.              *)
(***************************************************************************)
EXTENDS Emitter

-----------------------------------------------------------------------------
\* No pop() of an empty stack is unwrapped (emitter.rs:649, 658, 684, ...).
EmitterNeverPanics == at # "panic"

\* Between the documents of a stream.
Outside == {"StreamStart", "FirstDocumentStart", "DocumentStart", "End"}

\* The places of the collections that have been begun, innermost last.
AllStates == Append(states, state)
Begun == {i \in DOMAIN AllStates : AllStates[i] \in FlowStates \cup BlockStates}
BegunFlow == {i \in Begun : AllStates[i] \in FlowStates}

\* The flow level and the stack of indentations are those of the collections
\* that have been begun, and no flow collection holds a block collection.
StacksAgree ==
  at \in {"idle", "emitting"} =>
    /\ Len(indents) = Cardinality(Begun)
    /\ flowLevel = Cardinality(BegunFlow)
    /\ \A i \in BegunFlow, j \in Begun : i < j => j \in BegunFlow

\* The indentations of the document and of the collections begun in it.
Indentation == Append(indents, indent)
SequenceState(s) == s \in {"BlockSequenceItem", "FlowSequenceItem"}

\* A collection is set in further than the one that holds it, but for a
\* block sequence in a block mapping: where it ends is read from that.
IndentsNest ==
  (at \in {"idle", "emitting"} /\ state # "StreamStart") =>
    /\ Indentation[1] = -1
    /\ \A i \in Begun :
         \/ Indentation[i] > Indentation[i - 1]
         \/ /\ AllStates[i] = "BlockSequenceItem"
            /\ i - 1 \in Begun /\ ~SequenceState(AllStates[i - 1])
            /\ Indentation[i] = Indentation[i - 1]

-----------------------------------------------------------------------------
\* Where the emitter has begun a block collection the next event does not
\* close it: there is no block style for an empty one.  It looked ahead far
\* enough to know.
NoEmptyBlock ==
  at \in {"idle", "emitting"} /\ events # <<>> =>
    /\ state = "BlockSequenceFirstItem" => First.type # "SequenceEnd"
    /\ state = "BlockMappingFirstKey" => First.type # "MappingEnd"

\* The directives that tags are resolved with are those of their document.
DirectivesInScope ==
  at = "emitting" /\ state \notin Outside =>
    tagDirectives = declared \cup DefaultHandles

\* In the output directives follow the end of a document that is marked by
\* "...", documents are told apart by "---", and the last breaks of a "|+" at
\* the end of the stream are followed by "...".
DocumentsDelimited ==
  /\ \A i \in DOMAIN written : written[i] = "%TAG" =>
       \E j \in 1..(i - 1) : written[j] \in {"stream", "..."}
  /\ state = "DocumentContent" =>
       \E i \in DOMAIN written : written[i] \in {"stream", "---"}
  /\ state = "End" /\ kept => \E i \in DOMAIN written : written[i] = "..."

-----------------------------------------------------------------------------
\* The frame of EventGrammar that a state of an open document stands for.
FrameOf(s) ==
  CASE s = "DocumentContent" -> "root"
    [] s = "DocumentEnd" -> "closed"
    [] s \in {"FlowSequenceFirstItem", "FlowSequenceItem",
              "BlockSequenceFirstItem", "BlockSequenceItem"} -> "items"
    [] s \in {"FlowMappingFirstKey", "FlowMappingKey",
              "BlockMappingFirstKey", "BlockMappingKey"} -> "key"
    [] OTHER -> "value"

Stopped == at \in {"refused", "broken", "panic"}

OpenStates == IF state \in Outside THEN states ELSE AllStates

OpenFrames == IF Stopped THEN <<>>
              ELSE [i \in DOMAIN OpenStates |-> FrameOf(OpenStates[i])]

StreamPhase == CASE state = "End" -> "end"
                 [] state # "End" /\ Stopped -> "failed"
                 [] state = "StreamStart" /\ ~Stopped -> "before"
                 [] OTHER -> "stream"

Grammar == INSTANCE EventGrammar
             WITH phase <- StreamPhase, open <- OpenFrames,
                  emitted <- IF Stopped /\ state # "End" THEN "Error" ELSE handled

\* Whatever it is given, the emitter writes a stream of well-formed documents
\* or stops.
WritesGrammar == Grammar!GrammarSpec

\* What the grammar allows next.
Allowed(type) ==
  CASE type = "StreamStart" -> StreamPhase = "before"
    [] type \in {"StreamEnd", "DocumentStart"} -> StreamPhase = "stream" /\ OpenFrames = <<>>
    [] type = "DocumentEnd" -> OpenFrames = <<"closed">>
    [] type = "SequenceEnd" -> OpenFrames # <<>> /\ Last(OpenFrames) = "items"
    [] type = "MappingEnd" -> OpenFrames # <<>> /\ Last(OpenFrames) = "key"
    [] OTHER -> OpenFrames # <<>> /\ Last(OpenFrames) # "closed"

\* It refuses no event that the grammar allows.
RefusesOnlyWrong == [][at' = "refused" => ~Allowed(First.type)]_emitterVars
=============================================================================
