---------------------------- MODULE EventGrammar ----------------------------
(***************************************************************************)
(* What every producer of YAML events promises and every consumer relies   *)
(* on: the sequence of events of one stream is well formed.  A stream is   *)
(* a StreamStart, documents, a StreamEnd; a document holds one root node;  *)
(* collections nest; a mapping closes only after complete key/value pairs. *)
(* The producer may give up with an error at any point, or be reset.       *)
(*                                                                         *)
(* The module names no parser state and no token: Parser implements it     *)
(* under a refinement mapping, the document loader and the emitter consume *)
(* the events it allows.                                                   *)
(***************************************************************************)
EXTENDS Sequences, SequencesExt

VARIABLES phase,   \* "before" the stream, "stream", after its "end", or "failed"
          open,    \* the frames of the open document and its open collections
          emitted  \* the type of the last event, "None" before the first

grammarVars == <<phase, open, emitted>>

\* What a frame still expects: the root node of a document, nothing more in
\* a document, any number of nodes, a key (or the end), the value of a key.
Frame == {"root", "closed", "items", "key", "value"}

Phase == {"before", "stream", "end", "failed"}

EventType == {"None", "StreamStart", "StreamEnd", "DocumentStart", "DocumentEnd",
              "Alias", "Scalar", "SequenceStart", "SequenceEnd",
              "MappingStart", "MappingEnd", "Error"}

GrammarTypeOK == /\ phase \in Phase
                 /\ open \in Seq(Frame)
                 /\ emitted \in EventType

GrammarInit == phase = "before" /\ open = <<>> /\ emitted = "None"

-----------------------------------------------------------------------------
\* The frame of a parent once a child node has started.
Advance == [root |-> "closed", items |-> "items", key |-> "value", value |-> "key"]

ExpectsNode == open # <<>> /\ Last(open) # "closed"

AfterNode == Append(Front(open), Advance[Last(open)])

StreamStart == /\ phase = "before"
               /\ phase' = "stream" /\ emitted' = "StreamStart"
               /\ UNCHANGED open

DocumentStart == /\ phase = "stream" /\ open = <<>>
                 /\ open' = <<"root">> /\ emitted' = "DocumentStart"
                 /\ UNCHANGED phase

DocumentEnd == /\ phase = "stream" /\ open = <<"closed">>
               /\ open' = <<>> /\ emitted' = "DocumentEnd"
               /\ UNCHANGED phase

Leaf == /\ phase = "stream" /\ ExpectsNode
        /\ open' = AfterNode
        /\ emitted' \in {"Alias", "Scalar"}
        /\ UNCHANGED phase

CollectionStart(type, frame) == /\ phase = "stream" /\ ExpectsNode
                                /\ open' = Append(AfterNode, frame)
                                /\ emitted' = type
                                /\ UNCHANGED phase

CollectionEnd(type, frame) == /\ phase = "stream"
                              /\ open # <<>> /\ Last(open) = frame
                              /\ open' = Front(open) /\ emitted' = type
                              /\ UNCHANGED phase

StreamEnd == /\ phase = "stream" /\ open = <<>>
             /\ phase' = "end" /\ emitted' = "StreamEnd"
             /\ UNCHANGED open

Fail == /\ phase \in {"before", "stream"}
        /\ phase' = "failed" /\ open' = <<>> /\ emitted' = "Error"

Reset == phase' = "before" /\ open' = <<>> /\ emitted' = "None"

GrammarNext == \/ StreamStart \/ DocumentStart \/ DocumentEnd \/ Leaf
               \/ CollectionStart("SequenceStart", "items")
               \/ CollectionStart("MappingStart", "key")
               \/ CollectionEnd("SequenceEnd", "items")
               \/ CollectionEnd("MappingEnd", "key")
               \/ StreamEnd \/ Fail \/ Reset

GrammarSpec == GrammarInit /\ [][GrammarNext]_grammarVars
=============================================================================
