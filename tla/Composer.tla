------------------------------- MODULE Composer -------------------------------
(***************************************************************************)
(* The document loader of src/document.rs: successive calls of             *)
(* Document::load() on one parser.  Each step takes one event of the       *)
(* parser, which EventGrammar describes, and runs its load_* handler: the  *)
(* node is pushed, its anchor registered, the node attached to the         *)
(* innermost open collection and, if it is one, opened itself.             *)
(*                                                                         *)
(* A node keeps its kind and the indices of its children (1, 2, ...; a     *)
(* pair waits for its value with the index 0); values, tags, styles and    *)
(* marks are left out.  A panic (an assert!, an unexpected event) is an    *)
(* answer of its own.                                                      *)
(***************************************************************************)
EXTENDS Naturals, EventGrammar

CONSTANTS Anchors,   \* the anchors the input may name: "id001" is 1
          MaxNodes,  \* the nodes of a document in the input
          MaxRefs,   \* the nodes and aliases of a document in the input
          Again      \* does the caller call load() again after an error?

NoAnchor == 0

ASSUME ComposerAssumption == /\ Anchors \subseteq Nat \ {NoAnchor}
                             /\ MaxNodes \in Nat
                             /\ MaxRefs \in Nat
                             /\ Again \in BOOLEAN

VARIABLES nodes,    \* document.nodes
          ctx,      \* the indices of the open collections, innermost last
          aliases,  \* parser.aliases: the anchors registered in this document
          at,       \* "idle" between two calls, "begun" or "loading" in one
          answer,   \* of the last call: "none", "document", "end", "error", "panic"
          log       \* history: the node events of the document being loaded

loaderVars == <<nodes, ctx, aliases, at, answer, log>>
composerVars == <<phase, open, emitted, nodes, ctx, aliases, at, answer, log>>

Kind == {"Scalar", "Sequence", "Mapping"}
NewNode(kind) == [kind |-> kind, items |-> <<>>, pairs |-> <<>>]

-----------------------------------------------------------------------------
\* The call is over, with or without a document.
Return(a) == answer' = a /\ at' = "idle" /\ ctx' = <<>>

\* Mutant: the anchors of a document stay registered after it.
AnswerKeepsAliases(a) == Return(a) /\ UNCHANGED aliases

\* delete_aliases() before the document or the error is returned.
Answer(a) == Return(a) /\ aliases' = <<>>

GiveUp == Answer("error") /\ nodes' = <<>>

Panic == Return("panic") /\ UNCHANGED <<nodes, aliases>>

-----------------------------------------------------------------------------
\* register_anchor()
Registered(anchor) == \E i \in DOMAIN aliases : aliases[i].anchor = anchor

WithAnchor(anchor, index) ==
  IF anchor = NoAnchor THEN aliases
  ELSE Append(aliases, [anchor |-> anchor, index |-> index])

\* Mutant: a value starts a pair of its own.
PairPerNode(parent, index) ==
  IF parent.kind = "Sequence" THEN [parent EXCEPT !.items = Append(@, index)]
  ELSE [parent EXCEPT !.pairs = Append(@, [key |-> index, value |-> 0])]

\* load_node_add(): the child becomes the next item, the value the last pair
\* waits for, or the key of a new pair.
Waiting(parent) == parent.pairs # <<>> /\ Last(parent.pairs).value = 0

WithChild(parent, index) ==
  CASE parent.kind = "Sequence" -> [parent EXCEPT !.items = Append(@, index)]
    [] parent.kind # "Sequence" /\ Waiting(parent) ->
         [parent EXCEPT !.pairs[Len(parent.pairs)].value = index]
    [] OTHER -> [parent EXCEPT !.pairs = Append(@, [key |-> index, value |-> 0])]

Orphaned == ctx # <<>> /\ nodes[Last(ctx)].kind = "Scalar"

Attached(list, index) ==
  IF ctx = <<>> THEN list
  ELSE [list EXCEPT ![Last(ctx)] = WithChild(@, index)]

-----------------------------------------------------------------------------
\* A handler that pushes a node; context is the stack it leaves.
LoadNode(kind, anchor, context) ==
  LET index == Len(nodes) + 1
  IN CASE anchor # NoAnchor /\ Registered(anchor) -> GiveUp
       [] ~(anchor # NoAnchor /\ Registered(anchor)) /\ Orphaned -> Panic
       [] OTHER -> /\ aliases' = WithAnchor(anchor, index)
                   /\ nodes' = Attached(Append(nodes, NewNode(kind)), index)
                   /\ ctx' = context
                   /\ UNCHANGED <<at, answer>>

load_scalar(anchor) == LoadNode("Scalar", anchor, ctx)

\* Mutants: a collection that is not opened, or opened as the next node.
OpenedNever(kind, anchor) == LoadNode(kind, anchor, ctx)
OpenedAhead(kind, anchor) == LoadNode(kind, anchor, Append(ctx, Len(nodes) + 2))

\* load_sequence() and load_mapping()
LoadCollection(kind, anchor) == LoadNode(kind, anchor, Append(ctx, Len(nodes) + 1))

\* Mutant: an undefined alias is passed over.
UndefinedSkipped(anchor) ==
  /\ nodes' = IF Registered(anchor)
              THEN Attached(nodes, (CHOOSE a \in {aliases[i] : i \in DOMAIN aliases} :
                                       a.anchor = anchor).index)
              ELSE nodes
  /\ UNCHANGED <<ctx, aliases, at, answer>>

\* Mutant: the alias names the last anchor.
AliasOfLast(anchor) ==
  IF Registered(anchor)
  THEN nodes' = Attached(nodes, Last(aliases).index) /\ UNCHANGED <<ctx, aliases, at, answer>>
  ELSE GiveUp

\* load_alias(): the first anchor of that name, which is the only one.
load_alias(anchor) ==
  IF Registered(anchor)
  THEN LET first == CHOOSE i \in DOMAIN aliases :
                      /\ aliases[i].anchor = anchor
                      /\ \A j \in 1..(i - 1) : aliases[j].anchor # anchor
       IN CASE Orphaned -> Panic
            [] OTHER -> /\ nodes' = Attached(nodes, aliases[first].index)
                        /\ UNCHANGED <<ctx, aliases, at, answer>>
  ELSE GiveUp

\* load_sequence_end() and load_mapping_end()
LoadCollectionEnd(kind) ==
  IF ctx = <<>> \/ nodes[Last(ctx)].kind # kind THEN Panic
  ELSE ctx' = Front(ctx) /\ UNCHANGED <<nodes, aliases, at, answer>>

-----------------------------------------------------------------------------
\* load_nodes(): the handler of one node event.
HandleNode(type, anchor) ==
  /\ CASE type = "Alias" -> load_alias(anchor)
       [] type = "Scalar" -> load_scalar(anchor)
       [] type = "SequenceStart" -> LoadCollection("Sequence", anchor)
       [] type = "MappingStart" -> LoadCollection("Mapping", anchor)
       [] type = "SequenceEnd" -> LoadCollectionEnd("Sequence")
       [] type = "MappingEnd" -> LoadCollectionEnd("Mapping")
  /\ log' = Append(log, [type |-> type, anchor |-> anchor])

\* The events that the parser may produce inside a document, with the bounds
\* on the input.
Refs == Len(SelectSeq(log, LAMBDA e : e.type \notin {"SequenceEnd", "MappingEnd"}))

AliasEvent(anchor) == Refs < MaxRefs /\ Leaf /\ emitted' = "Alias"

NodeEvent(type, anchor) ==
  /\ Len(nodes) < MaxNodes /\ Refs < MaxRefs
  /\ CASE type = "Scalar" -> Leaf /\ emitted' = "Scalar"
       [] type = "SequenceStart" -> CollectionStart("SequenceStart", "items")
       [] type = "MappingStart" -> CollectionStart("MappingStart", "key")

EndEvent(type) == CASE type = "SequenceEnd" -> CollectionEnd("SequenceEnd", "items")
                    [] type = "MappingEnd" -> CollectionEnd("MappingEnd", "key")

LoadingNodes == at = "loading" /\ answer = "none"

load_nodes == /\ LoadingNodes
              /\ \/ \E a \in Anchors : AliasEvent(a) /\ HandleNode("Alias", a)
                 \/ \E a \in Anchors \cup {NoAnchor},
                       t \in {"Scalar", "SequenceStart", "MappingStart"} :
                         NodeEvent(t, a) /\ HandleNode(t, a)
                 \/ \E t \in {"SequenceEnd", "MappingEnd"} :
                         EndEvent(t) /\ HandleNode(t, NoAnchor)

load_nodes_end == /\ LoadingNodes /\ DocumentEnd
                  /\ Answer("document")
                  /\ UNCHANGED <<nodes, log>>

load_nodes_failed == /\ LoadingNodes /\ Fail
                     /\ GiveUp
                     /\ UNCHANGED log

\* load_nodes() panics at StreamStart, StreamEnd and DocumentStart, which the
\* grammar does not allow inside a document.

-----------------------------------------------------------------------------
\* The caller stops at a panic and, unless Again, at an error.
Callable == at = "idle" /\ (answer \in {"none", "document"} \/ (answer = "error" /\ Again))

\* load(): the first call reads StreamStart first.
load_stream == /\ Callable /\ phase = "before"
               /\ StreamStart
               /\ at' = "begun" /\ answer' = "none"
               /\ UNCHANGED <<nodes, ctx, aliases, log>>

\* The next event of the call decides what it loads.
Opening == at = "begun" \/ (Callable /\ phase = "stream")

load_document == /\ Opening /\ DocumentStart
                 /\ at' = "loading" /\ answer' = "none"
                 /\ nodes' = <<>> /\ log' = <<>> /\ ctx' = <<>>
                 /\ UNCHANGED aliases

load_end == /\ Opening /\ StreamEnd
            /\ Return("end")
            /\ nodes' = <<>>
            /\ UNCHANGED <<aliases, log>>

load_failed == /\ (Opening \/ (Callable /\ phase = "before")) /\ Fail
               /\ GiveUp
               /\ UNCHANGED log

\* load_document() panics at anything but a DocumentStart: the rest of a
\* document whose loading failed.
load_unexpected == /\ Opening
                   /\ \/ Leaf \/ DocumentEnd
                      \/ CollectionStart("SequenceStart", "items")
                      \/ CollectionStart("MappingStart", "key")
                      \/ CollectionEnd("SequenceEnd", "items")
                      \/ CollectionEnd("MappingEnd", "key")
                   /\ Panic
                   /\ UNCHANGED log

ComposerInit == /\ GrammarInit
                /\ nodes = <<>> /\ ctx = <<>> /\ aliases = <<>>
                /\ at = "idle" /\ answer = "none" /\ log = <<>>

ComposerNext == \/ load_stream \/ load_document \/ load_end \/ load_failed
                \/ load_unexpected \/ load_nodes \/ load_nodes_end
                \/ load_nodes_failed

ComposerSpec == ComposerInit /\ [][ComposerNext]_composerVars
=============================================================================
