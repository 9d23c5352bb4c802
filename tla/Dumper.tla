-------------------------------- MODULE Dumper --------------------------------
(***************************************************************************)
(* Document::dump() of src/document.rs: an application builds documents    *)
(* with add_* and append_*, and dumps them one after the other to one      *)
(* emitter.  A node that is referenced again becomes an alias: anchor_node *)
(* counts references and numbers the anchors before dump_node walks the    *)
(* document, emitting one event per step.                                  *)
(*                                                                         *)
(* A node keeps its kind and its children: the items of a sequence, or the *)
(* keys and values of a mapping in turn.  The recursion of dump_node is a  *)
(* stack of the collections being dumped with the children still to come.  *)
(* The emitter is abstracted to emit(): it takes the event, or fails.      *)
(***************************************************************************)
EXTENDS Naturals, Sequences, SequencesExt

CONSTANTS MaxNodes,  \* the nodes of a document
          MaxRefs    \* the children of all its nodes together

ASSUME DumperAssumption == MaxNodes \in Nat /\ MaxRefs \in Nat

VARIABLES nodes,         \* document.nodes
          anchors,       \* emitter.anchors
          lastAnchorId,  \* emitter.last_anchor_id
          opened, closed,
          at,      \* "building", then in dump() "dumping", "anchoring", "nodes";
                   \* or stopped: "failed", "panic"
          work,    \* the calls of dump_node's loops: what is left to dump
          out,     \* the event last emitted and the node it stands for
          source   \* history: the document as it was when this dump() took it

dumperVars == <<nodes, anchors, lastAnchorId, opened, closed, at, work, out, source>>
emitterVars == <<anchors, lastAnchorId, opened, closed, work, out, source>>

NoAnchor == 0
Out(type, anchor, node) == [type |-> type, anchor |-> anchor, node |-> node]

-----------------------------------------------------------------------------
\* Building a document.
Building == at = "building"

Children == FlattenSeq([n \in DOMAIN nodes |-> nodes[n].children])

\* add_scalar(), add_sequence(), add_mapping()
add_node(kind) == /\ Building /\ Len(nodes) < MaxNodes
                  /\ nodes' = Append(nodes, [kind |-> kind, children |-> <<>>])
                  /\ UNCHANGED <<at, emitterVars>>

\* append_sequence_item() and yaml_document_append_mapping_pair(), with the
\* arguments their assertions allow.
append_children(kind, parent, children) ==
  /\ Building /\ nodes[parent].kind = kind
  /\ Len(Children) + Len(children) <= MaxRefs
  /\ nodes' = [nodes EXCEPT ![parent].children = @ \o children]
  /\ UNCHANGED <<at, emitterVars>>

build == \/ \E kind \in {"Scalar", "Sequence", "Mapping"} : add_node(kind)
         \/ \E parent, item \in DOMAIN nodes : append_children("Sequence", parent, <<item>>)
         \/ \E parent, key, value \in DOMAIN nodes :
              append_children("Mapping", parent, <<key, value>>)

-----------------------------------------------------------------------------
\* reset_anchors()
reset_anchors == anchors' = <<>> /\ lastAnchorId' = 0

\* Mutant: open() does not note that it was called.
OpenUnnoted == /\ Building /\ ~opened
               /\ out' = Out("StreamStart", NoAnchor, 0)
               /\ at' \in {"building", "dumping"}
               /\ UNCHANGED <<nodes, anchors, lastAnchorId, opened, closed, work, source>>

\* open(), called by dump() or before it.
dump_open == /\ Building /\ ~opened
             /\ out' = Out("StreamStart", NoAnchor, 0)
             /\ opened' = TRUE
             /\ at' \in {"building", "dumping"}
             /\ UNCHANGED <<nodes, anchors, lastAnchorId, closed, work, source>>

\* The open() of dump() fails.
open_failed == /\ Building /\ ~opened
               /\ reset_anchors
               /\ at' = "failed"
               /\ UNCHANGED <<nodes, opened, closed, work, out, source>>

Dumping == at = "dumping" \/ (Building /\ opened)

\* dump() of an empty document: close(), which emits StreamEnd once.
dump_close == /\ Dumping /\ nodes = <<>> /\ ~closed
              /\ out' = Out("StreamEnd", NoAnchor, 0)
              /\ closed' = TRUE /\ at' = "building"
              /\ reset_anchors
              /\ UNCHANGED <<nodes, opened, work, source>>

\* dump() up to the DocumentStart event.  The caller dumps nothing after the
\* empty document that ends the stream.
dump_begin == /\ Dumping /\ nodes # <<>> /\ ~closed
              /\ anchors' = [n \in DOMAIN nodes |->
                               [references |-> 0, anchor |-> NoAnchor, serialized |-> FALSE]]
              /\ out' = Out("DocumentStart", NoAnchor, 0)
              /\ at' = "anchoring" /\ source' = nodes
              /\ UNCHANGED <<nodes, lastAnchorId, opened, closed, work>>

-----------------------------------------------------------------------------
\* Mutant: the number of an anchor is not used up.
NumberUnadvanced(count, n) ==
  LET refs == count.anchors[n].references + 1
  IN [anchors |-> [count.anchors EXCEPT ![n].references = refs,
                                        ![n].anchor = IF refs = 2 THEN count.last + 1 ELSE @],
      last |-> count.last]

\* anchor_node_sub(): one more reference; the second one numbers the anchor.
Referenced(count, n) ==
  LET refs == count.anchors[n].references + 1
      id == IF refs = 2 THEN count.last + 1 ELSE count.last
  IN [anchors |-> [count.anchors EXCEPT ![n].references = refs,
                                        ![n].anchor = IF refs = 2 THEN id ELSE @],
      last |-> id]

\* Mutant: the root itself is not counted.
ChildrenNumbered(n) ==
  FoldLeft(Referenced, [anchors |-> anchors, last |-> lastAnchorId], nodes[n].children)

\* anchor_node(): the node and its children; it does not descend further.
Numbered(n) ==
  FoldLeft(Referenced,
           Referenced([anchors |-> anchors, last |-> lastAnchorId], n),
           nodes[n].children)

anchor_node == /\ at = "anchoring"
               /\ anchors' = Numbered(1).anchors
               /\ lastAnchorId' = Numbered(1).last
               /\ work' = <<[kind |-> "Document", rest |-> <<1>>]>>
               /\ at' = "nodes"
               /\ UNCHANGED <<nodes, opened, closed, out, source>>

-----------------------------------------------------------------------------
\* dump_node(), called for the next child of the innermost collection.
Current == Last(work)
Visiting == at = "nodes" /\ Current.rest # <<>>
Visited == Head(Current.rest)

\* The loop goes on with the next child once this one is dumped.
Moved == Append(Front(work), [Current EXCEPT !.rest = Tail(@)])

dump_alias == /\ Visiting /\ anchors[Visited].serialized
              /\ anchors[Visited].anchor # NoAnchor
              /\ out' = Out("Alias", anchors[Visited].anchor, Visited)
              /\ work' = Moved
              /\ UNCHANGED <<nodes, anchors, lastAnchorId, opened, closed, at, source>>

\* anchor.unwrap() of a node that was not numbered.
dump_panic == /\ Visiting /\ anchors[Visited].serialized
              /\ anchors[Visited].anchor = NoAnchor
              /\ at' = "panic"
              /\ UNCHANGED <<nodes, emitterVars>>

\* The node is marked before it is emitted, and taken out of the document.
Serialize(n) == /\ anchors' = [anchors EXCEPT ![n].serialized = TRUE]
                /\ nodes' = [nodes EXCEPT ![n] = [kind |-> "NoNode", children |-> <<>>]]

dump_scalar == /\ Visiting /\ ~anchors[Visited].serialized
               /\ nodes[Visited].kind = "Scalar"
               /\ Serialize(Visited)
               /\ out' = Out("Scalar", anchors[Visited].anchor, Visited)
               /\ work' = Moved
               /\ UNCHANGED <<lastAnchorId, opened, closed, at, source>>

\* Mutant: the anchor of a mapping is left out.
MappingUnnamed(kind, type) ==
  /\ Visiting /\ ~anchors[Visited].serialized
  /\ nodes[Visited].kind = kind
  /\ Serialize(Visited)
  /\ out' = Out(type, IF kind = "Mapping" THEN NoAnchor ELSE anchors[Visited].anchor, Visited)
  /\ work' = Append(Moved, [kind |-> kind, rest |-> nodes[Visited].children])
  /\ UNCHANGED <<lastAnchorId, opened, closed, at, source>>

\* dump_sequence() and dump_mapping() up to their loops.
dump_collection(kind, type) ==
  /\ Visiting /\ ~anchors[Visited].serialized
  /\ nodes[Visited].kind = kind
  /\ Serialize(Visited)
  /\ out' = Out(type, anchors[Visited].anchor, Visited)
  /\ work' = Append(Moved, [kind |-> kind, rest |-> nodes[Visited].children])
  /\ UNCHANGED <<lastAnchorId, opened, closed, at, source>>

\* Their ends.
dump_collection_end(kind, type) ==
  /\ at = "nodes" /\ Current.kind = kind /\ Current.rest = <<>>
  /\ out' = Out(type, NoAnchor, 0)
  /\ work' = Front(work)
  /\ UNCHANGED <<nodes, anchors, lastAnchorId, opened, closed, at, source>>

\* The end of dump(), which consumes the document.
dump_end == /\ at = "nodes" /\ Current.kind = "Document" /\ Current.rest = <<>>
            /\ out' = Out("DocumentEnd", NoAnchor, 0)
            /\ reset_anchors
            /\ nodes' = <<>> /\ work' = <<>> /\ source' = <<>> /\ at' = "building"
            /\ UNCHANGED <<opened, closed>>

\* An emit() of dump() other than open()'s fails: `?` returns at once.
emit_failed == /\ \/ Dumping /\ ~closed
                  \/ at = "nodes" /\ ~(Visiting /\ anchors[Visited].serialized
                                         /\ anchors[Visited].anchor = NoAnchor)
               /\ at' = "failed"
               /\ UNCHANGED <<nodes, emitterVars>>

\* After a failure the application starts over with Emitter::reset().
reset == /\ at = "failed"
         /\ nodes' = <<>> /\ work' = <<>> /\ source' = <<>> /\ at' = "building"
         /\ opened' = FALSE /\ closed' = FALSE
         /\ reset_anchors
         /\ out' = Out("None", NoAnchor, 0)

-----------------------------------------------------------------------------
DumperInit == /\ nodes = <<>> /\ anchors = <<>> /\ lastAnchorId = 0
              /\ opened = FALSE /\ closed = FALSE /\ at = "building"
              /\ work = <<>> /\ source = <<>>
              /\ out = Out("None", NoAnchor, 0)

\* The steps that emit an event, and those that do not.
emits == \/ dump_open \/ dump_close \/ dump_begin
         \/ dump_alias \/ dump_scalar
         \/ dump_collection("Sequence", "SequenceStart")
         \/ dump_collection("Mapping", "MappingStart")
         \/ dump_collection_end("Sequence", "SequenceEnd")
         \/ dump_collection_end("Mapping", "MappingEnd")
         \/ dump_end

emitsNot == build \/ open_failed \/ anchor_node \/ dump_panic \/ emit_failed \/ reset

DumperNext == emits \/ emitsNot

DumperSpec == DumperInit /\ [][DumperNext]_dumperVars
=============================================================================
