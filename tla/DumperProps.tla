------------------------------ MODULE DumperProps ------------------------------
(***************************************************************************)
(* What dump() must satisfy: its events follow the grammar whatever the    *)
(* document refers to, an alias names the node it stands for and no other, *)
(* the anchors of one document do not reach the next, and it returns.      *)
(***************************************************************************)
EXTENDS Dumper, FiniteSets

-----------------------------------------------------------------------------
\* How often a node of the document being dumped is referred to, by its root
\* only or by all its nodes; the root has one reference to begin with.
Occurrences(list, n) == Cardinality({i \in DOMAIN list : list[i] = n})
RootReferences(n) == Occurrences(source[1].children, n) + (IF n = 1 THEN 1 ELSE 0)
References(n) == Occurrences(FlattenSeq([m \in DOMAIN source |-> source[m].children]), n)
                   + (IF n = 1 THEN 1 ELSE 0)

\* dump() takes what load() and new() make: "The document object may be
\* generated using the load() function or the new() function"
\* (document.rs:569-570).
DumpNeverPanics == at # "panic"

\* The only documents it panics on: a node is shared, but not by the root and
\* its children alone, so that anchor_node does not see the second reference.
PanicOnlyBelowRoot ==
  at = "panic" => \E n \in DOMAIN source : References(n) >= 2 /\ RootReferences(n) < 2

\* While a document is dumped no two of its nodes have one anchor, and
\* exactly those the root refers to again have one: an alias then names one
\* node.  Between two dumps there is no anchor and the next number is 1,
\* whatever was dumped before and whether that failed.
AnchorsDistinct ==
  /\ at = "nodes" =>
       /\ \A n \in DOMAIN anchors : anchors[n].anchor # NoAnchor <=> RootReferences(n) >= 2
       /\ \A m, n \in DOMAIN anchors :
            anchors[m].anchor = anchors[n].anchor => m = n \/ anchors[n].anchor = NoAnchor
  /\ at = "building" => anchors = <<>> /\ lastAnchorId = 0

-----------------------------------------------------------------------------
\* The frames of EventGrammar that the loops of dump_node stand for.
FrameOf(call) ==
  CASE call.kind = "Sequence" -> "items"
    [] call.kind = "Mapping" -> IF Len(call.rest) % 2 = 0 THEN "key" ELSE "value"
    [] OTHER -> IF call.rest = <<>> THEN "closed" ELSE "root"

OpenFrames == CASE at = "anchoring" -> <<"root">>
                [] at = "nodes" -> [i \in DOMAIN work |-> FrameOf(work[i])]
                [] OTHER -> <<>>

StreamPhase == CASE at \in {"failed", "panic"} -> "failed"
                 [] at \notin {"failed", "panic"} /\ closed -> "end"
                 [] OTHER -> IF opened THEN "stream" ELSE "before"

Grammar == INSTANCE EventGrammar
             WITH phase <- StreamPhase, open <- OpenFrames,
                  emitted <- IF at \in {"failed", "panic"} THEN "Error" ELSE out.type

\* The events of successive dumps follow the grammar, so that the emitter
\* has no reason to refuse one.
DumpFollowsGrammar == Grammar!GrammarSpec
=============================================================================
