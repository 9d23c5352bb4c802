------------------------------ MODULE RoundTrip ------------------------------
(***************************************************************************)
(* dump() and load() back to back: an application dumps documents and the  *)
(* loader reads them.  Between the two stand the emitter, the scanner and  *)
(* the parser, abstracted to a channel that hands over each event as it is *)
(* emitted; a dump that fails ends the stream for both.                    *)
(***************************************************************************)
EXTENDS Dumper, FiniteSets

VARIABLES phase, open, emitted,                        \* the parser's events
          lnodes, ctx, aliases, lat, answer, log       \* the loader
VARIABLE dumped  \* history: the document dumped

loading == <<phase, open, emitted, lnodes, ctx, aliases, lat, answer, log>>
roundTripVars == <<dumperVars, loading, dumped>>

Loader == INSTANCE Composer
            WITH nodes <- lnodes, at <- lat,
                 Anchors <- Nat \ {NoAnchor}, Again <- FALSE, MaxNodes <- MaxNodes,
                 MaxRefs <- MaxRefs + 1

\* The loader's step for the event that is emitted: one of load_nodes(), or one
\* around a document.
ReceivesNode(e) ==
  /\ Loader!LoadingNodes
  /\ CASE e.type = "Alias" -> Loader!AliasEvent(e.anchor) /\ Loader!HandleNode("Alias", e.anchor)
       [] e.type \in {"SequenceEnd", "MappingEnd"} ->
            Loader!EndEvent(e.type) /\ Loader!HandleNode(e.type, NoAnchor)
       [] OTHER -> Loader!NodeEvent(e.type, e.anchor) /\ Loader!HandleNode(e.type, e.anchor)

Receives(e) ==
  CASE e.type = "StreamStart" -> Loader!load_stream
    [] e.type = "StreamEnd" -> Loader!load_end
    [] e.type = "DocumentStart" -> Loader!load_document
    [] e.type = "DocumentEnd" -> Loader!load_nodes_end
    [] OTHER -> ReceivesNode(e)

RoundTripInit == DumperInit /\ Loader!ComposerInit /\ dumped = <<>>

\* A document is built,
Build == dumped = <<>> /\ build /\ UNCHANGED <<loading, dumped>>

\* and dumped, each event read as it comes; or the stream is closed.
Dump == \/ emits /\ Receives(out')
           /\ dumped' = IF at' = "anchoring" THEN source' ELSE dumped
        \/ (anchor_node \/ dump_panic) /\ UNCHANGED <<loading, dumped>>

\* The application drops what it loaded, before it goes on to the next document.
Drop == /\ at = "building" /\ dumped # <<>>
        /\ lnodes' = <<>> /\ log' = <<>> /\ dumped' = <<>>
        /\ UNCHANGED <<dumperVars, phase, open, emitted, ctx, aliases, lat, answer>>

\* After a failure it starts over with both.
Fails == (open_failed \/ emit_failed) /\ UNCHANGED <<loading, dumped>>

StartOver == /\ reset
             /\ Loader!Reset
             /\ lnodes' = <<>> /\ ctx' = <<>> /\ aliases' = <<>>
             /\ lat' = "idle" /\ answer' = "none" /\ log' = <<>> /\ dumped' = <<>>

RoundTripNext == Build \/ Dump \/ Drop \/ Fails \/ StartOver

\* Once called, dump() runs on.
RoundTripSpec == /\ RoundTripInit /\ [][RoundTripNext]_roundTripVars
                 /\ WF_roundTripVars(at # "building" /\ Dump)

-----------------------------------------------------------------------------
\* The nodes that the root reaches.
Reached(doc) ==
  LET Closure[k \in 0..Len(doc)] ==
        IF k = 0 THEN {1}
        ELSE Closure[k - 1] \cup UNION {{doc[n].children[i] : i \in DOMAIN doc[n].children}
                                           : n \in Closure[k - 1]}
  IN Closure[Len(doc)]

LoadedChildren(n) ==
  IF lnodes[n].kind = "Sequence" THEN lnodes[n].items
  ELSE FlattenSeq([i \in DOMAIN lnodes[n].pairs |-> <<lnodes[n].pairs[i].key,
                                                      lnodes[n].pairs[i].value>>])

\* What was dumped is what is loaded: the same nodes, as far as the root
\* reaches them, with the same children in the same order, shared and cyclic
\* ones included.
SameDocument ==
  (answer = "document" /\ at = "building" /\ dumped # <<>>) =>
    \E f \in [Reached(dumped) -> DOMAIN lnodes] :
      /\ f[1] = 1
      /\ \A m, n \in Reached(dumped) : f[m] = f[n] => m = n
      /\ Cardinality(Reached(dumped)) = Len(lnodes)
      /\ \A n \in Reached(dumped) :
           /\ lnodes[f[n]].kind = dumped[n].kind
           /\ LoadedChildren(f[n]) = [i \in DOMAIN dumped[n].children |-> f[dumped[n].children[i]]]

\* Each dump returns, that of a document that contains itself too, and unless
\* it fails or panics is loaded to its end: the loader refuses none of its
\* events.
DumpIsLoaded == (at = "anchoring") ~> (answer = "document" \/ at \in {"failed", "panic"})
=============================================================================
