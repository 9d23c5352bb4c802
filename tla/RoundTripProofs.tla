--------------------------- MODULE RoundTripProofs ---------------------------
(***************************************************************************)
(* Proofs about the round trip, for documents of any size: the loader in   *)
(* it is one that Composer specifies, and what it loads is what was        *)
(* dumped.                                                                 *)
(*                                                                         *)
(* While a document is written, a function f maps each node that dump_node *)
(* has marked to its copy.  The loops of dump_node are the collections     *)
(* that the loader has open, and what a loop has still to visit are the    *)
(* children that its copy has still to get (Loops); any other copy is      *)
(* complete (Settled).  The copies have to be just what the root reaches:  *)
(* a node is copied only when the root reaches it, over no more children   *)
(* than there are copies before its own, and at the end every child of a   *)
(* copied node is copied.                                                  *)
(***************************************************************************)
EXTENDS DumperProofs

\* The loader of the round trip, with what is proved of loaders.
Load == INSTANCE ComposerProofs
          WITH nodes <- lnodes, at <- lat,
               Anchors <- Nat \ {NoAnchor}, Again <- FALSE, MaxNodes <- MaxNodes,
               MaxRefs <- MaxRefs + 1

\* The constants of the round trip are ones of a loader.
LEMMA LoaderConstants ==
  /\ Load!NoAnchor = 0
  /\ Nat \ {NoAnchor} \subseteq Nat \ {Load!NoAnchor}
  /\ MaxNodes \in Nat /\ MaxRefs + 1 \in Nat /\ FALSE \in BOOLEAN
BY DumperAssumption DEF NoAnchor, Load!NoAnchor

\* The two instances of the loader have the same steps: around a document,
LEMMA LoaderOutside ==
  /\ Loader!load_stream <=> Load!load_stream
  /\ Loader!load_end <=> Load!load_end
  /\ Loader!load_document <=> Load!load_document
  /\ Loader!load_nodes_end <=> Load!load_nodes_end
  /\ Loader!LoadingNodes <=> Load!LoadingNodes
BY DEF Loader!load_stream, Load!load_stream, Loader!load_end, Load!load_end,
       Loader!load_document, Load!load_document, Loader!load_nodes_end, Load!load_nodes_end,
       Loader!LoadingNodes, Load!LoadingNodes, Loader!Callable, Load!Callable,
       Loader!Opening, Load!Opening, Loader!Return, Load!Return, Loader!Answer, Load!Answer,
       Loader!StreamStart, Load!StreamStart, Loader!StreamEnd, Load!StreamEnd,
       Loader!DocumentStart, Load!DocumentStart, Loader!DocumentEnd, Load!DocumentEnd

\* in the events that they expect,
LEMMA LoaderEvents ==
  /\ \A a : Loader!AliasEvent(a) <=> Load!AliasEvent(a)
  /\ \A t \in Load!Starts : \A a : Loader!NodeEvent(t, a) <=> Load!NodeEvent(t, a)
  /\ \A t \in Load!Ends : Loader!EndEvent(t) <=> Load!EndEvent(t)
<1>1. Loader!Refs = Load!Refs
  BY DEF Loader!Refs, Load!Refs
<1>2. /\ Loader!ExpectsNode <=> Load!ExpectsNode
      /\ Loader!AfterNode = Load!AfterNode
  BY DEF Loader!ExpectsNode, Load!ExpectsNode, Loader!AfterNode, Load!AfterNode,
         Loader!Advance, Load!Advance, Loader!Last, Load!Last, Loader!Front, Load!Front
<1>3. /\ Loader!Leaf <=> Load!Leaf
      /\ \A type, frame : /\ Loader!CollectionStart(type, frame) <=> Load!CollectionStart(type, frame)
                          /\ Loader!CollectionEnd(type, frame) <=> Load!CollectionEnd(type, frame)
  BY <1>2 DEF Loader!Leaf, Load!Leaf, Loader!CollectionStart, Load!CollectionStart,
              Loader!CollectionEnd, Load!CollectionEnd, Loader!Last, Load!Last, Loader!Front, Load!Front
<1>4. \A a : Loader!AliasEvent(a) <=> Load!AliasEvent(a)
  BY <1>1, <1>3 DEF Loader!AliasEvent, Load!AliasEvent
<1>5. \A t \in Load!Starts : \A a : Loader!NodeEvent(t, a) <=> Load!NodeEvent(t, a)
  <2>1. \A a : Loader!NodeEvent("Scalar", a) <=> Load!NodeEvent("Scalar", a)
    BY <1>1, <1>3 DEF Loader!NodeEvent, Load!NodeEvent
  <2>2. \A a : Loader!NodeEvent("SequenceStart", a) <=> Load!NodeEvent("SequenceStart", a)
    BY <1>1, <1>3 DEF Loader!NodeEvent, Load!NodeEvent
  <2>3. \A a : Loader!NodeEvent("MappingStart", a) <=> Load!NodeEvent("MappingStart", a)
    BY <1>1, <1>3 DEF Loader!NodeEvent, Load!NodeEvent
  <2> QED BY <2>1, <2>2, <2>3 DEF Load!Starts, Load!Opens
<1>6. \A t \in Load!Ends : Loader!EndEvent(t) <=> Load!EndEvent(t)
  <2>1. Loader!EndEvent("SequenceEnd") <=> Load!EndEvent("SequenceEnd")
    BY <1>3 DEF Loader!EndEvent, Load!EndEvent
  <2>2. Loader!EndEvent("MappingEnd") <=> Load!EndEvent("MappingEnd")
    BY <1>3 DEF Loader!EndEvent, Load!EndEvent
  <2> QED BY <2>1, <2>2 DEF Load!Ends
<1> QED BY <1>4, <1>5, <1>6

\* and in what they do with them.
LEMMA LoaderHandles ==
  \A t, a : Loader!HandleNode(t, a) <=> Load!HandleNode(t, a)
<1>1. /\ \A a : Loader!Registered(a) <=> Load!Registered(a)
      /\ \A a, i : Loader!WithAnchor(a, i) = Load!WithAnchor(a, i)
      /\ Loader!NoAnchor = Load!NoAnchor
      /\ Loader!GiveUp <=> Load!GiveUp
      /\ Loader!Panic <=> Load!Panic
      /\ \A k : Loader!NewNode(k) = Load!NewNode(k)
  BY DEF Loader!Registered, Load!Registered, Loader!WithAnchor, Load!WithAnchor, Loader!NoAnchor,
         Load!NoAnchor, Loader!GiveUp, Load!GiveUp, Loader!Panic, Load!Panic, Loader!Answer,
         Load!Answer, Loader!Return, Load!Return, Loader!NewNode, Load!NewNode
<1>2. /\ Loader!Orphaned <=> Load!Orphaned
      /\ \A p, i : Loader!WithChild(p, i) = Load!WithChild(p, i)
  BY DEF Loader!Orphaned, Load!Orphaned, Loader!WithChild, Load!WithChild, Loader!Waiting,
         Load!Waiting, Loader!Last, Load!Last
<1>3. \A l, i : Loader!Attached(l, i) = Load!Attached(l, i)
  BY <1>2 DEF Loader!Attached, Load!Attached, Loader!Last, Load!Last
<1>4. \A k, a, c : Loader!LoadNode(k, a, c) <=> Load!LoadNode(k, a, c)
  BY <1>1, <1>2, <1>3 DEF Loader!LoadNode, Load!LoadNode
<1>5. \A a : Loader!load_alias(a) <=> Load!load_alias(a)
  BY <1>1, <1>2, <1>3 DEF Loader!load_alias, Load!load_alias
<1>6. \A k : Loader!LoadCollectionEnd(k) <=> Load!LoadCollectionEnd(k)
  BY <1>1 DEF Loader!LoadCollectionEnd, Load!LoadCollectionEnd, Loader!Last, Load!Last,
              Loader!Front, Load!Front
<1> QED BY <1>4, <1>5, <1>6
        DEF Loader!HandleNode, Load!HandleNode, Loader!load_scalar, Load!load_scalar,
            Loader!LoadCollection, Load!LoadCollection

-----------------------------------------------------------------------------
\* What the loader does with an event of a node, and that it is a step of load().
LEMMA AliasReceived ==
  ASSUME NEW e, NEW a \in Nat \ {NoAnchor}, Receives(e), e.type = "Alias", e.anchor = a
  PROVE  /\ Load!LoadingNodes /\ Load!AliasEvent(a) /\ Load!HandleNode("Alias", a)
         /\ Load!load_nodes
<1>1. ReceivesNode(e)
  BY DEF Receives
<1>2. Loader!LoadingNodes /\ Loader!AliasEvent(a) /\ Loader!HandleNode("Alias", a)
  BY <1>1 DEF ReceivesNode
<1>3. Load!LoadingNodes /\ Load!AliasEvent(a) /\ Load!HandleNode("Alias", a)
  BY <1>2, LoaderOutside, LoaderEvents, LoaderHandles
<1> QED BY <1>3 DEF Load!load_nodes

\* The start of a node is received.
LEMMA NodeReceived ==
  ASSUME NEW e, NEW t \in Load!Starts, NEW a \in Nat, Receives(e), e.type = t, e.anchor = a
  PROVE  /\ Load!LoadingNodes /\ Load!NodeEvent(t, a) /\ Load!HandleNode(t, a)
         /\ Load!load_nodes
<1>1. ReceivesNode(e)
  BY DEF Receives, Load!Starts, Load!Opens
<1>2. Loader!LoadingNodes /\ Loader!NodeEvent(t, a) /\ Loader!HandleNode(t, a)
  <2>1. t # "Alias" /\ t \notin {"SequenceEnd", "MappingEnd"}
    BY DEF Load!Starts, Load!Opens
  <2> QED BY <1>1, <2>1 DEF ReceivesNode
<1>3. Load!LoadingNodes /\ Load!NodeEvent(t, a) /\ Load!HandleNode(t, a)
  BY <1>2, LoaderOutside, LoaderEvents, LoaderHandles
<1>4. /\ a \in (Nat \ {NoAnchor}) \cup {Load!NoAnchor}
      /\ t \in {"Scalar", "SequenceStart", "MappingStart"}
  BY DEF NoAnchor, Load!NoAnchor, Load!Starts, Load!Opens
<1> QED BY <1>3, <1>4 DEF Load!load_nodes

\* The end of a collection is received.
LEMMA EndReceived ==
  ASSUME NEW e, NEW t \in Load!Ends, Receives(e), e.type = t
  PROVE  /\ Load!LoadingNodes /\ Load!EndEvent(t) /\ Load!HandleNode(t, NoAnchor)
         /\ Load!load_nodes
<1>1. ReceivesNode(e)
  BY DEF Receives, Load!Ends
<1>2. Loader!LoadingNodes /\ Loader!EndEvent(t) /\ Loader!HandleNode(t, NoAnchor)
  <2>1. t # "Alias" /\ t \in {"SequenceEnd", "MappingEnd"}
    BY DEF Load!Ends
  <2> QED BY <1>1, <2>1 DEF ReceivesNode
<1>3. Load!LoadingNodes /\ Load!EndEvent(t) /\ Load!HandleNode(t, NoAnchor)
  BY <1>2, LoaderOutside, LoaderEvents, LoaderHandles
<1>4. NoAnchor = Load!NoAnchor /\ t \in {"SequenceEnd", "MappingEnd"}
  BY DEF NoAnchor, Load!NoAnchor, Load!Ends
<1> QED BY <1>3, <1>4 DEF Load!load_nodes

\* The anchor of the node that is dumped next.
LEMMA VisitedAnchor ==
  ASSUME DumperInv, Visiting
  PROVE  anchors[Visited].anchor \in Nat
<1>1. Visited \in 1..Len(nodes) /\ anchors \in [1..Len(nodes) -> AnchorRecord]
  BY VisitFacts
<1> QED BY <1>1 DEF AnchorRecord

\* Whatever dump() emits, the loader's step for it is one of load().
LEMMA ReceivesLoads ==
  ASSUME DumperInv, emits, Receives(out')
  PROVE  Load!ComposerNext
<1>1. CASE dump_open
  <2>1. out'.type = "StreamStart"
    BY <1>1 DEF dump_open, Out
  <2> QED BY <2>1, LoaderOutside DEF Receives, Load!ComposerNext
<1>2. CASE dump_close
  <2>1. out'.type = "StreamEnd"
    BY <1>2 DEF dump_close, Out
  <2> QED BY <2>1, LoaderOutside DEF Receives, Load!ComposerNext
<1>3. CASE dump_begin
  <2>1. out'.type = "DocumentStart"
    BY <1>3 DEF dump_begin, Out
  <2> QED BY <2>1, LoaderOutside DEF Receives, Load!ComposerNext
<1>4. CASE dump_end
  <2>1. out'.type = "DocumentEnd"
    BY <1>4 DEF dump_end, Out
  <2> QED BY <2>1, LoaderOutside DEF Receives, Load!ComposerNext
<1>5. CASE dump_alias
  <2>1. PICK e \in {out'}, a \in Nat \ {NoAnchor} : e = out' /\ e.type = "Alias" /\ e.anchor = a
    BY <1>5, VisitedAnchor DEF dump_alias, Out
  <2> QED BY <2>1, AliasReceived DEF Load!ComposerNext
<1>6. CASE \/ dump_scalar \/ dump_collection("Sequence", "SequenceStart")
           \/ dump_collection("Mapping", "MappingStart")
  <2>1. PICK e \in {out'}, t \in Load!Starts, a \in Nat : e = out' /\ e.type = t /\ e.anchor = a
    BY <1>6, VisitedAnchor DEF dump_scalar, dump_collection, Out, Load!Starts, Load!Opens
  <2> QED BY <2>1, NodeReceived DEF Load!ComposerNext
<1>7. CASE \/ dump_collection_end("Sequence", "SequenceEnd")
           \/ dump_collection_end("Mapping", "MappingEnd")
  <2>1. PICK e \in {out'}, t \in Load!Ends : e = out' /\ e.type = t
    BY <1>7 DEF dump_collection_end, Out, Load!Ends
  <2> QED BY <2>1, EndReceived DEF Load!ComposerNext
<1> QED BY <1>1, <1>2, <1>3, <1>4, <1>5, <1>6, <1>7 DEF emits

\* The loader is one of Composer, but for a document that the application drops;
\* between two documents nothing is open.
LoaderInv ==
  /\ Load!ComposerInv
  /\ dumped # <<>> => Load!DocumentInv
  /\ lat # "loading" => ctx = <<>>
  /\ at \in {"building", "dumping"} => lat # "loading"

\* What a step of the loader, or none, keeps.
LEMMA LoaderNext ==
  ASSUME LoaderInv, Load!ComposerNext \/ UNCHANGED Load!composerVars
  PROVE  /\ Load!ComposerInv' /\ (Load!DocumentInv => Load!DocumentInv')
         /\ lat' # "loading" => ctx' = <<>>
<1>1. Load!ComposerInv
  BY DEF LoaderInv
<1>2. Load!ComposerInv'
  BY <1>1, LoaderConstants, Load!ComposerStep, Load!ComposerStutter
<1>3. Load!DocumentInv => Load!DocumentInv'
  BY <1>1, LoaderConstants, Load!DocumentStep
<1>4. lat' # "loading" => ctx' = <<>>
  <2>1. CASE UNCHANGED Load!composerVars
    BY <2>1 DEF LoaderInv, Load!composerVars
  <2>2. CASE Load!load_stream \/ Load!load_document
    BY <2>2 DEF LoaderInv, Load!load_stream, Load!load_document, Load!Callable
  <2>3. CASE Load!load_end \/ Load!load_failed \/ Load!load_unexpected
    BY <2>3 DEF Load!load_end, Load!load_failed, Load!load_unexpected, Load!GiveUp, Load!Answer,
                Load!Panic, Load!Return
  <2>4. CASE Load!load_nodes_end \/ Load!load_nodes_failed
    BY <2>4 DEF Load!load_nodes_end, Load!load_nodes_failed, Load!GiveUp, Load!Answer, Load!Return
  <2>5. CASE Load!load_nodes
    <3>1. PICK t, a : Load!HandleNode(t, a) /\ t \in Load!Starts \cup Load!Ends \cup {"Alias"}
      BY <2>5 DEF Load!load_nodes, Load!Starts, Load!Opens, Load!Ends
    <3>2. lat = "loading"
      BY <2>5 DEF Load!load_nodes, Load!LoadingNodes
    <3>3. ASSUME NEW kind, NEW context, Load!LoadNode(kind, a, context)
          PROVE  lat' # "loading" => ctx' = <<>>
      BY <3>2, <3>3 DEF Load!LoadNode, Load!GiveUp, Load!Answer, Load!Panic, Load!Return
    <3>4. ASSUME Load!load_alias(a) PROVE lat' # "loading" => ctx' = <<>>
      BY <3>2, <3>4 DEF Load!load_alias, Load!GiveUp, Load!Answer, Load!Panic, Load!Return
    <3>5. ASSUME NEW kind, Load!LoadCollectionEnd(kind) PROVE lat' # "loading" => ctx' = <<>>
      BY <3>2, <3>5 DEF Load!LoadCollectionEnd, Load!Panic, Load!Return
    <3> QED BY <3>1, <3>3, <3>4, <3>5
            DEF Load!HandleNode, Load!load_scalar, Load!LoadCollection, Load!Starts, Load!Opens,
                Load!Ends
  <2> QED BY <2>1, <2>2, <2>3, <2>4, <2>5 DEF Load!ComposerNext
<1> QED BY <1>2, <1>3, <1>4

\* Nothing is loaded and nothing was: what the application makes of the loader
\* when it drops a document or starts over.
LEMMA LoaderIdle ==
  ASSUME lnodes' = <<>>, ctx' = <<>>, aliases' = <<>>, lat' = "idle",
         answer' \in {"none", "document", "end", "error", "panic"},
         Load!GrammarTypeOK', Load!Phases'
  PROVE  Load!ComposerInv'
<1>1. Load!ComposerTypeOK'
  BY DEF Load!ComposerTypeOK, Load!NodeIndex
<1>2. Load!ContextMirrorsFrames' /\ Load!Rising' /\ Load!AnchorsLocal'
  BY DEF Load!ContextMirrorsFrames, Load!Rising, Load!AnchorsLocal
<1> QED BY <1>1, <1>2 DEF Load!ComposerInv

\* What a step of the application keeps of the loader.
LEMMA LoaderKept ==
  ASSUME DumperInv, LoaderInv, [RoundTripNext]_roundTripVars
  PROVE  LoaderInv'
<1>1. CASE Build \/ Fails \/ (anchor_node /\ UNCHANGED <<loading, dumped>>)
           \/ (dump_panic /\ UNCHANGED <<loading, dumped>>) \/ UNCHANGED roundTripVars
  <2>1. UNCHANGED Load!composerVars /\ dumped' = dumped /\ lat' = lat
    BY <1>1 DEF Build, Fails, loading, roundTripVars, Load!composerVars
  <2>2. at' \in {"building", "dumping"} => at \in {"building", "dumping"}
    BY <1>1 DEF Build, Fails, build, add_node, append_children, open_failed, emit_failed, anchor_node,
                dump_panic, roundTripVars, dumperVars
  <2> QED BY <2>1, <2>2, LoaderNext DEF LoaderInv
<1>2. CASE emits /\ Receives(out') /\ dumped' = IF at' = "anchoring" THEN source' ELSE dumped
  <2>1. Load!ComposerNext
    BY <1>2, ReceivesLoads
  <2>2. dumped' # <<>> => Load!DocumentInv'
    <3>1. CASE at' = "anchoring"
      <4>1. dump_begin
        BY <1>2, <3>1 DEF emits, dump_open, dump_close, dump_begin, dump_alias, dump_scalar,
              dump_collection, dump_collection_end, dump_end, Building, Visiting
      <4>2. out'.type = "DocumentStart"
        BY <4>1 DEF dump_begin, Out
      <4>3. Load!load_document
        BY <1>2, <4>2, LoaderOutside DEF Receives
      <4> QED BY <4>3, LoaderConstants, Load!EmptyDocument
    <3>2. CASE at' # "anchoring"
      BY <1>2, <2>1, <3>2, LoaderNext DEF LoaderInv
    <3> QED BY <3>1, <3>2
  <2>3. at' \in {"building", "dumping"} => lat' # "loading"
    <3>1. CASE dump_open \/ dump_close \/ dump_end
      <4>1. out'.type \in {"StreamStart", "StreamEnd", "DocumentEnd"}
        BY <3>1 DEF dump_open, dump_close, dump_end, Out
      <4>2. Load!load_stream \/ Load!load_end \/ Load!load_nodes_end
        BY <1>2, <4>1, LoaderOutside DEF Receives
      <4> QED BY <4>2 DEF Load!load_stream, Load!load_end, Load!load_nodes_end, Load!Answer, Load!Return
    <3>2. CASE ~(dump_open \/ dump_close \/ dump_end)
      BY <1>2, <3>2 DEF emits, dump_begin, dump_alias, dump_scalar, dump_collection,
                        dump_collection_end, Visiting
    <3> QED BY <3>1, <3>2
  <2> QED BY <2>1, <2>2, <2>3, LoaderNext DEF LoaderInv
<1>3. CASE Drop
  <2>1. /\ lat # "loading" /\ ctx = <<>> /\ Load!ComposerInv
        /\ UNCHANGED <<at, phase, open, emitted, ctx, aliases, lat, answer>>
        /\ lnodes' = <<>> /\ dumped' = <<>>
    BY <1>3 DEF Drop, LoaderInv, dumperVars
  <2>2. aliases = <<>> /\ Load!GrammarTypeOK /\ Load!Phases /\ ctx = <<>>
    BY <2>1 DEF Load!ComposerInv, Load!AnchorsLocal, Load!ComposerTypeOK
  <2>3. Load!GrammarTypeOK' /\ Load!Phases'
    BY <2>1, <2>2 DEF Load!GrammarTypeOK, Load!Phases
  <2>4. lat \in {"idle", "begun"} /\ answer \in {"none", "document", "end", "error", "panic"}
    BY <2>1 DEF Load!ComposerInv, Load!ComposerTypeOK
  <2>5. Load!ComposerInv'
    <3>1. Load!ComposerTypeOK'
      BY <2>1, <2>2, <2>3, <2>4 DEF Load!ComposerTypeOK, Load!NodeIndex
    <3>2. Load!ContextMirrorsFrames' /\ Load!Rising' /\ Load!AnchorsLocal'
      BY <2>1, <2>2 DEF Load!ContextMirrorsFrames, Load!Rising, Load!AnchorsLocal
    <3> QED BY <2>3, <3>1, <3>2 DEF Load!ComposerInv
  <2> QED BY <2>1, <2>5 DEF LoaderInv
<1>4. CASE StartOver
  <2>1. /\ phase' = "before" /\ open' = <<>> /\ emitted' = "None" /\ dumped' = <<>>
        /\ lnodes' = <<>> /\ ctx' = <<>> /\ aliases' = <<>> /\ lat' = "idle" /\ answer' = "none"
    BY <1>4 DEF StartOver, Loader!Reset
  <2>2. Load!GrammarTypeOK' /\ Load!Phases'
    BY <2>1 DEF Load!GrammarTypeOK, Load!Phases, Load!Phase, Load!Frame, Load!EventType
  <2> QED BY <2>1, <2>2, LoaderIdle DEF LoaderInv
<1> QED BY <1>1, <1>2, <1>3, <1>4 DEF RoundTripNext, Dump

\* It holds at first.
LEMMA LoaderStarts ==
  ASSUME RoundTripInit
  PROVE  LoaderInv
<1>1. /\ phase = "before" /\ open = <<>> /\ emitted = "None" /\ dumped = <<>>
      /\ lnodes = <<>> /\ ctx = <<>> /\ aliases = <<>> /\ lat = "idle" /\ answer = "none" /\ log = <<>>
  BY DEF RoundTripInit, Loader!ComposerInit, Loader!GrammarInit
<1>2. Load!ComposerInit
  BY <1>1 DEF Load!ComposerInit, Load!GrammarInit
<1>3. Load!ComposerInv
  BY <1>2, LoaderConstants, Load!ComposerStart
<1> QED BY <1>1, <1>3 DEF LoaderInv

\* The loader is one of Composer in the round trip as well, whatever the
\* application builds, drops and starts over with: Document::load.
THEOREM RoundTripLoads == RoundTripSpec => []LoaderInv
<1>1. RoundTripInit => LoaderInv
  BY LoaderStarts
<1>2. DumperInv /\ LoaderInv /\ [RoundTripNext]_roundTripVars => LoaderInv'
  BY LoaderKept
<1> QED BY <1>1, <1>2, RoundTripDumps, DumperInvariant, PTL DEF RoundTripSpec

-----------------------------------------------------------------------------
\* The function by which Reached is defined: the nodes within k children of
\* the root.
ChildNodes(doc, n) == {doc[n].children[i] : i \in DOMAIN doc[n].children}

Closes(w, doc, m) ==
  w = [k \in 0..m |-> IF k = 0 THEN {1}
                      ELSE w[k - 1] \cup UNION {ChildNodes(doc, n) : n \in w[k - 1]}]

Within(doc) == CHOOSE w : Closes(w, doc, Len(doc))

\* Reached is the last value of that function,
LEMMA ReachedUnfold ==
  ASSUME NEW doc
  PROVE  Reached(doc) = Within(doc)[Len(doc)]
BY DEF Reached, Within, Closes, ChildNodes

\* which exists,
LEMMA ClosureExists ==
  ASSUME NEW doc, NEW m \in Nat
  PROVE  \E w : Closes(w, doc, m)
<1> DEFINE Next(s) == s \cup UNION {ChildNodes(doc, n) : n \in s}
           T == {k \in Nat : \E w : Closes(w, doc, k)}
<1>1. 0 \in T
  <2> DEFINE w == [k \in 0..0 |-> {1}]
  <2>1. \A k \in 0..0 : k = 0
    OBVIOUS
  <2>2. Closes(w, doc, 0)
    BY <2>1 DEF Closes
  <2> HIDE DEF w
  <2> QED BY <2>2
<1>2. ASSUME NEW k \in Nat, k \in T PROVE k + 1 \in T
  <2>1. PICK w : Closes(w, doc, k)
    BY <1>2
  <2>2. PICK l \in Nat : l = k + 1
    OBVIOUS
  <2> DEFINE g == [j \in 0..l |-> IF j = 0 THEN {1} ELSE Next(w[j - 1])]
  <2>3. \A j \in 0..k : g[j] = w[j]
    <3> SUFFICES ASSUME NEW j \in 0..k PROVE g[j] = w[j]
      OBVIOUS
    <3>1. j \in 0..l
      BY <2>2
    <3>2. g[j] = IF j = 0 THEN {1} ELSE Next(w[j - 1])
      BY <3>1
    <3>3. w[j] = IF j = 0 THEN {1} ELSE Next(w[j - 1])
      <4>1. w = [i \in 0..k |-> IF i = 0 THEN {1} ELSE Next(w[i - 1])]
        BY <2>1 DEF Closes
      <4>2. [i \in 0..k |-> IF i = 0 THEN {1} ELSE Next(w[i - 1])][j]
              = IF j = 0 THEN {1} ELSE Next(w[j - 1])
        OBVIOUS
      <4> HIDE DEF Next
      <4> QED BY <4>1, <4>2, Zenon
    <3> QED BY <3>2, <3>3
  <2>4. g = [j \in 0..l |-> IF j = 0 THEN {1} ELSE Next(g[j - 1])]
    <3>1. \A j \in 0..l : j # 0 => j - 1 \in 0..k
      BY <2>2
    <3>2. g = [j \in 0..l |-> IF j = 0 THEN {1} ELSE Next(w[j - 1])]
      OBVIOUS
    <3> HIDE DEF g
    <3>3. \A j \in 0..l : j # 0 => g[j - 1] = w[j - 1]
      BY <2>3, <3>1
    <3> HIDE DEF Next
    <3> QED BY <3>2, <3>3
  <2>5. Closes(g, doc, l)
    BY <2>4 DEF Closes
  <2> QED BY <2>2, <2>5
<1> HIDE DEF T
<1>3. Nat \subseteq T
  BY <1>1, <1>2, NatSetInduction
<1> QED BY <1>3 DEF T

\* The sets grow, by the children of their nodes.
LEMMA WithinFacts ==
  ASSUME NEW doc, Len(doc) \in Nat
  PROVE  /\ Within(doc)[0] = {1}
         /\ \A k \in Nat, j \in 1..Len(doc) : j = k + 1 =>
              Within(doc)[j] = Within(doc)[k]
                                 \cup UNION {ChildNodes(doc, n) : n \in Within(doc)[k]}
<1> DEFINE Next(s) == s \cup UNION {ChildNodes(doc, n) : n \in s}
           w == Within(doc)
           m == Len(doc)
<1>1. Closes(w, doc, m)
  <2>1. \E x : Closes(x, doc, m)
    BY ClosureExists
  <2> QED BY <2>1 DEF Within
<1>2. \A k \in 0..m : w[k] = IF k = 0 THEN {1} ELSE Next(w[k - 1])
  <2> SUFFICES ASSUME NEW k \in 0..m PROVE w[k] = IF k = 0 THEN {1} ELSE Next(w[k - 1])
    OBVIOUS
  <2> HIDE DEF w
  <2>1. w = [i \in 0..m |-> IF i = 0 THEN {1} ELSE Next(w[i - 1])]
    BY <1>1 DEF Closes
  <2>2. [i \in 0..m |-> IF i = 0 THEN {1} ELSE Next(w[i - 1])][k]
          = IF k = 0 THEN {1} ELSE Next(w[k - 1])
    OBVIOUS
  <2> HIDE DEF Next
  <2> QED BY <2>1, <2>2, Zenon
<1>3. w[0] = {1}
  <2>1. 0 \in 0..m
    OBVIOUS
  <2> HIDE DEF w, Next
  <2> QED BY <1>2, <2>1
<1>4. ASSUME NEW k \in Nat, NEW j \in 1..m, j = k + 1 PROVE w[j] = Next(w[k])
  <2>1. j \in 0..m /\ j # 0 /\ j - 1 = k
    BY <1>4
  <2> HIDE DEF w, Next
  <2> QED BY <1>2, <2>1
<1> QED BY <1>3, <1>4

\* and its values grow.
LEMMA WithinGrows ==
  ASSUME NEW doc, Len(doc) \in Nat, NEW k \in Nat, NEW l \in Nat, k <= l, l <= Len(doc)
  PROVE  Within(doc)[k] \subseteq Within(doc)[l]
<1> DEFINE T == {i \in Nat : \A j \in 0..Len(doc) : j = k + i => Within(doc)[k] \subseteq Within(doc)[j]}
<1>1. 0 \in T
  OBVIOUS
<1>2. ASSUME NEW i \in Nat, i \in T PROVE i + 1 \in T
  <2> SUFFICES ASSUME NEW j \in 0..Len(doc), j = k + (i + 1)
               PROVE  Within(doc)[k] \subseteq Within(doc)[j]
    OBVIOUS
  <2>1. PICK h \in Nat : h = k + i
    OBVIOUS
  <2>2. h \in 0..Len(doc) /\ j \in 1..Len(doc) /\ j = h + 1
    BY <2>1
  <2>3. Within(doc)[k] \subseteq Within(doc)[h]
    BY <1>2, <2>1, <2>2
  <2>4. Within(doc)[h] \subseteq Within(doc)[j]
    BY <2>2, WithinFacts
  <2> QED BY <2>3, <2>4
<1> HIDE DEF T
<1>3. Nat \subseteq T
  BY <1>1, <1>2, NatSetInduction
<1>4. l - k \in Nat /\ l \in 0..Len(doc) /\ l = k + (l - k)
  OBVIOUS
<1> QED BY <1>3, <1>4 DEF T

-----------------------------------------------------------------------------
\* The copy that the loader makes of a document while it is dumped: list[f[n]]
\* is the copy of node n, and of its children the last ones, rest, are to come.
Loaded(doc, f, list, n, rest) ==
  LET has == Load!ChildrenOf(list[f[n]])
      children == doc[n].children
  IN /\ list[f[n]].kind = doc[n].kind
     /\ Len(has) + Len(rest) = Len(children)
     /\ \A i \in 1..Len(has) : children[i] \in DOMAIN f /\ has[i] = f[children[i]]
     /\ \A i \in 1..Len(rest) : rest[i] = children[Len(has) + i]

\* f gives each node that was dumped a copy, the root the first one, and the
\* others after a node that refers to them.
Copies(doc, f, m) ==
  /\ DOMAIN f \subseteq 1..Len(doc) /\ f \in [DOMAIN f -> 1..m]
  /\ Cardinality(DOMAIN f) = m
  /\ \A l, n \in DOMAIN f : f[l] = f[n] => l = n
  /\ m # 0 => 1 \in DOMAIN f /\ f[1] = 1
  /\ \A n \in DOMAIN f, k \in Nat : f[n] = k + 1 => n \in Within(doc)[k]

\* The loops of dump_node are the open collections of the loader, in the same
\* order; what is left in a loop is what is to come of its copy.
OpenLoop(doc, f, list, call, index) ==
  \E n \in DOMAIN f : f[n] = index /\ call.kind = doc[n].kind /\ Loaded(doc, f, list, n, call.rest)

Loops(doc, f, list, calls, context) ==
  /\ Len(calls) = Len(context) + 1
  /\ list = <<>> => calls[1].rest = <<1>>
  /\ list # <<>> => calls[1].rest = <<>>
  /\ \A d \in 1..Len(context), e \in 1..Len(calls) :
       e = d + 1 => OpenLoop(doc, f, list, calls[e], context[d])

\* The copies of the others are complete.
Settled(doc, f, list, context) ==
  \A n \in DOMAIN f :
    (\A d \in 1..Len(context) : context[d] # f[n]) => Loaded(doc, f, list, n, <<>>)

Mirror(doc, f, list, calls, context) ==
  /\ Copies(doc, f, Len(list))
  /\ Loops(doc, f, list, calls, context)
  /\ Settled(doc, f, list, context)

\* The loader's nodes and context.
AreLoaded(list, context) ==
  /\ list \in Seq(Load!Node) /\ context \in Seq(1..Len(list))
  /\ \A i, j \in 1..Len(context) : context[i] = context[j] => i = j

Joined(list, context, index) ==
  IF context = <<>> THEN list ELSE [list EXCEPT ![Last(context)] = Load!WithChild(@, index)]

\* g says of the nodes of f what f says.
Extends(g, f) == DOMAIN f \subseteq DOMAIN g /\ \A n \in DOMAIN f : g[n] = f[n]

\* A copy that is left alone is loaded as far as before.
LEMMA LoadedSame ==
  ASSUME NEW doc, NEW f, NEW g, NEW list, NEW new, NEW n \in DOMAIN f, NEW rest,
         Loaded(doc, f, list, n, rest), Extends(g, f), new[f[n]] = list[f[n]]
  PROVE  Loaded(doc, g, new, n, rest)
<1>1. g[n] = f[n] /\ n \in DOMAIN g
  BY DEF Extends
<1>2. new[g[n]] = list[f[n]]
  BY <1>1
<1>3. PICK has : has = Load!ChildrenOf(list[f[n]])
  OBVIOUS
<1>4. \A i \in 1..Len(has) :
        doc[n].children[i] \in DOMAIN g /\ has[i] = g[doc[n].children[i]]
  BY <1>3 DEF Loaded, Extends
<1> QED BY <1>2, <1>3, <1>4 DEF Loaded

\* One child more, one less to come.
LEMMA LoadedMore ==
  ASSUME NEW doc, NEW f, NEW g, NEW list, NEW new, NEW n \in DOMAIN f,
         NEW rest \in Seq(Nat), rest # <<>>, doc[n].children \in Seq(Nat),
         Loaded(doc, f, list, n, rest), Extends(g, f),
         list[f[n]] \in Load!Node, NEW index \in Nat \ {0},
         Head(rest) \in DOMAIN g, index = g[Head(rest)],
         new[f[n]] = Load!WithChild(list[f[n]], index),
         new[f[n]].kind = list[f[n]].kind
  PROVE  Loaded(doc, g, new, n, Tail(rest))
<1>1. PICK has \in Seq(Nat) : has = Load!ChildrenOf(list[f[n]])
  BY LoaderConstants, Load!ChildLast
<1>2. Load!ChildrenOf(new[f[n]]) = Append(has, index)
  BY <1>1, LoaderConstants, Load!ChildLast
<1>3. PICK h \in Nat, r \in Nat \ {0}, c \in Nat :
        h = Len(has) /\ r = Len(rest) /\ c = Len(doc[n].children)
  BY LenProperties, EmptySeq
<1>4. h + r = c
  BY <1>1, <1>3 DEF Loaded
<1>5. PICK more : more = Append(has, index) /\ Len(more) = h + 1
  <2>1. index \in Nat
    OBVIOUS
  <2>2. Len(Append(has, index)) = Len(has) + 1
    BY <2>1, AppendFacts
  <2> QED BY <1>3, <2>2
<1>6. PICK tail : tail = Tail(rest) /\ Len(tail) = r - 1
  BY <1>3, HeadTailProperties
<1>7. ASSUME NEW i \in 1..Len(more)
      PROVE  doc[n].children[i] \in DOMAIN g /\ more[i] = g[doc[n].children[i]]
  <2>1. CASE i \in 1..h
    <3>1. more[i] = has[i]
      BY <1>3, <1>5, <2>1, AppendFacts
    <3>2. doc[n].children[i] \in DOMAIN f /\ has[i] = f[doc[n].children[i]]
      BY <1>1, <1>3, <2>1 DEF Loaded
    <3> QED BY <3>1, <3>2 DEF Extends
  <2>2. CASE i = h + 1
    <3>1. more[i] = index
      BY <1>3, <1>5, <2>2, AppendFacts
    <3>2. 1 \in 1..r
      BY <1>3
    <3>3. rest[1] = doc[n].children[h + 1]
      BY <1>1, <1>3, <3>2 DEF Loaded
    <3>4. Head(rest) = rest[1]
      BY HeadTailProperties
    <3> QED BY <2>2, <3>1, <3>3, <3>4
  <2>3. i \in 1..h \/ i = h + 1
    BY <1>3, <1>5
  <2> QED BY <2>1, <2>2, <2>3
<1>8. ASSUME NEW i \in 1..Len(tail)
      PROVE  tail[i] = doc[n].children[Len(more) + i]
  <2>1. PICK j \in 1..r : j = i + 1
    BY <1>3, <1>6
  <2>2. tail[i] = rest[j]
    BY <1>6, <2>1, HeadTailProperties
  <2>3. rest[j] = doc[n].children[h + j]
    BY <1>1, <1>3, <2>1 DEF Loaded
  <2>4. h + j = Len(more) + i
    BY <1>3, <1>5, <2>1
  <2> QED BY <2>2, <2>3, <2>4
<1>9. Len(more) + Len(tail) = Len(doc[n].children)
  <2>1. (h + 1) + (r - 1) = h + r
    BY <1>3
  <2> QED BY <1>3, <1>4, <1>5, <1>6, <2>1
<1>10. new[g[n]].kind = doc[n].kind /\ Load!ChildrenOf(new[g[n]]) = more
  BY <1>2, <1>5 DEF Loaded, Extends
<1> QED BY <1>6, <1>7, <1>8, <1>9, <1>10 DEF Loaded

\* Where dump_node and the loader stand in a document.
Copying(doc, f, list, calls, context) ==
  /\ IsDocument(doc) /\ AreCalls(calls, Len(doc)) /\ AreLoaded(list, context)
  /\ Mirror(doc, f, list, calls, context)

\* What a loop that moves on does to the loops.
LEMMA OnwardFacts ==
  ASSUME NEW calls, NEW n \in Nat, AreCalls(calls, n), Last(calls).rest # <<>>
  PROVE  /\ Len(Onward(calls)) = Len(calls) /\ Len(calls) \in Nat \ {0}
         /\ \A i \in 1..(Len(calls) - 1) : Onward(calls)[i] = calls[i]
         /\ Onward(calls)[Len(calls)].rest = Tail(Last(calls).rest)
         /\ Onward(calls)[Len(calls)].kind = Last(calls).kind
         /\ Last(calls) = calls[Len(calls)]
         /\ Last(calls).rest \in Seq(1..n) /\ Head(Last(calls).rest) \in 1..n
         /\ Len(calls) = 1 => Tail(Last(calls).rest) = <<>>
<1> DEFINE call == [Last(calls) EXCEPT !.rest = Tail(@)]
           new == Onward(calls)
<1>1. /\ Front(calls) \in Seq(Call) /\ Last(calls) \in Call /\ Len(calls) \in Nat \ {0}
      /\ Len(Front(calls)) = Len(calls) - 1
      /\ \A i \in 1..(Len(calls) - 1) : Front(calls)[i] = calls[i]
      /\ Last(calls) = calls[Len(calls)]
      /\ Last(calls).rest \in Seq(1..n)
      /\ Len(calls) = 1 => Len(Last(calls).rest) <= 1
  BY CallFacts
<1>2. PICK rest \in Seq(1..n) : rest = Last(calls).rest
  BY <1>1
<1>3. /\ Tail(rest) \in Seq(1..n) /\ Len(Tail(rest)) = Len(rest) - 1
      /\ Head(rest) \in 1..n /\ Len(rest) \in Nat \ {0}
  <2>1. rest # <<>>
    BY <1>2
  <2> QED BY <2>1, CountTail
<1>4. call \in Call /\ call.rest = Tail(rest) /\ call.kind = Last(calls).kind
  <2>1. Tail(rest) \in Seq(Nat)
    <3>1. 1..n \subseteq Nat /\ Tail(rest) \in Seq(1..n)
      BY <1>3
    <3> QED BY <3>1
  <2> QED BY <1>1, <1>2, <2>1 DEF Call
<1>5. /\ Len(new) = Len(calls)
      /\ \A i \in 1..(Len(calls) - 1) : new[i] = calls[i]
      /\ new[Len(calls)] = call
  <2>1. new = Append(Front(calls), call)
    BY DEF Onward
  <2>2. Len(Front(calls)) + 1 = Len(calls)
    BY <1>1
  <2> HIDE DEF call, new
  <2> QED BY <1>1, <1>4, <2>1, <2>2, AppendFacts
<1>6. Len(calls) = 1 => Tail(rest) = <<>>
  <2> SUFFICES ASSUME Len(calls) = 1 PROVE Tail(rest) = <<>>
    OBVIOUS
  <2>1. Len(rest) <= 1
    BY <1>1, <1>2
  <2>2. Len(Tail(rest)) = 0
    BY <1>3, <2>1
  <2> QED BY <1>3, <2>2, EmptySeq
<1> HIDE DEF call, new
<1>7. /\ new[Len(calls)].rest = Tail(Last(calls).rest)
      /\ new[Len(calls)].kind = Last(calls).kind
  BY <1>2, <1>4, <1>5
<1> QED BY <1>1, <1>2, <1>3, <1>5, <1>6, <1>7 DEF new

\* What a child that is attached does to the nodes.
LEMMA JoinedFacts ==
  ASSUME NEW list \in Seq(Load!Node), NEW context \in Seq(1..Len(list)), context # <<>>,
         NEW index \in Nat \ {0}, list[Last(context)].kind # "Scalar"
  PROVE  /\ Joined(list, context, index) \in Seq(Load!Node)
         /\ Len(Joined(list, context, index)) = Len(list)
         /\ Last(context) \in 1..Len(list)
         /\ Joined(list, context, index)[Last(context)]
              = Load!WithChild(list[Last(context)], index)
         /\ Joined(list, context, index)[Last(context)].kind = list[Last(context)].kind
         /\ \A m \in 1..Len(list) :
              m # Last(context) => Joined(list, context, index)[m] = list[m]
<1>1. PICK p \in 1..Len(list) : p = Last(context)
  BY FrontFacts
<1>2. list[p] \in Load!Node
  BY ElementOfSeq
<1>3. PICK node \in Load!Node : node = Load!WithChild(list[p], index) /\ node.kind = list[p].kind
  BY <1>1, <1>2, LoaderConstants, Load!ChildFrame
<1>4. Joined(list, context, index) = [list EXCEPT ![p] = node]
  BY <1>1, <1>3 DEF Joined
<1>5. /\ [list EXCEPT ![p] = node] \in Seq(Load!Node)
      /\ Len([list EXCEPT ![p] = node]) = Len(list)
      /\ \A m \in 1..Len(list) : [list EXCEPT ![p] = node][m] = IF m = p THEN node ELSE list[m]
  BY ExceptSeq
<1> QED BY <1>1, <1>3, <1>4, <1>5

\* A node that is open is no scalar.
LEMMA OpenCopies ==
  ASSUME NEW doc, NEW f, NEW list, NEW calls, NEW context,
         Copying(doc, f, list, calls, context), context # <<>>
  PROVE  /\ Len(context) \in Nat \ {0} /\ Len(calls) = Len(context) + 1
         /\ Last(context) = context[Len(context)] /\ Last(calls) = calls[Len(calls)]
         /\ Last(context) \in 1..Len(list)
         /\ list[Last(context)].kind = Last(calls).kind /\ Last(calls).kind # "Document"
         /\ list[Last(context)].kind \in {"Sequence", "Mapping"}
         /\ OpenLoop(doc, f, list, Last(calls), Last(context))
<1>1. /\ list \in Seq(Load!Node) /\ context \in Seq(1..Len(list))
      /\ AreCalls(calls, Len(doc)) /\ Len(doc) \in Nat
      /\ Loops(doc, f, list, calls, context)
  BY LenProperties DEF Copying, AreLoaded, Mirror, IsDocument
<1>2. PICK D \in Nat \ {0} : D = Len(context) /\ Last(context) = context[D]
  BY <1>1, FrontFacts
<1>3. Last(context) \in 1..Len(list)
  BY <1>1, FrontFacts
<1>4. PICK e \in Nat \ {0} : e = Len(calls) /\ e = D + 1 /\ Last(calls) = calls[e]
  BY <1>1, <1>2, CallFacts DEF Loops
<1>5. D \in 1..Len(context) /\ e \in 1..Len(calls)
  BY <1>2, <1>4
<1>6. OpenLoop(doc, f, list, Last(calls), Last(context))
  BY <1>1, <1>2, <1>4, <1>5 DEF Loops
<1>7. list[Last(context)].kind = Last(calls).kind
  BY <1>6 DEF OpenLoop, Loaded
<1>8. Last(calls).kind \in {"Sequence", "Mapping"}
  <2>1. Last(calls) \in Call /\ (Last(calls).kind = "Document" <=> Len(calls) = 1)
    BY <1>1, CallFacts
  <2>2. Len(calls) # 1
    BY <1>4
  <2> QED BY <2>1, <2>2 DEF Call
<1> QED BY <1>2, <1>3, <1>4, <1>6, <1>7, <1>8

\* The next child of the innermost loop is taken: its copy, an old one or one
\* that was pushed, becomes the next child of the innermost copy.
LEMMA ChildTaken ==
  ASSUME NEW doc, NEW f, NEW list, NEW calls, NEW context,
         Copying(doc, f, list, calls, context), Last(calls).rest # <<>>,
         NEW g, Extends(g, f), Head(Last(calls).rest) \in DOMAIN g,
         NEW index \in Nat \ {0}, index = g[Head(Last(calls).rest)],
         NEW more \in Seq(Load!Node), more # <<>>, Len(more) >= Len(list),
         \A m \in 1..Len(list) : more[m] = list[m],
         NEW new, new = Joined(more, context, index)
  PROVE  /\ new \in Seq(Load!Node) /\ Len(new) = Len(more)
         /\ \A m \in 1..Len(more) : m > Len(list) => new[m] = more[m]
         /\ Loops(doc, g, new, Onward(calls), context)
         /\ \A n \in DOMAIN f :
              (\A d \in 1..Len(context) : context[d] # f[n]) => Loaded(doc, g, new, n, <<>>)
<1>1. /\ IsDocument(doc) /\ AreCalls(calls, Len(doc)) /\ Len(doc) \in Nat
      /\ list \in Seq(Load!Node) /\ context \in Seq(1..Len(list))
      /\ Len(list) \in Nat /\ Len(more) \in Nat
      /\ Copies(doc, f, Len(list)) /\ Loops(doc, f, list, calls, context)
      /\ Settled(doc, f, list, context)
  BY LenProperties DEF Copying, AreLoaded, Mirror, IsDocument
<1>2. \A n \in DOMAIN f : f[n] \in 1..Len(list) /\ n \in 1..Len(doc)
  BY <1>1 DEF Copies
<1>3. PICK rest \in Seq(1..Len(doc)) : rest = Last(calls).rest /\ rest # <<>>
  BY <1>1, OnwardFacts
<1>4. PICK moved \in {Onward(calls)}, len \in Nat \ {0} :
        /\ moved = Onward(calls) /\ len = Len(calls) /\ Len(moved) = len
        /\ \A i \in 1..(len - 1) : moved[i] = calls[i]
        /\ moved[len].rest = Tail(rest) /\ moved[len].kind = Last(calls).kind
        /\ Last(calls) = calls[len]
        /\ len = 1 => Tail(rest) = <<>>
  <2>1. PICK len \in Nat \ {0} : len = Len(calls)
    BY <1>1, OnwardFacts
  <2> QED BY <1>1, <1>3, <2>1, OnwardFacts
<1>5. CASE context = <<>>
  <2>1. new = more /\ Len(context) = 0
    BY <1>5 DEF Joined
  <2>2. len = 1
    BY <1>1, <1>4, <2>1 DEF Loops
  <2>3. moved[1].rest = <<>>
    BY <1>4, <2>2
  <2>4. Loops(doc, g, new, moved, context)
    BY <1>4, <2>1, <2>2, <2>3 DEF Loops
  <2>5. ASSUME NEW n \in DOMAIN f PROVE Loaded(doc, g, new, n, <<>>)
    <3>1. Loaded(doc, f, list, n, <<>>)
      BY <1>1, <2>1 DEF Settled
    <3>2. new[f[n]] = list[f[n]]
      BY <1>2, <2>1
    <3> QED BY <3>1, <3>2, LoadedSame
  <2> QED BY <1>4, <2>1, <2>4, <2>5
<1>6. CASE context # <<>>
  <2>1. PICK D \in Nat \ {0}, p \in 1..Len(list) :
          /\ D = Len(context) /\ len = D + 1 /\ p = context[D] /\ p = Last(context)
          /\ list[p].kind # "Scalar"
          /\ OpenLoop(doc, f, list, Last(calls), p)
    <3>1. /\ Len(context) \in Nat \ {0} /\ Len(calls) = Len(context) + 1
          /\ Last(context) = context[Len(context)] /\ Last(context) \in 1..Len(list)
          /\ list[Last(context)].kind \in {"Sequence", "Mapping"}
          /\ OpenLoop(doc, f, list, Last(calls), Last(context))
      BY <1>6, OpenCopies
    <3> QED BY <1>4, <3>1
  <2>2. list # <<>> /\ list[p] = more[p] /\ list[p] \in Load!Node /\ p \in 1..Len(more)
    BY <1>1, ElementOfSeq
  <2>3. /\ new \in Seq(Load!Node) /\ Len(new) = Len(more)
        /\ new[p] = Load!WithChild(list[p], index) /\ new[p].kind = list[p].kind
        /\ \A m \in 1..Len(more) : m # p => new[m] = more[m]
    <3>1. context \in Seq(1..Len(more))
      <4>1. 1..Len(list) \subseteq 1..Len(more)
        BY <1>1
      <4> QED BY <1>1, <4>1
    <3>2. more[Last(context)].kind # "Scalar"
      BY <2>1, <2>2
    <3>3. /\ Joined(more, context, index) \in Seq(Load!Node)
          /\ Len(Joined(more, context, index)) = Len(more)
          /\ Joined(more, context, index)[p] = Load!WithChild(more[p], index)
          /\ Joined(more, context, index)[p].kind = more[p].kind
          /\ \A m \in 1..Len(more) : m # p => Joined(more, context, index)[m] = more[m]
      <4>1. /\ more \in Seq(Load!Node) /\ context \in Seq(1..Len(more)) /\ context # <<>>
            /\ index \in Nat \ {0} /\ more[Last(context)].kind # "Scalar"
        BY <1>6, <3>1, <3>2
      <4>2. /\ Joined(more, context, index) \in Seq(Load!Node)
            /\ Len(Joined(more, context, index)) = Len(more)
            /\ Joined(more, context, index)[Last(context)]
                 = Load!WithChild(more[Last(context)], index)
            /\ Joined(more, context, index)[Last(context)].kind = more[Last(context)].kind
            /\ \A m \in 1..Len(more) :
                 m # Last(context) => Joined(more, context, index)[m] = more[m]
        BY <4>1, JoinedFacts, SMTT(30)
      <4> QED BY <2>1, <4>2
    <3> QED BY <2>2, <3>3
  <2>4. ASSUME NEW n \in DOMAIN f, f[n] # p, NEW r, Loaded(doc, f, list, n, r)
        PROVE  Loaded(doc, g, new, n, r)
    <3>1. f[n] \in 1..Len(more) /\ f[n] \in 1..Len(list)
      BY <1>1, <1>2
    <3>2. new[f[n]] = list[f[n]]
      BY <2>3, <2>4, <3>1
    <3> QED BY <2>4, <3>2, LoadedSame
  <2>5. ASSUME NEW n \in DOMAIN f, f[n] = p, Loaded(doc, f, list, n, rest)
        PROVE  Loaded(doc, g, new, n, Tail(rest))
    <3>1. rest \in Seq(Nat) /\ doc[n].children \in Seq(Nat)
      <4>1. 1..Len(doc) \subseteq Nat /\ n \in 1..Len(doc)
        BY <1>1, <1>2
      <4>2. doc[n].children \in Seq(1..Len(doc))
        BY <1>1, <4>1 DEF IsDocument
      <4> QED BY <4>1, <4>2
    <3>2. /\ list[f[n]] \in Load!Node /\ Head(rest) \in DOMAIN g /\ index = g[Head(rest)]
          /\ new[f[n]] = Load!WithChild(list[f[n]], index)
          /\ new[f[n]].kind = list[f[n]].kind
      BY <1>3, <2>2, <2>3, <2>5
    <3> QED BY <1>3, <2>5, <3>1, <3>2, LoadedMore
  <2>6. ASSUME NEW d \in 1..D, NEW e \in 1..len, e = d + 1
        PROVE  OpenLoop(doc, g, new, moved[e], context[d])
    <3>1. CASE d = D
      <4>1. e = len
        BY <2>1, <2>6, <3>1
      <4>2. PICK n \in DOMAIN f : f[n] = p /\ Last(calls).kind = doc[n].kind
                                    /\ Loaded(doc, f, list, n, rest)
        BY <1>3, <2>1 DEF OpenLoop
      <4>3. Loaded(doc, g, new, n, Tail(rest))
        BY <2>5, <4>2
      <4>4. n \in DOMAIN g /\ g[n] = p
        BY <4>2 DEF Extends
      <4> QED BY <1>4, <2>1, <3>1, <4>1, <4>2, <4>3, <4>4 DEF OpenLoop
    <3>2. CASE d # D
      <4>1. e \in 1..(len - 1) /\ context[d] # p
        <5>1. e \in 1..(len - 1)
          BY <2>1, <2>6, <3>2
        <5>2. D \in 1..D
          OBVIOUS
        <5>3. context[d] # context[D]
          BY <2>1, <3>2, <5>2 DEF Copying, AreLoaded
        <5> QED BY <2>1, <5>1, <5>3
      <4>2. OpenLoop(doc, f, list, calls[e], context[d])
        BY <1>1, <1>4, <2>1, <2>6 DEF Loops
      <4>3. PICK n \in DOMAIN f : /\ f[n] = context[d] /\ calls[e].kind = doc[n].kind
                                  /\ Loaded(doc, f, list, n, calls[e].rest)
        BY <4>2 DEF OpenLoop
      <4>4. Loaded(doc, g, new, n, calls[e].rest)
        BY <2>4, <4>1, <4>3
      <4>5. n \in DOMAIN g /\ g[n] = context[d] /\ moved[e] = calls[e]
        BY <1>4, <4>1, <4>3 DEF Extends
      <4> QED BY <4>3, <4>4, <4>5 DEF OpenLoop
    <3> QED BY <3>1, <3>2
  <2>7. Loops(doc, g, new, moved, context)
    <3>1. 1 \in 1..(len - 1) /\ moved[1] = calls[1]
      <4>1. 1 \in 1..(len - 1)
        BY <2>1
      <4> QED BY <1>4, <4>1
    <3>2. calls[1].rest = <<>>
      BY <1>1, <2>2 DEF Loops
    <3>3. new # <<>>
      BY <1>1, <2>2, <2>3
    <3> QED BY <1>4, <2>1, <2>6, <3>1, <3>2, <3>3 DEF Loops
  <2>8. ASSUME NEW n \in DOMAIN f, \A d \in 1..Len(context) : context[d] # f[n]
        PROVE  Loaded(doc, g, new, n, <<>>)
    <3>1. Loaded(doc, f, list, n, <<>>)
      BY <1>1, <2>8 DEF Settled
    <3>2. D \in 1..Len(context)
      BY <2>1
    <3>3. f[n] # p
      BY <2>1, <2>8, <3>2
    <3> QED BY <2>4, <3>1, <3>3
  <2>9. \A m \in 1..Len(more) : m > Len(list) => new[m] = more[m]
    BY <1>1, <2>3
  <2> QED BY <1>4, <2>3, <2>7, <2>8, <2>9
<1> QED BY <1>5, <1>6

\* An alias of a node that was dumped.
LEMMA AliasCopied ==
  ASSUME NEW doc, NEW f, NEW list, NEW calls, NEW context,
         Copying(doc, f, list, calls, context), Last(calls).rest # <<>>,
         Head(Last(calls).rest) \in DOMAIN f,
         NEW new, new = Joined(list, context, f[Head(Last(calls).rest)])
  PROVE  Copying(doc, f, new, Onward(calls), context)
<1>1. /\ IsDocument(doc) /\ AreCalls(calls, Len(doc)) /\ Len(doc) \in Nat
      /\ list \in Seq(Load!Node) /\ context \in Seq(1..Len(list)) /\ Len(list) \in Nat
      /\ Copies(doc, f, Len(list))
  BY LenProperties DEF Copying, AreLoaded, Mirror, IsDocument
<1>2. PICK index \in 1..Len(list) : index = f[Head(Last(calls).rest)]
  BY <1>1 DEF Copies
<1>3. list # <<>> /\ index \in Nat \ {0} /\ Extends(f, f)
  BY <1>1, <1>2 DEF Extends
<1>4. /\ new \in Seq(Load!Node) /\ Len(new) = Len(list)
      /\ Loops(doc, f, new, Onward(calls), context)
      /\ \A n \in DOMAIN f :
           (\A d \in 1..Len(context) : context[d] # f[n]) => Loaded(doc, f, new, n, <<>>)
  <2>1. PICK more \in Seq(Load!Node) : more = list
    BY <1>1
  <2>2. /\ more # <<>> /\ Len(more) >= Len(list) /\ new = Joined(more, context, index)
        /\ \A m \in 1..Len(list) : more[m] = list[m]
    BY <1>1, <1>2, <1>3, <2>1
  <2>3. /\ Copying(doc, f, list, calls, context) /\ Last(calls).rest # <<>>
        /\ Extends(f, f) /\ Head(Last(calls).rest) \in DOMAIN f
        /\ index \in Nat \ {0} /\ index = f[Head(Last(calls).rest)]
    BY <1>2, <1>3
  <2>4. /\ new \in Seq(Load!Node) /\ Len(new) = Len(more)
        /\ Loops(doc, f, new, Onward(calls), context)
        /\ \A n \in DOMAIN f :
             (\A d \in 1..Len(context) : context[d] # f[n]) => Loaded(doc, f, new, n, <<>>)
    BY <2>2, <2>3, ChildTaken
  <2> QED BY <2>1, <2>4
<1>5. Settled(doc, f, new, context)
  BY <1>4 DEF Settled
<1>6. AreCalls(Onward(calls), Len(doc))
  BY <1>1, CallMoved
<1> QED BY <1>1, <1>4, <1>5, <1>6 DEF Copying, AreLoaded, Mirror

\* There are no more copies than nodes.
LEMMA CopiesBounded ==
  ASSUME NEW doc, NEW f, NEW m \in Nat, Len(doc) \in Nat, Copies(doc, f, m)
  PROVE  m <= Len(doc)
<1>1. PICK l \in Nat : l = Len(doc)
  OBVIOUS
<1>2. IsFiniteSet(1..l) /\ Cardinality(1..l) = IF 1 > l THEN 0 ELSE l - 1 + 1
  <2>1. 1 \in Int /\ l \in Int
    OBVIOUS
  <2> QED BY <2>1, FS_Interval
<1>3. Cardinality(1..l) = l
  BY <1>2
<1>4. Cardinality(DOMAIN f) <= Cardinality(1..l)
  BY <1>1, <1>2, FS_Subset DEF Copies
<1> QED BY <1>1, <1>3, <1>4 DEF Copies

\* The first copy is the root's; the child that is taken is within as many
\* children of the root as there are copies.
LEMMA TakenWithin ==
  ASSUME NEW doc, NEW f, NEW list, NEW calls, NEW context,
         Copying(doc, f, list, calls, context), Last(calls).rest # <<>>
  PROVE  /\ Len(list) <= Len(doc)
         /\ Head(Last(calls).rest) \in Within(doc)[Len(list)]
         /\ Len(list) = 0 => Head(Last(calls).rest) = 1
<1>1. /\ IsDocument(doc) /\ AreCalls(calls, Len(doc)) /\ Len(doc) \in Nat
      /\ list \in Seq(Load!Node) /\ context \in Seq(1..Len(list)) /\ Len(list) \in Nat
      /\ Copies(doc, f, Len(list)) /\ Loops(doc, f, list, calls, context)
  BY LenProperties DEF Copying, AreLoaded, Mirror, IsDocument
<1>2. Len(list) <= Len(doc)
  BY <1>1, CopiesBounded
<1>3. PICK rest \in Seq(1..Len(doc)) : rest = Last(calls).rest /\ rest # <<>>
  BY <1>1, OnwardFacts
<1>4. CASE context = <<>>
  <2>1. Len(calls) = 1
    BY <1>1, <1>4 DEF Loops
  <2>2. Last(calls) = calls[1]
    BY <1>1, <2>1, CallFacts
  <2>3. list = <<>> /\ rest = <<1>>
    BY <1>1, <1>3, <2>2 DEF Loops
  <2>4. Len(list) = 0 /\ Head(rest) = 1
    BY <2>3
  <2>5. Within(doc)[0] = {1}
    BY <1>1, WithinFacts
  <2> QED BY <1>2, <1>3, <2>4, <2>5
<1>5. CASE context # <<>>
  <2>1. PICK p \in 1..Len(list) : p = Last(context) /\ OpenLoop(doc, f, list, Last(calls), p)
    BY <1>5, OpenCopies
  <2>2. PICK n \in DOMAIN f : f[n] = p /\ Loaded(doc, f, list, n, rest)
    BY <1>3, <2>1 DEF OpenLoop
  <2>3. PICK k \in Nat : p = k + 1
    <3>1. p - 1 \in Nat /\ p = (p - 1) + 1
      BY <1>1
    <3> QED BY <3>1
  <2>4. n \in Within(doc)[k] /\ n \in 1..Len(doc)
    BY <1>1, <2>2, <2>3 DEF Copies
  <2>5. Head(rest) \in ChildNodes(doc, n)
    <3>1. doc[n].children \in Seq(1..Len(doc))
      BY <1>1, <2>4 DEF IsDocument
    <3>2. PICK c \in Nat, r \in Nat \ {0} : c = Len(doc[n].children) /\ r = Len(rest)
      BY <1>3, <3>1, LenProperties, EmptySeq
    <3>3. list[p] \in Load!Node
      BY <1>1, ElementOfSeq
    <3>4. PICK h \in Nat : h = Len(Load!ChildrenOf(list[p]))
      <4>1. Load!ChildrenOf(list[p]) \in Seq(Nat)
        <5>1. 1 \in Nat \ {0}
          OBVIOUS
        <5> QED BY <3>3, <5>1, LoaderConstants, Load!ChildLast
      <4> QED BY <4>1, LenProperties
    <3>5. h + r = c /\ 1 \in 1..r /\ rest[1] = doc[n].children[h + 1]
      BY <2>2, <3>2, <3>4 DEF Loaded
    <3>6. h + 1 \in 1..c /\ DOMAIN doc[n].children = 1..c
      BY <3>1, <3>2, <3>5, LenProperties
    <3>7. Head(rest) = rest[1]
      BY <1>3, HeadTailProperties
    <3> QED BY <3>5, <3>6, <3>7 DEF ChildNodes
  <2>6. Head(rest) \in Within(doc)[p]
    <3>1. p \in 1..Len(doc)
      BY <1>1, <1>2
    <3>2. Within(doc)[p] = Within(doc)[k] \cup UNION {ChildNodes(doc, m) : m \in Within(doc)[k]}
      BY <1>1, <2>3, <3>1, WithinFacts
    <3> QED BY <2>4, <2>5, <3>2
  <2>7. Within(doc)[p] \subseteq Within(doc)[Len(list)]
    <3>1. PICK l \in Nat : l = Len(list)
      BY <1>1
    <3>2. p \in Nat /\ p <= l /\ l <= Len(doc)
      BY <1>2, <3>1
    <3> QED BY <1>1, <3>1, <3>2, WithinGrows
  <2>8. Len(list) # 0
    BY <1>1, <2>1
  <2> QED BY <1>2, <1>3, <2>6, <2>7, <2>8
<1> QED BY <1>4, <1>5

\* A node that is dumped for the first time is the next copy.
WithCopy(f, v, m) == [n \in DOMAIN f \cup {v} |-> IF n = v THEN m ELSE f[n]]

\* One copy more is one that the root reaches, and no other node has it.
LEMMA CopiesMore ==
  ASSUME NEW doc, NEW f, NEW list, NEW calls, NEW context,
         Copying(doc, f, list, calls, context), Last(calls).rest # <<>>,
         NEW v, v = Head(Last(calls).rest), v \notin DOMAIN f
  PROVE  /\ Copies(doc, WithCopy(f, v, Len(list) + 1), Len(list) + 1)
         /\ Extends(WithCopy(f, v, Len(list) + 1), f)
         /\ v \in 1..Len(doc)
<1>1. /\ AreCalls(calls, Len(doc)) /\ Len(doc) \in Nat /\ Copies(doc, f, Len(list))
  BY LenProperties DEF Copying, AreLoaded, Mirror, IsDocument
<1>2. PICK m, next \in Nat : m = Len(list) /\ next = m + 1
  BY LenProperties DEF Copying, AreLoaded
<1>3. v \in 1..Len(doc)
  BY <1>1, OnwardFacts
<1>4. v \in Within(doc)[m] /\ (m = 0 => v = 1)
  BY <1>2, TakenWithin
<1>5. PICK g : g = WithCopy(f, v, next)
  OBVIOUS
<1>6. /\ DOMAIN g = DOMAIN f \cup {v} /\ g[v] = next /\ \A n \in DOMAIN f : g[n] = f[n]
      /\ g = [n \in DOMAIN g |-> g[n]]
  BY <1>5 DEF WithCopy
<1>7. /\ DOMAIN f \subseteq 1..Len(doc) /\ Cardinality(DOMAIN f) = m
      /\ \A n \in DOMAIN f : f[n] \in 1..m
      /\ \A l, n \in DOMAIN f : f[l] = f[n] => l = n
      /\ m # 0 => 1 \in DOMAIN f /\ f[1] = 1
      /\ \A n \in DOMAIN f, k \in Nat : f[n] = k + 1 => n \in Within(doc)[k]
  BY <1>1, <1>2 DEF Copies
<1>8. Cardinality(DOMAIN g) = next
  <2>1. IsFiniteSet(DOMAIN f)
    <3>1. PICK l \in Nat : l = Len(doc)
      BY <1>1
    <3>2. IsFiniteSet(1..l)
      BY FS_Interval
    <3> QED BY <1>7, <3>1, <3>2, FS_Subset
  <2>2. Cardinality(DOMAIN f \cup {v}) = Cardinality(DOMAIN f) + 1
    BY <2>1, FS_AddElement
  <2> QED BY <1>2, <1>6, <1>7, <2>2
<1>9. \A n \in DOMAIN g : g[n] \in 1..next
  BY <1>2, <1>6, <1>7
<1>10. ASSUME NEW l \in DOMAIN g, NEW n \in DOMAIN g, g[l] = g[n] PROVE l = n
  <2>1. next \notin 1..m
    BY <1>2
  <2> QED BY <1>6, <1>7, <1>10, <2>1
<1>11. 1 \in DOMAIN g /\ g[1] = 1
  BY <1>2, <1>4, <1>6, <1>7
<1>12. ASSUME NEW n \in DOMAIN g, NEW k \in Nat, g[n] = k + 1 PROVE n \in Within(doc)[k]
  <2>1. CASE n = v
    <3>1. k = m
      BY <1>2, <1>6, <1>12, <2>1
    <3> QED BY <1>4, <2>1, <3>1
  <2>2. CASE n # v
    BY <1>6, <1>7, <1>12, <2>2
  <2> QED BY <2>1, <2>2
<1>13. Copies(doc, g, next)
  <2>1. DOMAIN g \subseteq 1..Len(doc)
    BY <1>3, <1>6, <1>7
  <2>2. g \in [DOMAIN g -> 1..next]
    BY <1>6, <1>9
  <2> QED BY <1>8, <1>10, <1>11, <1>12, <2>1, <2>2 DEF Copies
<1> QED BY <1>2, <1>3, <1>5, <1>6, <1>13 DEF Extends

\* The loader's new node, before it has children.
LEMMA NewCopy ==
  ASSUME NEW doc, NEW g, NEW new, NEW v \in DOMAIN g, NEW kind, kind = doc[v].kind,
         doc[v].children \in Seq(Nat), new[g[v]] = Load!NewNode(kind)
  PROVE  Loaded(doc, g, new, v, doc[v].children)
<1>1. new[g[v]].kind = kind /\ Load!ChildrenOf(new[g[v]]) = <<>>
  BY LoaderConstants, Load!NewNodeBare
<1>2. PICK c \in Nat : c = Len(doc[v].children)
  BY LenProperties
<1>3. Len(<<>>) = 0 /\ \A i \in 1..c : 0 + i = i
  OBVIOUS
<1> QED BY <1>1, <1>2, <1>3 DEF Loaded

\* The loops and the copies once a node that is dumped for the first time has
\* one of its own.
CopyBegun(doc, f, g, v, list, calls, context, new, next) ==
  /\ IsDocument(doc) /\ AreCalls(Onward(calls), Len(doc))
  /\ new \in Seq(Load!Node) /\ Len(new) = next
  /\ context \in Seq(1..Len(list)) /\ context \in Seq(1..next)
  /\ \A i, j \in 1..Len(context) : context[i] = context[j] => i = j
  /\ Copies(doc, g, next) /\ DOMAIN g = DOMAIN f \cup {v} /\ g[v] = next
  /\ v \in 1..Len(doc)
  /\ Loops(doc, g, new, Onward(calls), context)
  /\ Loaded(doc, g, new, v, doc[v].children)
  /\ \A n \in DOMAIN f :
       (\A d \in 1..Len(context) : context[d] # g[n]) => Loaded(doc, g, new, n, <<>>)

\* A node that is dumped for the first time: its copy is pushed and attached.
LEMMA NodeCopied ==
  ASSUME NEW doc, NEW f, NEW list, NEW calls, NEW context,
         Copying(doc, f, list, calls, context), Last(calls).rest # <<>>,
         NEW v, v = Head(Last(calls).rest), v \notin DOMAIN f,
         NEW kind \in {"Scalar", "Sequence", "Mapping"}, kind = doc[v].kind,
         NEW next \in Nat, next = Len(list) + 1, NEW g, g = WithCopy(f, v, next),
         NEW new, new = Joined(Append(list, Load!NewNode(kind)), context, next)
  PROVE  CopyBegun(doc, f, g, v, list, calls, context, new, next)
<1>1. /\ IsDocument(doc) /\ AreCalls(calls, Len(doc)) /\ Len(doc) \in Nat
      /\ list \in Seq(Load!Node) /\ context \in Seq(1..Len(list)) /\ Len(list) \in Nat
      /\ Copies(doc, f, Len(list))
      /\ \A i, j \in 1..Len(context) : context[i] = context[j] => i = j
  BY LenProperties DEF Copying, AreLoaded, Mirror, IsDocument
<1>2. Copies(doc, g, next) /\ Extends(g, f) /\ v \in 1..Len(doc)
  BY CopiesMore
<1>3. DOMAIN g = DOMAIN f \cup {v} /\ g[v] = next
  BY DEF WithCopy
<1>4. PICK node \in Load!Node : node = Load!NewNode(kind)
  <2>1. kind \in Load!Kind /\ <<>> \in Seq(Nat) /\ <<>> \in Seq([key : Nat, value : Nat])
    BY DEF Load!Kind
  <2>2. Load!NewNode(kind) \in Load!Node
    BY <2>1 DEF Load!NewNode, Load!Node
  <2> QED BY <2>2
<1>5. PICK more \in Seq(Load!Node) :
        /\ more = Append(list, node) /\ more # <<>> /\ Len(more) = next /\ more[next] = node
        /\ \A m \in 1..Len(list) : more[m] = list[m]
  <2>1. /\ Append(list, node) \in Seq(Load!Node) /\ Append(list, node) # <<>>
        /\ Len(Append(list, node)) = Len(list) + 1
        /\ \A i \in 1..Len(list) : Append(list, node)[i] = list[i]
        /\ Append(list, node)[Len(list) + 1] = node
    BY <1>1, AppendFacts
  <2> QED BY <2>1
<1>6. /\ new \in Seq(Load!Node) /\ Len(new) = Len(more)
      /\ \A m \in 1..Len(more) : m > Len(list) => new[m] = more[m]
      /\ Loops(doc, g, new, Onward(calls), context)
      /\ \A n \in DOMAIN f :
           (\A d \in 1..Len(context) : context[d] # f[n]) => Loaded(doc, g, new, n, <<>>)
  <2>1. /\ Copying(doc, f, list, calls, context) /\ Last(calls).rest # <<>>
        /\ Extends(g, f) /\ Head(Last(calls).rest) \in DOMAIN g
        /\ next \in Nat \ {0} /\ next = g[Head(Last(calls).rest)]
    BY <1>1, <1>2, <1>3
  <2>2. /\ more # <<>> /\ Len(more) >= Len(list) /\ \A m \in 1..Len(list) : more[m] = list[m]
        /\ new = Joined(more, context, next)
    BY <1>1, <1>4, <1>5
  <2> QED BY <2>1, <2>2, ChildTaken
<1>7. new[next] = node
  <2>1. next \in 1..Len(more) /\ next > Len(list)
    BY <1>1, <1>5
  <2> QED BY <1>5, <1>6, <2>1
<1>8. Loaded(doc, g, new, v, doc[v].children)
  <2>1. doc[v].children \in Seq(Nat)
    <3>1. 1..Len(doc) \subseteq Nat /\ v \in 1..Len(doc)
      BY <1>1, <1>2
    <3>2. doc[v].children \in Seq(1..Len(doc))
      BY <1>1, <3>1 DEF IsDocument
    <3> QED BY <3>1, <3>2
  <2>2. v \in DOMAIN g /\ new[g[v]] = Load!NewNode(kind)
    BY <1>3, <1>4, <1>7
  <2> QED BY <2>1, <2>2, NewCopy
<1>9. context \in Seq(1..next)
  <2>1. 1..Len(list) \subseteq 1..next
    BY <1>1
  <2> QED BY <1>1, <2>1
<1>10. AreCalls(Onward(calls), Len(doc))
  BY <1>1, CallMoved
<1>11. \A n \in DOMAIN f : f[n] = g[n]
  BY <1>2 DEF Extends
<1>12. \A n \in DOMAIN f :
         (\A d \in 1..Len(context) : context[d] # g[n]) => Loaded(doc, g, new, n, <<>>)
  BY <1>6, <1>11
<1>13. Len(new) = next
  BY <1>5, <1>6
<1> QED BY <1>1, <1>2, <1>3, <1>6, <1>8, <1>9, <1>10, <1>12, <1>13 DEF CopyBegun

\* A scalar has no children: its copy is complete.
LEMMA ScalarCopied ==
  ASSUME NEW doc, NEW f, NEW list, NEW calls, NEW context,
         Copying(doc, f, list, calls, context), Last(calls).rest # <<>>,
         NEW v, v = Head(Last(calls).rest), v \notin DOMAIN f,
         "Scalar" = doc[v].kind, doc[v].children = <<>>,
         NEW next \in Nat, next = Len(list) + 1, NEW g, g = WithCopy(f, v, next),
         NEW new, new = Joined(Append(list, Load!NewNode("Scalar")), context, next)
  PROVE  Copying(doc, g, new, Onward(calls), context)
<1>1. /\ IsDocument(doc) /\ AreCalls(Onward(calls), Len(doc))
      /\ new \in Seq(Load!Node) /\ Len(new) = next
      /\ context \in Seq(1..next)
      /\ \A i, j \in 1..Len(context) : context[i] = context[j] => i = j
      /\ Copies(doc, g, next) /\ DOMAIN g = DOMAIN f \cup {v}
      /\ Loops(doc, g, new, Onward(calls), context)
      /\ Loaded(doc, g, new, v, doc[v].children)
      /\ \A n \in DOMAIN f :
           (\A d \in 1..Len(context) : context[d] # g[n]) => Loaded(doc, g, new, n, <<>>)
  <2>1. PICK kind \in {"Scalar", "Sequence", "Mapping"} : kind = "Scalar"
    OBVIOUS
  <2>2. kind = doc[v].kind /\ new = Joined(Append(list, Load!NewNode(kind)), context, next)
    BY <2>1
  <2>3. CopyBegun(doc, f, g, v, list, calls, context, new, next)
    BY <2>2, NodeCopied
  <2> QED BY <2>3 DEF CopyBegun
<1>2. Settled(doc, g, new, context)
  BY <1>1 DEF Settled
<1> QED BY <1>1, <1>2 DEF Copying, AreLoaded, Mirror

\* A collection is opened by both.
LEMMA CollectionCopied ==
  ASSUME NEW doc, NEW f, NEW list, NEW calls, NEW context,
         Copying(doc, f, list, calls, context), Last(calls).rest # <<>>,
         NEW v, v = Head(Last(calls).rest), v \notin DOMAIN f,
         NEW kind \in {"Sequence", "Mapping"}, kind = doc[v].kind,
         NEW next \in Nat, next = Len(list) + 1, NEW g, g = WithCopy(f, v, next),
         NEW new, new = Joined(Append(list, Load!NewNode(kind)), context, next),
         NEW call, call = [kind |-> kind, rest |-> doc[v].children]
  PROVE  Copying(doc, g, new, Append(Onward(calls), call), Append(context, next))
<1>1. /\ IsDocument(doc) /\ AreCalls(Onward(calls), Len(doc))
      /\ new \in Seq(Load!Node) /\ Len(new) = next
      /\ context \in Seq(1..Len(list)) /\ context \in Seq(1..next)
      /\ \A i, j \in 1..Len(context) : context[i] = context[j] => i = j
      /\ Copies(doc, g, next) /\ DOMAIN g = DOMAIN f \cup {v} /\ g[v] = next
      /\ v \in 1..Len(doc)
      /\ Loops(doc, g, new, Onward(calls), context)
      /\ Loaded(doc, g, new, v, doc[v].children)
      /\ \A n \in DOMAIN f :
           (\A d \in 1..Len(context) : context[d] # g[n]) => Loaded(doc, g, new, n, <<>>)
  <2>1. CopyBegun(doc, f, g, v, list, calls, context, new, next)
    <3>1. kind \in {"Scalar", "Sequence", "Mapping"}
      OBVIOUS
    <3> QED BY <3>1, NodeCopied
  <2> QED BY <2>1 DEF CopyBegun
<1>2. doc[v].children \in Seq(1..Len(doc)) /\ Len(doc) \in Nat /\ Len(list) \in Nat
  BY <1>1, LenProperties DEF IsDocument, Copying, AreLoaded
<1>3. call \in Call /\ AreCalls(Append(Onward(calls), call), Len(doc))
  BY <1>1, <1>2, CallPushed
<1>4. PICK moved \in Seq(Call), k \in Nat \ {0} : moved = Onward(calls) /\ k = Len(moved)
  <2>1. Onward(calls) \in Seq(Call) /\ Len(Onward(calls)) \in Nat \ {0}
    BY <1>1, <1>2, CallFacts DEF AreCalls
  <2> QED BY <2>1
<1>5. PICK pushed \in {Append(moved, call)} :
        /\ Len(pushed) = k + 1 /\ pushed[k + 1] = call
        /\ \A i \in 1..k : pushed[i] = moved[i]
  BY <1>3, <1>4, AppendFacts
<1>6. PICK D \in Nat, inner \in Seq(1..next) :
        /\ D = Len(context) /\ inner = Append(context, next)
        /\ Len(inner) = D + 1 /\ inner[D + 1] = next
        /\ \A i \in 1..D : inner[i] = context[i]
  <2>1. next \in 1..next
    BY <1>2
  <2>2. /\ Append(context, next) \in Seq(1..next)
        /\ Len(Append(context, next)) = Len(context) + 1
        /\ \A i \in 1..Len(context) : Append(context, next)[i] = context[i]
        /\ Append(context, next)[Len(context) + 1] = next
    <3>1. context \in Seq(1..next)
      BY <1>1, <1>2
    <3> QED BY <2>1, <3>1, AppendFacts
  <2>3. Len(context) \in Nat
    BY <1>1, LenProperties
  <2> QED BY <2>2, <2>3
<1>7. \A i \in 1..D : context[i] \in 1..Len(list)
  BY <1>1, <1>6, ElementOfSeq
<1>8. \A i, j \in 1..Len(inner) : inner[i] = inner[j] => i = j
  <2>1. next \notin 1..Len(list)
    BY <1>2
  <2>2. \A i \in 1..Len(inner) : i \in 1..D \/ i = D + 1
    BY <1>6
  <2>3. \A i \in 1..D : inner[i] # next
    BY <1>6, <1>7, <2>1
  <2>4. \A i, j \in 1..D : inner[i] = inner[j] => i = j
    <3>1. \A i, j \in 1..D : context[i] = context[j] => i = j
      BY <1>1, <1>6
    <3> QED BY <1>6, <3>1
  <2>5. inner[D + 1] = next
    BY <1>6
  <2> QED BY <2>2, <2>3, <2>4, <2>5
<1>9. k = D + 1
  BY <1>1, <1>4, <1>6 DEF Loops
<1>10. new # <<>>
  <2>1. PICK l \in Nat : l = Len(new) /\ l # 0
    BY <1>1, <1>2
  <2>2. Len(<<>>) = 0
    OBVIOUS
  <2> QED BY <2>1, <2>2
<1>11. Loops(doc, g, new, pushed, inner)
  <2>1. Len(pushed) = Len(inner) + 1
    BY <1>5, <1>6, <1>9
  <2>2. pushed[1].rest = <<>>
    <3>1. 1 \in 1..k
      OBVIOUS
    <3>2. moved[1].rest = <<>>
      BY <1>1, <1>4, <1>10 DEF Loops
    <3> QED BY <1>5, <3>1, <3>2
  <2>3. ASSUME NEW d \in 1..Len(inner), NEW e \in 1..Len(pushed), e = d + 1
        PROVE  OpenLoop(doc, g, new, pushed[e], inner[d])
    <3>1. CASE d = D + 1
      <4>1. pushed[e] = call /\ inner[d] = next
        BY <1>5, <1>6, <1>9, <2>3, <3>1
      <4>2. call.kind = doc[v].kind /\ call.rest = doc[v].children /\ v \in DOMAIN g
        BY <1>1
      <4> QED BY <1>1, <4>1, <4>2 DEF OpenLoop
    <3>2. CASE d # D + 1
      <4>1. d \in 1..D /\ e \in 1..k
        BY <1>6, <1>9, <2>3, <3>2
      <4>2. OpenLoop(doc, g, new, moved[e], context[d])
        BY <1>1, <1>4, <1>6, <2>3, <4>1 DEF Loops
      <4> QED BY <1>5, <1>6, <4>1, <4>2
    <3> QED BY <3>1, <3>2
  <2> QED BY <1>10, <2>1, <2>2, <2>3 DEF Loops
<1>12. Settled(doc, g, new, inner)
  <2> SUFFICES ASSUME NEW n \in DOMAIN g, \A d \in 1..Len(inner) : inner[d] # g[n]
               PROVE  Loaded(doc, g, new, n, <<>>)
    BY DEF Settled
  <2>1. D + 1 \in 1..Len(inner) /\ \A d \in 1..D : d \in 1..Len(inner)
    BY <1>6
  <2>2. n # v
    BY <1>1, <1>6, <2>1
  <2>3. \A d \in 1..Len(context) : context[d] # g[n]
    BY <1>6, <2>1
  <2> QED BY <1>1, <2>2, <2>3
<1>13. AreLoaded(new, inner)
  BY <1>1, <1>6, <1>8 DEF AreLoaded
<1>14. Copying(doc, g, new, pushed, inner)
  BY <1>1, <1>3, <1>4, <1>5, <1>11, <1>12, <1>13 DEF Copying, Mirror
<1> QED BY <1>4, <1>5, <1>6, <1>14

\* A loop that is done: its copy is complete.
LEMMA LoopCopied ==
  ASSUME NEW doc, NEW f, NEW list, NEW calls, NEW context,
         Copying(doc, f, list, calls, context),
         Last(calls).rest = <<>>, Last(calls).kind # "Document"
  PROVE  Copying(doc, f, list, Front(calls), Front(context))
<1>1. /\ IsDocument(doc) /\ AreCalls(calls, Len(doc)) /\ Len(doc) \in Nat
      /\ list \in Seq(Load!Node) /\ context \in Seq(1..Len(list)) /\ Len(list) \in Nat
      /\ \A i, j \in 1..Len(context) : context[i] = context[j] => i = j
      /\ Copies(doc, f, Len(list)) /\ Loops(doc, f, list, calls, context)
      /\ Settled(doc, f, list, context)
  BY LenProperties DEF Copying, AreLoaded, Mirror, IsDocument
<1>2. PICK k \in Nat \ {0, 1}, D \in Nat \ {0} : k = Len(calls) /\ D = Len(context) /\ k = D + 1
  <2>1. Len(calls) \in Nat \ {0, 1} /\ Len(context) \in Nat /\ Len(calls) = Len(context) + 1
    BY <1>1, CallFacts, LenProperties DEF Loops
  <2> QED BY <2>1
<1>3. context # <<>>
  BY <1>2
<1>4. PICK inner \in Seq(1..Len(list)) :
        /\ inner = Front(context) /\ Len(inner) = D - 1 /\ Last(context) = context[D]
        /\ \A i \in 1..(D - 1) : inner[i] = context[i]
  <2>1. /\ Front(context) \in Seq(1..Len(list)) /\ Len(Front(context)) = Len(context) - 1
        /\ Last(context) = context[Len(context)]
        /\ \A i \in 1..(Len(context) - 1) : Front(context)[i] = context[i]
    BY <1>1, <1>3, FrontFacts
  <2> QED BY <1>2, <2>1
<1>5. PICK outer \in Seq(Call) :
        /\ outer = Front(calls) /\ Len(outer) = k - 1
        /\ \A i \in 1..(k - 1) : outer[i] = calls[i]
  <2>1. /\ Front(calls) \in Seq(Call) /\ Len(Front(calls)) = Len(calls) - 1
        /\ \A i \in 1..(Len(calls) - 1) : Front(calls)[i] = calls[i]
    BY <1>1, CallFacts
  <2> QED BY <1>2, <2>1
<1>6. AreCalls(outer, Len(doc))
  BY <1>1, <1>5, CallPopped
<1>7. \A i, j \in 1..Len(inner) : inner[i] = inner[j] => i = j
  <2>1. \A i \in 1..Len(inner) : i \in 1..Len(context) /\ inner[i] = context[i]
    BY <1>2, <1>4
  <2> QED BY <1>1, <2>1
<1>8. Loops(doc, f, list, outer, inner)
  <2>1. Len(outer) = Len(inner) + 1
    BY <1>2, <1>4, <1>5
  <2>2. outer[1] = calls[1]
    BY <1>2, <1>5
  <2>3. ASSUME NEW d \in 1..Len(inner), NEW e \in 1..Len(outer), e = d + 1
        PROVE  OpenLoop(doc, f, list, outer[e], inner[d])
    <3>1. /\ d \in 1..(D - 1) /\ e \in 1..(k - 1)
          /\ d \in 1..Len(context) /\ e \in 1..Len(calls)
      BY <1>2, <1>4, <1>5
    <3>2. outer[e] = calls[e] /\ inner[d] = context[d]
      BY <1>4, <1>5, <3>1
    <3> QED BY <1>1, <2>3, <3>1, <3>2 DEF Loops
  <2> QED BY <1>1, <2>1, <2>2, <2>3 DEF Loops
<1>9. Settled(doc, f, list, inner)
  <2> SUFFICES ASSUME NEW n \in DOMAIN f, \A d \in 1..Len(inner) : inner[d] # f[n]
               PROVE  Loaded(doc, f, list, n, <<>>)
    BY DEF Settled
  <2>1. CASE f[n] = Last(context)
    <3>1. OpenLoop(doc, f, list, Last(calls), Last(context))
      BY <1>3, OpenCopies
    <3>2. PICK o \in DOMAIN f : f[o] = Last(context) /\ Loaded(doc, f, list, o, <<>>)
      BY <3>1 DEF OpenLoop
    <3>3. o = n
      BY <1>1, <2>1, <3>2 DEF Copies
    <3> QED BY <3>2, <3>3
  <2>2. CASE f[n] # Last(context)
    <3>1. ASSUME NEW d \in 1..Len(context) PROVE context[d] # f[n]
      <4>1. CASE d = D
        BY <1>4, <2>2, <4>1
      <4>2. CASE d # D
        <5>1. d \in 1..(D - 1) /\ d \in 1..Len(inner)
          BY <1>2, <1>4, <4>2
        <5> QED BY <1>4, <5>1
      <4> QED BY <4>1, <4>2
    <3> QED BY <1>1, <3>1 DEF Settled
  <2> QED BY <2>1, <2>2
<1>10. AreLoaded(list, inner)
  BY <1>1, <1>7 DEF AreLoaded
<1>11. Copying(doc, f, list, outer, inner)
  BY <1>1, <1>6, <1>8, <1>9, <1>10 DEF Copying, Mirror
<1> QED BY <1>4, <1>5, <1>11

\* Whatever the root reaches has a copy, and nothing else has one.
Copied(doc, f, list) ==
  /\ f \in [Reached(doc) -> 1..Len(list)] /\ f[1] = 1
  /\ \A l, n \in Reached(doc) : f[l] = f[n] => l = n
  /\ Cardinality(Reached(doc)) = Len(list)
  /\ \A n \in Reached(doc) :
       /\ list[f[n]].kind = doc[n].kind
       /\ Load!ChildrenOf(list[f[n]])
            = [i \in DOMAIN doc[n].children |-> f[doc[n].children[i]]]

\* When the outermost loop is done, every node that the root reaches has its
\* copy, and every copy its children.
LEMMA DocumentCopied ==
  ASSUME NEW doc, NEW f, NEW list, NEW calls, NEW context,
         Copying(doc, f, list, calls, context),
         Last(calls).rest = <<>>, Last(calls).kind = "Document"
  PROVE  Copied(doc, f, list)
<1>1. /\ IsDocument(doc) /\ AreCalls(calls, Len(doc)) /\ Len(doc) \in Nat
      /\ list \in Seq(Load!Node) /\ Len(list) \in Nat /\ Len(context) \in Nat
      /\ Copies(doc, f, Len(list)) /\ Loops(doc, f, list, calls, context)
      /\ Settled(doc, f, list, context)
  BY LenProperties DEF Copying, AreLoaded, Mirror, IsDocument
<1>2. Len(calls) = 1 /\ Last(calls) = calls[1]
  BY <1>1, CallFacts
<1>3. Len(context) = 0
  <2>1. Len(context) + 1 = 1
    BY <1>1, <1>2 DEF Loops
  <2> QED BY <1>1, <2>1
<1>4. list # <<>>
  <2>1. list = <<>> => Last(calls).rest = <<1>>
    BY <1>1, <1>2 DEF Loops
  <2>2. <<1>> # <<>>
    OBVIOUS
  <2> QED BY <2>1, <2>2
<1>5. /\ 1 \in DOMAIN f /\ f[1] = 1 /\ Cardinality(DOMAIN f) = Len(list)
      /\ DOMAIN f \subseteq 1..Len(doc) /\ f \in [DOMAIN f -> 1..Len(list)]
      /\ \A l, n \in DOMAIN f : f[l] = f[n] => l = n
      /\ \A n \in DOMAIN f, k \in Nat : f[n] = k + 1 => n \in Within(doc)[k]
  <2>1. Len(list) # 0
    BY <1>1, <1>4
  <2> QED BY <1>1, <2>1 DEF Copies
<1>6. ASSUME NEW n \in DOMAIN f
      PROVE  /\ list[f[n]].kind = doc[n].kind
             /\ Load!ChildrenOf(list[f[n]])
                  = [i \in DOMAIN doc[n].children |-> f[doc[n].children[i]]]
             /\ ChildNodes(doc, n) \subseteq DOMAIN f
  <2>1. Loaded(doc, f, list, n, <<>>)
    BY <1>1, <1>3 DEF Settled
  <2>2. PICK has \in Seq(Nat) : has = Load!ChildrenOf(list[f[n]])
    <3>1. list[f[n]] \in Load!Node /\ 1 \in Nat \ {0}
      BY <1>1, <1>5, ElementOfSeq
    <3> QED BY <3>1, LoaderConstants, Load!ChildLast
  <2>3. PICK children \in Seq(1..Len(doc)) : children = doc[n].children
    <3>1. n \in 1..Len(doc)
      BY <1>5
    <3> QED BY <1>1, <3>1 DEF IsDocument
  <2>4. PICK c \in Nat : c = Len(children) /\ c = Len(has)
    <3>1. Len(has) + 0 = Len(children) /\ Len(has) \in Nat
      BY <2>1, <2>2, <2>3, LenProperties DEF Loaded
    <3> QED BY <3>1
  <2>5. DOMAIN has = 1..c /\ DOMAIN children = 1..c
    BY <2>4, LenProperties
  <2>6. \A i \in 1..c : children[i] \in DOMAIN f /\ has[i] = f[children[i]]
    BY <2>1, <2>2, <2>3, <2>4 DEF Loaded
  <2>7. has = [i \in 1..c |-> has[i]]
    BY <2>5
  <2>8. has = [i \in DOMAIN children |-> f[children[i]]]
    BY <2>5, <2>6, <2>7
  <2>9. ChildNodes(doc, n) \subseteq DOMAIN f
    BY <2>3, <2>5, <2>6 DEF ChildNodes
  <2>10. list[f[n]].kind = doc[n].kind
    BY <2>1 DEF Loaded
  <2> QED BY <2>2, <2>3, <2>8, <2>9, <2>10
<1>7. Reached(doc) \subseteq DOMAIN f
  <2> DEFINE T == {k \in Nat : k <= Len(doc) => Within(doc)[k] \subseteq DOMAIN f}
  <2>1. 0 \in T
    BY <1>1, <1>5, WithinFacts
  <2>2. ASSUME NEW k \in Nat, k \in T PROVE k + 1 \in T
    <3> SUFFICES ASSUME k + 1 <= Len(doc) PROVE Within(doc)[k + 1] \subseteq DOMAIN f
      OBVIOUS
    <3>1. PICK j \in 1..Len(doc) : j = k + 1
      BY <1>1
    <3>2. Within(doc)[k] \subseteq DOMAIN f
      BY <1>1, <2>2
    <3>3. Within(doc)[j] = Within(doc)[k] \cup UNION {ChildNodes(doc, n) : n \in Within(doc)[k]}
      BY <1>1, <3>1, WithinFacts
    <3>4. Within(doc)[j] \subseteq DOMAIN f
      <4> SUFFICES ASSUME NEW c \in Within(doc)[j], c \notin Within(doc)[k] PROVE c \in DOMAIN f
        BY <3>2
      <4>1. PICK n \in Within(doc)[k] : c \in ChildNodes(doc, n)
        BY <3>3
      <4> QED BY <1>6, <3>2, <4>1
    <3> QED BY <3>1, <3>4
  <2> HIDE DEF T
  <2>3. Nat \subseteq T
    BY <2>1, <2>2, NatSetInduction
  <2>4. Within(doc)[Len(doc)] \subseteq DOMAIN f
    BY <1>1, <2>3 DEF T
  <2> QED BY <2>4, ReachedUnfold
<1>8. DOMAIN f \subseteq Reached(doc)
  <2> SUFFICES ASSUME NEW n \in DOMAIN f PROVE n \in Reached(doc)
    OBVIOUS
  <2>1. PICK p \in 1..Len(list) : p = f[n]
    BY <1>5
  <2>2. PICK k \in Nat : p = k + 1
    <3>1. p - 1 \in Nat /\ p = (p - 1) + 1
      BY <1>1
    <3> QED BY <3>1
  <2>3. n \in Within(doc)[k]
    BY <1>5, <2>1, <2>2
  <2>4. Len(list) <= Len(doc)
    BY <1>1, CopiesBounded
  <2>5. PICK l \in Nat : l = Len(doc) /\ k <= l
    BY <1>1, <2>2, <2>4
  <2>6. Within(doc)[k] \subseteq Within(doc)[l]
    BY <2>5, WithinGrows
  <2> QED BY <2>3, <2>5, <2>6, ReachedUnfold
<1>9. DOMAIN f = Reached(doc)
  BY <1>7, <1>8
<1> QED BY <1>5, <1>6, <1>9 DEF Copied

-----------------------------------------------------------------------------
\* The nodes that were dumped; f says where their copies are.
Seen == {n \in DOMAIN anchors : anchors[n].serialized}

Twin(f) ==
  /\ DOMAIN f = Seen
  /\ Copying(source, f, lnodes, work, ctx)
  /\ \A n \in 1..Len(nodes) : ~anchors[n].serialized => nodes[n] = source[n]
  /\ \A i \in 1..Len(aliases) :
       \E n \in Seen : f[n] = aliases[i].index /\ anchors[n].anchor = aliases[i].anchor

\* A scalar is never given children.
IsBare(doc) == \A n \in 1..Len(doc) : doc[n].kind = "Scalar" => doc[n].children = <<>>

CopyInv ==
  /\ IsBare(nodes)
  /\ at \in {"anchoring", "nodes"} => dumped = source
  /\ at = "anchoring" /\ lat = "loading" => lnodes = <<>> /\ ctx = <<>> /\ aliases = <<>>
  /\ at = "nodes" /\ lat = "loading" => \E f : Twin(f)
  /\ answer = "document" /\ at = "building" /\ dumped # <<>> => \E f : Copied(dumped, f, lnodes)

\* What the loader attaches is what Joined says.
LEMMA LoaderJoins ==
  ASSUME NEW list, NEW index
  PROVE  Load!Attached(list, index) = Joined(list, ctx, index)
BY DEF Load!Attached, Joined, Load!Last, Last

\* An alias names the copy of the node that it stands for.
LEMMA AliasTwin ==
  ASSUME DumperInv, LoaderInv, NEW f, Twin(f), dump_alias, Load!LoadingNodes,
         Load!load_alias(anchors[Visited].anchor), lat' = "loading"
  PROVE  Twin(f)'
<1>1. /\ Visiting /\ anchors[Visited].serialized /\ anchors[Visited].anchor # NoAnchor
      /\ work' = Moved /\ at = "nodes"
      /\ UNCHANGED <<nodes, anchors, lastAnchorId, opened, closed, at, source>>
  BY DEF dump_alias, Visiting
<1>2. PICK v \in 1..Len(nodes) : v = Visited
  BY <1>1, VisitFacts
<1>3. /\ DOMAIN anchors = 1..Len(nodes) /\ v \in Seen /\ anchors[v].anchor # NoAnchor
      /\ Moved = Onward(work) /\ v = Head(Last(work).rest) /\ Last(work).rest # <<>>
  <2>1. anchors \in [1..Len(nodes) -> AnchorRecord] /\ Moved = Onward(work)
    BY <1>1, VisitFacts
  <2>2. Last(work).rest # <<>> /\ v = Head(Last(work).rest)
    BY <1>1, <1>2 DEF Visiting, Visited, Current
  <2> QED BY <1>1, <1>2, <2>1, <2>2 DEF Seen
<1>4. PICK a : a = anchors[v].anchor
  OBVIOUS
<1>5. /\ Load!Registered(a) /\ ~Load!Orphaned
      /\ lnodes' = Load!Attached(lnodes, aliases[CHOOSE i \in DOMAIN aliases :
                      /\ aliases[i].anchor = a
                      /\ \A j \in 1..(i - 1) : aliases[j].anchor # a].index)
      /\ UNCHANGED <<ctx, aliases, lat, answer>>
  <2>1. Load!load_alias(a)
    BY <1>2, <1>4
  <2>2. ~Load!GiveUp /\ ~Load!Panic
    BY DEF Load!GiveUp, Load!Answer, Load!Panic, Load!Return
  <2> QED BY <2>1, <2>2 DEF Load!load_alias
<1>6. PICK first \in 1..Len(aliases) :
        /\ aliases[first].anchor = a
        /\ lnodes' = Load!Attached(lnodes, aliases[first].index)
  <2>1. /\ DOMAIN aliases = 1..Len(aliases) /\ Len(aliases) \in Nat
        /\ \A i, j \in DOMAIN aliases : aliases[i].anchor = aliases[j].anchor => i = j
    BY LenProperties DEF LoaderInv, Load!ComposerInv, Load!ComposerTypeOK, Load!AnchorsLocal
  <2>2. PICK i \in DOMAIN aliases : aliases[i].anchor = a
    BY <1>5 DEF Load!Registered
  <2>3. \A j \in 1..(i - 1) : aliases[j].anchor # a
    <3> SUFFICES ASSUME NEW j \in 1..(i - 1) PROVE aliases[j].anchor # a
      OBVIOUS
    <3>1. j \in DOMAIN aliases /\ j # i
      BY <2>1, <2>2
    <3> QED BY <2>1, <2>2, <3>1
  <2> DEFINE first == CHOOSE k \in DOMAIN aliases :
                        /\ aliases[k].anchor = a
                        /\ \A j \in 1..(k - 1) : aliases[j].anchor # a
  <2>4. first \in DOMAIN aliases /\ aliases[first].anchor = a
    BY <2>2, <2>3
  <2> QED BY <1>5, <2>1, <2>4
<1>7. aliases[first].index = f[v]
  <2>1. PICK n \in Seen : f[n] = aliases[first].index /\ anchors[n].anchor = aliases[first].anchor
    BY DEF Twin
  <2>2. n \in DOMAIN anchors /\ v \in DOMAIN anchors
    BY <1>3 DEF Seen
  <2>3. n = v
    BY <1>1, <1>3, <1>4, <1>6, <2>1, <2>2 DEF DumperInv, AnchorsDistinct
  <2> QED BY <2>1, <2>3
<1>8. PICK new : new = lnodes' /\ new = Joined(lnodes, ctx, f[v])
  BY <1>6, <1>7, LoaderJoins
<1>9. Copying(source, f, new, Onward(work), ctx)
  <2>1. /\ Copying(source, f, lnodes, work, ctx) /\ Head(Last(work).rest) \in DOMAIN f
        /\ new = Joined(lnodes, ctx, f[Head(Last(work).rest)])
    BY <1>3, <1>8 DEF Twin
  <2> QED BY <1>3, <2>1, AliasCopied
<1>10. Copying(source', f, lnodes', work', ctx')
  BY <1>1, <1>3, <1>5, <1>8, <1>9
<1>11. /\ DOMAIN f = Seen'
       /\ \A n \in 1..Len(nodes') : ~anchors'[n].serialized => nodes'[n] = source'[n]
       /\ \A i \in 1..Len(aliases') :
            \E n \in Seen' : f[n] = aliases'[i].index /\ anchors'[n].anchor = aliases'[i].anchor
  BY <1>1, <1>5 DEF Twin, Seen
<1> QED BY <1>10, <1>11 DEF Twin

\* What marking a node does to the nodes that were dumped.
LEMMA SeenMore ==
  ASSUME DumperInv, Visiting, Serialize(Visited)
  PROVE  /\ Seen' = Seen \cup {Visited}
         /\ Len(nodes') = Len(nodes) /\ DOMAIN anchors' = DOMAIN anchors
         /\ \A n \in DOMAIN anchors : anchors'[n].anchor = anchors[n].anchor
         /\ \A n \in 1..Len(nodes) : ~anchors'[n].serialized =>
              ~anchors[n].serialized /\ nodes'[n] = nodes[n]
         /\ IsBare(nodes) => IsBare(nodes')
<1>1. PICK v \in 1..Len(nodes) : v = Visited
  BY VisitFacts
<1>2. anchors \in [1..Len(nodes) -> AnchorRecord] /\ IsDocument(nodes) /\ Len(nodes) \in Nat
  BY VisitFacts
<1>3. PICK a : a = anchors' /\ a = [anchors EXCEPT ![v].serialized = TRUE]
  BY <1>1 DEF Serialize
<1>4. PICK d : d = nodes' /\ d = [nodes EXCEPT ![v] = [kind |-> "NoNode", children |-> <<>>]]
  BY <1>1 DEF Serialize
<1>5. /\ DOMAIN a = 1..Len(nodes) /\ a[v].serialized = TRUE /\ a[v].anchor = anchors[v].anchor
      /\ \A n \in 1..Len(nodes) : n # v => a[n] = anchors[n]
  <2>1. PICK r : r = [anchors[v] EXCEPT !.serialized = TRUE]
    OBVIOUS
  <2>2. r.serialized = TRUE /\ r.anchor = anchors[v].anchor
    <3>1. anchors[v] \in AnchorRecord
      BY <1>2
    <3> QED BY <2>1, <3>1 DEF AnchorRecord
  <2>3. a = [anchors EXCEPT ![v] = r]
    BY <1>3, <2>1
  <2> QED BY <1>2, <2>2, <2>3
<1>6. /\ Len(d) = Len(nodes) /\ d[v].kind = "NoNode"
      /\ \A n \in 1..Len(nodes) : n # v => d[n] = nodes[n]
  <2>1. PICK none \in NodeRecord : none = [kind |-> "NoNode", children |-> <<>>]
    <3>1. <<>> \in Seq(Nat) /\ "NoNode" \in NodeKind
      BY DEF NodeKind
    <3>2. [kind |-> "NoNode", children |-> <<>>] \in NodeRecord
      BY <3>1 DEF NodeRecord
    <3> QED BY <3>2
  <2>2. d = [nodes EXCEPT ![v] = none] /\ none.kind = "NoNode" /\ nodes \in Seq(NodeRecord)
    BY <1>2, <1>4, <2>1 DEF IsDocument
  <2> QED BY <2>2, ExceptSeq
<1>7. Seen' = Seen \cup {v}
  <2>1. Seen' = {n \in 1..Len(nodes) : a[n].serialized}
    BY <1>3, <1>5 DEF Seen
  <2>2. Seen = {n \in 1..Len(nodes) : anchors[n].serialized}
    BY <1>2 DEF Seen
  <2>3. \A n \in 1..Len(nodes) : a[n].serialized <=> anchors[n].serialized \/ n = v
    BY <1>5
  <2> QED BY <2>1, <2>2, <2>3
<1>8. IsBare(nodes) => IsBare(d)
  BY <1>6 DEF IsBare
<1>9. /\ \A n \in 1..Len(nodes) : a[n].anchor = anchors[n].anchor
      /\ \A n \in 1..Len(nodes) : ~a[n].serialized => ~anchors[n].serialized /\ d[n] = nodes[n]
  BY <1>5, <1>6
<1> QED BY <1>1, <1>2, <1>3, <1>4, <1>5, <1>6, <1>7, <1>8, <1>9

\* A node that is loaded, if the loader goes on after it.
LEMMA NodeLoads ==
  ASSUME NEW kind, NEW a, NEW context, Load!LoadNode(kind, a, context), lat' = "loading"
  PROVE  /\ aliases' = Load!WithAnchor(a, Len(lnodes) + 1)
         /\ lnodes' = Joined(Append(lnodes, Load!NewNode(kind)), ctx, Len(lnodes) + 1)
         /\ ctx' = context /\ UNCHANGED <<lat, answer>>
<1>1. ~Load!GiveUp /\ ~Load!Panic
  BY DEF Load!GiveUp, Load!Answer, Load!Panic, Load!Return
<1>2. /\ aliases' = Load!WithAnchor(a, Len(lnodes) + 1)
      /\ lnodes' = Load!Attached(Append(lnodes, Load!NewNode(kind)), Len(lnodes) + 1)
      /\ ctx' = context /\ UNCHANGED <<lat, answer>>
  <2>1. /\ ~(a # Load!NoAnchor /\ Load!Registered(a))
        /\ ~(~(a # Load!NoAnchor /\ Load!Registered(a)) /\ Load!Orphaned)
    BY <1>1 DEF Load!LoadNode
  <2> QED BY <2>1 DEF Load!LoadNode
<1> QED BY <1>2, LoaderJoins

\* The anchor of the new node names its copy.
LEMMA AnchorTwin ==
  ASSUME DumperInv, LoaderInv, NEW f, Twin(f), Visiting, Serialize(Visited),
         ~anchors[Visited].serialized,
         aliases' = Load!WithAnchor(anchors[Visited].anchor, Len(lnodes) + 1),
         NEW g, g = WithCopy(f, Visited, Len(lnodes) + 1)
  PROVE  /\ DOMAIN g = Seen'
         /\ \A i \in 1..Len(aliases') :
              \E n \in Seen' : g[n] = aliases'[i].index /\ anchors'[n].anchor = aliases'[i].anchor
<1>1. PICK v \in 1..Len(nodes), next \in Nat, a \in Nat :
        v = Visited /\ next = Len(lnodes) + 1 /\ a = anchors[v].anchor
  <2>1. Visited \in 1..Len(nodes) /\ Len(lnodes) \in Nat
    BY VisitFacts, LenProperties DEF LoaderInv, Load!ComposerInv, Load!ComposerTypeOK
  <2> QED BY <2>1, VisitedAnchor
<1>2. /\ Seen' = Seen \cup {v} /\ DOMAIN anchors = 1..Len(nodes)
      /\ \A n \in DOMAIN anchors : anchors'[n].anchor = anchors[n].anchor
  <2>1. anchors \in [1..Len(nodes) -> AnchorRecord]
    BY VisitFacts
  <2> QED BY <1>1, <2>1, SeenMore
<1>3. DOMAIN f = Seen /\ v \notin Seen
  BY <1>1 DEF Twin, Seen
<1>4. /\ DOMAIN g = Seen \cup {v} /\ g[v] = next /\ \A n \in Seen : g[n] = f[n]
  BY <1>1, <1>3 DEF WithCopy
<1>5. \A i \in 1..Len(aliases) :
        \E n \in Seen : f[n] = aliases[i].index /\ anchors[n].anchor = aliases[i].anchor
  BY DEF Twin
<1>6. Seen \subseteq DOMAIN anchors /\ v \in DOMAIN anchors
  BY <1>2 DEF Seen
<1>7. CASE a = NoAnchor
  <2>1. aliases' = aliases
    BY <1>1, <1>7 DEF Load!WithAnchor, Load!NoAnchor, NoAnchor
  <2> QED BY <1>2, <1>4, <1>5, <1>6, <2>1
<1>8. CASE a # NoAnchor
  <2> DEFINE S == [anchor : Nat \ {NoAnchor}, index : Nat]
  <2>1. PICK entry \in S : entry = [anchor |-> a, index |-> next]
    BY <1>8
  <2>2. aliases' = Append(aliases, entry) /\ entry.anchor = a /\ entry.index = next
    BY <1>1, <1>8, <2>1 DEF Load!WithAnchor, Load!NoAnchor, NoAnchor
  <2>3. aliases \in Seq(S) /\ Len(aliases) \in Nat
    BY LenProperties DEF LoaderInv, Load!ComposerInv, Load!ComposerTypeOK
  <2> HIDE DEF S
  <2>4. PICK k \in Nat : k = Len(aliases)
    BY <2>3
  <2>5. /\ Len(aliases') = k + 1 /\ aliases'[k + 1] = entry
        /\ \A i \in 1..k : aliases'[i] = aliases[i]
    BY <2>2, <2>3, <2>4, AppendFacts
  <2>6. ASSUME NEW i \in 1..Len(aliases')
        PROVE  \E n \in Seen' : g[n] = aliases'[i].index /\ anchors'[n].anchor = aliases'[i].anchor
    <3>1. CASE i = k + 1
      <4>1. v \in Seen' /\ g[v] = aliases'[i].index /\ anchors'[v].anchor = aliases'[i].anchor
        BY <1>1, <1>2, <1>4, <1>6, <2>2, <2>5, <3>1
      <4> QED BY <4>1
    <3>2. CASE i # k + 1
      <4>1. i \in 1..k
        BY <2>5, <3>2
      <4>2. PICK n \in Seen : f[n] = aliases[i].index /\ anchors[n].anchor = aliases[i].anchor
        BY <1>5, <2>4, <4>1
      <4>3. n \in Seen' /\ g[n] = aliases'[i].index /\ anchors'[n].anchor = aliases'[i].anchor
        BY <1>2, <1>4, <1>6, <2>5, <4>1, <4>2
      <4> QED BY <4>3
    <3> QED BY <3>1, <3>2
  <2> QED BY <1>2, <1>4, <2>6
<1> QED BY <1>7, <1>8

\* What a node that is dumped for the first time has to do with its copy.
LEMMA FirstVisit ==
  ASSUME DumperInv, NEW f, Twin(f), Visiting, ~anchors[Visited].serialized
  PROVE  /\ Copying(source, f, lnodes, work, ctx)
         /\ Last(work).rest # <<>> /\ Visited = Head(Last(work).rest) /\ Visited \notin DOMAIN f
         /\ nodes[Visited] = source[Visited] /\ Visited \in 1..Len(nodes)
         /\ Moved = Onward(work)
<1>1. Visited \in 1..Len(nodes) /\ Moved = Onward(work)
  BY VisitFacts
<1>2. nodes[Visited] = source[Visited] /\ Visited \notin DOMAIN f
  BY <1>1 DEF Twin, Seen
<1> QED BY <1>1, <1>2 DEF Twin, Visiting, Visited, Current

\* Together with what is known of the marks and the anchors.
LEMMA TwinMarked ==
  ASSUME DumperInv, LoaderInv, NEW f, Twin(f), Visiting, Serialize(Visited),
         ~anchors[Visited].serialized, source' = source,
         aliases' = Load!WithAnchor(anchors[Visited].anchor, Len(lnodes) + 1),
         NEW g, g = WithCopy(f, Visited, Len(lnodes) + 1),
         Copying(source, g, lnodes', work', ctx')
  PROVE  Twin(g)'
<1>1. /\ DOMAIN g = Seen'
      /\ \A i \in 1..Len(aliases') :
           \E n \in Seen' : g[n] = aliases'[i].index /\ anchors'[n].anchor = aliases'[i].anchor
  BY AnchorTwin
<1>2. \A n \in 1..Len(nodes') : ~anchors'[n].serialized => nodes'[n] = source'[n]
  BY SeenMore DEF Twin
<1> QED BY <1>1, <1>2 DEF Twin

\* A scalar that is dumped for the first time gets a copy,
LEMMA ScalarTwin ==
  ASSUME DumperInv, LoaderInv, NEW f, Twin(f), IsBare(nodes), dump_scalar,
         Load!LoadNode("Scalar", anchors[Visited].anchor, ctx), lat' = "loading"
  PROVE  \E g : Twin(g)'
<1>1. /\ Visiting /\ ~anchors[Visited].serialized /\ nodes[Visited].kind = "Scalar"
      /\ Serialize(Visited) /\ work' = Moved /\ source' = source
  BY DEF dump_scalar
<1>2. PICK v \in 1..Len(nodes) :
        /\ v = Visited /\ Copying(source, f, lnodes, work, ctx)
        /\ Last(work).rest # <<>> /\ v = Head(Last(work).rest) /\ v \notin DOMAIN f
        /\ nodes[v] = source[v] /\ Moved = Onward(work)
  BY <1>1, FirstVisit
<1>3. PICK next \in Nat : next = Len(lnodes) + 1
  <2>1. Len(lnodes) \in Nat
    BY LenProperties DEF LoaderInv, Load!ComposerInv, Load!ComposerTypeOK
  <2> QED BY <2>1
<1>4. /\ aliases' = Load!WithAnchor(anchors[Visited].anchor, next)
      /\ lnodes' = Joined(Append(lnodes, Load!NewNode("Scalar")), ctx, next)
      /\ ctx' = ctx
  BY <1>3, NodeLoads
<1>5. PICK g : g = WithCopy(f, v, next)
  OBVIOUS
<1>6. PICK new : new = lnodes' /\ new = Joined(Append(lnodes, Load!NewNode("Scalar")), ctx, next)
  BY <1>4
<1>7. "Scalar" = source[v].kind /\ source[v].children = <<>>
  BY <1>1, <1>2 DEF IsBare
<1>8. Copying(source, g, new, Onward(work), ctx)
  BY <1>2, <1>3, <1>5, <1>6, <1>7, ScalarCopied
<1>9. Copying(source, g, lnodes', work', ctx')
  BY <1>1, <1>2, <1>4, <1>6, <1>8
<1>10. g = WithCopy(f, Visited, Len(lnodes) + 1)
  BY <1>2, <1>3, <1>5
<1>11. Twin(g)'
  BY <1>1, <1>3, <1>4, <1>9, <1>10, TwinMarked
<1> QED BY <1>11

\* a collection one that is open,
LEMMA CollectionTwin ==
  ASSUME DumperInv, LoaderInv, NEW f, Twin(f), NEW kind \in {"Sequence", "Mapping"}, NEW type,
         dump_collection(kind, type),
         Load!LoadNode(kind, anchors[Visited].anchor, Append(ctx, Len(lnodes) + 1)),
         lat' = "loading"
  PROVE  \E g : Twin(g)'
<1>1. /\ Visiting /\ ~anchors[Visited].serialized /\ nodes[Visited].kind = kind
      /\ Serialize(Visited) /\ source' = source
      /\ work' = Append(Moved, [kind |-> kind, rest |-> nodes[Visited].children])
  BY DEF dump_collection
<1>2. PICK v \in 1..Len(nodes) :
        /\ v = Visited /\ Copying(source, f, lnodes, work, ctx)
        /\ Last(work).rest # <<>> /\ v = Head(Last(work).rest) /\ v \notin DOMAIN f
        /\ nodes[v] = source[v] /\ Moved = Onward(work)
  BY <1>1, FirstVisit
<1>3. PICK next \in Nat : next = Len(lnodes) + 1
  <2>1. Len(lnodes) \in Nat
    BY LenProperties DEF LoaderInv, Load!ComposerInv, Load!ComposerTypeOK
  <2> QED BY <2>1
<1>4. /\ aliases' = Load!WithAnchor(anchors[Visited].anchor, next)
      /\ lnodes' = Joined(Append(lnodes, Load!NewNode(kind)), ctx, next)
      /\ ctx' = Append(ctx, next)
  BY <1>3, NodeLoads
<1>5. PICK g : g = WithCopy(f, v, next)
  OBVIOUS
<1>6. PICK new : new = lnodes' /\ new = Joined(Append(lnodes, Load!NewNode(kind)), ctx, next)
  BY <1>4
<1>7. PICK call : call = [kind |-> kind, rest |-> source[v].children]
  OBVIOUS
<1>8. Copying(source, g, new, Append(Onward(work), call), Append(ctx, next))
  <2>1. kind = source[v].kind
    BY <1>1, <1>2
  <2> QED BY <1>2, <1>3, <1>5, <1>6, <1>7, <2>1, CollectionCopied
<1>9. Copying(source, g, lnodes', work', ctx')
  <2>1. work' = Append(Onward(work), call)
    BY <1>1, <1>2, <1>7
  <2> QED BY <1>4, <1>6, <1>8, <2>1
<1>10. g = WithCopy(f, Visited, Len(lnodes) + 1)
  BY <1>2, <1>3, <1>5
<1>11. Twin(g)'
  BY <1>1, <1>3, <1>4, <1>9, <1>10, TwinMarked
<1> QED BY <1>11

\* and the end of its loop closes it.
LEMMA LoopTwin ==
  ASSUME DumperInv, NEW f, Twin(f), NEW kind \in {"Sequence", "Mapping"}, NEW type,
         dump_collection_end(kind, type), Load!LoadCollectionEnd(kind), lat' = "loading"
  PROVE  Twin(f)'
<1>1. /\ Last(work).rest = <<>> /\ Last(work).kind # "Document" /\ work' = Front(work)
      /\ UNCHANGED <<nodes, anchors, source>>
  BY DEF dump_collection_end, Current
<1>2. ctx' = Front(ctx) /\ UNCHANGED <<lnodes, aliases>>
  <2>1. ~Load!Panic
    BY DEF Load!Panic, Load!Return
  <2> QED BY <2>1 DEF Load!LoadCollectionEnd, Load!Front, Front
<1>3. Copying(source, f, lnodes, Front(work), Front(ctx))
  BY <1>1, LoopCopied DEF Twin
<1>4. Copying(source', f, lnodes', work', ctx')
  BY <1>1, <1>2, <1>3
<1> QED BY <1>1, <1>2, <1>4 DEF Twin, Seen

\* Before the first node there is nothing to compare.
LEMMA FirstTwin ==
  ASSUME DumperInv, anchor_node, lnodes' = <<>>, ctx' = <<>>, aliases' = <<>>
  PROVE  \E f : Twin(f)'
<1>1. /\ at = "anchoring" /\ at' = "nodes" /\ nodes' = nodes /\ source' = source
      /\ work' = <<[kind |-> "Document", rest |-> <<1>>]>>
  BY DEF anchor_node
<1>2. IsDocument(source) /\ source = nodes /\ Len(nodes) \in Nat
  BY <1>1, LenProperties DEF DumperInv, Stages, IsDocument
<1>3. Seen' = {}
  <2>1. \A n \in DOMAIN anchors' : ~anchors'[n].serialized
    BY AnchorStep
  <2> QED BY <2>1 DEF Seen
<1>4. AreCalls(work', Len(source))
  <2>1. DumperInv'
    BY AnchorStep
  <2> QED BY <1>1, <1>2, <2>1 DEF DumperInv, Walk, AreCalls
<1>5. PICK f : f = [n \in {} |-> 1]
  OBVIOUS
<1>6. DOMAIN f = {} /\ f \in [{} -> 1..0]
  BY <1>5
<1>7. Copies(source, f, 0)
  BY <1>6, FS_EmptySet DEF Copies
<1>8. PICK calls : calls = work' /\ Len(calls) = 1 /\ calls[1].rest = <<1>>
  BY <1>1
<1>9. Copying(source, f, <<>>, calls, <<>>)
  <2>1. Loops(source, f, <<>>, calls, <<>>)
    BY <1>8 DEF Loops
  <2>2. Settled(source, f, <<>>, <<>>)
    BY <1>6 DEF Settled
  <2>3. AreLoaded(<<>>, <<>>)
    BY DEF AreLoaded
  <2> QED BY <1>2, <1>4, <1>7, <1>8, <2>1, <2>2, <2>3 DEF Copying, Mirror
<1>10. Copying(source', f, lnodes', work', ctx')
  BY <1>1, <1>8, <1>9
<1>11. \A n \in 1..Len(nodes') : nodes'[n] = source'[n]
  BY <1>1, <1>2
<1>12. Twin(f)'
  BY <1>3, <1>6, <1>10, <1>11 DEF Twin
<1> QED BY <1>12

\* A scalar that is built has no children,
LEMMA BareBuilt ==
  ASSUME DumperInv, IsBare(nodes), build
  PROVE  IsBare(nodes')
<1>1. nodes \in Seq(NodeRecord) /\ DOMAIN nodes = 1..Len(nodes) /\ Len(nodes) \in Nat
  BY LenProperties DEF DumperInv, IsDocument
<1>2. ASSUME NEW kind \in {"Scalar", "Sequence", "Mapping"}, add_node(kind) PROVE IsBare(nodes')
  <2>1. PICK node \in NodeRecord : node = [kind |-> kind, children |-> <<>>]
    <3>1. <<>> \in Seq(Nat) /\ kind \in NodeKind
      BY DEF NodeKind
    <3>2. [kind |-> kind, children |-> <<>>] \in NodeRecord
      BY <3>1 DEF NodeRecord
    <3> QED BY <3>2
  <2>2. nodes' = Append(nodes, node) /\ node.children = <<>>
    BY <1>2, <2>1 DEF add_node
  <2>3. PICK k \in Nat, new \in {Append(nodes, node)} :
          /\ k = Len(nodes) /\ Len(new) = k + 1 /\ new[k + 1] = node
          /\ \A i \in 1..k : new[i] = nodes[i]
    <3>1. /\ Len(Append(nodes, node)) = Len(nodes) + 1
          /\ \A i \in 1..Len(nodes) : Append(nodes, node)[i] = nodes[i]
          /\ Append(nodes, node)[Len(nodes) + 1] = node
      BY <1>1, AppendFacts
    <3> QED BY <1>1, <3>1
  <2>4. \A i \in 1..(k + 1) : i \in 1..k \/ i = k + 1
    OBVIOUS
  <2>5. \A i \in 1..(k + 1) : new[i].kind = "Scalar" => new[i].children = <<>>
    BY <2>2, <2>3, <2>4 DEF IsBare
  <2> QED BY <2>2, <2>3, <2>5 DEF IsBare
<1>3. ASSUME NEW kind \in {"Sequence", "Mapping"}, NEW parent \in DOMAIN nodes, NEW children,
             append_children(kind, parent, children)
      PROVE  IsBare(nodes')
  <2>1. /\ nodes' = [nodes EXCEPT ![parent].children = @ \o children]
        /\ nodes[parent].kind # "Scalar" /\ nodes[parent] \in NodeRecord
    BY <1>1, <1>3, ElementOfSeq DEF append_children
  <2>2. PICK new : new = [nodes EXCEPT ![parent].children = @ \o children]
    OBVIOUS
  <2>3. new[parent].kind # "Scalar"
    BY <1>1, <2>1, <2>2 DEF NodeRecord
  <2>4. Len(new) = Len(nodes) /\ \A m \in 1..Len(nodes) : m # parent => new[m] = nodes[m]
    <3>1. DOMAIN new = DOMAIN nodes
      BY <2>2
    <3>2. Len(new) = Len(nodes)
      BY <2>2
    <3> QED BY <1>1, <2>2, <3>2
  <2>5. IsBare(new)
    BY <2>3, <2>4 DEF IsBare
  <2> QED BY <2>1, <2>2, <2>5
<1> QED BY <1>2, <1>3 DEF build

\* and is given none by dump() either.
LEMMA BareKept ==
  ASSUME DumperInv, IsBare(nodes), [DumperNext]_dumperVars
  PROVE  IsBare(nodes')
<1>1. CASE \/ dump_scalar \/ dump_collection("Sequence", "SequenceStart")
           \/ dump_collection("Mapping", "MappingStart")
  <2>1. Visiting /\ Serialize(Visited)
    BY <1>1 DEF dump_scalar, dump_collection
  <2> QED BY <2>1, SeenMore
<1>2. CASE dump_end \/ reset
  <2>1. nodes' = <<>>
    BY <1>2 DEF dump_end, reset
  <2> QED BY <2>1 DEF IsBare
<1>3. CASE \/ dump_open \/ dump_close \/ dump_begin \/ dump_alias
           \/ dump_collection_end("Sequence", "SequenceEnd")
           \/ dump_collection_end("Mapping", "MappingEnd")
           \/ open_failed \/ anchor_node \/ dump_panic \/ emit_failed \/ UNCHANGED dumperVars
  <2>1. nodes' = nodes
    BY <1>3 DEF dump_open, dump_close, dump_begin, dump_alias, dump_collection_end, open_failed,
                anchor_node, dump_panic, emit_failed, dumperVars
  <2> QED BY <2>1
<1> QED BY <1>1, <1>2, <1>3, BareBuilt DEF DumperNext, emits, emitsNot

\* One node event more, dumped and loaded.
LEMMA NodesTwin ==
  ASSUME DumperInv, LoaderInv, IsBare(nodes), lat = "loading" => \E f : Twin(f),
         \/ dump_alias \/ dump_scalar
         \/ dump_collection("Sequence", "SequenceStart")
         \/ dump_collection("Mapping", "MappingStart")
         \/ dump_collection_end("Sequence", "SequenceEnd")
         \/ dump_collection_end("Mapping", "MappingEnd"),
         Receives(out'), lat' = "loading"
  PROVE  \E f : Twin(f)'
<1>1. CASE dump_alias
  <2>1. PICK e \in {out'}, a \in Nat \ {NoAnchor} :
          e = out' /\ e.type = "Alias" /\ e.anchor = a /\ a = anchors[Visited].anchor
    BY <1>1, VisitedAnchor DEF dump_alias, Out
  <2>2. Load!LoadingNodes /\ Load!HandleNode("Alias", a)
    BY <2>1, AliasReceived
  <2>3. Load!load_alias(anchors[Visited].anchor) /\ lat = "loading"
    BY <2>1, <2>2 DEF Load!HandleNode, Load!LoadingNodes
  <2> QED BY <1>1, <2>2, <2>3, AliasTwin
<1>2. CASE dump_scalar
  <2>1. PICK e \in {out'}, t \in Load!Starts, a \in Nat :
          /\ e = out' /\ e.type = t /\ e.anchor = a /\ a = anchors[Visited].anchor
          /\ t = "Scalar"
    BY <1>2, VisitedAnchor DEF dump_scalar, Out, Load!Starts, Load!Opens
  <2>2. Load!LoadingNodes /\ Load!HandleNode(t, a)
    BY <2>1, NodeReceived
  <2>3. Load!LoadNode("Scalar", anchors[Visited].anchor, ctx) /\ lat = "loading"
    BY <2>1, <2>2 DEF Load!HandleNode, Load!LoadingNodes, Load!load_scalar
  <2> QED BY <1>2, <2>3, ScalarTwin
<1>3. ASSUME NEW kind \in {"Sequence", "Mapping"}, NEW t \in Load!Starts,
             kind = "Sequence" => t = "SequenceStart", kind = "Mapping" => t = "MappingStart",
             dump_collection(kind, t)
      PROVE  \E f : Twin(f)'
  <2>1. PICK e \in {out'}, a \in Nat :
          e = out' /\ e.type = t /\ e.anchor = a /\ a = anchors[Visited].anchor
    BY <1>3, VisitedAnchor DEF dump_collection, Out
  <2>2. Load!LoadingNodes /\ Load!HandleNode(t, a)
    BY <2>1, NodeReceived
  <2>3. Load!LoadNode(kind, anchors[Visited].anchor, Append(ctx, Len(lnodes) + 1)) /\ lat = "loading"
    <3>1. CASE kind = "Sequence"
      BY <1>3, <2>1, <2>2, <3>1 DEF Load!HandleNode, Load!LoadingNodes, Load!LoadCollection
    <3>2. CASE kind = "Mapping"
      BY <1>3, <2>1, <2>2, <3>2 DEF Load!HandleNode, Load!LoadingNodes, Load!LoadCollection
    <3> QED BY <3>1, <3>2
  <2> QED BY <1>3, <2>3, CollectionTwin
<1>4. ASSUME NEW kind \in {"Sequence", "Mapping"}, NEW t \in Load!Ends,
             kind = "Sequence" => t = "SequenceEnd", kind = "Mapping" => t = "MappingEnd",
             dump_collection_end(kind, t)
      PROVE  \E f : Twin(f)'
  <2>1. PICK e \in {out'} : e = out' /\ e.type = t
    BY <1>4 DEF dump_collection_end, Out
  <2>2. Load!LoadingNodes /\ Load!HandleNode(t, NoAnchor)
    BY <2>1, EndReceived
  <2>3. Load!LoadCollectionEnd(kind) /\ lat = "loading"
    <3>1. CASE kind = "Sequence"
      BY <1>4, <2>2, <3>1 DEF Load!HandleNode, Load!LoadingNodes
    <3>2. CASE kind = "Mapping"
      BY <1>4, <2>2, <3>2 DEF Load!HandleNode, Load!LoadingNodes
    <3> QED BY <3>1, <3>2
  <2> QED BY <1>4, <2>3, LoopTwin
<1>5. /\ "SequenceStart" \in Load!Starts /\ "MappingStart" \in Load!Starts
      /\ "SequenceEnd" \in Load!Ends /\ "MappingEnd" \in Load!Ends
  BY DEF Load!Starts, Load!Opens, Load!Ends
<1> QED BY <1>1, <1>2, <1>3, <1>4, <1>5

\* What a step of the application keeps of the copy.
LEMMA CopyKept ==
  ASSUME DumperInv, LoaderInv, CopyInv, [RoundTripNext]_roundTripVars
  PROVE  CopyInv'
<1>1. IsBare(nodes')
  BY BareKept, RoundTripDumpStep DEF CopyInv
<1>2. CASE UNCHANGED roundTripVars \/ (dump_panic /\ UNCHANGED <<loading, dumped>>) \/ Fails
  <2>1. UNCHANGED <<nodes, anchors, source, work, loading, dumped>> \/ at' \in {"failed"}
    BY <1>2 DEF roundTripVars, dumperVars, dump_panic, emitterVars, Fails, open_failed, emit_failed
  <2>2. at' \in {"failed", "panic"} \/ UNCHANGED roundTripVars
    BY <1>2 DEF dump_panic, Fails, open_failed, emit_failed
  <2>3. CASE at' \in {"failed", "panic"}
    BY <1>1, <2>3 DEF CopyInv
  <2>4. CASE UNCHANGED roundTripVars
    <3>1. UNCHANGED <<nodes, anchors, source, work, at, phase, open, emitted, lnodes, ctx, aliases,
                      lat, answer, log, dumped>>
      BY <2>4 DEF roundTripVars, dumperVars, loading
    <3>2. ASSUME at = "nodes", lat = "loading" PROVE \E f : Twin(f)'
      <4>1. PICK f : Twin(f)
        BY <3>2 DEF CopyInv
      <4>2. Copying(source', f, lnodes', work', ctx')
        BY <3>1, <4>1 DEF Twin
      <4>3. Twin(f)'
        BY <3>1, <4>1, <4>2 DEF Twin, Seen
      <4> QED BY <4>3
    <3> QED BY <1>1, <3>1, <3>2 DEF CopyInv
  <2> QED BY <2>2, <2>3, <2>4
<1>3. CASE Build
  <2>1. at' = "building" /\ dumped' = <<>>
    BY <1>3 DEF Build, build, add_node, append_children, Building
  <2> QED BY <1>1, <2>1 DEF CopyInv
<1>4. CASE Drop \/ StartOver
  <2>1. at' = "building" /\ dumped' = <<>>
    BY <1>4 DEF Drop, StartOver, reset, dumperVars
  <2> QED BY <1>1, <2>1 DEF CopyInv
<1>5. CASE anchor_node /\ UNCHANGED <<loading, dumped>>
  <2>1. /\ at = "anchoring" /\ at' = "nodes" /\ source' = source
        /\ UNCHANGED <<lnodes, ctx, aliases, lat, dumped>>
    BY <1>5 DEF anchor_node, loading
  <2>2. lat = "loading" => \E f : Twin(f)'
    BY <1>5, <2>1, FirstTwin DEF CopyInv
  <2> QED BY <1>1, <2>1, <2>2 DEF CopyInv
<1>6. CASE emits /\ Receives(out') /\ dumped' = IF at' = "anchoring" THEN source' ELSE dumped
  <2>1. CASE dump_open \/ dump_close
    <3>1. out'.type \in {"StreamStart", "StreamEnd"} /\ at' \in {"building", "dumping"}
      BY <2>1 DEF dump_open, dump_close, Out
    <3>2. Load!load_stream \/ Load!load_end
      BY <1>6, <3>1, LoaderOutside DEF Receives
    <3>3. answer' # "document"
      BY <3>2 DEF Load!load_stream, Load!load_end, Load!Return
    <3> QED BY <1>1, <3>1, <3>3 DEF CopyInv
  <2>2. CASE dump_begin
    <3>1. out'.type = "DocumentStart" /\ at' = "anchoring" /\ Dumping
      BY <2>2 DEF dump_begin, Out
    <3>2. Load!load_document /\ dumped' = source'
      BY <1>6, <3>1, LoaderOutside DEF Receives
    <3>3. at \in {"building", "dumping"}
      BY <3>1 DEF Dumping, Building
    <3>4. aliases = <<>>
      BY <3>3 DEF LoaderInv, Load!ComposerInv, Load!AnchorsLocal
    <3>5. lnodes' = <<>> /\ ctx' = <<>> /\ aliases' = <<>>
      BY <3>2, <3>4 DEF Load!load_document
    <3> QED BY <1>1, <3>1, <3>2, <3>5 DEF CopyInv
  <2>3. CASE dump_end
    <3>1. /\ out'.type = "DocumentEnd" /\ at = "nodes" /\ at' = "building"
          /\ Last(work).kind = "Document" /\ Last(work).rest = <<>>
      BY <2>3 DEF dump_end, Out, Current
    <3>2. Load!load_nodes_end /\ dumped' = dumped
      BY <1>6, <3>1, LoaderOutside DEF Receives
    <3>3. lat = "loading" /\ lnodes' = lnodes
      BY <3>2 DEF Load!load_nodes_end, Load!LoadingNodes
    <3>4. PICK f : Twin(f)
      BY <3>1, <3>3 DEF CopyInv
    <3>5. Copied(source, f, lnodes)
      BY <3>1, <3>4, DocumentCopied DEF Twin
    <3>6. Copied(dumped', f, lnodes')
      BY <3>1, <3>2, <3>3, <3>5 DEF CopyInv
    <3> QED BY <1>1, <3>1, <3>6 DEF CopyInv
  <2>4. CASE \/ dump_alias \/ dump_scalar
             \/ dump_collection("Sequence", "SequenceStart")
             \/ dump_collection("Mapping", "MappingStart")
             \/ dump_collection_end("Sequence", "SequenceEnd")
             \/ dump_collection_end("Mapping", "MappingEnd")
    <3>1. at = "nodes" /\ at' = "nodes" /\ source' = source
      BY <2>4 DEF dump_alias, dump_scalar, dump_collection, dump_collection_end, Visiting
    <3>2. dumped' = dumped
      BY <1>6, <3>1
    <3>3. lat' = "loading" => \E f : Twin(f)'
      BY <1>6, <2>4, <3>1, NodesTwin DEF CopyInv
    <3> QED BY <1>1, <3>1, <3>2, <3>3 DEF CopyInv
  <2> QED BY <1>6, <2>1, <2>2, <2>3, <2>4 DEF emits
<1> QED BY <1>2, <1>3, <1>4, <1>5, <1>6 DEF RoundTripNext, Dump

\* The children of a node that is loaded to its end are those that the
\* property lists.
LEMMA ChildrenWhole ==
  ASSUME LoaderInv, answer = "document", dumped # <<>>, NEW n \in 1..Len(lnodes)
  PROVE  LoadedChildren(n) = Load!ChildrenOf(lnodes[n])
<1>1. \A i \in DOMAIN lnodes[n].pairs : lnodes[n].pairs[i].value # 0
  <2>1. Load!DocumentComplete /\ DOMAIN lnodes = 1..Len(lnodes)
    BY LoaderConstants, Load!DocumentWhole, LenProperties
       DEF LoaderInv, Load!ComposerInv, Load!ComposerTypeOK
  <2> QED BY <2>1 DEF Load!DocumentComplete, Load!NodeIndex
<1>2. [i \in DOMAIN lnodes[n].pairs |-> Load!PairChildren(lnodes[n].pairs[i])]
        = [i \in DOMAIN lnodes[n].pairs |-> <<lnodes[n].pairs[i].key, lnodes[n].pairs[i].value>>]
  BY <1>1 DEF Load!PairChildren
<1>3. ASSUME NEW s PROVE FlattenSeq(s) = Load!FlattenSeq(s)
  BY DEF FlattenSeq, Load!FlattenSeq
<1> QED BY <1>2, <1>3 DEF LoadedChildren, Load!ChildrenOf

\* A document that is copied is the same document.
LEMMA CopyIsSame == LoaderInv /\ CopyInv => SameDocument
<1> SUFFICES ASSUME LoaderInv, CopyInv, answer = "document", at = "building", dumped # <<>>
             PROVE  \E f \in [Reached(dumped) -> DOMAIN lnodes] :
                      /\ f[1] = 1
                      /\ \A m, n \in Reached(dumped) : f[m] = f[n] => m = n
                      /\ Cardinality(Reached(dumped)) = Len(lnodes)
                      /\ \A n \in Reached(dumped) :
                           /\ lnodes[f[n]].kind = dumped[n].kind
                           /\ LoadedChildren(f[n])
                                = [i \in DOMAIN dumped[n].children |-> f[dumped[n].children[i]]]
  BY DEF SameDocument
<1>1. PICK f : Copied(dumped, f, lnodes)
  BY DEF CopyInv
<1>2. DOMAIN lnodes = 1..Len(lnodes)
  BY LenProperties DEF LoaderInv, Load!ComposerInv, Load!ComposerTypeOK
<1>3. f \in [Reached(dumped) -> DOMAIN lnodes]
  BY <1>1, <1>2 DEF Copied
<1>4. ASSUME NEW n \in Reached(dumped)
      PROVE  /\ lnodes[f[n]].kind = dumped[n].kind
             /\ LoadedChildren(f[n]) = [i \in DOMAIN dumped[n].children |-> f[dumped[n].children[i]]]
  <2>1. f[n] \in 1..Len(lnodes)
    BY <1>1 DEF Copied
  <2>2. LoadedChildren(f[n]) = Load!ChildrenOf(lnodes[f[n]])
    BY <2>1, ChildrenWhole
  <2> QED BY <1>1, <2>2 DEF Copied
<1> QED BY <1>1, <1>3, <1>4 DEF Copied

\* A document that is dumped and loaded is the same document, whatever it
\* holds: Document::dump and Document::load.
THEOREM RoundTripSameDocument == RoundTripSpec => []SameDocument
<1>1. RoundTripInit => CopyInv
  BY DEF RoundTripInit, DumperInit, CopyInv, IsBare
<1>2. DumperInv /\ LoaderInv /\ CopyInv /\ [RoundTripNext]_roundTripVars => CopyInv'
  BY CopyKept
<1> QED BY <1>1, <1>2, CopyIsSame, RoundTripLoads, RoundTripDumps, DumperInvariant, PTL
        DEF RoundTripSpec
=============================================================================
