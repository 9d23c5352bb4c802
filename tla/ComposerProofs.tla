---------------------------- MODULE ComposerProofs ----------------------------
(***************************************************************************)
(* Proofs about the document loader, for every set of anchors and every    *)
(* document: its context is that of the input, anchors are local to their  *)
(* document, and no assertion fails but for a caller who goes on after an  *)
(* error.  The heart is AttachKeeps: attaching a child moves the innermost *)
(* collection on exactly as the node moved the innermost frame of the      *)
(* input on.                                                               *)
(*                                                                         *)
(* That the nodes are what the events said needs an invariant about the    *)
(* history (LogInv).  The positions in it of the collections that are not  *)
(* ended yet are those of the context, in the same order: so the next      *)
(* event lies inside the innermost one and is its child, and inside the    *)
(* others without being a child of theirs.  How often a collection was     *)
(* begun and ended between two positions is a count (OfTypes), and the     *)
(* lemmas say what one event more does to it.                              *)
(***************************************************************************)
EXTENDS ComposerProps, StackLemmas

\* Where the input stands when the loader is called, calls, and has returned.
Phases ==
  /\ phase = "before" => open = <<>>
  /\ at = "begun" => phase = "stream" /\ open = <<>> /\ answer = "none"
  /\ at = "loading" => /\ phase = "stream" /\ answer = "none"
                       /\ open # <<>> /\ open[1] \in {"root", "closed"}
  /\ at = "idle" /\ answer \in {"none", "document"} => open = <<>>

\* The open collections, innermost last, were begun in that order.
Rising == \A i, j \in DOMAIN ctx : i < j => ctx[i] < ctx[j]

ComposerInv == /\ ComposerTypeOK /\ Phases
               /\ ContextMirrorsFrames /\ Rising /\ AnchorsLocal

-----------------------------------------------------------------------------
\* Every step of the grammar keeps its type.
LEMMA GrammarTypes == GrammarTypeOK /\ GrammarNext => GrammarTypeOK'
<1> SUFFICES ASSUME GrammarTypeOK, GrammarNext PROVE GrammarTypeOK'
  OBVIOUS
<1> USE DEF GrammarTypeOK, Phase, EventType
<1>1. ASSUME open # <<>> PROVE Front(open) \in Seq(Frame) /\ Last(open) \in Frame
  BY <1>1, FrontFacts
<1>2. ASSUME ExpectsNode PROVE AfterNode \in Seq(Frame)
  <2>1. Advance[Last(open)] \in Frame
    BY <1>1, <1>2 DEF ExpectsNode, Advance, Frame
  <2> QED BY <1>1, <1>2, <2>1, AppendFacts DEF ExpectsNode, AfterNode
<1>3. ASSUME NEW type \in EventType, NEW frame \in Frame, CollectionStart(type, frame)
      PROVE GrammarTypeOK'
  <2>1. Append(AfterNode, frame) \in Seq(Frame)
    BY <1>2, <1>3, AppendFacts DEF CollectionStart
  <2> QED BY <1>3, <2>1 DEF CollectionStart
<1>4. ASSUME NEW type \in EventType, NEW frame \in Frame, CollectionEnd(type, frame)
      PROVE GrammarTypeOK'
  BY <1>1, <1>4 DEF CollectionEnd
<1>5. CASE Leaf
  BY <1>2, <1>5 DEF Leaf
<1>6. CASE DocumentStart
  <2>1. <<"root">> \in Seq(Frame)
    BY DEF Frame
  <2> QED BY <1>6, <2>1 DEF DocumentStart
<1>7. CASE StreamStart \/ StreamEnd
  BY <1>7 DEF StreamStart, StreamEnd
<1>8. CASE DocumentEnd \/ Fail \/ Reset
  <2>1. <<>> \in Seq(Frame)
    OBVIOUS
  <2>2. CASE DocumentEnd
    BY <2>1, <2>2 DEF DocumentEnd
  <2>3. CASE Fail
    BY <2>1, <2>3 DEF Fail
  <2>4. CASE Reset
    BY <2>1, <2>4 DEF Reset
  <2> QED BY <1>8, <2>2, <2>3, <2>4
<1> QED BY <1>3, <1>4, <1>5, <1>6, <1>7, <1>8 DEF GrammarNext, Frame

\* A child moves the frame of its parent on (load_node_add).
LEMMA ChildFrame ==
  ASSUME NEW node \in Node, node.kind # "Scalar", NEW index \in Nat \ {0}
  PROVE  /\ WithChild(node, index) \in Node
         /\ WithChild(node, index).kind = node.kind
         /\ FrameOf(node) \in {"items", "key", "value"}
         /\ FrameOf(WithChild(node, index)) = Advance[FrameOf(node)]
<1> USE DEF Node
<1>1. CASE node.kind = "Sequence"
  <2>1. Append(node.items, index) \in Seq(Nat)
    OBVIOUS
  <2>2. WithChild(node, index) = [node EXCEPT !.items = Append(@, index)]
    BY <1>1 DEF WithChild
  <2> QED BY <1>1, <2>1, <2>2 DEF FrameOf, Advance
<1>2. CASE node.kind # "Sequence" /\ Waiting(node)
  <2> DEFINE new == [node EXCEPT !.pairs[Len(node.pairs)].value = index]
  <2>1. WithChild(node, index) = new
    BY <1>2 DEF WithChild
  <2>2. /\ node.pairs # <<>> /\ node.pairs \in Seq([key : Nat, value : Nat])
        /\ Len(node.pairs) \in 1..Len(node.pairs)
    BY <1>2, LenProperties, EmptySeq DEF Waiting
  <2> DEFINE pair == [node.pairs[Len(node.pairs)] EXCEPT !.value = index]
             list == [node.pairs EXCEPT ![Len(node.pairs)] = pair]
  <2>3. /\ list \in Seq([key : Nat, value : Nat])
        /\ Len(list) = Len(node.pairs)
        /\ list[Len(node.pairs)].value = index
    <3>1. node.pairs[Len(node.pairs)] \in [key : Nat, value : Nat]
      BY <2>2, ElementOfSeq
    <3>2. pair \in [key : Nat, value : Nat] /\ pair.value = index
      BY <3>1
    <3> HIDE DEF pair
    <3> QED BY <2>2, <3>2, ExceptSeq
  <2>6. new = [node EXCEPT !.pairs = list]
    OBVIOUS
  <2>4. ~Waiting(new)
    BY <2>2, <2>3, <2>6 DEF Waiting, Last
  <2>5. new.kind = node.kind /\ new \in Node
    BY <2>3, <2>6
  <2> QED BY <1>2, <2>1, <2>4, <2>5 DEF FrameOf, Advance
<1>3. CASE node.kind # "Sequence" /\ ~Waiting(node)
  <2> DEFINE pair == [key |-> index, value |-> 0]
             new == [node EXCEPT !.pairs = Append(@, pair)]
  <2>1. WithChild(node, index) = new
    BY <1>3 DEF WithChild
  <2>2. /\ new.pairs = Append(node.pairs, pair) /\ pair \in [key : Nat, value : Nat]
        /\ node.pairs \in Seq([key : Nat, value : Nat])
    OBVIOUS
  <2>3. new.pairs \in Seq([key : Nat, value : Nat]) /\ new.pairs # <<>> /\ Last(new.pairs) = pair
    <3> DEFINE S == [key : Nat, value : Nat]
               old == node.pairs
    <3>2. old \in Seq(S) /\ pair \in S /\ new.pairs = Append(old, pair)
      BY <2>2
    <3> HIDE DEF pair, new, S, old
    <3>1. /\ Append(old, pair) \in Seq(S) /\ Append(old, pair) # <<>>
          /\ Last(Append(old, pair)) = pair
      BY <3>2, AppendFacts, SMTT(30)
    <3> QED BY <3>1, <3>2 DEF S
  <2>4. Waiting(new)
    BY <2>3 DEF Waiting
  <2>5. new.kind = node.kind /\ new \in Node
    BY <2>3
  <2> QED BY <1>3, <2>1, <2>4, <2>5 DEF FrameOf, Advance
<1> QED BY <1>1, <1>2, <1>3

\* What attaching a child does to the stack, for a child that is in the list
\* of nodes, perhaps newly so.
LEMMA AttachKeeps ==
  ASSUME ComposerInv, at = "loading", ExpectsNode,
         NEW list \in Seq(Node), Len(list) >= Len(nodes),
         \A n \in 1..Len(nodes) : list[n] = nodes[n],
         NEW index \in 1..Len(list)
  PROVE  /\ Attached(list, index) \in Seq(Node)
         /\ Len(Attached(list, index)) = Len(list)
         /\ \A n \in (Len(nodes) + 1)..Len(list) : Attached(list, index)[n] = list[n]
         /\ AfterNode \in Seq(Frame)
         /\ Len(AfterNode) = Len(ctx) + 1
         /\ AfterNode[1] \in {"root", "closed"}
         /\ \A i \in DOMAIN ctx : /\ Attached(list, index)[ctx[i]].kind # "Scalar"
                                /\ AfterNode[i + 1] = FrameOf(Attached(list, index)[ctx[i]])
<1> DEFINE new == Attached(list, index)
<1>1. /\ nodes \in Seq(Node) /\ ctx \in Seq(1..Len(nodes)) /\ Len(ctx) \in Nat /\ DOMAIN ctx = 1..Len(ctx)
      /\ Len(nodes) \in Nat /\ Len(list) \in Nat
      /\ open \in Seq(Frame) /\ open # <<>> /\ Last(open) # "closed"
      /\ Len(open) = Len(ctx) + 1
      /\ \A i \in DOMAIN ctx : /\ nodes[ctx[i]].kind # "Scalar"
                             /\ open[i + 1] = FrameOf(nodes[ctx[i]])
      /\ open[1] \in {"root", "closed"}
  BY DEF ComposerInv, ComposerTypeOK, GrammarTypeOK, Phases, ContextMirrorsFrames, ExpectsNode,
         NodeIndex
<1>2. /\ Front(open) \in Seq(Frame) /\ Last(open) = open[Len(ctx) + 1] /\ Last(open) \in Frame
      /\ Len(Front(open)) = Len(ctx)
      /\ \A i \in 1..Len(ctx) : Front(open)[i] = open[i]
  BY <1>1, FrontFacts
<1>3. Advance[Last(open)] \in Frame
  BY <1>1, <1>2 DEF Advance, Frame
<1>4. /\ AfterNode \in Seq(Frame) /\ Len(AfterNode) = Len(ctx) + 1
      /\ \A i \in 1..Len(ctx) : AfterNode[i] = open[i]
      /\ AfterNode[Len(ctx) + 1] = Advance[Last(open)]
  BY <1>2, <1>3, AppendFacts DEF AfterNode
<1>5. CASE ctx = <<>>
  <2>1. Len(ctx) = 0 /\ new = list
    BY <1>5 DEF Attached
  <2>2. AfterNode[1] = "closed"
    BY <1>1, <1>2, <1>4, <2>1 DEF Advance
  <2> QED BY <1>1, <1>4, <2>1, <2>2
<1>6. CASE ctx # <<>>
  <2>1. /\ Len(ctx) \in 1..Len(ctx) /\ Last(ctx) = ctx[Len(ctx)] /\ Last(ctx) \in 1..Len(nodes)
    <3>1. /\ ctx \in Seq(1..Len(nodes)) /\ ctx # <<>>
      BY <1>1, <1>6
    <3>2. /\ Last(ctx) \in 1..Len(nodes) /\ Last(ctx) = ctx[Len(ctx)]
          /\ Len(ctx) \in Nat \ {0}
      BY <3>1, FrontFacts
    <3> QED BY <3>2
  <2> DEFINE top == Last(ctx)
             node == WithChild(nodes[top], index)
  <2>2. nodes[top] \in Node /\ nodes[top].kind # "Scalar" /\ index \in Nat \ {0}
    BY <1>1, <2>1, ElementOfSeq
  <2>3. /\ node \in Node /\ node.kind # "Scalar"
        /\ FrameOf(node) = Advance[FrameOf(nodes[top])]
    BY <2>2, ChildFrame
  <2>4. new = [list EXCEPT ![top] = node]
    BY <1>6, <2>1 DEF Attached
  <2>5. top \in 1..Len(list)
    BY <1>1, <2>1
  <2>6. /\ new \in Seq(Node) /\ Len(new) = Len(list)
        /\ \A n \in 1..Len(list) : new[n] = IF n = top THEN node ELSE list[n]
    <3> HIDE DEF new, node, top
    <3> QED BY <2>3, <2>4, <2>5, ExceptSeq
  <2>7. ASSUME NEW i \in DOMAIN ctx
        PROVE  new[ctx[i]].kind # "Scalar" /\ AfterNode[i + 1] = FrameOf(new[ctx[i]])
    <3>1. ctx[i] \in 1..Len(nodes) /\ ctx[i] \in 1..Len(list) /\ i \in 1..Len(ctx)
      BY <1>1, <2>7, ElementOfSeq
    <3>2. CASE i = Len(ctx)
      <4> HIDE DEF new, node
      <4> QED BY <1>1, <1>2, <1>4, <2>1, <2>3, <2>6, <3>1, <3>2
    <3>3. CASE i # Len(ctx)
      <4>1. i + 1 \in 1..Len(ctx) /\ i < Len(ctx)
        BY <1>1, <3>1, <3>3
      <4>2. ctx[i] < top
        BY <1>1, <2>1, <3>1, <4>1 DEF ComposerInv, Rising
      <4>3. new[ctx[i]] = nodes[ctx[i]]
        <5> HIDE DEF new, node
        <5> QED BY <1>1, <2>1, <2>6, <3>1, <4>2
      <4> QED BY <1>1, <1>4, <3>1, <4>1, <4>3
    <3> QED BY <3>2, <3>3
  <2>8. AfterNode[1] \in {"root", "closed"}
    BY <1>1, <1>4, <2>1
  <2>9. ASSUME NEW n \in (Len(nodes) + 1)..Len(list) PROVE new[n] = list[n]
    <3> HIDE DEF new, node
    <3> QED BY <1>1, <2>1, <2>6, SMTT(30)
  <2> QED BY <1>4, <2>6, <2>7, <2>8, <2>9
<1> QED BY <1>5, <1>6

-----------------------------------------------------------------------------
\* A call that returns leaves nothing behind (Document::load's exits).
LEMMA AnswerKeeps ==
  ASSUME NEW a \in {"none", "document", "end", "error", "panic"}, Return(a), aliases' = <<>>,
         nodes' \in Seq(Node), GrammarTypeOK', phase' # "before",
         a \in {"none", "document"} => open' = <<>>
  PROVE  ComposerInv'
<1> USE DEF Return
<1>1. ctx' \in Seq(NodeIndex') /\ aliases' \in Seq([anchor : Anchors, index : Nat])
  <2>1. <<>> \in Seq(NodeIndex') /\ <<>> \in Seq([anchor : Anchors, index : Nat])
    OBVIOUS
  <2> QED BY <2>1
<1>2. ComposerTypeOK'
  BY <1>1 DEF ComposerTypeOK
<1>3. Phases' /\ ContextMirrorsFrames'
  BY DEF Phases, ContextMirrorsFrames
<1>4. Rising'
  BY DEF Rising
<1>5. AnchorsLocal'
  BY DEF AnchorsLocal
<1> QED BY <1>2, <1>3, <1>4, <1>5 DEF ComposerInv

\* A scalar is never the innermost open collection.
LEMMA NeverOrphaned == ComposerInv /\ at = "loading" => ~Orphaned
<1> SUFFICES ASSUME ComposerInv, at = "loading", ctx # <<>>
             PROVE  nodes[Last(ctx)].kind # "Scalar"
  BY DEF Orphaned
<1>1. ctx \in Seq(NodeIndex)
  BY DEF ComposerInv, ComposerTypeOK
<1>2. Last(ctx) = ctx[Len(ctx)] /\ Len(ctx) \in Nat \ {0}
  BY <1>1, FrontFacts
<1>3. Len(ctx) \in DOMAIN ctx
  BY <1>1, <1>2
<1> QED BY <1>2, <1>3 DEF ComposerInv, ContextMirrorsFrames

\* Anchors are registered once each, at nodes of the document.
LEMMA RegisterKeeps ==
  ASSUME ComposerInv, NEW anchor \in Anchors \cup {NoAnchor},
         ~(anchor # NoAnchor /\ Registered(anchor)),
         NEW index \in Nat \ {0}, index = Len(nodes) + 1
  PROVE  LET list == WithAnchor(anchor, index)
         IN /\ list \in Seq([anchor : Anchors, index : Nat])
            /\ \A i, j \in DOMAIN list : list[i].anchor = list[j].anchor => i = j
            /\ \A i \in DOMAIN list : list[i].index \in 1..(Len(nodes) + 1)
<1>1. /\ aliases \in Seq([anchor : Anchors, index : Nat]) /\ Len(aliases) \in Nat
      /\ DOMAIN aliases = 1..Len(aliases)
      /\ Len(nodes) \in Nat
      /\ \A i, j \in DOMAIN aliases : aliases[i].anchor = aliases[j].anchor => i = j
      /\ \A i \in DOMAIN aliases : aliases[i].index \in 1..Len(nodes)
  BY DEF ComposerInv, ComposerTypeOK, AnchorsLocal, NodeIndex
<1>2. CASE anchor = NoAnchor
  BY <1>1, <1>2 DEF WithAnchor
<1>3. CASE anchor # NoAnchor
  <2> DEFINE new == [anchor |-> anchor, index |-> index]
             list == Append(aliases, new)
  <2>1. new \in [anchor : Anchors, index : Nat] /\ new.anchor = anchor /\ new.index = index
    BY <1>3
  <2>2. /\ list \in Seq([anchor : Anchors, index : Nat])
        /\ Len(list) = Len(aliases) + 1
        /\ \A i \in 1..Len(aliases) : list[i] = aliases[i]
        /\ list[Len(aliases) + 1] = new
    <3> HIDE DEF new
    <3> QED BY <1>1, <2>1, AppendFacts
  <2>3. \A i \in 1..Len(aliases) : aliases[i].anchor # anchor
    BY <1>1, <1>3 DEF Registered
  <2>4. WithAnchor(anchor, index) = list /\ DOMAIN list = 1..(Len(aliases) + 1)
    BY <1>3, <2>2 DEF WithAnchor
  <2> HIDE DEF list, new
  <2>5. ASSUME NEW i \in DOMAIN list, NEW j \in DOMAIN list, list[i].anchor = list[j].anchor
        PROVE  i = j
    <3>1. i \in 1..(Len(aliases) + 1) /\ j \in 1..(Len(aliases) + 1)
      BY <2>4
    <3>2. CASE i \in 1..Len(aliases) /\ j \in 1..Len(aliases)
      BY <1>1, <2>2, <2>5, <3>2
    <3>3. CASE i = Len(aliases) + 1 /\ j \in 1..Len(aliases)
      BY <2>1, <2>2, <2>3, <2>5, <3>3
    <3>4. CASE i \in 1..Len(aliases) /\ j = Len(aliases) + 1
      BY <2>1, <2>2, <2>3, <2>5, <3>4
    <3> QED BY <1>1, <3>1, <3>2, <3>3, <3>4
  <2>6. ASSUME NEW i \in DOMAIN list PROVE list[i].index \in 1..(Len(nodes) + 1)
    BY <1>1, <2>1, <2>2, <2>4, <2>6, SMTT(30)
  <2> QED BY <2>2, <2>4, <2>5, <2>6
<1> QED BY <1>2, <1>3

\* load_alias attaches a node that is there already.
LEMMA AliasStep ==
  ASSUME ComposerInv, LoadingNodes, NEW anchor \in Anchors,
         ExpectsNode, open' = AfterNode, phase' = phase, GrammarTypeOK',
         load_alias(anchor)
  PROVE  ComposerInv' /\ answer' # "panic"
<1>1. at = "loading" /\ answer = "none" /\ ~Orphaned
  BY NeverOrphaned DEF LoadingNodes
<1>2. CASE ~Registered(anchor)
  <2>1. Answer("error") /\ nodes' = <<>>
    BY <1>2 DEF load_alias, GiveUp
  <2>2. nodes' \in Seq(Node) /\ phase' # "before"
    BY <1>1, <2>1 DEF ComposerInv, Phases
  <2> QED BY <2>1, <2>2, AnswerKeeps DEF Answer, Return
<1>3. CASE Registered(anchor)
  <2> DEFINE first == CHOOSE i \in DOMAIN aliases :
                        /\ aliases[i].anchor = anchor
                        /\ \A j \in 1..(i - 1) : aliases[j].anchor # anchor
             index == aliases[first].index
  <2>1. nodes' = Attached(nodes, index) /\ UNCHANGED <<ctx, aliases, at, answer>>
    BY <1>1, <1>3 DEF load_alias
  <2>2. /\ nodes \in Seq(Node) /\ Len(nodes) \in Nat
        /\ aliases \in Seq([anchor : Anchors, index : Nat])
        /\ ctx \in Seq(1..Len(nodes)) /\ DOMAIN ctx = 1..Len(ctx) /\ Len(ctx) \in Nat
        /\ \A i, j \in DOMAIN aliases : aliases[i].anchor = aliases[j].anchor => i = j
        /\ \A i \in DOMAIN aliases : aliases[i].index \in 1..Len(nodes)
    BY DEF ComposerInv, ComposerTypeOK, AnchorsLocal, NodeIndex
  <2>3. PICK i \in DOMAIN aliases : aliases[i].anchor = anchor
    BY <1>3 DEF Registered
  <2>4. \A j \in 1..(i - 1) : aliases[j].anchor # anchor
    <3> SUFFICES ASSUME NEW j \in 1..(i - 1), aliases[j].anchor = anchor PROVE FALSE
      OBVIOUS
    <3>1. i \in 1..Len(aliases) /\ j \in DOMAIN aliases /\ j # i
      BY <2>2, <2>3
    <3> QED BY <2>2, <2>3, <3>1
  <2>5. first \in DOMAIN aliases
    BY <2>3, <2>4
  <2>6. index \in 1..Len(nodes)
    BY <2>2, <2>5
  <2> HIDE DEF index
  <2>7. /\ nodes' \in Seq(Node) /\ Len(nodes') = Len(nodes)
        /\ open' \in Seq(Frame) /\ Len(open') = Len(ctx) + 1
        /\ open'[1] \in {"root", "closed"}
        /\ \A i_1 \in DOMAIN ctx : /\ nodes'[ctx[i_1]].kind # "Scalar"
                                 /\ open'[i_1 + 1] = FrameOf(nodes'[ctx[i_1]])
    <3>1. Len(nodes) >= Len(nodes)
      BY <2>2
    <3>2. /\ Attached(nodes, index) \in Seq(Node) /\ Len(Attached(nodes, index)) = Len(nodes)
          /\ AfterNode \in Seq(Frame) /\ Len(AfterNode) = Len(ctx) + 1
          /\ AfterNode[1] \in {"root", "closed"}
          /\ \A i_1 \in DOMAIN ctx : /\ Attached(nodes, index)[ctx[i_1]].kind # "Scalar"
                                   /\ AfterNode[i_1 + 1] = FrameOf(Attached(nodes, index)[ctx[i_1]])
      BY <1>1, <2>2, <2>6, <3>1, AttachKeeps
    <3> QED BY <2>1, <3>2
  <2>8. NodeIndex' = NodeIndex /\ NodeIndex = 1..Len(nodes)
    BY <2>2, <2>7 DEF NodeIndex
  <2>9. ComposerTypeOK'
    BY <2>1, <2>7, <2>8 DEF ComposerTypeOK, ComposerInv
  <2>10. Phases'
    <3>1. open' # <<>>
      BY <2>2, <2>7
    <3> QED BY <1>1, <2>1, <2>7, <3>1 DEF Phases, ComposerInv
  <2>11. ContextMirrorsFrames'
    BY <2>1, <2>7 DEF ContextMirrorsFrames, FrameOf, Waiting
  <2>12. Rising' /\ AnchorsLocal'
    BY <1>1, <2>1, <2>8 DEF Rising, AnchorsLocal, ComposerInv
  <2> QED BY <1>1, <2>1, <2>9, <2>10, <2>11, <2>12 DEF ComposerInv
<1> QED BY <1>2, <1>3

\* load_scalar, load_sequence and load_mapping push a node and attach it;
\* a collection is opened on both sides.
LEMMA NodeStep ==
  ASSUME ComposerInv, LoadingNodes, NEW anchor \in Anchors \cup {NoAnchor},
         NEW kind \in Kind, NEW context,
         ExpectsNode, phase' = phase, GrammarTypeOK',
         \/ kind = "Scalar" /\ context = ctx /\ open' = AfterNode
         \/ /\ kind # "Scalar" /\ context = Append(ctx, Len(nodes) + 1)
            /\ open' = Append(AfterNode, FrameOf(NewNode(kind))),
         LoadNode(kind, anchor, context)
  PROVE  ComposerInv' /\ answer' # "panic"
<1>1. at = "loading" /\ answer = "none" /\ ~Orphaned
  BY NeverOrphaned DEF LoadingNodes
<1>2. CASE anchor # NoAnchor /\ Registered(anchor)
  <2>1. Answer("error") /\ nodes' = <<>>
    BY <1>2 DEF LoadNode, GiveUp
  <2>2. nodes' \in Seq(Node) /\ phase' # "before"
    BY <1>1, <2>1 DEF ComposerInv, Phases
  <2> QED BY <2>1, <2>2, AnswerKeeps DEF Answer, Return
<1>3. CASE ~(anchor # NoAnchor /\ Registered(anchor))
  <2> DEFINE index == Len(nodes) + 1
             node == NewNode(kind)
             list == Append(nodes, node)
  <2>1. /\ aliases' = WithAnchor(anchor, index)
        /\ nodes' = Attached(list, index) /\ ctx' = context
        /\ UNCHANGED <<at, answer>>
    BY <1>1, <1>3 DEF LoadNode
  <2>2. /\ nodes \in Seq(Node) /\ Len(nodes) \in Nat
        /\ ctx \in Seq(1..Len(nodes)) /\ DOMAIN ctx = 1..Len(ctx) /\ Len(ctx) \in Nat
    BY DEF ComposerInv, ComposerTypeOK, NodeIndex
  <2>3. node \in Node /\ node.kind = kind
    BY DEF NewNode, Node
  <2>4. /\ list \in Seq(Node) /\ Len(list) = index
        /\ \A n \in 1..Len(nodes) : list[n] = nodes[n]
        /\ list[index] = node
    <3> HIDE DEF node
    <3> QED BY <2>2, <2>3, AppendFacts
  <2>5. index \in 1..Len(list) /\ Len(list) >= Len(nodes) /\ index \in Nat \ {0}
        /\ index \in (Len(nodes) + 1)..Len(list)
    BY <2>2, <2>4
  <2> HIDE DEF index, list, node
  <2>6. /\ nodes' \in Seq(Node) /\ Len(nodes') = index /\ nodes'[index] = node
        /\ AfterNode \in Seq(Frame) /\ Len(AfterNode) = Len(ctx) + 1
        /\ AfterNode[1] \in {"root", "closed"}
        /\ \A i \in DOMAIN ctx : /\ nodes'[ctx[i]].kind # "Scalar"
                               /\ AfterNode[i + 1] = FrameOf(nodes'[ctx[i]])
    <3>1. /\ Attached(list, index) \in Seq(Node) /\ Len(Attached(list, index)) = Len(list)
          /\ \A n \in (Len(nodes) + 1)..Len(list) : Attached(list, index)[n] = list[n]
          /\ AfterNode \in Seq(Frame) /\ Len(AfterNode) = Len(ctx) + 1
          /\ AfterNode[1] \in {"root", "closed"}
          /\ \A i \in DOMAIN ctx : /\ Attached(list, index)[ctx[i]].kind # "Scalar"
                                 /\ AfterNode[i + 1] = FrameOf(Attached(list, index)[ctx[i]])
      BY <1>1, <2>4, <2>5, AttachKeeps
    <3> QED BY <2>1, <2>4, <2>5, <3>1
  <2>7. NodeIndex' = 1..index /\ index = Len(nodes) + 1
    BY <2>6 DEF NodeIndex, index
  <2>8. ctx \in Seq(1..index)
    <3>1. \A i \in 1..Len(ctx) : ctx[i] \in 1..Len(nodes)
      BY <2>2, ElementOfSeq
    <3>2. \A i \in 1..Len(ctx) : ctx[i] \in 1..index
      BY <2>2, <2>7, <3>1
    <3>3. ctx = [i \in 1..Len(ctx) |-> ctx[i]]
      BY <2>2
    <3>4. [i \in 1..Len(ctx) |-> ctx[i]] \in Seq(1..index)
      BY <2>2, <3>2
    <3> QED BY <3>3, <3>4
  <2>9. AnchorsLocal' /\ aliases' \in Seq([anchor : Anchors, index : Nat])
    <3>1. /\ aliases' \in Seq([anchor : Anchors, index : Nat])
          /\ \A i, j \in DOMAIN aliases' : aliases'[i].anchor = aliases'[j].anchor => i = j
          /\ \A i \in DOMAIN aliases' : aliases'[i].index \in 1..(Len(nodes) + 1)
      BY <1>3, <2>1, <2>5, <2>7, RegisterKeeps
    <3> QED BY <1>1, <2>1, <2>7, <3>1 DEF AnchorsLocal
  <2>10. CASE kind = "Scalar"
    <3>1. ctx' = ctx /\ open' = AfterNode
      BY <2>1, <2>10
    <3>2. ComposerTypeOK'
      BY <2>1, <2>6, <2>7, <2>8, <2>9, <3>1 DEF ComposerTypeOK, ComposerInv
    <3>3. Phases'
      <4>1. open' # <<>>
        BY <2>2, <2>6, <3>1
      <4> QED BY <1>1, <2>1, <2>6, <3>1, <4>1 DEF Phases, ComposerInv
    <3>4. ContextMirrorsFrames'
      BY <2>6, <3>1 DEF ContextMirrorsFrames, FrameOf, Waiting
    <3>5. Rising'
      BY <3>1 DEF Rising, ComposerInv
    <3> QED BY <1>1, <2>1, <2>9, <3>2, <3>3, <3>4, <3>5 DEF ComposerInv
  <2>11. CASE kind # "Scalar"
    <3> DEFINE frame == FrameOf(NewNode(kind))
    <3>1. ctx' = Append(ctx, index) /\ open' = Append(AfterNode, frame)
      BY <2>1, <2>7, <2>11
    <3>2. frame \in Frame /\ node.kind # "Scalar" /\ frame = FrameOf(node)
      BY <2>3, <2>11 DEF FrameOf, Waiting, NewNode, Kind, Frame, node
    <3> HIDE DEF frame
    <3>3. /\ ctx' \in Seq(1..index) /\ Len(ctx') = Len(ctx) + 1
          /\ \A i \in 1..Len(ctx) : ctx'[i] = ctx[i]
          /\ ctx'[Len(ctx) + 1] = index
      BY <2>5, <2>7, <2>8, <3>1, AppendFacts
    <3>4. /\ open' \in Seq(Frame) /\ open' # <<>> /\ Len(open') = Len(ctx) + 2
          /\ \A i \in 1..(Len(ctx) + 1) : open'[i] = AfterNode[i]
          /\ open'[Len(ctx) + 2] = frame
      <4>1. Len(ctx) + 1 + 1 = Len(ctx) + 2
        BY <2>2
      <4> QED BY <2>6, <3>1, <3>2, <4>1, AppendFacts
    <3>5. ComposerTypeOK'
      BY <2>1, <2>6, <2>7, <2>9, <3>3 DEF ComposerTypeOK, ComposerInv
    <3>6. Phases'
      <4>1. open'[1] = AfterNode[1]
        BY <2>2, <3>4
      <4> QED BY <1>1, <2>1, <2>6, <3>4, <4>1 DEF Phases, ComposerInv
    <3>7. ASSUME NEW i \in DOMAIN ctx'
          PROVE  /\ nodes'[ctx'[i]].kind # "Scalar"
                 /\ open'[i + 1] = FrameOf(nodes'[ctx'[i]])
      <4>1. i \in 1..(Len(ctx) + 1)
        BY <3>3
      <4>2. CASE i \in 1..Len(ctx)
        <5>1. i \in DOMAIN ctx /\ ctx'[i] = ctx[i] /\ i + 1 \in 1..(Len(ctx) + 1)
          BY <2>2, <3>3, <4>2
        <5> QED BY <2>6, <3>4, <5>1
      <4>3. CASE i = Len(ctx) + 1
        <5>1. i + 1 = Len(ctx) + 2
          BY <2>2, <4>3
        <5> QED BY <2>6, <3>2, <3>3, <3>4, <4>3, <5>1
      <4> QED BY <2>2, <4>1, <4>2, <4>3
    <3>8. ContextMirrorsFrames'
      <4>1. Len(open') = Len(ctx') + 1
        BY <2>2, <3>3, <3>4
      <4> QED BY <3>7, <4>1 DEF ContextMirrorsFrames, FrameOf, Waiting
    <3>9. Rising'
      <4> SUFFICES ASSUME NEW i \in DOMAIN ctx', NEW j \in DOMAIN ctx', i < j
                   PROVE  ctx'[i] < ctx'[j]
        BY DEF Rising
      <4>1. i \in 1..(Len(ctx) + 1) /\ j \in 1..(Len(ctx) + 1) /\ i \in 1..Len(ctx)
            /\ i \in DOMAIN ctx
        BY <2>2, <3>3
      <4>2. CASE j \in 1..Len(ctx)
        BY <2>2, <3>3, <4>1, <4>2 DEF Rising, ComposerInv
      <4>3. CASE j = Len(ctx) + 1
        <5>1. ctx[i] \in 1..Len(nodes)
          BY <2>2, <4>1, ElementOfSeq
        <5> QED BY <2>2, <2>7, <3>3, <4>1, <4>3, <5>1
      <4> QED BY <2>2, <4>1, <4>2, <4>3
    <3> QED BY <1>1, <2>1, <2>9, <3>5, <3>6, <3>8, <3>9 DEF ComposerInv
  <2> QED BY <2>10, <2>11
<1> QED BY <1>2, <1>3

\* load_sequence_end and load_mapping_end pop a collection of their kind.
LEMMA EndStep ==
  ASSUME ComposerInv, LoadingNodes,
         NEW kind \in {"Sequence", "Mapping"},
         open # <<>>, Last(open) = (IF kind = "Sequence" THEN "items" ELSE "key"),
         open' = Front(open), phase' = phase, GrammarTypeOK',
         LoadCollectionEnd(kind)
  PROVE  ComposerInv' /\ answer' # "panic"
<1>1. /\ at = "loading" /\ answer = "none"
      /\ nodes \in Seq(Node) /\ ctx \in Seq(NodeIndex) /\ open \in Seq(Frame)
      /\ DOMAIN ctx = 1..Len(ctx) /\ Len(ctx) \in Nat
      /\ Len(open) = Len(ctx) + 1 /\ open[1] \in {"root", "closed"}
      /\ \A i \in DOMAIN ctx : /\ nodes[ctx[i]].kind # "Scalar"
                             /\ open[i + 1] = FrameOf(nodes[ctx[i]])
  BY DEF LoadingNodes, ComposerInv, ComposerTypeOK, GrammarTypeOK, Phases, ContextMirrorsFrames
<1>2. /\ Last(open) = open[Len(ctx) + 1] /\ Front(open) \in Seq(Frame)
      /\ Len(Front(open)) = Len(ctx)
      /\ \A i \in 1..Len(ctx) : Front(open)[i] = open[i]
  <2>1. open \in Seq(Frame) /\ open # <<>>
    BY <1>1
  <2>2. /\ Front(open) \in Seq(Frame) /\ Last(open) = open[Len(open)]
        /\ Len(Front(open)) = Len(open) - 1
        /\ \A i \in 1..(Len(open) - 1) : Front(open)[i] = open[i]
    BY <2>1, FrontFacts
  <2>3. Len(open) - 1 = Len(ctx) /\ Len(open) = Len(ctx) + 1
    BY <1>1
  <2> QED BY <2>2, <2>3
<1>3. ctx # <<>>
  <2> SUFFICES ASSUME ctx = <<>> PROVE FALSE
    OBVIOUS
  <2>1. Len(ctx) = 0
    OBVIOUS
  <2> QED BY <1>1, <1>2, <2>1
<1>4. /\ Front(ctx) \in Seq(NodeIndex) /\ Last(ctx) = ctx[Len(ctx)] /\ Last(ctx) \in NodeIndex
      /\ Len(ctx) \in Nat \ {0} /\ Len(Front(ctx)) = Len(ctx) - 1
      /\ \A i \in 1..(Len(ctx) - 1) : Front(ctx)[i] = ctx[i]
  BY <1>1, <1>3, FrontFacts
<1>5. nodes[Last(ctx)].kind = kind
  <2>1. /\ Len(ctx) \in DOMAIN ctx /\ nodes[Last(ctx)].kind # "Scalar"
        /\ Last(open) = FrameOf(nodes[Last(ctx)])
    <3>1. Len(ctx) \in DOMAIN ctx
      BY <1>1, <1>4
    <3>2. /\ nodes[ctx[Len(ctx)]].kind # "Scalar"
          /\ open[Len(ctx) + 1] = FrameOf(nodes[ctx[Len(ctx)]])
      BY <1>1, <3>1
    <3> QED BY <1>2, <1>4, <3>1, <3>2
  <2>2. nodes[Last(ctx)].kind \in Kind
    <3>1. Last(ctx) \in 1..Len(nodes)
      BY <1>1, <1>4 DEF NodeIndex
    <3>2. nodes[Last(ctx)] \in Node
      BY <1>1, <3>1, ElementOfSeq
    <3> QED BY <3>2 DEF Node
  <2> QED BY <2>1, <2>2 DEF FrameOf, Kind
<1>6. ctx' = Front(ctx) /\ UNCHANGED <<nodes, aliases, at, answer>>
  BY <1>3, <1>5 DEF LoadCollectionEnd
<1>7. DOMAIN ctx' = 1..(Len(ctx) - 1) /\ Len(ctx') = Len(ctx) - 1
  <2>1. ctx' \in Seq(NodeIndex) /\ Len(ctx') = Len(ctx) - 1
    BY <1>4, <1>6
  <2>2. DOMAIN ctx' = 1..Len(ctx')
    BY <2>1
  <2> QED BY <2>1, <2>2
<1>8. ComposerTypeOK'
  BY <1>4, <1>6 DEF ComposerTypeOK, ComposerInv, NodeIndex
<1>9. Phases'
  <2>1. open' # <<>> /\ open'[1] = open[1]
    BY <1>2, <1>4
  <2> QED BY <1>1, <1>6, <2>1 DEF Phases, ComposerInv
<1>10. ContextMirrorsFrames'
  <2>1. Len(open') = Len(ctx') + 1
    BY <1>2, <1>4, <1>7
  <2>2. ASSUME NEW i \in DOMAIN ctx'
        PROVE  /\ nodes'[ctx'[i]].kind # "Scalar"
               /\ open'[i + 1] = FrameOf(nodes'[ctx'[i]])
    <3>1. i \in 1..(Len(ctx) - 1) /\ i \in DOMAIN ctx /\ i + 1 \in 1..Len(ctx)
      BY <1>1, <1>4, <1>7
    <3> QED BY <1>1, <1>2, <1>4, <1>6, <3>1
  <2> QED BY <2>1, <2>2 DEF ContextMirrorsFrames, FrameOf, Waiting
<1>11. Rising'
  <2> SUFFICES ASSUME NEW i \in DOMAIN ctx', NEW j \in DOMAIN ctx', i < j
               PROVE  ctx'[i] < ctx'[j]
    BY DEF Rising
  <2>1. /\ i \in DOMAIN ctx /\ j \in DOMAIN ctx
        /\ i \in 1..(Len(ctx) - 1) /\ j \in 1..(Len(ctx) - 1)
    BY <1>1, <1>4, <1>7
  <2> QED BY <1>4, <1>6, <2>1 DEF Rising, ComposerInv
<1>12. AnchorsLocal'
  BY <1>6 DEF AnchorsLocal, ComposerInv, NodeIndex
<1> QED BY <1>1, <1>6, <1>8, <1>9, <1>10, <1>11, <1>12 DEF ComposerInv

-----------------------------------------------------------------------------
\* The frame a collection opens with is what its node stands for.
LEMMA OpeningFrame ==
  /\ FrameOf(NewNode("Sequence")) = "items"
  /\ FrameOf(NewNode("Mapping")) = "key"
BY DEF FrameOf, NewNode, Waiting

\* One event inside a document.
LEMMA LoadNodesKeeps ==
  ASSUME ComposerInv, load_nodes
  PROVE  ComposerInv' /\ answer' # "panic"
<1> USE DEF Kind
<1>1. LoadingNodes /\ GrammarTypeOK
  BY DEF load_nodes, ComposerInv, ComposerTypeOK
<1>2. GrammarNext => GrammarTypeOK'
  BY <1>1, GrammarTypes
<1>3. CASE \E a \in Anchors : AliasEvent(a) /\ HandleNode("Alias", a)
  <2>1. PICK a \in Anchors : AliasEvent(a) /\ HandleNode("Alias", a)
    BY <1>3
  <2>2. Leaf /\ load_alias(a)
    BY <2>1 DEF AliasEvent, HandleNode
  <2> QED BY <1>1, <1>2, <2>2, AliasStep DEF Leaf, GrammarNext
<1>4. CASE \E a \in Anchors \cup {NoAnchor}, t \in {"Scalar", "SequenceStart", "MappingStart"} :
             NodeEvent(t, a) /\ HandleNode(t, a)
  <2>1. PICK a \in Anchors \cup {NoAnchor}, t \in {"Scalar", "SequenceStart", "MappingStart"} :
             NodeEvent(t, a) /\ HandleNode(t, a)
    BY <1>4
  <2>2. CASE t = "Scalar"
    <3>1. Leaf /\ LoadNode("Scalar", a, ctx)
      BY <2>1, <2>2 DEF NodeEvent, HandleNode, load_scalar
    <3> QED BY <1>1, <1>2, <3>1, NodeStep DEF Leaf, GrammarNext
  <2>3. CASE t = "SequenceStart"
    <3>1. /\ CollectionStart("SequenceStart", "items")
          /\ LoadNode("Sequence", a, Append(ctx, Len(nodes) + 1))
      BY <2>1, <2>3 DEF NodeEvent, HandleNode, LoadCollection
    <3>2. /\ ExpectsNode /\ phase' = phase
          /\ open' = Append(AfterNode, FrameOf(NewNode("Sequence"))) /\ GrammarNext
      BY <3>1, OpeningFrame DEF CollectionStart, GrammarNext
    <3> QED BY <1>1, <1>2, <3>1, <3>2, NodeStep
  <2>4. CASE t = "MappingStart"
    <3>1. /\ CollectionStart("MappingStart", "key")
          /\ LoadNode("Mapping", a, Append(ctx, Len(nodes) + 1))
      BY <2>1, <2>4 DEF NodeEvent, HandleNode, LoadCollection
    <3>2. /\ ExpectsNode /\ phase' = phase
          /\ open' = Append(AfterNode, FrameOf(NewNode("Mapping"))) /\ GrammarNext
      BY <3>1, OpeningFrame DEF CollectionStart, GrammarNext
    <3> QED BY <1>1, <1>2, <3>1, <3>2, NodeStep
  <2> QED BY <2>2, <2>3, <2>4
<1>5. CASE \E t \in {"SequenceEnd", "MappingEnd"} : EndEvent(t) /\ HandleNode(t, NoAnchor)
  <2>1. PICK t \in {"SequenceEnd", "MappingEnd"} : EndEvent(t) /\ HandleNode(t, NoAnchor)
    BY <1>5
  <2>2. CASE t = "SequenceEnd"
    <3>1. CollectionEnd("SequenceEnd", "items") /\ LoadCollectionEnd("Sequence")
      BY <2>1, <2>2 DEF EndEvent, HandleNode
    <3> QED BY <1>1, <1>2, <3>1, EndStep DEF CollectionEnd, GrammarNext
  <2>3. CASE t = "MappingEnd"
    <3>1. CollectionEnd("MappingEnd", "key") /\ LoadCollectionEnd("Mapping")
      BY <2>1, <2>3 DEF EndEvent, HandleNode
    <3> QED BY <1>1, <1>2, <3>1, EndStep DEF CollectionEnd, GrammarNext
  <2> QED BY <2>2, <2>3
<1> QED BY <1>3, <1>4, <1>5 DEF load_nodes

\* The exits of a call that read an event outside the nodes of a document.
LEMMA ExitKeeps ==
  ASSUME ComposerInv,
         load_nodes_end \/ load_nodes_failed \/ load_end \/ load_failed
  PROVE  ComposerInv' /\ answer' # "panic"
<1>1. GrammarTypeOK /\ nodes \in Seq(Node) /\ <<>> \in Seq(Node)
  BY DEF ComposerInv, ComposerTypeOK
<1>2. GrammarNext => GrammarTypeOK'
  BY <1>1, GrammarTypes
<1>3. CASE load_nodes_end
  <2>1. /\ Answer("document") /\ nodes' = nodes /\ GrammarNext /\ open' = <<>>
        /\ phase' # "before"
    BY <1>3 DEF load_nodes_end, DocumentEnd, GrammarNext
  <2> QED BY <1>1, <1>2, <2>1, AnswerKeeps DEF Answer, Return
<1>4. CASE load_nodes_failed \/ load_failed
  <2>1. /\ Answer("error") /\ nodes' = <<>> /\ GrammarNext
        /\ phase' # "before"
    BY <1>4 DEF load_nodes_failed, load_failed, GiveUp, GrammarNext, Fail
  <2> QED BY <1>1, <1>2, <2>1, AnswerKeeps DEF Answer, Return
<1>5. CASE load_end
  <2>1. /\ Return("end") /\ aliases' = <<>> /\ nodes' = <<>> /\ GrammarNext
        /\ phase' # "before"
    BY <1>5 DEF load_end, GrammarNext, StreamEnd, Opening, Callable, ComposerInv, AnchorsLocal
  <2> QED BY <1>1, <1>2, <2>1, AnswerKeeps DEF Answer, Return
<1> QED BY <1>3, <1>4, <1>5

\* The entries of a call.
LEMMA EntryKeeps ==
  ASSUME ComposerInv, load_stream \/ load_document
  PROVE  ComposerInv' /\ answer' # "panic"
<1>1. /\ GrammarTypeOK /\ nodes \in Seq(Node) /\ ctx \in Seq(NodeIndex)
      /\ aliases \in Seq([anchor : Anchors, index : Nat])
  BY DEF ComposerInv, ComposerTypeOK
<1>2. GrammarNext => GrammarTypeOK'
  BY <1>1, GrammarTypes
<1>3. CASE load_stream
  <2>1. /\ GrammarNext /\ phase = "before" /\ phase' = "stream" /\ open' = open
        /\ at = "idle" /\ at' = "begun" /\ answer' = "none"
        /\ UNCHANGED <<nodes, ctx, aliases>>
    BY <1>3 DEF load_stream, StreamStart, GrammarNext, Callable
  <2>2. ComposerTypeOK'
    BY <1>1, <1>2, <2>1 DEF ComposerTypeOK, NodeIndex
  <2>3. Phases' /\ ContextMirrorsFrames'
    BY <2>1 DEF Phases, ContextMirrorsFrames, ComposerInv
  <2>4. Rising' /\ AnchorsLocal'
    BY <2>1 DEF Rising, AnchorsLocal, NodeIndex, ComposerInv
  <2> QED BY <2>1, <2>2, <2>3, <2>4 DEF ComposerInv
<1>4. CASE load_document
  <2>1. /\ GrammarNext /\ phase' = "stream" /\ open' = <<"root">>
        /\ at # "loading" /\ at' = "loading" /\ answer' = "none"
        /\ nodes' = <<>> /\ ctx' = <<>> /\ aliases' = aliases
    BY <1>4 DEF load_document, DocumentStart, GrammarNext, Opening, Callable
  <2>2. ComposerTypeOK'
    <3>1. nodes' \in Seq(Node) /\ ctx' \in Seq(NodeIndex')
      BY <2>1
    <3> QED BY <1>1, <1>2, <2>1, <3>1 DEF ComposerTypeOK
  <2>3. Phases' /\ ContextMirrorsFrames'
    BY <2>1 DEF Phases, ContextMirrorsFrames
  <2>4. Rising' /\ AnchorsLocal'
    BY <2>1 DEF Rising, AnchorsLocal, ComposerInv
  <2> QED BY <2>1, <2>2, <2>3, <2>4 DEF ComposerInv
<1> QED BY <1>3, <1>4

\* Only the call after an error may find anything but a document or the end.
LEMMA UnexpectedKeeps ==
  ASSUME ComposerInv, load_unexpected
  PROVE  ComposerInv' /\ answer \in {"error", "panic"}
<1>1. /\ Opening /\ Return("panic") /\ aliases' = <<>> /\ nodes' = nodes
      /\ GrammarTypeOK /\ nodes \in Seq(Node)
  BY DEF load_unexpected, Panic, Opening, Callable, AnchorsLocal, ComposerInv, ComposerTypeOK
<1>2. open # <<>> /\ GrammarNext /\ phase' # "before"
  BY DEF load_unexpected, Leaf, DocumentEnd, CollectionStart, CollectionEnd, ExpectsNode,
         GrammarNext
<1>3. ComposerInv'
  BY <1>1, <1>2, GrammarTypes, AnswerKeeps
<1>4. answer = "error"
  BY <1>1, <1>2 DEF Opening, Callable, Phases, ComposerInv
<1> QED BY <1>3, <1>4

LEMMA ComposerStep ==
  ASSUME ComposerInv, ComposerNext
  PROVE  ComposerInv' /\ (answer' = "panic" => answer \in {"error", "panic"})
BY LoadNodesKeeps, ExitKeeps, EntryKeeps, UnexpectedKeeps DEF ComposerNext

LEMMA ComposerStart == ComposerInit => ComposerInv
<1> SUFFICES ASSUME ComposerInit PROVE ComposerInv
  OBVIOUS
<1>1. /\ nodes = <<>> /\ ctx = <<>> /\ aliases = <<>> /\ open = <<>>
      /\ at = "idle" /\ answer = "none" /\ phase = "before" /\ emitted = "None"
  BY DEF ComposerInit, GrammarInit
<1>2. ComposerTypeOK
  <2>1. /\ nodes \in Seq(Node) /\ ctx \in Seq(NodeIndex)
        /\ aliases \in Seq([anchor : Anchors, index : Nat]) /\ open \in Seq(Frame)
    BY <1>1
  <2> QED BY <1>1, <2>1 DEF ComposerTypeOK, GrammarTypeOK, Phase, EventType
<1>3. Phases /\ ContextMirrorsFrames
  BY <1>1 DEF Phases, ContextMirrorsFrames
<1>4. Rising /\ AnchorsLocal
  BY <1>1 DEF Rising, AnchorsLocal
<1> QED BY <1>2, <1>3, <1>4 DEF ComposerInv

LEMMA ComposerStutter ==
  ASSUME ComposerInv, UNCHANGED composerVars
  PROVE  ComposerInv' /\ (answer' = "panic" => answer \in {"error", "panic"})
<1> USE DEF composerVars
<1>1. ComposerTypeOK'
  BY DEF ComposerInv, ComposerTypeOK, GrammarTypeOK, NodeIndex
<1>2. Phases'
  BY DEF ComposerInv, Phases
<1>3. ContextMirrorsFrames'
  BY DEF ComposerInv, ContextMirrorsFrames, FrameOf, Waiting
<1>4. Rising' /\ AnchorsLocal'
  BY DEF ComposerInv, Rising, AnchorsLocal, NodeIndex
<1> QED BY <1>1, <1>2, <1>3, <1>4 DEF ComposerInv

-----------------------------------------------------------------------------
\* Every reachable state of the loader, whatever the document and however
\* often load() is called, satisfies the inductive invariant.
THEOREM ComposerInvInductive == ComposerSpec => []ComposerInv
<1>1. ComposerInit => ComposerInv
  BY ComposerStart
<1>2. ComposerInv /\ [ComposerNext]_composerVars => ComposerInv'
  BY ComposerStep, ComposerStutter
<1> QED BY <1>1, <1>2, PTL DEF ComposerSpec

\* The document, the context and the aliases keep their types; every index
\* on the context is one of a node (document.rs: nodes, ctx, parser.aliases).
THEOREM ComposerTypeCorrect == ComposerSpec => []ComposerTypeOK
<1>1. ComposerInv => ComposerTypeOK
  BY DEF ComposerInv
<1> QED BY <1>1, ComposerInvInductive, PTL

\* The loader's context has an entry for each open collection of the input,
\* of its kind, and a pair waits for its value exactly where the input is to
\* supply one (load_node_add, document.rs:385-412).
THEOREM ContextMirrors == ComposerSpec => []ContextMirrorsFrames
<1>1. ComposerInv => ContextMirrorsFrames
  BY DEF ComposerInv
<1> QED BY <1>1, ComposerInvInductive, PTL

\* Anchors are forgotten between documents, are registered once and name a
\* node of the document (register_anchor, and delete_aliases at every exit of load).
THEOREM ComposerAnchorsLocal == ComposerSpec => []AnchorsLocal
<1>1. ComposerInv => AnchorsLocal
  BY DEF ComposerInv
<1> QED BY <1>1, ComposerInvInductive, PTL

\* A caller who stops at an error never reaches a failing assertion or an
\* unexpected event of the loader.
THEOREM ComposerPanicsOnlyAfterError == ComposerSpec => PanicOnlyAfterError
<1>1. ComposerInv /\ [ComposerNext]_composerVars
        => [answer' = "panic" => answer \in {"error", "panic"}]_composerVars
  BY ComposerStep
<1> QED BY <1>1, ComposerInvInductive, PTL DEF ComposerSpec, PanicOnlyAfterError

-----------------------------------------------------------------------------
\* The children of a node, whatever their order.
ChildSet(node) ==
  IF node.kind = "Sequence" THEN Range(node.items)
  ELSE {node.pairs[i].key : i \in DOMAIN node.pairs}
         \cup ({node.pairs[i].value : i \in DOMAIN node.pairs} \ {0})

\* A node among m: its children are nodes, and only its last pair may wait
\* for a value.
LinkedNode(node, m) ==
  /\ ChildSet(node) \subseteq 1..m
  /\ \A i \in DOMAIN node.pairs : node.pairs[i].value = 0 => i = Len(node.pairs)
  /\ node.kind = "Sequence" => node.pairs = <<>>

Linked(list) == \A n \in 1..Len(list) : LinkedNode(list[n], Len(list))

\* A node that waits for a value is open.
WaitersOpen(list, context) ==
  \A n \in 1..Len(list) : Waiting(list[n]) => \E i \in 1..Len(context) : context[i] = n

\* Up to m, every node but the root is a child of one before it.
Reached(list, m) ==
  \A n \in 2..m : \E p \in 1..(n - 1) : n \in ChildSet(list[p])

\* The document, while it is loaded and when it is handed out.
DocumentInv ==
  /\ at = "loading" => /\ open[1] = "root" <=> nodes = <<>>
                       /\ Linked(nodes) /\ WaitersOpen(nodes, ctx) /\ Reached(nodes, Len(nodes))
  /\ answer = "document" =>
       /\ nodes # <<>>
       /\ Linked(nodes) /\ WaitersOpen(nodes, <<>>) /\ Reached(nodes, Len(nodes))

\* The children of a node are those of its items or of its pairs.
LEMMA ChildrenMembers ==
  ASSUME nodes \in Seq(Node), NEW n \in 1..Len(nodes)
  PROVE  {Children(n)[i] : i \in DOMAIN Children(n)} = ChildSet(nodes[n])
<1> DEFINE node == nodes[n]
           ss == [i \in DOMAIN node.pairs |-> PairChildren(node.pairs[i])]
<1>1. /\ node \in Node /\ node.items \in Seq(Nat)
      /\ node.pairs \in Seq([key : Nat, value : Nat])
  <2>1. node \in Node
    BY ElementOfSeq
  <2> QED BY <2>1 DEF Node
<1> HIDE DEF node
<1>2. CASE node.kind = "Sequence"
  BY <1>2 DEF Children, ChildrenOf, ChildSet, Range, node
<1>3. CASE node.kind # "Sequence"
  <2> DEFINE m == Len(node.pairs)
  <2>1. /\ DOMAIN node.pairs = 1..m /\ m \in Nat
        /\ \A i \in 1..m : node.pairs[i] \in [key : Nat, value : Nat]
    BY <1>1, LenProperties, ElementOfSeq
  <2> HIDE DEF m
  <2>2. \A i \in 1..m : /\ PairChildren(node.pairs[i]) \in Seq(Nat)
                        /\ Range(PairChildren(node.pairs[i]))
                             = {node.pairs[i].key} \cup ({node.pairs[i].value} \ {0})
    <3> SUFFICES ASSUME NEW pair \in [key : Nat, value : Nat]
                 PROVE  /\ PairChildren(pair) \in Seq(Nat)
                        /\ Range(PairChildren(pair)) = {pair.key} \cup ({pair.value} \ {0})
      BY <2>1
    <3>1. \A x \in Nat : <<x>> \in Seq(Nat) /\ Range(<<x>>) = {x}
      BY DEF Range
    <3>2. \A x, y \in Nat : <<x, y>> \in Seq(Nat) /\ Range(<<x, y>>) = {x, y}
      <4> SUFFICES ASSUME NEW x \in Nat, NEW y \in Nat
                   PROVE  <<x, y>> \in Seq(Nat) /\ Range(<<x, y>>) = {x, y}
        OBVIOUS
      <4>1. DOMAIN <<x, y>> = {1, 2} /\ <<x, y>>[1] = x /\ <<x, y>>[2] = y
        OBVIOUS
      <4> QED BY <4>1 DEF Range
    <3>3. pair.key \in Nat /\ pair.value \in Nat
      OBVIOUS
    <3> QED BY <3>1, <3>2, <3>3 DEF PairChildren
  <2>3. ss \in Seq(Seq(Nat)) /\ Len(ss) = m /\ \A i \in 1..m : ss[i] = PairChildren(node.pairs[i])
    <3>1. ss = [i \in 1..m |-> PairChildren(node.pairs[i])]
      BY <2>1
    <3> QED BY <2>1, <2>2, <3>1
  <2>4. Children(n) = FlattenSeq(ss)
    BY <1>3 DEF Children, ChildrenOf, node
  <2> HIDE DEF ss
  <2>5. \A x : x \in Range(Children(n))
               <=> \E i \in 1..m : x \in {node.pairs[i].key} \cup ({node.pairs[i].value} \ {0})
    <3>1. \A x : x \in Range(FlattenSeq(ss)) <=> \E i \in 1..Len(ss) : x \in Range(ss[i])
      BY <2>3, FlattenMembers
    <3>2. \A i \in 1..m : Range(ss[i]) = {node.pairs[i].key} \cup ({node.pairs[i].value} \ {0})
      BY <2>2, <2>3
    <3>3. \A x : x \in Range(Children(n)) <=> \E i \in 1..m : x \in Range(ss[i])
      BY <2>3, <2>4, <3>1
    <3> HIDE DEF node
    <3> SUFFICES ASSUME NEW x
                 PROVE  x \in Range(Children(n))
                          <=> \E i \in 1..m : x \in {node.pairs[i].key} \cup ({node.pairs[i].value} \ {0})
      OBVIOUS
    <3>4. \A i \in 1..m : x \in Range(ss[i])
                           <=> x \in {node.pairs[i].key} \cup ({node.pairs[i].value} \ {0})
      BY <3>2, Zenon
    <3>5. x \in Range(Children(n)) <=> \E i \in 1..m : x \in Range(ss[i])
      BY <3>3
    <3> QED BY <3>4, <3>5, Zenon
  <2>6. Range(Children(n)) = ChildSet(node)
    <3>1. ChildSet(node) = {node.pairs[i].key : i \in 1..m}
                             \cup ({node.pairs[i].value : i \in 1..m} \ {0})
      BY <1>3, <2>1 DEF ChildSet
    <3>2. \A x : x \in ChildSet(node)
                 <=> \E i \in 1..m : x \in {node.pairs[i].key} \cup ({node.pairs[i].value} \ {0})
      BY <3>1
    <3> QED BY <2>5, <3>2
  <2> QED BY <2>6 DEF Range, node
<1> QED BY <1>2, <1>3

\* A new child joins the others; nothing but the last pair waits.
LEMMA ChildLinked ==
  ASSUME NEW node \in Node, node.kind # "Scalar", NEW m \in Nat, LinkedNode(node, m),
         NEW index \in 1..m
  PROVE  /\ LinkedNode(WithChild(node, index), m)
         /\ ChildSet(WithChild(node, index)) = ChildSet(node) \cup {index}
<1> DEFINE Pair == [key : Nat, value : Nat]
<1>1. /\ node.items \in Seq(Nat) /\ node.pairs \in Seq(Pair) /\ node.kind \in Kind
      /\ Len(node.pairs) \in Nat /\ DOMAIN node.pairs = 1..Len(node.pairs)
      /\ index \in Nat \ {0}
  BY LenProperties DEF Node
<1>2. CASE node.kind = "Sequence"
  <2>1. WithChild(node, index) = [node EXCEPT !.items = Append(@, index)]
    BY <1>2 DEF WithChild
  <2>2. Range(Append(node.items, index)) = Range(node.items) \cup {index}
    <3>1. /\ Append(node.items, index) \in Seq(Nat)
          /\ Len(Append(node.items, index)) = Len(node.items) + 1
          /\ \A i \in 1..Len(node.items) : Append(node.items, index)[i] = node.items[i]
          /\ Append(node.items, index)[Len(node.items) + 1] = index
          /\ Len(node.items) \in Nat
      BY <1>1, AppendFacts, LenProperties
    <3>2. \A i : i \in 1..(Len(node.items) + 1) <=> i \in 1..Len(node.items) \/ i = Len(node.items) + 1
      BY <3>1
    <3>3. /\ Range(Append(node.items, index))
               = {Append(node.items, index)[i] : i \in 1..(Len(node.items) + 1)}
          /\ Range(node.items) = {node.items[i] : i \in 1..Len(node.items)}
      BY <1>1, <3>1, RangeEquality
    <3> QED BY <3>1, <3>2, <3>3
  <2>3. /\ WithChild(node, index).kind = "Sequence"
        /\ WithChild(node, index).pairs = node.pairs
        /\ WithChild(node, index).items = Append(node.items, index)
    BY <1>2, <2>1 DEF Node
  <2> QED BY <1>2, <2>2, <2>3 DEF LinkedNode, ChildSet
<1>3. CASE node.kind # "Sequence"
  <2> DEFINE new == WithChild(node, index)
             n == Len(node.pairs)
             Keys(pairs, k) == {pairs[i].key : i \in 1..k}
             Values(pairs, k) == {pairs[i].value : i \in 1..k} \ {0}
  <2>1. \A p \in Seq(Pair), l \in Nat, node1 \in Node :
           Len(p) = l /\ node1.kind # "Sequence" /\ node1.pairs = p =>
             ChildSet(node1) = Keys(p, l) \cup Values(p, l)
    <3> SUFFICES ASSUME NEW p \in Seq(Pair), NEW node1 \in Node,
                        node1.kind # "Sequence", node1.pairs = p
                 PROVE  ChildSet(node1) = Keys(p, Len(p)) \cup Values(p, Len(p))
      OBVIOUS
    <3>1. DOMAIN p = 1..Len(p)
      BY LenProperties
    <3> QED BY <3>1 DEF ChildSet
  <2>2. new \in Node /\ new.kind = node.kind
    BY <1>1, ChildFrame
  <2>3. ChildSet(node) = Keys(node.pairs, n) \cup Values(node.pairs, n)
    BY <1>1, <1>3, <2>1
  <2>4. \A i \in 1..n : node.pairs[i].value = 0 => i = n
    BY <1>1 DEF LinkedNode
  <2>5. \A i \in 1..n : node.pairs[i] \in Pair
    BY <1>1, ElementOfSeq
  <2>6. CASE Waiting(node)
    <3>1. n \in 1..n /\ node.pairs[n].value = 0 /\ node.pairs # <<>>
      BY <1>1, <2>6, EmptySeq DEF Waiting, Last
    <3> DEFINE pair == [node.pairs[n] EXCEPT !.value = index]
               list == [node.pairs EXCEPT ![n] = pair]
    <3>2. pair \in Pair /\ pair.value = index /\ pair.key = node.pairs[n].key
      <4>1. node.pairs[n] \in Pair
        BY <2>5, <3>1
      <4> QED BY <1>1, <4>1
    <3>3. /\ list \in Seq(Pair) /\ Len(list) = n
          /\ \A i \in 1..n : list[i] = IF i = n THEN pair ELSE node.pairs[i]
      <4> HIDE DEF pair
      <4> QED BY <1>1, <3>1, <3>2, ExceptSeq
    <3>4. new = [node EXCEPT !.pairs = list]
      BY <1>3, <2>6 DEF WithChild
    <3>5. new.pairs = list
      BY <3>4 DEF Node
    <3> HIDE DEF new, list, pair
    <3>6. ChildSet(new) = Keys(list, n) \cup Values(list, n)
      BY <1>1, <1>3, <2>1, <2>2, <3>3, <3>5
    <3>7. Keys(list, n) = Keys(node.pairs, n)
      BY <3>1, <3>2, <3>3
    <3>8. Values(list, n) = Values(node.pairs, n) \cup {index}
      <4>1. \A i \in 1..n : list[i].value = IF i = n THEN index ELSE node.pairs[i].value
        BY <3>2, <3>3
      <4> QED BY <1>1, <3>1, <4>1
    <3>9. ChildSet(new) = ChildSet(node) \cup {index}
      BY <2>3, <3>6, <3>7, <3>8
    <3>10. \A i \in DOMAIN new.pairs : new.pairs[i].value = 0 => i = Len(new.pairs)
      <4>1. DOMAIN list = 1..n
        BY <3>3, LenProperties
      <4> QED BY <2>4, <3>2, <3>3, <3>5, <4>1
    <3> QED BY <1>3, <2>2, <3>9, <3>10 DEF LinkedNode, new
  <2>7. CASE ~Waiting(node)
    <3> DEFINE pair == [key |-> index, value |-> 0]
               list == Append(node.pairs, pair)
    <3>1. new = [node EXCEPT !.pairs = list]
      BY <1>3, <2>7 DEF WithChild
    <3>2. new.pairs = list
      BY <3>1 DEF Node
    <3>3. pair \in Pair /\ pair.key = index /\ pair.value = 0
      BY <1>1
    <3>4. /\ list \in Seq(Pair) /\ Len(list) = n + 1
          /\ \A i \in 1..n : list[i] = node.pairs[i]
          /\ list[n + 1] = pair
      <4> HIDE DEF pair, Pair
      <4> QED BY <1>1, <3>3, AppendFacts
    <3> HIDE DEF new, list, pair
    <3>5. ChildSet(new) = Keys(list, n + 1) \cup Values(list, n + 1)
      <4>1. n + 1 \in Nat
        BY <1>1
      <4> QED BY <1>1, <1>3, <2>1, <2>2, <3>2, <3>4, <4>1
    <3>6. \A i : i \in 1..(n + 1) <=> i \in 1..n \/ i = n + 1
      BY <1>1
    <3>7. Keys(list, n + 1) = Keys(node.pairs, n) \cup {index}
      BY <3>3, <3>4, <3>6
    <3>8. Values(list, n + 1) = Values(node.pairs, n)
      <4>1. (\A i \in 1..n : list[i].value = node.pairs[i].value) /\ list[n + 1].value = 0
        BY <3>3, <3>4
      <4>2. ASSUME NEW v \in Values(list, n + 1) PROVE v \in Values(node.pairs, n)
        <5>1. PICK i \in 1..(n + 1) : v = list[i].value /\ v # 0
          OBVIOUS
        <5>2. i \in 1..n
          BY <3>6, <4>1, <5>1
        <5> QED BY <4>1, <5>1, <5>2
      <4>3. ASSUME NEW v \in Values(node.pairs, n) PROVE v \in Values(list, n + 1)
        <5>1. PICK i \in 1..n : v = node.pairs[i].value /\ v # 0
          OBVIOUS
        <5>2. i \in 1..(n + 1)
          BY <3>6
        <5> QED BY <4>1, <5>1, <5>2
      <4> QED BY <4>2, <4>3
    <3>9. ChildSet(new) = ChildSet(node) \cup {index}
      BY <2>3, <3>5, <3>7, <3>8
    <3>10. \A i \in DOMAIN new.pairs : new.pairs[i].value = 0 => i = Len(new.pairs)
      <4>1. DOMAIN list = 1..(n + 1)
        BY <3>4, LenProperties
      <4>2. \A i \in 1..n : node.pairs[i].value # 0
        <5>1. \A i \in 1..n : node.pairs[i].value = 0 => node.pairs # <<>> /\ i = n
          BY <1>1, <2>4
        <5> QED BY <2>7, <5>1 DEF Waiting, Last
      <4> QED BY <3>2, <3>4, <3>6, <4>1, <4>2
    <3> QED BY <1>3, <2>2, <3>9, <3>10 DEF LinkedNode, new
  <2> QED BY <2>6, <2>7
<1> QED BY <1>2, <1>3

\* The innermost collection takes a child: the others stay as they are.
WithLink(list, top, index) == [list EXCEPT ![top] = WithChild(@, index)]

IsOpen(context, n) == \E i \in 1..Len(context) : context[i] = n

LEMMA AttachLinked ==
  ASSUME NEW list \in Seq(Node), NEW context, NEW m \in Nat,
         NEW top \in 1..Len(list), NEW index \in 1..Len(list),
         m <= Len(list), IsOpen(context, top), list[top].kind # "Scalar",
         Linked(list), WaitersOpen(list, context), Reached(list, m)
  PROVE  /\ Len(WithLink(list, top, index)) = Len(list)
         /\ Linked(WithLink(list, top, index))
         /\ WaitersOpen(WithLink(list, top, index), context)
         /\ Reached(WithLink(list, top, index), m)
         /\ index \in ChildSet(WithLink(list, top, index)[top])
<1> DEFINE node == WithChild(list[top], index)
           new == WithLink(list, top, index)
<1>1. Len(list) \in Nat
  BY LenProperties
<1>2. list[top] \in Node /\ LinkedNode(list[top], Len(list))
  BY <1>1, ElementOfSeq DEF Linked
<1>3. /\ node \in Node /\ LinkedNode(node, Len(list))
      /\ ChildSet(node) = ChildSet(list[top]) \cup {index}
  <2>1. index \in Nat \ {0}
    BY <1>1
  <2> QED BY <1>1, <1>2, <2>1, ChildFrame, ChildLinked
<1>4. /\ Len(new) = Len(list)
      /\ \A n \in 1..Len(list) : new[n] = IF n = top THEN node ELSE list[n]
  <2>1. new = [list EXCEPT ![top] = node]
    BY <1>1 DEF WithLink
  <2> HIDE DEF node, new
  <2> QED BY <1>1, <1>3, <2>1, ExceptSeq
<1> HIDE DEF node, new
<1>5. Linked(new)
  BY <1>3, <1>4 DEF Linked
<1>6. WaitersOpen(new, context)
  <2> SUFFICES ASSUME NEW n \in 1..Len(list), Waiting(new[n])
               PROVE  \E i \in 1..Len(context) : context[i] = n
    BY <1>4 DEF WaitersOpen
  <2>1. CASE n = top
    BY <2>1 DEF IsOpen
  <2>2. CASE n # top
    BY <1>4, <2>2 DEF WaitersOpen
  <2> QED BY <2>1, <2>2
<1>7. \A n \in 1..Len(list) : ChildSet(list[n]) \subseteq ChildSet(new[n])
  BY <1>3, <1>4
<1>8. Reached(new, m)
  <2> SUFFICES ASSUME NEW n \in 2..m
               PROVE  \E p \in 1..(n - 1) : n \in ChildSet(new[p])
    BY DEF Reached
  <2>1. PICK p \in 1..(n - 1) : n \in ChildSet(list[p])
    BY DEF Reached
  <2>2. p \in 1..Len(list)
    BY <1>1
  <2> QED BY <1>7, <2>1, <2>2
<1>9. index \in ChildSet(new[top])
  BY <1>1, <1>3, <1>4
<1> QED BY <1>4, <1>5, <1>6, <1>8, <1>9 DEF new

\* A node that is pushed has no children and waits for nothing.
LEMMA PushLinked ==
  ASSUME NEW list \in Seq(Node), NEW kind \in Kind, NEW context,
         Linked(list), WaitersOpen(list, context), Reached(list, Len(list)),
         NEW new, new = Append(list, NewNode(kind))
  PROVE  /\ new \in Seq(Node) /\ Len(new) = Len(list) + 1
         /\ \A n \in 1..Len(list) : new[n] = list[n]
         /\ Linked(new) /\ WaitersOpen(new, context) /\ Reached(new, Len(list))
<1> DEFINE node == NewNode(kind)
           m == Len(list)
<1>1. m \in Nat
  BY LenProperties
<1>2. /\ node \in Node /\ ~Waiting(node) /\ ChildSet(node) = {}
      /\ node.pairs = <<>>
  <2>1. node \in Node /\ node.pairs = <<>> /\ node.items = <<>>
    BY DEF NewNode, Node
  <2>2. DOMAIN node.pairs = {} /\ Range(node.items) = {}
    BY <2>1 DEF Range
  <2> QED BY <2>1, <2>2 DEF Waiting, ChildSet
<1>3. /\ new \in Seq(Node) /\ Len(new) = m + 1
      /\ \A n \in 1..m : new[n] = list[n]
      /\ new[m + 1] = node
  <2>1. new = Append(list, node) /\ node \in Node
    BY <1>2
  <2> HIDE DEF node
  <2> QED BY <2>1, AppendFacts
<1> HIDE DEF node, m
<1>4. \A n : n \in 1..(m + 1) <=> n \in 1..m \/ n = m + 1
  BY <1>1
<1>5. \A n \in 1..m : LinkedNode(list[n], m + 1)
  <2>1. 1..m \subseteq 1..(m + 1)
    BY <1>1
  <2>2. \A n \in 1..m : LinkedNode(list[n], m)
    BY DEF Linked, m
  <2> QED BY <2>1, <2>2 DEF LinkedNode
<1>6. LinkedNode(node, m + 1)
  BY <1>2 DEF LinkedNode
<1>7. Linked(new)
  BY <1>3, <1>4, <1>5, <1>6 DEF Linked
<1>8. WaitersOpen(new, context)
  BY <1>2, <1>3, <1>4 DEF WaitersOpen, m
<1>9. Reached(new, m)
  <2> SUFFICES ASSUME NEW n \in 2..m
               PROVE  \E p \in 1..(n - 1) : n \in ChildSet(new[p])
    BY DEF Reached
  <2>1. PICK p \in 1..(n - 1) : n \in ChildSet(list[p])
    BY DEF Reached, m
  <2>2. p \in 1..m
    BY <1>1
  <2> QED BY <1>3, <2>1, <2>2
<1> QED BY <1>3, <1>7, <1>8, <1>9 DEF m

-----------------------------------------------------------------------------
\* While a document is loaded with no collection open, it is empty or whole.
LEMMA RootFacts ==
  ASSUME ComposerInv, DocumentInv, at = "loading", ExpectsNode
  PROVE  /\ nodes \in Seq(Node) /\ ctx \in Seq(1..Len(nodes)) /\ Len(nodes) \in Nat
         /\ ctx = <<>> => nodes = <<>> /\ AfterNode[1] = "closed"
         /\ ctx # <<>> => nodes # <<>> /\ nodes[Last(ctx)].kind # "Scalar"
                           /\ AfterNode[1] = "closed"
         /\ AfterNode \in Seq(Frame) /\ Len(AfterNode) >= 1
<1>1. /\ nodes \in Seq(Node) /\ ctx \in Seq(1..Len(nodes)) /\ Len(nodes) \in Nat
      /\ Len(ctx) \in Nat /\ DOMAIN ctx = 1..Len(ctx)
      /\ open \in Seq(Frame) /\ open # <<>> /\ Last(open) # "closed"
      /\ open[1] \in {"root", "closed"} /\ Len(open) = Len(ctx) + 1
      /\ \A i \in DOMAIN ctx : nodes[ctx[i]].kind # "Scalar"
      /\ open[1] = "root" <=> nodes = <<>>
  BY DEF ComposerInv, ComposerTypeOK, GrammarTypeOK, Phases, ContextMirrorsFrames, ExpectsNode,
         NodeIndex, DocumentInv
<1>2. /\ Front(open) \in Seq(Frame) /\ Last(open) = open[Len(ctx) + 1] /\ Last(open) \in Frame
      /\ Len(Front(open)) = Len(ctx)
      /\ \A i \in 1..Len(ctx) : Front(open)[i] = open[i]
  <2>1. open \in Seq(Frame) /\ open # <<>>
    BY <1>1
  <2>2. /\ Front(open) \in Seq(Frame) /\ Last(open) = open[Len(open)] /\ Last(open) \in Frame
        /\ Len(Front(open)) = Len(open) - 1
        /\ \A i \in 1..(Len(open) - 1) : Front(open)[i] = open[i]
    BY <2>1, FrontFacts
  <2>3. Len(open) - 1 = Len(ctx)
    BY <1>1
  <2> QED BY <1>1, <2>2, <2>3
<1>3. Advance[Last(open)] \in Frame
  BY <1>1, <1>2 DEF Advance, Frame
<1>4. /\ AfterNode \in Seq(Frame) /\ Len(AfterNode) = Len(ctx) + 1
      /\ \A i \in 1..Len(ctx) : AfterNode[i] = open[i]
      /\ AfterNode[Len(ctx) + 1] = Advance[Last(open)]
  BY <1>2, <1>3, AppendFacts DEF AfterNode
<1>5. CASE ctx = <<>>
  <2>1. Len(ctx) = 0
    BY <1>5
  <2>2. Last(open) = "root"
    BY <1>1, <1>2, <2>1
  <2>3. nodes = <<>> /\ AfterNode[1] = "closed"
    BY <1>1, <1>2, <1>4, <2>1, <2>2 DEF Advance
  <2> QED BY <1>1, <1>4, <1>5, <2>3
<1>6. CASE ctx # <<>>
  <2>1. /\ Last(ctx) \in 1..Len(nodes) /\ Last(ctx) = ctx[Len(ctx)] /\ Len(ctx) \in Nat \ {0}
    BY <1>1, <1>6, FrontFacts
  <2>2. Len(ctx) \in DOMAIN ctx /\ 1 \in 1..Len(ctx)
    BY <1>1, <2>1
  <2>3. nodes # <<>>
    BY <1>1, <2>1
  <2>4. AfterNode[1] = "closed"
    BY <1>1, <1>4, <2>2, <2>3
  <2> QED BY <1>1, <1>4, <1>6, <2>1, <2>2, <2>3, <2>4
<1> QED BY <1>5, <1>6

\* The waiters are open in a longer context as well.
LEMMA MoreOpen ==
  ASSUME NEW list, NEW n, NEW context \in Seq(1..n), NEW x \in 1..n, WaitersOpen(list, context)
  PROVE  WaitersOpen(list, Append(context, x))
<1>1. /\ Len(Append(context, x)) = Len(context) + 1 /\ Len(context) \in Nat
      /\ \A i \in 1..Len(context) : Append(context, x)[i] = context[i]
  BY AppendFacts, LenProperties
<1>2. \A i \in 1..Len(context) : i \in 1..(Len(context) + 1)
  BY <1>1
<1> QED BY <1>1, <1>2 DEF WaitersOpen

\* An answer that hands out no document.
LEMMA NoDocument ==
  ASSUME at' # "loading", answer' # "document"
  PROVE  DocumentInv'
BY DEF DocumentInv

\* load_alias attaches a node that is there already.
LEMMA AliasDocument ==
  ASSUME ComposerInv, DocumentInv, LoadingNodes, NEW anchor \in Anchors,
         ExpectsNode, open' = AfterNode, load_alias(anchor)
  PROVE  DocumentInv'
<1>1. at = "loading" /\ answer = "none" /\ ~Orphaned
  BY NeverOrphaned DEF LoadingNodes
<1>2. CASE ~Registered(anchor)
  BY <1>2, NoDocument DEF load_alias, GiveUp, Answer, Return
<1>3. CASE Registered(anchor)
  <2> DEFINE first == CHOOSE i \in DOMAIN aliases :
                        /\ aliases[i].anchor = anchor
                        /\ \A j \in 1..(i - 1) : aliases[j].anchor # anchor
             index == aliases[first].index
  <2>1. nodes' = Attached(nodes, index) /\ UNCHANGED <<ctx, aliases, at, answer>>
    BY <1>1, <1>3 DEF load_alias
  <2>2. /\ aliases \in Seq([anchor : Anchors, index : Nat])
        /\ \A i, j \in DOMAIN aliases : aliases[i].anchor = aliases[j].anchor => i = j
        /\ \A i \in DOMAIN aliases : aliases[i].index \in 1..Len(nodes)
    BY DEF ComposerInv, ComposerTypeOK, AnchorsLocal, NodeIndex
  <2>3. PICK i \in DOMAIN aliases : aliases[i].anchor = anchor
    BY <1>3 DEF Registered
  <2>4. \A j \in 1..(i - 1) : aliases[j].anchor # anchor
    <3> SUFFICES ASSUME NEW j \in 1..(i - 1), aliases[j].anchor = anchor PROVE FALSE
      OBVIOUS
    <3>1. i \in 1..Len(aliases) /\ j \in DOMAIN aliases /\ j # i
      BY <2>2, <2>3
    <3> QED BY <2>2, <2>3, <3>1
  <2>5. first \in DOMAIN aliases
    BY <2>3, <2>4
  <2>6. index \in 1..Len(nodes)
    BY <2>2, <2>5
  <2> HIDE DEF index
  <2>7. /\ nodes \in Seq(Node) /\ ctx \in Seq(1..Len(nodes)) /\ Len(nodes) \in Nat
        /\ Linked(nodes) /\ WaitersOpen(nodes, ctx) /\ Reached(nodes, Len(nodes))
    BY <1>1, RootFacts DEF DocumentInv
  <2>8. ctx # <<>> /\ nodes[Last(ctx)].kind # "Scalar" /\ AfterNode[1] = "closed"
    <3>1. nodes # <<>>
      BY <2>6, <2>7
    <3> QED BY <1>1, <3>1, RootFacts
  <2>9. nodes' = [nodes EXCEPT ![Last(ctx)] = WithChild(@, index)]
    BY <2>1, <2>8 DEF Attached
  <2>10. PICK new : new = nodes'
    OBVIOUS
  <2>11. /\ Len(new) = Len(nodes)
         /\ Linked(new) /\ WaitersOpen(new, ctx) /\ Reached(new, Len(nodes))
    <3>1. new = WithLink(nodes, Last(ctx), index) /\ Len(nodes) <= Len(nodes)
      BY <2>7, <2>9, <2>10 DEF WithLink
    <3>2. Last(ctx) \in 1..Len(nodes) /\ IsOpen(ctx, Last(ctx))
      <4>1. /\ Last(ctx) \in 1..Len(nodes) /\ Last(ctx) = ctx[Len(ctx)]
            /\ Len(ctx) \in Nat \ {0}
        BY <2>7, <2>8, FrontFacts
      <4>2. Len(ctx) \in 1..Len(ctx)
        BY <4>1
      <4> QED BY <4>1, <4>2 DEF IsOpen
    <3> QED BY <2>6, <2>7, <2>8, <3>1, <3>2, AttachLinked
  <2>12. new # <<>>
    BY <2>6, <2>7, <2>11
  <2>13. Linked(nodes') /\ WaitersOpen(nodes', ctx') /\ Reached(nodes', Len(nodes')) /\ nodes' # <<>>
    BY <2>1, <2>10, <2>11, <2>12
  <2>14. answer' = "none" /\ open'[1] = "closed"
    BY <1>1, <2>1, <2>8
  <2> QED BY <2>13, <2>14 DEF DocumentInv, Linked, WaitersOpen, Reached, LinkedNode, ChildSet, Waiting
<1> QED BY <1>2, <1>3

\* load_scalar, load_sequence and load_mapping push a node: the innermost open
\* collection reaches it.
LEMMA NodeDocument ==
  ASSUME ComposerInv, DocumentInv, LoadingNodes, NEW anchor \in Anchors \cup {NoAnchor},
         NEW kind \in Kind, NEW context, ExpectsNode,
         \/ context = ctx /\ open' = AfterNode
         \/ /\ context = Append(ctx, Len(nodes) + 1)
            /\ \E f \in Frame : open' = Append(AfterNode, f),
         LoadNode(kind, anchor, context)
  PROVE  DocumentInv'
<1>1. at = "loading" /\ answer = "none" /\ ~Orphaned
  BY NeverOrphaned DEF LoadingNodes
<1>2. CASE anchor # NoAnchor /\ Registered(anchor)
  BY <1>2, NoDocument DEF LoadNode, GiveUp, Answer, Return
<1>3. CASE ~(anchor # NoAnchor /\ Registered(anchor))
  <2> DEFINE index == Len(nodes) + 1
             list == Append(nodes, NewNode(kind))
  <2>1. /\ nodes' = Attached(list, index) /\ ctx' = context
        /\ UNCHANGED <<at, answer>>
    BY <1>1, <1>3 DEF LoadNode
  <2>2. /\ nodes \in Seq(Node) /\ ctx \in Seq(1..Len(nodes)) /\ Len(nodes) \in Nat
        /\ Linked(nodes) /\ WaitersOpen(nodes, ctx) /\ Reached(nodes, Len(nodes))
        /\ ctx = <<>> => nodes = <<>>
        /\ ctx # <<>> => nodes[Last(ctx)].kind # "Scalar"
        /\ AfterNode[1] = "closed" /\ AfterNode \in Seq(Frame) /\ Len(AfterNode) >= 1
    BY <1>1, RootFacts DEF DocumentInv
  <2>3. /\ list \in Seq(Node) /\ Len(list) = index
        /\ \A n \in 1..Len(nodes) : list[n] = nodes[n]
        /\ Linked(list) /\ WaitersOpen(list, ctx) /\ Reached(list, Len(nodes))
    BY <2>2, PushLinked
  <2>4. index \in 1..Len(list) /\ Len(nodes) <= Len(list) /\ index = Len(nodes) + 1
    BY <2>2, <2>3
  <2> HIDE DEF list, index
  <2>5. ctx \in Seq(1..Len(list))
    <3>1. \A i \in 1..Len(ctx) : ctx[i] \in 1..Len(nodes)
      BY <2>2, ElementOfSeq
    <3>2. \A i \in 1..Len(ctx) : ctx[i] \in 1..Len(list)
      BY <2>2, <2>3, <2>4, <3>1
    <3>3. ctx = [i \in 1..Len(ctx) |-> ctx[i]]
      BY <2>2
    <3>4. [i \in 1..Len(ctx) |-> ctx[i]] \in Seq(1..Len(list))
      BY <2>2, <3>2
    <3> QED BY <3>3, <3>4
  <2>6. PICK new : new = nodes'
    OBVIOUS
  <2>7. /\ Len(new) = index /\ Linked(new) /\ WaitersOpen(new, ctx) /\ Reached(new, index)
    <3>1. CASE ctx = <<>>
      <4>1. new = list /\ Len(nodes) = 0
        BY <2>1, <2>2, <2>6, <3>1 DEF Attached
      <4>2. index = 1
        BY <2>4, <4>1
      <4> QED BY <2>3, <4>1, <4>2 DEF Reached
    <3>2. CASE ctx # <<>>
      <4>1. new = WithLink(list, Last(ctx), index)
        BY <2>1, <2>6, <3>2 DEF Attached, WithLink
      <4>2. /\ Last(ctx) \in 1..Len(nodes) /\ Last(ctx) \in 1..Len(list)
            /\ IsOpen(ctx, Last(ctx))
        BY <2>2, <2>5, <3>2, FrontFacts, SMTT(30) DEF IsOpen
      <4>3. list[Last(ctx)].kind # "Scalar"
        BY <2>2, <2>3, <3>2, <4>2
      <4>4. /\ Len(new) = Len(list)
            /\ Linked(new) /\ WaitersOpen(new, ctx) /\ Reached(new, Len(nodes))
            /\ index \in ChildSet(new[Last(ctx)])
        BY <2>2, <2>3, <2>4, <4>1, <4>2, <4>3, AttachLinked
      <4>5. Reached(new, index)
        <5> SUFFICES ASSUME NEW n \in 2..index
                     PROVE  \E p \in 1..(n - 1) : n \in ChildSet(new[p])
          BY DEF Reached
        <5>1. n \in 2..Len(nodes) \/ n = index
          BY <2>2, <2>4
        <5>2. CASE n \in 2..Len(nodes)
          BY <4>4, <5>2 DEF Reached
        <5>3. CASE n = index
          <6>1. Last(ctx) \in 1..(n - 1)
            BY <2>2, <2>4, <4>2, <5>3
          <6> QED BY <4>4, <5>3, <6>1
        <5> QED BY <5>1, <5>2, <5>3
      <4> QED BY <2>3, <4>4, <4>5
    <3> QED BY <3>1, <3>2
  <2>8. WaitersOpen(new, context)
    <3>1. context = ctx \/ context = Append(ctx, index)
      BY <2>4
    <3>2. WaitersOpen(new, Append(ctx, index))
      BY <2>4, <2>5, <2>7, MoreOpen
    <3> QED BY <2>7, <3>1, <3>2
  <2>9. open'[1] = "closed"
    <3>1. ASSUME NEW f \in Frame, open' = Append(AfterNode, f) PROVE open'[1] = "closed"
      <4>1. 1 \in 1..Len(AfterNode)
        BY <2>2, LenProperties
      <4> QED BY <2>2, <3>1, <4>1, AppendFacts
    <3> QED BY <2>2, <3>1
  <2>10. new # <<>>
    BY <2>2, <2>4, <2>7
  <2>11. /\ Linked(nodes') /\ WaitersOpen(nodes', ctx') /\ Reached(nodes', Len(nodes'))
         /\ nodes' # <<>> /\ answer' = "none"
    BY <1>1, <2>1, <2>6, <2>7, <2>8, <2>10
  <2> QED BY <2>9, <2>11 DEF DocumentInv, Linked, WaitersOpen, Reached, LinkedNode, ChildSet, Waiting
<1> QED BY <1>2, <1>3

\* A collection that closes waits for nothing.
LEMMA EndDocument ==
  ASSUME ComposerInv, DocumentInv, LoadingNodes,
         NEW kind \in {"Sequence", "Mapping"},
         open # <<>>, Last(open) = (IF kind = "Sequence" THEN "items" ELSE "key"),
         open' = Front(open), LoadCollectionEnd(kind)
  PROVE  DocumentInv'
<1>1. /\ at = "loading" /\ answer = "none"
      /\ nodes \in Seq(Node) /\ ctx \in Seq(1..Len(nodes)) /\ open \in Seq(Frame)
      /\ DOMAIN ctx = 1..Len(ctx) /\ Len(ctx) \in Nat
      /\ Len(open) = Len(ctx) + 1 /\ open[1] \in {"root", "closed"}
      /\ \A i \in DOMAIN ctx : open[i + 1] = FrameOf(nodes[ctx[i]])
      /\ open[1] = "root" <=> nodes = <<>>
      /\ Linked(nodes) /\ WaitersOpen(nodes, ctx) /\ Reached(nodes, Len(nodes))
  BY DEF LoadingNodes, ComposerInv, ComposerTypeOK, GrammarTypeOK, Phases, ContextMirrorsFrames,
     DocumentInv, NodeIndex
<1>2. CASE ctx = <<>> \/ nodes[Last(ctx)].kind # kind
  BY <1>2, NoDocument DEF LoadCollectionEnd, Panic, Return
<1>3. CASE ctx # <<>> /\ nodes[Last(ctx)].kind = kind
  <2>1. ctx' = Front(ctx) /\ UNCHANGED <<nodes, aliases, at, answer>>
    BY <1>3 DEF LoadCollectionEnd
  <2>2. /\ Last(ctx) = ctx[Len(ctx)] /\ Last(ctx) \in 1..Len(nodes)
        /\ Len(ctx) \in Nat \ {0} /\ Len(Front(ctx)) = Len(ctx) - 1
        /\ \A i \in 1..(Len(ctx) - 1) : Front(ctx)[i] = ctx[i]
    BY <1>1, <1>3, FrontFacts
  <2>3. /\ Last(open) = open[Len(open)] /\ \A i \in 1..(Len(open) - 1) : Front(open)[i] = open[i]
    BY <1>1, FrontFacts
  <2>4. Last(open) = FrameOf(nodes[Last(ctx)])
    <3>1. Len(ctx) \in DOMAIN ctx
      BY <1>1, <2>2
    <3> QED BY <1>1, <2>2, <2>3, <3>1
  <2>5. ~Waiting(nodes[Last(ctx)])
    <3>1. CASE kind = "Sequence"
      BY <1>1, <1>3, <2>2, <3>1 DEF Linked, LinkedNode, Waiting
    <3>2. CASE kind = "Mapping"
      BY <1>3, <2>4, <3>2 DEF FrameOf
    <3> QED BY <3>1, <3>2
  <2>6. PICK c : c = ctx'
    OBVIOUS
  <2>7. WaitersOpen(nodes, c)
    <3> SUFFICES ASSUME NEW n \in 1..Len(nodes), Waiting(nodes[n])
                 PROVE  \E i \in 1..Len(c) : c[i] = n
      BY DEF WaitersOpen
    <3>1. PICK i \in 1..Len(ctx) : ctx[i] = n
      BY <1>1 DEF WaitersOpen
    <3>2. i # Len(ctx)
      BY <2>2, <2>5, <3>1
    <3>3. i \in 1..(Len(ctx) - 1)
      <4>1. Len(ctx) \in Nat /\ i \in 1..Len(ctx)
        BY <1>1, <3>1
      <4> QED BY <3>2, <4>1
    <3> QED BY <2>1, <2>2, <2>6, <3>1, <3>3
  <2>8. open'[1] = open[1]
    <3>1. 1 \in 1..(Len(open) - 1)
      BY <1>1, <2>2
    <3> QED BY <2>3, <3>1
  <2> QED BY <1>1, <2>1, <2>6, <2>7, <2>8
          DEF DocumentInv, Linked, WaitersOpen, Reached, LinkedNode, ChildSet, Waiting
<1> QED BY <1>2, <1>3

-----------------------------------------------------------------------------
\* One event inside a document.
LEMMA LoadNodesDocument ==
  ASSUME ComposerInv, DocumentInv, load_nodes
  PROVE  DocumentInv'
<1> USE DEF Kind
<1>1. LoadingNodes /\ open \in Seq(Frame)
  BY DEF load_nodes, ComposerInv, ComposerTypeOK, GrammarTypeOK
<1>2. "items" \in Frame /\ "key" \in Frame
  BY DEF Frame
<1>3. CASE \E a \in Anchors : AliasEvent(a) /\ HandleNode("Alias", a)
  <2>1. PICK a \in Anchors : AliasEvent(a) /\ HandleNode("Alias", a)
    BY <1>3
  <2>2. ExpectsNode /\ open' = AfterNode /\ load_alias(a)
    BY <2>1 DEF AliasEvent, HandleNode, Leaf
  <2> QED BY <1>1, <2>2, AliasDocument
<1>4. CASE \E a \in Anchors \cup {NoAnchor}, t \in {"Scalar", "SequenceStart", "MappingStart"} :
             NodeEvent(t, a) /\ HandleNode(t, a)
  <2>1. PICK a \in Anchors \cup {NoAnchor}, t \in {"Scalar", "SequenceStart", "MappingStart"} :
             NodeEvent(t, a) /\ HandleNode(t, a)
    BY <1>4
  <2>2. CASE t = "Scalar"
    <3>1. ExpectsNode /\ open' = AfterNode /\ LoadNode("Scalar", a, ctx)
      BY <2>1, <2>2 DEF NodeEvent, HandleNode, load_scalar, Leaf
    <3> QED BY <1>1, <3>1, NodeDocument
  <2>3. CASE t = "SequenceStart"
    <3>1. /\ ExpectsNode /\ open' = Append(AfterNode, "items")
          /\ LoadNode("Sequence", a, Append(ctx, Len(nodes) + 1))
      BY <2>1, <2>3 DEF NodeEvent, HandleNode, LoadCollection, CollectionStart
    <3> QED BY <1>1, <1>2, <3>1, NodeDocument
  <2>4. CASE t = "MappingStart"
    <3>1. /\ ExpectsNode /\ open' = Append(AfterNode, "key")
          /\ LoadNode("Mapping", a, Append(ctx, Len(nodes) + 1))
      BY <2>1, <2>4 DEF NodeEvent, HandleNode, LoadCollection, CollectionStart
    <3> QED BY <1>1, <1>2, <3>1, NodeDocument
  <2> QED BY <2>2, <2>3, <2>4
<1>5. CASE \E t \in {"SequenceEnd", "MappingEnd"} : EndEvent(t) /\ HandleNode(t, NoAnchor)
  <2>1. PICK t \in {"SequenceEnd", "MappingEnd"} : EndEvent(t) /\ HandleNode(t, NoAnchor)
    BY <1>5
  <2>2. CASE t = "SequenceEnd"
    <3>1. CollectionEnd("SequenceEnd", "items") /\ LoadCollectionEnd("Sequence")
      BY <2>1, <2>2 DEF EndEvent, HandleNode
    <3> QED BY <1>1, <3>1, EndDocument DEF CollectionEnd
  <2>3. CASE t = "MappingEnd"
    <3>1. CollectionEnd("MappingEnd", "key") /\ LoadCollectionEnd("Mapping")
      BY <2>1, <2>3 DEF EndEvent, HandleNode
    <3> QED BY <1>1, <3>1, EndDocument DEF CollectionEnd
  <2> QED BY <2>2, <2>3
<1> QED BY <1>3, <1>4, <1>5 DEF load_nodes

\* A document is handed out when its root is closed: nothing is open any more.
LEMMA HandedOut ==
  ASSUME ComposerInv, DocumentInv, load_nodes_end
  PROVE  DocumentInv'
<1>1. /\ at = "loading" /\ open = <<"closed">>
      /\ at' = "idle" /\ nodes' = nodes
  BY DEF load_nodes_end, LoadingNodes, DocumentEnd, Answer, Return
<1>2. ctx \in Seq(NodeIndex) /\ Len(ctx) \in Nat /\ Len(open) = Len(ctx) + 1
  BY <1>1 DEF ComposerInv, ComposerTypeOK, ContextMirrorsFrames
<1>3. ctx = <<>>
  <2>1. Len(open) = 1
    BY <1>1
  <2>2. Len(ctx) = 0
    <3>1. PICK k \in Nat : k = Len(ctx)
      BY <1>2
    <3>2. k + 1 = 1
      BY <1>2, <2>1, <3>1
    <3> QED BY <3>1, <3>2
  <2> QED BY <1>2, <2>2, EmptySeq
<1>4. /\ nodes # <<>>
      /\ Linked(nodes) /\ WaitersOpen(nodes, <<>>) /\ Reached(nodes, Len(nodes))
  BY <1>1, <1>3 DEF DocumentInv
<1>5. /\ nodes' # <<>>
      /\ Linked(nodes') /\ WaitersOpen(nodes', <<>>) /\ Reached(nodes', Len(nodes'))
  BY <1>1, <1>4
<1> QED BY <1>1, <1>5 DEF DocumentInv, Linked, WaitersOpen, Reached, LinkedNode, ChildSet, Waiting

\* A document that is begun is empty.
LEMMA EmptyDocument ==
  ASSUME load_document
  PROVE  DocumentInv'
<1>1. nodes' = <<>> /\ ctx' = <<>> /\ answer' = "none" /\ open' = <<"root">>
  BY DEF load_document, DocumentStart
<1>2. Linked(<<>>) /\ WaitersOpen(<<>>, <<>>) /\ Reached(<<>>, Len(<<>>))
  BY DEF Linked, WaitersOpen, Reached
<1>3. /\ Linked(nodes') /\ WaitersOpen(nodes', ctx') /\ Reached(nodes', Len(nodes'))
      /\ open'[1] = "root"
  BY <1>1, <1>2
<1> QED BY <1>1, <1>3 DEF DocumentInv, Linked, WaitersOpen, Reached, LinkedNode, ChildSet, Waiting

LEMMA DocumentStep ==
  ASSUME ComposerInv, DocumentInv, [ComposerNext]_composerVars
  PROVE  DocumentInv'
<1>1. CASE load_stream \/ load_end \/ load_failed \/ load_nodes_failed \/ load_unexpected
  <2>1. at' # "loading" /\ answer' # "document"
    BY <1>1 DEF load_stream, load_end, load_failed, load_nodes_failed, load_unexpected, GiveUp,
                Answer, Panic, Return
  <2> QED BY <2>1, NoDocument
<1>2. CASE UNCHANGED composerVars
  BY <1>2 DEF composerVars, DocumentInv, Linked, WaitersOpen, Reached, LinkedNode, ChildSet, Waiting
<1> QED BY <1>1, <1>2, LoadNodesDocument, HandedOut, EmptyDocument DEF ComposerNext

\* A document that is handed out has no loose ends: every child is one of its
\* nodes, every key has its value and every node but the root has a parent.
LEMMA DocumentWhole ==
  ASSUME ComposerInv, DocumentInv
  PROVE  DocumentComplete
<1> SUFFICES ASSUME answer = "document" PROVE DocumentComplete
  BY DEF DocumentComplete
<1>1. /\ nodes \in Seq(Node) /\ nodes # <<>> /\ Len(nodes) \in Nat
      /\ Linked(nodes) /\ WaitersOpen(nodes, <<>>) /\ Reached(nodes, Len(nodes))
  BY LenProperties DEF ComposerInv, ComposerTypeOK, DocumentInv
<1>2. ASSUME NEW n \in 1..Len(nodes)
      PROVE  /\ \A i \in DOMAIN nodes[n].pairs : nodes[n].pairs[i].value # 0
             /\ \A i \in DOMAIN Children(n) : Children(n)[i] \in 1..Len(nodes)
  <2>1. LinkedNode(nodes[n], Len(nodes)) /\ ~Waiting(nodes[n])
    BY <1>1 DEF Linked, WaitersOpen
  <2>2. {Children(n)[i] : i \in DOMAIN Children(n)} \subseteq 1..Len(nodes)
    BY <1>1, <2>1, ChildrenMembers DEF LinkedNode
  <2>3. nodes[n].pairs \in Seq([key : Nat, value : Nat])
    <3>1. nodes[n] \in Node
      BY <1>1, ElementOfSeq
    <3> QED BY <3>1 DEF Node
  <2>4. \A i \in DOMAIN nodes[n].pairs : nodes[n].pairs[i].value # 0
    <3> SUFFICES ASSUME NEW i \in DOMAIN nodes[n].pairs, nodes[n].pairs[i].value = 0 PROVE FALSE
      OBVIOUS
    <3>1. i = Len(nodes[n].pairs) /\ nodes[n].pairs # <<>>
      BY <2>1 DEF LinkedNode
    <3> QED BY <2>1, <3>1 DEF Waiting, Last
  <2> QED BY <2>2, <2>4
<1>3. ASSUME NEW n \in 1..Len(nodes), n > 1
      PROVE  \E p \in 1..Len(nodes) : p < n /\ \E i \in DOMAIN Children(p) : Children(p)[i] = n
  <2>1. n \in 2..Len(nodes)
    BY <1>1, <1>3
  <2>2. PICK p \in 1..(n - 1) : n \in ChildSet(nodes[p])
    BY <1>1, <2>1 DEF Reached
  <2>3. p \in 1..Len(nodes) /\ p < n
    BY <1>1, <2>2
  <2> QED BY <1>1, <2>2, <2>3, ChildrenMembers
<1> QED BY <1>1, <1>2, <1>3 DEF DocumentComplete, NodeIndex

\* A document that load() hands out is whole, whatever it holds: every index in
\* it names one of its nodes, every key has its value, and every node but the
\* root is the child of one before it (load_node_add, document.rs:385-412).
THEOREM DocumentsComplete == ComposerSpec => []DocumentComplete
<1>1. ComposerInit => DocumentInv
  BY DEF ComposerInit, DocumentInv
<1>2. ComposerInv /\ DocumentInv /\ [ComposerNext]_composerVars => DocumentInv'
  BY DocumentStep
<1>3. ComposerInv /\ DocumentInv => DocumentComplete
  BY DocumentWhole
<1> QED BY <1>1, <1>2, <1>3, ComposerInvInductive, PTL DEF ComposerSpec
-----------------------------------------------------------------------------
\* The events of a document as they are kept.
Event == [type : EventType, anchor : Anchors \cup {NoAnchor}]

\* The positions o of the collections that are open after the events, the
\* innermost last: c are their nodes.
OpenAt(events, o, c) ==
  /\ o \in Seq(1..Len(events)) /\ Len(o) = Len(c)
  /\ \A i, j \in 1..Len(o) : i < j => o[i] < o[j]
  /\ \A d \in 1..Len(o) :
       /\ events[o[d]].type \in Opens
       /\ NodeOf(events, o[d]) = c[d]
       /\ OfTypes(events, o[d], Len(events), Opens)
            = OfTypes(events, o[d], Len(events), Ends) + (Len(o) - d) + 1
  /\ \A q \in 1..Len(events) :
       Encloses(events, q, Len(events) + 1) <=> \E d \in 1..Len(o) : o[d] = q

\* What the events say of the node that event q starts, and of all nodes.
SaidNode(events, list, q) ==
  LET children == ChildrenOf(list[NodeOf(events, q)])
  IN /\ list[NodeOf(events, q)].kind = KindOf[events[q].type]
     /\ Len(children) = ChildrenBy(events, q, Len(events))
     /\ \A p \in 1..Len(events) :
          IsChild(events, q, p) => children[ChildrenBy(events, q, p)] = Refers(events, p)

Said(events, list) ==
  /\ Len(list) = OfTypes(events, 1, Len(events), Starts)
  /\ \A q \in 1..Len(events) : events[q].type \in Starts => SaidNode(events, list, q)

\* What the events say of the anchors: each one that is registered was given
\* to the node, no two nodes were given the same, and an alias names one that
\* was given before it.
Named(events, list) ==
  /\ \A i \in 1..Len(list) : \E q \in 1..Len(events) :
       Anchored(events, q, list[i].anchor) /\ NodeOf(events, q) = list[i].index
  /\ \A q \in 1..Len(events) :
       events[q].type \in Starts /\ events[q].anchor # NoAnchor =>
         \E i \in 1..Len(list) : list[i].anchor = events[q].anchor
  /\ \A q, r \in 1..Len(events) :
       Anchored(events, q, events[r].anchor) /\ events[r].type \in Starts
         /\ events[r].anchor # NoAnchor => q = r
  /\ \A p \in 1..Len(events) : events[p].type = "Alias" =>
       events[p].anchor # NoAnchor /\ \E q \in 1..p : Anchored(events, q, events[p].anchor)

LogInv ==
  /\ at = "loading" \/ answer = "document" => Said(log, nodes)
  /\ at = "loading" => /\ log \in Seq(Event)
                       /\ \E o : OpenAt(log, o, ctx)
                       /\ Named(log, aliases)
-----------------------------------------------------------------------------
\* How many events of some types lie between two positions.
LEMMA TypesFinite ==
  ASSUME NEW es, NEW T, NEW a \in Nat, NEW b \in Nat
  PROVE  /\ IsFiniteSet({p \in a..b : es[p].type \in T})
         /\ OfTypes(es, a, b, T) \in Nat
<1>1. IsFiniteSet(a..b) /\ {p \in a..b : es[p].type \in T} \subseteq a..b
  BY FS_Interval
<1> QED BY <1>1, FS_Subset, FS_CardinalityType DEF OfTypes

LEMMA TypesNext ==
  ASSUME NEW es, NEW T, NEW a \in Nat, NEW b \in Nat, a <= b + 1
  PROVE  /\ OfTypes(es, a, b, T) \in Nat
         /\ es[b + 1].type \in T => OfTypes(es, a, b + 1, T) = OfTypes(es, a, b, T) + 1
         /\ es[b + 1].type \notin T => OfTypes(es, a, b + 1, T) = OfTypes(es, a, b, T)
<1> DEFINE C(k) == {p \in a..k : es[p].type \in T}
<1>1. IsFiniteSet(C(b)) /\ OfTypes(es, a, b, T) \in Nat
  BY TypesFinite
<1>2. ASSUME es[b + 1].type \in T PROVE Cardinality(C(b + 1)) = Cardinality(C(b)) + 1
  <2>1. C(b + 1) = C(b) \cup {b + 1} /\ b + 1 \notin C(b)
    BY <1>2
  <2> HIDE DEF C
  <2> QED BY <1>1, <2>1, FS_AddElement
<1>3. ASSUME es[b + 1].type \notin T PROVE C(b + 1) = C(b)
  BY <1>3
<1> QED BY <1>1, <1>2, <1>3 DEF OfTypes

LEMMA TypesOne ==
  ASSUME NEW es, NEW T, NEW a \in Nat \ {0}
  PROVE  /\ es[a].type \in T => OfTypes(es, a, a, T) = 1
         /\ es[a].type \notin T => OfTypes(es, a, a, T) = 0
<1>1. PICK b \in Nat : b + 1 = a
  <2>1. a - 1 \in Nat /\ (a - 1) + 1 = a
    OBVIOUS
  <2> QED BY <2>1
<1>2. OfTypes(es, a, b, T) = 0
  <2>1. {p \in a..b : es[p].type \in T} = {}
    BY <1>1
  <2> QED BY <2>1, FS_EmptySet DEF OfTypes
<1>3. /\ es[b + 1].type \in T => OfTypes(es, a, b + 1, T) = OfTypes(es, a, b, T) + 1
      /\ es[b + 1].type \notin T => OfTypes(es, a, b + 1, T) = OfTypes(es, a, b, T)
  BY <1>1, TypesNext
<1> QED BY <1>1, <1>2, <1>3

LEMMA TypesSame ==
  ASSUME NEW es, NEW fs, NEW n \in Nat, AgreeTo(es, fs, n),
         NEW T, NEW a \in Nat \ {0}, NEW b \in Nat, b <= n
  PROVE  OfTypes(es, a, b, T) = OfTypes(fs, a, b, T)
<1>1. \A p \in a..b : es[p] = fs[p]
  BY DEF AgreeTo
<1>2. {p \in a..b : es[p].type \in T} = {p \in a..b : fs[p].type \in T}
  BY <1>1
<1> QED BY <1>2 DEF OfTypes

LEMMA TypesMore ==
  ASSUME NEW es, NEW T, NEW b \in Nat, NEW c \in Nat, b <= c
  PROVE  /\ OfTypes(es, 1, b, T) \in Nat /\ OfTypes(es, 1, c, T) \in Nat
         /\ OfTypes(es, 1, b, T) <= OfTypes(es, 1, c, T)
         /\ b < c /\ es[c].type \in T => OfTypes(es, 1, b, T) < OfTypes(es, 1, c, T)
<1> DEFINE C(k) == {p \in 1..k : es[p].type \in T}
<1>1. \A k \in Nat : IsFiniteSet(C(k)) /\ Cardinality(C(k)) \in Nat
  BY TypesFinite DEF OfTypes
<1>2. C(b) \subseteq C(c)
  OBVIOUS
<1>3. Cardinality(C(b)) <= Cardinality(C(c))
  <2> HIDE DEF C
  <2> QED BY <1>1, <1>2, FS_Subset
<1>4. ASSUME b < c, es[c].type \in T PROVE Cardinality(C(b)) < Cardinality(C(c))
  <2>1. C(b) \cup {c} \subseteq C(c) /\ c \notin C(b)
    BY <1>4
  <2> HIDE DEF C
  <2>2. IsFiniteSet(C(b)) /\ Cardinality(C(b) \cup {c}) = Cardinality(C(b)) + 1
    BY <1>1, <2>1, FS_AddElement
  <2>3. Cardinality(C(b) \cup {c}) <= Cardinality(C(c))
    BY <1>1, <2>1, FS_Subset
  <2> QED BY <1>1, <2>2, <2>3
<1> QED BY <1>1, <1>3, <1>4 DEF OfTypes

\* The events that start nodes number them, each with a number of its own.
LEMMA NodesNumbered ==
  ASSUME NEW es, NEW n \in Nat, NEW q \in 1..n, es[q].type \in Starts
  PROVE  /\ NodeOf(es, q) \in 1..OfTypes(es, 1, n, Starts)
         /\ \A r \in 1..n : es[r].type \in Starts /\ NodeOf(es, r) = NodeOf(es, q) => r = q
<1>1. \A b, c \in Nat : b <= c =>
        /\ OfTypes(es, 1, b, Starts) \in Nat /\ OfTypes(es, 1, c, Starts) \in Nat
        /\ OfTypes(es, 1, b, Starts) <= OfTypes(es, 1, c, Starts)
        /\ b < c /\ es[c].type \in Starts => OfTypes(es, 1, b, Starts) < OfTypes(es, 1, c, Starts)
  BY TypesMore
<1>2. NodeOf(es, q) \in 1..OfTypes(es, 1, n, Starts)
  <2>1. OfTypes(es, 1, 0, Starts) < OfTypes(es, 1, q, Starts)
    BY <1>1
  <2>2. OfTypes(es, 1, q, Starts) <= OfTypes(es, 1, n, Starts)
    BY <1>1
  <2> QED BY <1>1, <2>1, <2>2 DEF NodeOf
<1>3. ASSUME NEW r \in 1..n, es[r].type \in Starts, NodeOf(es, r) = NodeOf(es, q) PROVE r = q
  <2>1. ~(r < q) /\ ~(q < r)
    BY <1>1, <1>3 DEF NodeOf
  <2> QED BY <2>1
<1> QED BY <1>2, <1>3

-----------------------------------------------------------------------------
\* What an event encloses depends on the events before it alone.
LEMMA EnclosesSame ==
  ASSUME NEW es, NEW fs, NEW n \in Nat, AgreeTo(es, fs, n),
         NEW q \in Nat \ {0}, NEW p \in 1..(n + 1)
  PROVE  Encloses(es, q, p) <=> Encloses(fs, q, p)
<1> SUFFICES ASSUME q < p PROVE Encloses(es, q, p) <=> Encloses(fs, q, p)
  BY DEF Encloses
<1>1. es[q] = fs[q]
  BY DEF AgreeTo
<1>2. \A r \in q..(p - 1) : /\ OfTypes(es, q, r, Opens) = OfTypes(fs, q, r, Opens)
                           /\ OfTypes(es, q, r, Ends) = OfTypes(fs, q, r, Ends)
  <2>1. \A r \in q..(p - 1) : r \in Nat /\ r <= n
    OBVIOUS
  <2> QED BY <2>1, TypesSame
<1> QED BY <1>1, <1>2 DEF Encloses

LEMMA InsideSame ==
  ASSUME NEW es, NEW fs, NEW n \in Nat, AgreeTo(es, fs, n),
         NEW q \in Nat \ {0}, NEW p \in 1..(n + 1)
  PROVE  Inside(es, q, p) <=> Inside(fs, q, p)
<1>1. \A r \in (q + 1)..(p - 1) : Encloses(es, r, p) <=> Encloses(fs, r, p)
  <2>1. \A r \in (q + 1)..(p - 1) : r \in Nat \ {0}
    OBVIOUS
  <2> QED BY <2>1, EnclosesSame
<1>2. Encloses(es, q, p) <=> Encloses(fs, q, p)
  BY EnclosesSame
<1> QED BY <1>1, <1>2 DEF Inside

LEMMA IsChildSame ==
  ASSUME NEW es, NEW fs, NEW n \in Nat, AgreeTo(es, fs, n),
         NEW q \in Nat \ {0}, NEW p \in 1..n
  PROVE  IsChild(es, q, p) <=> IsChild(fs, q, p)
<1>1. es[p] = fs[p] /\ p \in 1..(n + 1)
  BY DEF AgreeTo
<1> QED BY <1>1, InsideSame DEF IsChild

LEMMA ChildrenBySame ==
  ASSUME NEW es, NEW fs, NEW n \in Nat, AgreeTo(es, fs, n),
         NEW q \in Nat \ {0}, NEW p \in 0..n
  PROVE  ChildrenBy(es, q, p) = ChildrenBy(fs, q, p)
<1>1. \A r \in 1..p : IsChild(es, q, r) <=> IsChild(fs, q, r)
  <2>1. \A r \in 1..p : r \in 1..n
    OBVIOUS
  <2> QED BY <2>1, IsChildSame
<1>2. {r \in 1..p : IsChild(es, q, r)} = {r \in 1..p : IsChild(fs, q, r)}
  BY <1>1
<1> QED BY <1>2 DEF ChildrenBy

LEMMA ChildrenByNext ==
  ASSUME NEW es, NEW q, NEW n \in Nat
  PROVE  /\ ChildrenBy(es, q, n) \in 0..n
         /\ IsChild(es, q, n + 1) => ChildrenBy(es, q, n + 1) = ChildrenBy(es, q, n) + 1
         /\ ~IsChild(es, q, n + 1) => ChildrenBy(es, q, n + 1) = ChildrenBy(es, q, n)
<1> DEFINE C(k) == {r \in 1..k : IsChild(es, q, r)}
<1>1. IsFiniteSet(C(n)) /\ Cardinality(C(n)) \in Nat /\ Cardinality(C(n)) <= n
  <2>1. IsFiniteSet(1..n) /\ Cardinality(1..n) = n /\ C(n) \subseteq 1..n
    BY FS_Interval
  <2> HIDE DEF C
  <2> QED BY <2>1, FS_Subset, FS_CardinalityType
<1>2. ASSUME IsChild(es, q, n + 1) PROVE Cardinality(C(n + 1)) = Cardinality(C(n)) + 1
  <2>1. C(n + 1) = C(n) \cup {n + 1} /\ n + 1 \notin C(n)
    BY <1>2
  <2> HIDE DEF C
  <2> QED BY <1>1, <2>1, FS_AddElement
<1>3. ASSUME ~IsChild(es, q, n + 1) PROVE C(n + 1) = C(n)
  BY <1>3
<1> QED BY <1>1, <1>2, <1>3 DEF ChildrenBy

\* A child of q has a place among its children.
LEMMA ChildPlaced ==
  ASSUME NEW es, NEW q, NEW n \in Nat, NEW p \in 1..n, IsChild(es, q, p)
  PROVE  ChildrenBy(es, q, p) \in 1..ChildrenBy(es, q, n)
<1> DEFINE C(k) == {r \in 1..k : IsChild(es, q, r)}
<1>1. C(p) \subseteq C(n) /\ p \in C(p)
  OBVIOUS
<1>2. IsFiniteSet(C(n))
  <2>1. IsFiniteSet(1..n) /\ C(n) \subseteq 1..n
    BY FS_Interval
  <2> HIDE DEF C
  <2> QED BY <2>1, FS_Subset
<1>3. /\ Cardinality(C(p)) <= Cardinality(C(n)) /\ IsFiniteSet(C(p))
      /\ Cardinality(C(p)) \in Nat /\ Cardinality(C(n)) \in Nat
  <2> HIDE DEF C
  <2> QED BY <1>1, <1>2, FS_Subset, FS_CardinalityType
<1>4. Cardinality(C(p)) # 0
  <2>1. C(p) # {}
    BY <1>1
  <2> HIDE DEF C
  <2> QED BY <1>3, <2>1, FS_EmptySet
<1> QED BY <1>3, <1>4 DEF ChildrenBy

LEMMA RefersSame ==
  ASSUME NEW es, NEW fs, AgreeTo(es, fs, Len(es)), Len(es) \in Nat,
         NEW al, Named(es, al), NEW p \in 1..Len(es)
  PROVE  Refers(es, p) = Refers(fs, p)
<1>1. es[p] = fs[p] /\ p \in Nat /\ p <= Len(es)
  BY DEF AgreeTo
<1>2. \A q \in 1..p : q \in 1..Len(es) /\ es[q] = fs[q] /\ NodeOf(es, q) = NodeOf(fs, q)
  <2>1. \A q \in 1..p : q \in 1..Len(es) /\ q \in Nat /\ q <= Len(es)
    OBVIOUS
  <2> QED BY <2>1, TypesSame DEF AgreeTo, NodeOf
<1>3. CASE es[p].type # "Alias"
  BY <1>1, <1>2, <1>3 DEF Refers
<1>4. CASE es[p].type = "Alias"
  <2> DEFINE a == es[p].anchor
             c == CHOOSE q \in 1..p : Anchored(es, q, a)
             d == CHOOSE q \in 1..p : Anchored(fs, q, a)
  <2>1. PICK q \in 1..p : Anchored(es, q, a) /\ a # NoAnchor
    BY <1>4 DEF Named
  <2>2. c \in 1..p /\ Anchored(es, c, a)
    BY <2>1
  <2>3. d \in 1..p /\ Anchored(fs, d, a)
    <3>1. Anchored(fs, q, a)
      BY <1>2, <2>1 DEF Anchored
    <3> QED BY <3>1
  <2>4. Refers(es, p) = NodeOf(es, c) /\ Refers(fs, p) = NodeOf(fs, d)
    BY <1>1, <1>4 DEF Refers
  <2> HIDE DEF c, d
  <2>5. Anchored(es, d, a)
    BY <1>2, <2>3 DEF Anchored
  <2>6. c = d
    <3>1. es[d].type \in Starts /\ es[d].anchor = a /\ es[d].anchor # NoAnchor
      BY <2>1, <2>5 DEF Anchored
    <3>2. c \in 1..Len(es) /\ d \in 1..Len(es)
      BY <1>2, <2>2, <2>3
    <3> QED BY <2>2, <3>1, <3>2 DEF Named
  <2> QED BY <1>2, <2>2, <2>4, <2>6
<1> QED BY <1>3, <1>4
-----------------------------------------------------------------------------
LEMMA WiderSeq ==
  ASSUME NEW S, NEW T, S \subseteq T, NEW s \in Seq(S)
  PROVE  s \in Seq(T)
<1>1. PICK n \in Nat : n = Len(s)
  BY LenProperties
<1>2. /\ s = [i \in 1..n |-> s[i]] /\ \A i \in 1..n : s[i] \in T
  BY <1>1, LenProperties, ElementOfSeq
<1>3. [i \in 1..n |-> s[i]] \in Seq(T)
  BY <1>2
<1> QED BY <1>2, <1>3

\* One event more.
Grown(es, fs) == /\ Len(es) \in Nat /\ Len(fs) = Len(es) + 1
                 /\ AgreeTo(es, fs, Len(es))

LEMMA TypesGrown ==
  ASSUME NEW es, NEW fs, Grown(es, fs), NEW q \in 1..Len(es), NEW T
  PROVE  /\ OfTypes(es, q, Len(es), T) \in Nat
         /\ fs[Len(fs)].type \in T =>
              OfTypes(fs, q, Len(fs), T) = OfTypes(es, q, Len(es), T) + 1
         /\ fs[Len(fs)].type \notin T =>
              OfTypes(fs, q, Len(fs), T) = OfTypes(es, q, Len(es), T)
<1>1. PICK n \in Nat : n = Len(es)
  BY DEF Grown
<1>2. q \in Nat \ {0} /\ q <= n + 1 /\ AgreeTo(es, fs, n) /\ Len(fs) = n + 1
  BY <1>1 DEF Grown
<1>3. OfTypes(fs, q, n, T) = OfTypes(es, q, n, T)
  BY <1>2, TypesSame
<1>4. /\ OfTypes(fs, q, n, T) \in Nat
      /\ fs[n + 1].type \in T => OfTypes(fs, q, n + 1, T) = OfTypes(fs, q, n, T) + 1
      /\ fs[n + 1].type \notin T => OfTypes(fs, q, n + 1, T) = OfTypes(fs, q, n, T)
  BY <1>2, TypesNext
<1> QED BY <1>1, <1>2, <1>3, <1>4

\* What encloses the next event: what enclosed this one and is still open, or
\* this one.
StillOpen(es, q) == OfTypes(es, q, Len(es), Opens) > OfTypes(es, q, Len(es), Ends)

LEMMA EnclosesNext ==
  ASSUME NEW es, NEW fs, Grown(es, fs), NEW q \in 1..Len(es)
  PROVE  Encloses(fs, q, Len(fs) + 1) <=> Encloses(es, q, Len(es) + 1) /\ StillOpen(fs, q)
<1>1. PICK n \in Nat : n = Len(es)
  BY DEF Grown
<1>2. q \in Nat \ {0} /\ q <= n /\ AgreeTo(es, fs, n) /\ Len(fs) = n + 1 /\ n + 1 \in 1..(n + 1)
  BY <1>1 DEF Grown
<1>3. Encloses(fs, q, n + 1) <=> Encloses(es, q, n + 1)
  BY <1>2, EnclosesSame
<1>4. \A r : r \in q..(n + 1 + 1 - 1) <=> r \in q..(n + 1 - 1) \/ r = n + 1
  BY <1>2
<1>5. Encloses(fs, q, n + 1 + 1) <=> Encloses(fs, q, n + 1) /\ StillOpen(fs, q)
  BY <1>2, <1>4 DEF Encloses, StillOpen
<1> QED BY <1>1, <1>2, <1>3, <1>5

LEMMA EnclosesLast ==
  ASSUME NEW es, NEW fs, Grown(es, fs)
  PROVE  Encloses(fs, Len(fs), Len(fs) + 1) <=> fs[Len(fs)].type \in Opens
<1>1. PICK n \in Nat \ {0} : n = Len(fs)
  BY DEF Grown
<1>2. ASSUME fs[n].type \in Opens PROVE OfTypes(fs, n, n, Opens) > OfTypes(fs, n, n, Ends)
  <2>1. fs[n].type \notin Ends
    BY <1>2 DEF Opens, Ends
  <2>2. OfTypes(fs, n, n, Opens) = 1 /\ OfTypes(fs, n, n, Ends) = 0
    BY <1>2, <2>1, TypesOne
  <2> QED BY <2>2
<1>3. \A r : r \in n..(n + 1 - 1) <=> r = n
  BY <1>1
<1> QED BY <1>1, <1>2, <1>3 DEF Encloses

\* The next event stands in the innermost open collection.
LEMMA Innermost ==
  ASSUME NEW es, Len(es) \in Nat, NEW o, NEW c, OpenAt(es, o, c), NEW q \in 1..Len(es)
  PROVE  Inside(es, q, Len(es) + 1) <=> o # <<>> /\ q = Last(o)
<1>1. PICK n \in Nat, m \in Nat : n = Len(es) /\ m = Len(o)
  BY LenProperties DEF OpenAt
<1>2. /\ o \in Seq(1..n) /\ \A d \in 1..m : o[d] \in 1..n
      /\ \A i, j \in 1..m : i < j => o[i] < o[j]
      /\ \A r \in 1..n : Encloses(es, r, n + 1) <=> \E d \in 1..m : o[d] = r
      /\ o # <<>> <=> m # 0
      /\ Last(o) = o[m]
  BY <1>1, ElementOfSeq, EmptySeq DEF OpenAt, Last
<1>3. ASSUME Inside(es, q, n + 1) PROVE m # 0 /\ q = o[m]
  <2>1. PICK d \in 1..m : o[d] = q
    BY <1>1, <1>2, <1>3 DEF Inside
  <2>2. ASSUME d # m PROVE FALSE
    <3>1. m \in 1..m /\ d < m
      BY <2>2
    <3>2. o[m] \in (q + 1)..(n + 1 - 1) /\ o[m] \in 1..n
      BY <1>1, <1>2, <2>1, <3>1
    <3>3. Encloses(es, o[m], n + 1)
      BY <1>2, <3>1, <3>2
    <3> QED BY <1>3, <3>2, <3>3 DEF Inside
  <2> QED BY <2>1, <2>2
<1>4. ASSUME m # 0, q = o[m] PROVE Inside(es, q, n + 1)
  <2>1. m \in 1..m
    BY <1>4
  <2>2. Encloses(es, q, n + 1)
    BY <1>1, <1>2, <1>4, <2>1
  <2>3. ASSUME NEW r \in (q + 1)..(n + 1 - 1), Encloses(es, r, n + 1) PROVE FALSE
    <3>1. r \in 1..n /\ r > q
      BY <1>1
    <3>2. PICK d \in 1..m : o[d] = r
      BY <1>2, <2>3, <3>1
    <3>3. d = m \/ d < m
      OBVIOUS
    <3>4. o[d] < o[m] \/ o[d] = o[m]
      BY <1>2, <2>1, <3>3
    <3>5. o[m] = q /\ q \in Nat /\ r \in Nat
      BY <1>4, <3>1
    <3> QED BY <3>1, <3>2, <3>4, <3>5
  <2> QED BY <2>2, <2>3 DEF Inside
<1> QED BY <1>1, <1>2, <1>3, <1>4

\* A leaf leaves the same collections open.
LEMMA OpenLeaf ==
  ASSUME NEW es, NEW fs, Grown(es, fs), NEW o, NEW c, OpenAt(es, o, c),
         fs[Len(fs)].type \notin Opens, fs[Len(fs)].type \notin Ends
  PROVE  OpenAt(fs, o, c)
<1>1. PICK n \in Nat, m \in Nat : n = Len(es) /\ m = Len(o)
  BY LenProperties DEF OpenAt, Grown
<1>2. /\ Len(fs) = n + 1 /\ AgreeTo(es, fs, n)
      /\ o \in Seq(1..n) /\ m = Len(c) /\ \A d \in 1..m : o[d] \in 1..n
  BY <1>1, ElementOfSeq DEF OpenAt, Grown
<1>3. o \in Seq(1..(n + 1))
  <2>1. 1..n \subseteq 1..(n + 1)
    OBVIOUS
  <2> QED BY <1>2, <2>1, WiderSeq
<1>4. \A q \in 1..n : /\ OfTypes(fs, q, n + 1, Opens) = OfTypes(es, q, n, Opens)
                      /\ OfTypes(fs, q, n + 1, Ends) = OfTypes(es, q, n, Ends)
                      /\ OfTypes(es, q, n, Opens) \in Nat /\ OfTypes(es, q, n, Ends) \in Nat
  <2>1. ASSUME NEW q \in 1..n, NEW T, fs[n + 1].type \notin T
        PROVE  OfTypes(fs, q, n + 1, T) = OfTypes(es, q, n, T) /\ OfTypes(es, q, n, T) \in Nat
    <3>1. q \in 1..Len(es) /\ fs[Len(fs)].type \notin T
      BY <1>1, <1>2, <2>1
    <3>2. /\ OfTypes(fs, q, Len(fs), T) = OfTypes(es, q, Len(es), T)
          /\ OfTypes(es, q, Len(es), T) \in Nat
      BY <3>1, TypesGrown
    <3> QED BY <1>1, <1>2, <3>2
  <2> QED BY <1>2, <2>1
<1>5. \A d \in 1..m :
        /\ es[o[d]].type \in Opens /\ NodeOf(es, o[d]) = c[d]
        /\ OfTypes(es, o[d], n, Opens) = OfTypes(es, o[d], n, Ends) + (m - d) + 1
  BY <1>1 DEF OpenAt
<1>6. \A d \in 1..m : fs[o[d]] = es[o[d]] /\ NodeOf(fs, o[d]) = NodeOf(es, o[d])
  <2>1. ASSUME NEW q \in 1..n PROVE fs[q] = es[q] /\ NodeOf(fs, q) = NodeOf(es, q)
    <3>1. q \in Nat /\ q <= n /\ 1 \in Nat \ {0}
      OBVIOUS
    <3>2. OfTypes(es, 1, q, Starts) = OfTypes(fs, 1, q, Starts)
      BY <1>2, <3>1, TypesSame
    <3> QED BY <1>2, <3>2 DEF AgreeTo, NodeOf
  <2> QED BY <1>2, <2>1
<1>7. ASSUME NEW q \in 1..(n + 1)
      PROVE  Encloses(fs, q, n + 1 + 1) <=> \E d \in 1..m : o[d] = q
  <2>1. CASE q \in 1..n
    <3>1. Encloses(fs, q, n + 1 + 1) <=> Encloses(es, q, n + 1) /\ StillOpen(fs, q)
      BY <1>1, <1>2, <2>1, EnclosesNext
    <3>2. Encloses(es, q, n + 1) <=> \E d \in 1..m : o[d] = q
      BY <1>1, <2>1 DEF OpenAt
    <3>3. ASSUME NEW d \in 1..m, o[d] = q PROVE StillOpen(fs, q)
      <4>1. PICK x \in Nat, y \in Nat : x = OfTypes(es, q, n, Opens) /\ y = OfTypes(es, q, n, Ends)
        BY <1>4, <2>1
      <4>2. x = y + (m - d) + 1
        BY <1>5, <3>3, <4>1
      <4>3. x > y
        BY <4>2
      <4> QED BY <1>2, <1>4, <2>1, <4>1, <4>3 DEF StillOpen
    <3> QED BY <3>1, <3>2, <3>3
  <2>2. CASE q = n + 1
    <3>1. ~Encloses(fs, q, n + 1 + 1)
      BY <1>2, <2>2, EnclosesLast
    <3>2. \A d \in 1..m : o[d] # q
      BY <1>2, <2>2
    <3> QED BY <3>1, <3>2
  <2> QED BY <2>1, <2>2
<1>8. \A d \in 1..m : OfTypes(fs, o[d], n + 1, Opens) = OfTypes(fs, o[d], n + 1, Ends) + (m - d) + 1
  BY <1>2, <1>4, <1>5
<1>9. \A i, j \in 1..m : i < j => o[i] < o[j]
  BY <1>1 DEF OpenAt
<1> QED BY <1>1, <1>2, <1>3, <1>5, <1>6, <1>7, <1>8, <1>9 DEF OpenAt
-----------------------------------------------------------------------------
\* What was known of an open collection stays known of it.
LEMMA OpenKept ==
  ASSUME NEW es, NEW fs, Grown(es, fs), NEW o, NEW c, OpenAt(es, o, c), NEW d \in 1..Len(o)
  PROVE  /\ o[d] \in 1..Len(es) /\ fs[o[d]].type \in Opens /\ NodeOf(fs, o[d]) = c[d]
<1>1. PICK n \in Nat, m \in Nat : n = Len(es) /\ m = Len(o)
  BY LenProperties DEF OpenAt, Grown
<1>2. o[d] \in 1..n /\ AgreeTo(es, fs, n)
  BY <1>1, ElementOfSeq DEF OpenAt, Grown
<1>3. PICK q \in 1..n : q = o[d]
  BY <1>2
<1>4. fs[q] = es[q] /\ NodeOf(fs, q) = NodeOf(es, q)
  <2>1. q \in Nat /\ q <= n /\ 1 \in Nat \ {0}
    OBVIOUS
  <2>2. OfTypes(es, 1, q, Starts) = OfTypes(fs, 1, q, Starts)
    BY <1>2, <2>1, TypesSame
  <2> QED BY <1>2, <2>2 DEF AgreeTo, NodeOf
<1> QED BY <1>1, <1>3, <1>4 DEF OpenAt

\* The event that starts a collection opens it.
LEMMA OpenStart ==
  ASSUME NEW es, NEW fs, Grown(es, fs), NEW o, NEW c \in Seq(Nat), OpenAt(es, o, c),
         fs[Len(fs)].type \in Opens, NodeOf(fs, Len(fs)) \in Nat
  PROVE  OpenAt(fs, Append(o, Len(fs)), Append(c, NodeOf(fs, Len(fs))))
<1>1. PICK n \in Nat, m \in Nat, k \in Nat : n = Len(es) /\ m = Len(o) /\ k = n + 1
  <2>1. Len(es) \in Nat /\ Len(o) \in Nat /\ Len(es) + 1 \in Nat
    BY LenProperties DEF OpenAt, Grown
  <2> QED BY <2>1
<1>2. /\ Len(fs) = k /\ AgreeTo(es, fs, n)
      /\ o \in Seq(1..n) /\ m = Len(c) /\ \A d \in 1..m : o[d] \in 1..n
  BY <1>1, ElementOfSeq DEF OpenAt, Grown
<1>3. o \in Seq(1..k)
  <2>1. 1..n \subseteq 1..k
    BY <1>1
  <2> QED BY <1>2, <2>1, WiderSeq
<1> DEFINE p == Append(o, k)
           b == Append(c, NodeOf(fs, k))
<1>4. /\ p \in Seq(1..k) /\ Len(p) = m + 1
      /\ \A d \in 1..m : p[d] = o[d]
      /\ p[m + 1] = k
      /\ Len(b) = m + 1
      /\ \A d \in 1..m : b[d] = c[d]
      /\ b[m + 1] = NodeOf(fs, k)
  <2>1. k \in 1..k /\ p = Append(o, k)
    BY <1>1
  <2>2. PICK x \in Nat : x = NodeOf(fs, k)
    BY <1>2
  <2>3. b = Append(c, x)
    BY <2>2
  <2> HIDE DEF p, b
  <2>4. /\ p \in Seq(1..k) /\ Len(p) = m + 1
        /\ \A d \in 1..m : p[d] = o[d]
        /\ p[m + 1] = k
    BY <1>1, <1>3, <2>1, AppendFacts
  <2>5. /\ Len(b) = m + 1
        /\ \A d \in 1..m : b[d] = c[d]
        /\ b[m + 1] = x
    BY <1>2, <2>3, AppendFacts
  <2> QED BY <2>2, <2>4, <2>5
<1> HIDE DEF p, b
<1>5. fs[k].type \notin Ends
  BY <1>2 DEF Opens, Ends
<1>6. ASSUME NEW q \in 1..n
      PROVE  /\ OfTypes(fs, q, k, Opens) = OfTypes(es, q, n, Opens) + 1
             /\ OfTypes(fs, q, k, Ends) = OfTypes(es, q, n, Ends)
             /\ OfTypes(es, q, n, Opens) \in Nat /\ OfTypes(es, q, n, Ends) \in Nat
  <2>1. q \in 1..Len(es) /\ fs[Len(fs)].type \in Opens /\ fs[Len(fs)].type \notin Ends
    BY <1>1, <1>2, <1>5
  <2>2. /\ OfTypes(fs, q, Len(fs), Opens) = OfTypes(es, q, Len(es), Opens) + 1
        /\ OfTypes(fs, q, Len(fs), Ends) = OfTypes(es, q, Len(es), Ends)
        /\ OfTypes(es, q, Len(es), Opens) \in Nat /\ OfTypes(es, q, Len(es), Ends) \in Nat
    BY <2>1, TypesGrown
  <2> QED BY <1>1, <1>2, <2>2
<1>7. \A d \in 1..m : OfTypes(es, o[d], n, Opens) = OfTypes(es, o[d], n, Ends) + (m - d) + 1
  BY <1>1 DEF OpenAt
<1>8. ASSUME NEW d \in 1..m
      PROVE  OfTypes(fs, o[d], k, Opens) = OfTypes(fs, o[d], k, Ends) + ((m + 1) - d) + 1
  <2>1. PICK x \in Nat, y \in Nat : x = OfTypes(es, o[d], n, Opens) /\ y = OfTypes(es, o[d], n, Ends)
    BY <1>2, <1>6
  <2>2. x = y + (m - d) + 1
    BY <1>7, <2>1
  <2>3. OfTypes(fs, o[d], k, Opens) = x + 1 /\ OfTypes(fs, o[d], k, Ends) = y
    BY <1>2, <1>6, <2>1
  <2> QED BY <2>2, <2>3
<1>9. ASSUME NEW d \in 1..(m + 1)
      PROVE  /\ fs[p[d]].type \in Opens
             /\ NodeOf(fs, p[d]) = b[d]
             /\ OfTypes(fs, p[d], k, Opens) = OfTypes(fs, p[d], k, Ends) + ((m + 1) - d) + 1
  <2>1. CASE d \in 1..m
    <3>1. fs[o[d]].type \in Opens /\ NodeOf(fs, o[d]) = c[d]
      BY <1>1, <2>1, OpenKept
    <3> QED BY <1>4, <1>8, <2>1, <3>1
  <2>2. CASE d = m + 1
    <3>1. OfTypes(fs, k, k, Opens) = 1 /\ OfTypes(fs, k, k, Ends) = 0
      BY <1>1, <1>2, <1>5, TypesOne
    <3>2. 1 = 0 + ((m + 1) - d) + 1
      BY <2>2
    <3> QED BY <1>2, <1>4, <2>2, <3>1, <3>2
  <2> QED BY <2>1, <2>2
<1>10. ASSUME NEW q \in 1..k
       PROVE  Encloses(fs, q, k + 1) <=> \E d \in 1..(m + 1) : p[d] = q
  <2>1. CASE q \in 1..n
    <3>1. Encloses(fs, q, k + 1) <=> Encloses(es, q, n + 1) /\ StillOpen(fs, q)
      BY <1>1, <1>2, <2>1, EnclosesNext
    <3>2. Encloses(es, q, n + 1) <=> \E d \in 1..m : o[d] = q
      BY <1>1, <2>1 DEF OpenAt
    <3>3. ASSUME NEW d \in 1..m, o[d] = q PROVE StillOpen(fs, q)
      <4>1. PICK x \in Nat, y \in Nat : x = OfTypes(fs, q, k, Opens) /\ y = OfTypes(fs, q, k, Ends)
        BY <1>6, <2>1
      <4>2. x = y + ((m + 1) - d) + 1
        BY <1>8, <3>3, <4>1
      <4>3. x > y
        BY <4>2
      <4> QED BY <1>2, <4>1, <4>3 DEF StillOpen
    <3>4. (\E d \in 1..(m + 1) : p[d] = q) <=> \E d \in 1..m : o[d] = q
      <4>1. k # q /\ \A d : d \in 1..(m + 1) <=> d \in 1..m \/ d = m + 1
        BY <1>1, <2>1
      <4> QED BY <1>4, <4>1
    <3> QED BY <3>1, <3>2, <3>3, <3>4
  <2>2. CASE q = k
    <3>1. Encloses(fs, q, k + 1)
      BY <1>2, <2>2, EnclosesLast
    <3>2. m + 1 \in 1..(m + 1)
      OBVIOUS
    <3> QED BY <1>4, <2>2, <3>1, <3>2
  <2> QED BY <1>1, <2>1, <2>2
<1>11. ASSUME NEW i \in 1..(m + 1), NEW j \in 1..(m + 1), i < j PROVE p[i] < p[j]
  <2>1. i \in 1..m /\ p[i] = o[i] /\ o[i] \in 1..n
    BY <1>2, <1>4, <1>11, SMTT(30)
  <2>2. CASE j \in 1..m
    BY <1>1, <1>4, <1>11, <2>1, <2>2 DEF OpenAt
  <2>3. CASE j = m + 1
    BY <1>1, <1>4, <2>1, <2>3
  <2> QED BY <2>2, <2>3
<1> QED BY <1>1, <1>2, <1>4, <1>9, <1>10, <1>11 DEF OpenAt, p, b

\* The event that ends a collection closes the innermost one.
LEMMA OpenEnd ==
  ASSUME NEW es, NEW fs, Grown(es, fs), NEW o, NEW c \in Seq(Nat), OpenAt(es, o, c), c # <<>>,
         fs[Len(fs)].type \in Ends
  PROVE  OpenAt(fs, Front(o), Front(c))
<1>1. PICK n \in Nat, m \in Nat, k \in Nat, l \in Nat :
        n = Len(es) /\ m = Len(o) /\ k = n + 1 /\ m = l + 1
  <2>1. Len(es) \in Nat /\ Len(o) \in Nat \ {0} /\ Len(es) + 1 \in Nat /\ Len(o) - 1 \in Nat
    BY LenProperties, EmptySeq DEF OpenAt, Grown
  <2>2. Len(o) = (Len(o) - 1) + 1
    BY <2>1
  <2> QED BY <2>1, <2>2
<1>2. /\ Len(fs) = k /\ AgreeTo(es, fs, n)
      /\ o \in Seq(1..n) /\ m = Len(c) /\ \A d \in 1..m : o[d] \in 1..n
  BY <1>1, ElementOfSeq DEF OpenAt, Grown
<1>3. o \in Seq(1..k) /\ o # <<>>
  <2>1. 1..n \subseteq 1..k
    BY <1>1
  <2>2. o # <<>>
    BY <1>1, <1>2, EmptySeq
  <2> QED BY <1>2, <2>1, <2>2, WiderSeq
<1> DEFINE p == Front(o)
           b == Front(c)
<1>4. /\ p \in Seq(1..k) /\ Len(p) = l
      /\ \A d \in 1..l : p[d] = o[d]
      /\ Len(b) = l
      /\ \A d \in 1..l : b[d] = c[d]
  <2>1. m - 1 = l
    BY <1>1
  <2>2. /\ p \in Seq(1..k) /\ Len(p) = m - 1 /\ \A d \in 1..(m - 1) : p[d] = o[d]
    BY <1>1, <1>3, FrontFacts
  <2>3. Len(b) = m - 1 /\ \A d \in 1..(m - 1) : b[d] = c[d]
    BY <1>2, FrontFacts
  <2> QED BY <2>1, <2>2, <2>3
<1> HIDE DEF p, b
<1>5. fs[k].type \notin Opens
  BY <1>2 DEF Opens, Ends
<1>6. ASSUME NEW q \in 1..n
      PROVE  /\ OfTypes(fs, q, k, Opens) = OfTypes(es, q, n, Opens)
             /\ OfTypes(fs, q, k, Ends) = OfTypes(es, q, n, Ends) + 1
             /\ OfTypes(es, q, n, Opens) \in Nat /\ OfTypes(es, q, n, Ends) \in Nat
  <2>1. q \in 1..Len(es) /\ fs[Len(fs)].type \in Ends /\ fs[Len(fs)].type \notin Opens
    BY <1>1, <1>2, <1>5
  <2>2. /\ OfTypes(fs, q, Len(fs), Opens) = OfTypes(es, q, Len(es), Opens)
        /\ OfTypes(fs, q, Len(fs), Ends) = OfTypes(es, q, Len(es), Ends) + 1
        /\ OfTypes(es, q, Len(es), Opens) \in Nat /\ OfTypes(es, q, Len(es), Ends) \in Nat
    BY <2>1, TypesGrown
  <2> QED BY <1>1, <1>2, <2>2
<1>7. ASSUME NEW d \in 1..m
      PROVE  /\ OfTypes(fs, o[d], k, Opens) = OfTypes(fs, o[d], k, Ends) + (l - d) + 1
             /\ StillOpen(fs, o[d]) <=> d # m
  <2>1. PICK x \in Nat, y \in Nat : x = OfTypes(es, o[d], n, Opens) /\ y = OfTypes(es, o[d], n, Ends)
    BY <1>2, <1>6
  <2>2. x = y + (m - d) + 1
    BY <1>1, <2>1 DEF OpenAt
  <2>3. OfTypes(fs, o[d], k, Opens) = x /\ OfTypes(fs, o[d], k, Ends) = y + 1
    BY <1>2, <1>6, <2>1
  <2>4. x = (y + 1) + (l - d) + 1 /\ (x > y + 1 <=> d # m)
    BY <1>1, <2>2
  <2> QED BY <1>2, <2>3, <2>4 DEF StillOpen
<1>8. ASSUME NEW d \in 1..l
      PROVE  /\ fs[p[d]].type \in Opens
             /\ NodeOf(fs, p[d]) = b[d]
             /\ OfTypes(fs, p[d], k, Opens) = OfTypes(fs, p[d], k, Ends) + (l - d) + 1
  <2>1. d \in 1..m /\ d \in 1..Len(o)
    BY <1>1
  <2>2. fs[o[d]].type \in Opens /\ NodeOf(fs, o[d]) = c[d]
    BY <2>1, OpenKept
  <2> QED BY <1>4, <1>7, <2>1, <2>2
<1>9. ASSUME NEW q \in 1..k
      PROVE  Encloses(fs, q, k + 1) <=> \E d \in 1..l : p[d] = q
  <2>1. CASE q \in 1..n
    <3>1. Encloses(fs, q, k + 1) <=> Encloses(es, q, n + 1) /\ StillOpen(fs, q)
      BY <1>1, <1>2, <2>1, EnclosesNext
    <3>2. Encloses(es, q, n + 1) <=> \E d \in 1..m : o[d] = q
      BY <1>1, <2>1 DEF OpenAt
    <3>3. \A d : d \in 1..l <=> d \in 1..m /\ d # m
      BY <1>1
    <3> QED BY <1>4, <1>7, <3>1, <3>2, <3>3
  <2>2. CASE q = k
    <3>1. ~Encloses(fs, q, k + 1)
      BY <1>2, <1>5, <2>2, EnclosesLast
    <3>2. \A d \in 1..l : d \in 1..m
      BY <1>1
    <3>3. \A d \in 1..l : p[d] \in 1..n
      BY <1>2, <1>4, <3>2
    <3> QED BY <1>1, <2>2, <3>1, <3>3
  <2> QED BY <1>1, <2>1, <2>2
<1>10. ASSUME NEW i \in 1..l, NEW j \in 1..l, i < j PROVE p[i] < p[j]
  <2>1. i \in 1..m /\ j \in 1..m
    BY <1>1
  <2> QED BY <1>1, <1>4, <1>10, <2>1 DEF OpenAt
<1> QED BY <1>1, <1>2, <1>4, <1>8, <1>9, <1>10 DEF OpenAt, p, b
-----------------------------------------------------------------------------
\* The children of the pairs of a mapping, pair by pair.
Pair == [key : Nat, value : Nat]
PairLists(pairs) == [i \in DOMAIN pairs |-> PairChildren(pairs[i])]

LEMMA PairTyped ==
  ASSUME NEW pair \in Pair
  PROVE  PairChildren(pair) \in Seq(Nat)
<1>1. pair.key \in Nat /\ pair.value \in Nat
  BY DEF Pair
<1>2. \A x, y \in Nat : <<x>> \in Seq(Nat) /\ <<x, y>> \in Seq(Nat)
  OBVIOUS
<1> QED BY <1>1, <1>2 DEF PairChildren

LEMMA PairsTyped ==
  ASSUME NEW pairs \in Seq(Pair)
  PROVE  /\ PairLists(pairs) \in Seq(Seq(Nat)) /\ Len(PairLists(pairs)) = Len(pairs)
         /\ \A i \in 1..Len(pairs) : PairLists(pairs)[i] = PairChildren(pairs[i])
         /\ FlattenSeq(PairLists(pairs)) \in Seq(Nat)
<1>1. PICK n \in Nat : n = Len(pairs)
  BY LenProperties
<1>2. DOMAIN pairs = 1..n /\ \A i \in 1..n : PairChildren(pairs[i]) \in Seq(Nat)
  BY <1>1, PairTyped, LenProperties, ElementOfSeq
<1>3. PairLists(pairs) = [i \in 1..n |-> PairChildren(pairs[i])]
  BY <1>2 DEF PairLists
<1>4. /\ PairLists(pairs) \in Seq(Seq(Nat)) /\ Len(PairLists(pairs)) = n
      /\ \A i \in 1..n : PairLists(pairs)[i] = PairChildren(pairs[i])
  BY <1>2, <1>3
<1> QED BY <1>1, <1>4, FlattenTyped

LEMMA PairsPushed ==
  ASSUME NEW pairs \in Seq(Pair), NEW pair \in Pair
  PROVE  FlattenSeq(PairLists(Append(pairs, pair)))
           = FlattenSeq(PairLists(pairs)) \o PairChildren(pair)
<1> DEFINE new == Append(pairs, pair)
<1>1. PICK n \in Nat : n = Len(pairs)
  BY LenProperties
<1>2. /\ new \in Seq(Pair) /\ Len(new) = n + 1
      /\ \A i \in 1..n : new[i] = pairs[i]
      /\ new[n + 1] = pair
  BY <1>1, AppendFacts
<1> HIDE DEF new
<1>3. /\ PairLists(new) \in Seq(Seq(Nat)) /\ Len(PairLists(new)) = n + 1
      /\ \A i \in 1..(n + 1) : PairLists(new)[i] = PairChildren(new[i])
      /\ PairLists(pairs) \in Seq(Seq(Nat)) /\ Len(PairLists(pairs)) = n
      /\ \A i \in 1..n : PairLists(pairs)[i] = PairChildren(pairs[i])
      /\ PairChildren(pair) \in Seq(Nat)
  BY <1>1, <1>2, PairsTyped, PairTyped
<1> DEFINE longer == Append(PairLists(pairs), PairChildren(pair))
<1>4. /\ longer \in Seq(Seq(Nat)) /\ Len(longer) = n + 1
      /\ \A i \in 1..n : longer[i] = PairLists(pairs)[i]
      /\ longer[n + 1] = PairChildren(pair)
  BY <1>3, AppendFacts
<1> HIDE DEF longer
<1>5. ASSUME NEW i \in 1..(n + 1) PROVE PairLists(new)[i] = longer[i]
  <2>1. PairLists(new)[i] = PairChildren(new[i])
    BY <1>3
  <2>2. CASE i \in 1..n
    BY <1>2, <1>3, <1>4, <2>1, <2>2
  <2>3. CASE i = n + 1
    BY <1>2, <1>4, <2>1, <2>3
  <2> QED BY <2>2, <2>3
<1>6. PairLists(new) = longer
  BY <1>3, <1>4, <1>5, SeqEqual
<1>7. FlattenSeq(longer) = FlattenSeq(PairLists(pairs)) \o PairChildren(pair)
  BY <1>3, FlattenPushed DEF longer
<1> QED BY <1>6, <1>7 DEF new

\* A child that is attached is the last of the children of its parent.
LEMMA ChildLast ==
  ASSUME NEW node \in Node, NEW index \in Nat \ {0}
  PROVE  /\ ChildrenOf(node) \in Seq(Nat)
         /\ ChildrenOf(WithChild(node, index)) = Append(ChildrenOf(node), index)
<1> USE DEF Node, Pair
<1> DEFINE new == WithChild(node, index)
<1>1. CASE node.kind = "Sequence"
  <2>1. new = [node EXCEPT !.items = Append(@, index)]
    BY <1>1 DEF WithChild
  <2>2. new.kind = "Sequence" /\ new.items = Append(node.items, index)
    BY <1>1, <2>1
  <2> QED BY <1>1, <2>2 DEF ChildrenOf
<1>2. CASE node.kind # "Sequence" /\ Waiting(node)
  <2>1. PICK n \in Nat \ {0}, pairs \in Seq(Pair) : pairs = node.pairs /\ n = Len(pairs)
    <3>1. node.pairs \in Seq(Pair) /\ Len(node.pairs) \in Nat \ {0}
      BY <1>2, LenProperties, EmptySeq DEF Waiting
    <3> QED BY <3>1
  <2>2. /\ pairs # <<>> /\ Front(pairs) \in Seq(Pair) /\ Last(pairs) \in Pair
        /\ Last(pairs) = pairs[n] /\ Last(pairs).value = 0
        /\ Len(Front(pairs)) = n - 1 /\ \A i \in 1..(n - 1) : Front(pairs)[i] = pairs[i]
    <3>1. pairs # <<>> /\ Last(pairs).value = 0
      BY <1>2, <2>1 DEF Waiting
    <3> HIDE DEF Pair
    <3>2. /\ Front(pairs) \in Seq(Pair) /\ Last(pairs) \in Pair
          /\ Last(pairs) = pairs[Len(pairs)]
          /\ Len(Front(pairs)) = Len(pairs) - 1
          /\ \A i \in 1..(Len(pairs) - 1) : Front(pairs)[i] = pairs[i]
      BY <3>1, FrontFacts
    <3> QED BY <2>1, <3>1, <3>2
  <2>3. PICK key \in Nat, front \in Seq(Pair), last \in Pair :
          /\ front = Front(pairs) /\ last = Last(pairs) /\ key = last.key
    BY <2>2
  <2> DEFINE pair == [last EXCEPT !.value = index]
             list == [pairs EXCEPT ![n] = pair]
  <2>4. new.kind = node.kind /\ new.pairs = list
    <3>1. new = [node EXCEPT !.pairs[Len(node.pairs)].value = index]
      BY <1>2 DEF WithChild
    <3>2. list = [node.pairs EXCEPT ![Len(node.pairs)].value = index]
      BY <2>1, <2>2, <2>3
    <3> QED BY <3>1, <3>2
  <2>5. pair \in Pair /\ pair.key = key /\ pair.value = index
    BY <2>3
  <2>6. list = Append(front, pair)
    <3> HIDE DEF pair, Pair
    <3>1. n \in 1..Len(pairs)
      BY <2>1
    <3>2. /\ list \in Seq(Pair) /\ Len(list) = n
          /\ \A i \in 1..n : list[i] = IF i = n THEN pair ELSE pairs[i]
      BY <2>1, <2>5, <3>1, ExceptSeq
    <3> DEFINE other == Append(front, pair)
    <3>3. PICK m \in Nat : m = n - 1 /\ m + 1 = n
      <4>1. n - 1 \in Nat /\ (n - 1) + 1 = n
        OBVIOUS
      <4> QED BY <4>1
    <3>4. Len(front) = m /\ \A i \in 1..m : front[i] = pairs[i]
      BY <2>2, <2>3, <3>3
    <3>5. /\ other \in Seq(Pair) /\ Len(other) = m + 1
          /\ \A i \in 1..m : other[i] = front[i]
          /\ other[m + 1] = pair
      BY <2>5, <3>4, AppendFacts
    <3> HIDE DEF list, other
    <3>6. \A i \in 1..n : list[i] = other[i]
      <4>1. \A i \in 1..n : i = m + 1 \/ (i \in 1..m /\ i # n)
        BY <3>3
      <4> QED BY <3>2, <3>3, <3>4, <3>5, <4>1
    <3> QED BY <3>2, <3>3, <3>5, <3>6, SeqEqual DEF other
  <2>7. pairs = Append(front, last)
    <3> HIDE DEF Pair
    <3> QED BY <2>2, <2>3, PopPush
  <2>8. /\ FlattenSeq(PairLists(list)) = FlattenSeq(PairLists(front)) \o <<key, index>>
        /\ FlattenSeq(PairLists(pairs)) = FlattenSeq(PairLists(front)) \o <<key>>
        /\ FlattenSeq(PairLists(front)) \in Seq(Nat)
    <3>1. PairChildren(pair) = <<key, index>> /\ PairChildren(last) = <<key>>
      BY <2>2, <2>3, <2>5 DEF PairChildren
    <3> HIDE DEF pair, list, Pair
    <3> QED BY <2>5, <2>6, <2>7, <3>1, PairsPushed, PairsTyped
  <2>9. /\ ChildrenOf(new) = FlattenSeq(PairLists(list))
        /\ ChildrenOf(node) = FlattenSeq(PairLists(pairs))
    BY <1>2, <2>1, <2>4 DEF ChildrenOf, PairLists
  <2>10. PICK flat \in Seq(Nat) : flat = FlattenSeq(PairLists(front))
    BY <2>8
  <2>11. flat \o <<key>> \in Seq(Nat) /\ flat \o <<key, index>> = Append(flat \o <<key>>, index)
    OBVIOUS
  <2> HIDE DEF new, list
  <2> QED BY <2>8, <2>9, <2>10, <2>11 DEF new
<1>3. CASE node.kind # "Sequence" /\ ~Waiting(node)
  <2> DEFINE pair == [key |-> index, value |-> 0]
  <2>1. PICK pairs \in Seq(Pair) : pairs = node.pairs
    OBVIOUS
  <2>2. new.kind = node.kind /\ new.pairs = Append(pairs, pair)
    <3>1. new = [node EXCEPT !.pairs = Append(@, pair)]
      BY <1>3 DEF WithChild
    <3> QED BY <2>1, <3>1
  <2>3. pair \in Pair /\ PairChildren(pair) = <<index>>
    BY DEF PairChildren
  <2>4. /\ FlattenSeq(PairLists(Append(pairs, pair))) = FlattenSeq(PairLists(pairs)) \o <<index>>
        /\ FlattenSeq(PairLists(pairs)) \in Seq(Nat)
    <3> HIDE DEF pair, Pair
    <3> QED BY <2>3, PairsPushed, PairsTyped
  <2>5. /\ ChildrenOf(new) = FlattenSeq(PairLists(Append(pairs, pair)))
        /\ ChildrenOf(node) = FlattenSeq(PairLists(pairs))
    <3> HIDE DEF pair
    <3> QED BY <1>3, <2>1, <2>2 DEF ChildrenOf, PairLists
  <2>6. PICK flat \in Seq(Nat) : flat = FlattenSeq(PairLists(pairs))
    BY <2>4
  <2>7. flat \o <<index>> = Append(flat, index)
    OBVIOUS
  <2> HIDE DEF new, pair
  <2> QED BY <2>4, <2>5, <2>6, <2>7 DEF new
<1> QED BY <1>1, <1>2, <1>3
-----------------------------------------------------------------------------
\* A node that no event has entered since.
LEMMA NodeStays ==
  ASSUME NEW es, NEW fs, Grown(es, fs), NEW al, Named(es, al), NEW q \in 1..Len(es),
         NEW list, NEW new, SaidNode(es, list, q), ~IsChild(fs, q, Len(fs)),
         new[NodeOf(es, q)] = list[NodeOf(es, q)]
  PROVE  SaidNode(fs, new, q) /\ NodeOf(fs, q) = NodeOf(es, q)
<1>1. PICK n \in Nat, k \in Nat : n = Len(es) /\ k = n + 1
  <2>1. Len(es) \in Nat /\ Len(es) + 1 \in Nat
    BY DEF Grown
  <2> QED BY <2>1
<1>2. /\ Len(fs) = k /\ AgreeTo(es, fs, n) /\ q \in Nat \ {0} /\ q <= n /\ fs[q] = es[q]
      /\ 1 \in Nat \ {0}
  BY <1>1 DEF Grown, AgreeTo
<1>3. NodeOf(fs, q) = NodeOf(es, q)
  BY <1>2, TypesSame DEF NodeOf
<1>4. ChildrenBy(fs, q, k) = ChildrenBy(es, q, n)
  <2>1. n \in 0..n
    OBVIOUS
  <2>2. ChildrenBy(fs, q, n) = ChildrenBy(es, q, n)
    BY <1>2, <2>1, ChildrenBySame
  <2> QED BY <1>1, <1>2, <2>2, ChildrenByNext
<1>5. ASSUME NEW p \in 1..k, IsChild(fs, q, p)
      PROVE  /\ p \in 1..n /\ IsChild(es, q, p)
             /\ ChildrenBy(fs, q, p) = ChildrenBy(es, q, p) /\ Refers(fs, p) = Refers(es, p)
  <2>1. p # k
    BY <1>2, <1>5
  <2>2. p \in 1..n /\ p \in 0..n
    BY <1>1, <2>1
  <2>3. IsChild(es, q, p) /\ ChildrenBy(fs, q, p) = ChildrenBy(es, q, p)
    BY <1>2, <1>5, <2>2, IsChildSame, ChildrenBySame
  <2>4. Refers(fs, p) = Refers(es, p)
    BY <1>1, <1>2, <2>2, RefersSame
  <2> QED BY <2>2, <2>3, <2>4
<1> QED BY <1>1, <1>2, <1>3, <1>4, <1>5 DEF SaidNode

\* The node that the event enters has one child more.
LEMMA NodeGrows ==
  ASSUME NEW es, NEW fs, Grown(es, fs), NEW al, Named(es, al), NEW q \in 1..Len(es),
         NEW list \in Seq(Node), NodeOf(es, q) \in 1..Len(list),
         NEW new, SaidNode(es, list, q), IsChild(fs, q, Len(fs)),
         NEW index \in Nat \ {0}, index = Refers(fs, Len(fs)),
         new[NodeOf(es, q)] = WithChild(list[NodeOf(es, q)], index)
  PROVE  SaidNode(fs, new, q) /\ NodeOf(fs, q) = NodeOf(es, q)
<1>1. PICK n \in Nat, k \in Nat : n = Len(es) /\ k = n + 1
  <2>1. Len(es) \in Nat /\ Len(es) + 1 \in Nat
    BY DEF Grown
  <2> QED BY <2>1
<1>2. /\ Len(fs) = k /\ AgreeTo(es, fs, n) /\ q \in Nat \ {0} /\ q <= n /\ fs[q] = es[q]
      /\ 1 \in Nat \ {0}
  BY <1>1 DEF Grown, AgreeTo
<1>3. NodeOf(fs, q) = NodeOf(es, q)
  BY <1>2, TypesSame DEF NodeOf
<1>4. PICK node \in Node : node = list[NodeOf(es, q)]
  BY ElementOfSeq
<1>5. WithChild(node, index).kind = node.kind
  BY DEF WithChild, Node
<1>6. PICK children \in Seq(Nat) :
        /\ children = ChildrenOf(node)
        /\ ChildrenOf(WithChild(node, index)) = Append(children, index)
  BY ChildLast
<1>7. PICK m \in Nat : m = Len(children) /\ m = ChildrenBy(es, q, n)
  <2>1. Len(children) = ChildrenBy(es, q, n)
    BY <1>1, <1>4, <1>6 DEF SaidNode
  <2> QED BY <2>1, LenProperties
<1> DEFINE longer == Append(children, index)
<1>8. /\ Len(longer) = m + 1 /\ longer[m + 1] = index
      /\ \A i \in 1..m : longer[i] = children[i]
  <2>1. longer = Append(children, index) /\ index \in Nat
    OBVIOUS
  <2> HIDE DEF longer
  <2>2. /\ Len(longer) = Len(children) + 1 /\ longer[Len(children) + 1] = index
        /\ \A i \in 1..Len(children) : longer[i] = children[i]
    BY <2>1, AppendFacts
  <2> QED BY <1>7, <2>2
<1> HIDE DEF longer
<1>9. ChildrenBy(fs, q, k) = m + 1
  <2>1. n \in 0..n
    OBVIOUS
  <2>2. ChildrenBy(fs, q, n) = m
    BY <1>2, <1>7, <2>1, ChildrenBySame
  <2> QED BY <1>1, <1>2, <2>2, ChildrenByNext
<1>10. ASSUME NEW p \in 1..k, IsChild(fs, q, p)
       PROVE  longer[ChildrenBy(fs, q, p)] = Refers(fs, p)
  <2>1. CASE p = k
    BY <1>2, <1>8, <1>9, <2>1
  <2>2. CASE p # k
    <3>1. p \in 1..n /\ p \in 0..n
      BY <1>1, <2>2
    <3>2. IsChild(es, q, p) /\ ChildrenBy(fs, q, p) = ChildrenBy(es, q, p)
      BY <1>2, <1>10, <3>1, IsChildSame, ChildrenBySame
    <3>3. Refers(fs, p) = Refers(es, p)
      BY <1>1, <1>2, <3>1, RefersSame
    <3>4. ChildrenBy(es, q, p) \in 1..m
      BY <1>7, <3>1, <3>2, ChildPlaced
    <3>5. children[ChildrenBy(es, q, p)] = Refers(es, p)
      BY <1>1, <1>4, <1>6, <3>1, <3>2 DEF SaidNode
    <3> QED BY <1>8, <3>2, <3>3, <3>4, <3>5
  <2> QED BY <2>1, <2>2
<1>11. list[NodeOf(es, q)].kind = KindOf[es[q].type]
  BY DEF SaidNode
<1>12. /\ new[NodeOf(fs, q)].kind = KindOf[fs[q].type]
       /\ ChildrenOf(new[NodeOf(fs, q)]) = longer
  BY <1>2, <1>3, <1>4, <1>5, <1>6, <1>11 DEF longer
<1> QED BY <1>2, <1>3, <1>8, <1>9, <1>10, <1>12 DEF SaidNode

\* A node that has just begun has no children.
LEMMA NodeBegins ==
  ASSUME NEW es, Len(es) \in Nat \ {0}, NEW new,
         new[NodeOf(es, Len(es))].kind = KindOf[es[Len(es)].type],
         ChildrenOf(new[NodeOf(es, Len(es))]) = <<>>
  PROVE  SaidNode(es, new, Len(es))
<1>1. PICK k \in Nat : k = Len(es)
  OBVIOUS
<1>2. \A p \in 1..k : ~IsChild(es, k, p)
  BY <1>1 DEF IsChild, Inside, Encloses
<1>3. ChildrenBy(es, k, k) = 0
  <2>1. {p \in 1..k : IsChild(es, k, p)} = {}
    BY <1>2
  <2> QED BY <2>1, FS_EmptySet DEF ChildrenBy
<1>4. Len(<<>>) = 0
  OBVIOUS
<1> QED BY <1>1, <1>2, <1>3, <1>4 DEF SaidNode

\* An event that ends a collection enters no node.
LEMMA SaidEnd ==
  ASSUME NEW es, NEW fs, Grown(es, fs), NEW al, Named(es, al), NEW list, Said(es, list),
         fs[Len(fs)].type \in Ends
  PROVE  Said(fs, list)
<1>1. PICK n \in Nat, k \in Nat : n = Len(es) /\ k = n + 1
  <2>1. Len(es) \in Nat /\ Len(es) + 1 \in Nat
    BY DEF Grown
  <2> QED BY <2>1
<1>2. Len(fs) = k /\ fs[k].type \notin Starts /\ \A q : ~IsChild(fs, q, k)
  BY <1>1 DEF Grown, Ends, Starts, Opens, IsChild
<1>3. OfTypes(fs, 1, k, Starts) = OfTypes(es, 1, n, Starts)
  <2>1. AgreeTo(es, fs, n) /\ 1 \in Nat \ {0} /\ n <= n /\ 1 <= n + 1
    BY <1>1 DEF Grown
  <2>2. OfTypes(fs, 1, n, Starts) = OfTypes(es, 1, n, Starts)
    BY <2>1, TypesSame
  <2> QED BY <1>1, <1>2, <2>1, <2>2, TypesNext
<1>4. ASSUME NEW q \in 1..k, fs[q].type \in Starts PROVE SaidNode(fs, list, q)
  <2>1. q \in 1..n /\ es[q] = fs[q]
    BY <1>1, <1>2, <1>4 DEF Grown, AgreeTo
  <2>2. SaidNode(es, list, q) /\ ~IsChild(fs, q, Len(fs))
    BY <1>1, <1>2, <1>4, <2>1 DEF Said
  <2> QED BY <1>1, <2>1, <2>2, NodeStays
<1> QED BY <1>1, <1>2, <1>3, <1>4 DEF Said
-----------------------------------------------------------------------------
\* The innermost open collection is the node on top of the context, and no
\* event but its own started that node.
LEMMA InnermostNode ==
  ASSUME NEW es, NEW fs, Grown(es, fs), NEW o, NEW c \in Seq(Nat), OpenAt(es, o, c),
         NEW list, Len(list) = OfTypes(es, 1, Len(es), Starts),
         fs[Len(fs)].type \notin Ends
  PROVE  /\ c # <<>> => Last(c) \in 1..Len(list)
         /\ \A q \in 1..Len(es) :
              es[q].type \in Starts =>
                /\ NodeOf(es, q) \in 1..Len(list)
                /\ IsChild(fs, q, Len(fs)) <=> c # <<>> /\ NodeOf(es, q) = Last(c)
<1>1. PICK n \in Nat, m \in Nat, k \in Nat : n = Len(es) /\ m = Len(o) /\ k = n + 1
  <2>1. Len(es) \in Nat /\ Len(o) \in Nat /\ Len(es) + 1 \in Nat
    BY LenProperties DEF OpenAt, Grown
  <2> QED BY <2>1
<1>2. /\ Len(fs) = k /\ AgreeTo(es, fs, n)
      /\ o \in Seq(1..n) /\ m = Len(c) /\ \A d \in 1..m : o[d] \in 1..n
      /\ o # <<>> <=> m # 0
      /\ c # <<>> <=> m # 0
      /\ Last(c) = c[m] /\ Last(o) = o[m]
  BY <1>1, ElementOfSeq, EmptySeq DEF OpenAt, Grown, Last
<1>3. \A q \in 1..n : es[q].type \in Starts =>
        /\ NodeOf(es, q) \in 1..Len(list)
        /\ \A r \in 1..n : es[r].type \in Starts /\ NodeOf(es, r) = NodeOf(es, q) => r = q
  BY <1>1, NodesNumbered
<1>4. ASSUME m # 0
      PROVE  /\ o[m] \in 1..n /\ es[o[m]].type \in Starts /\ NodeOf(es, o[m]) = c[m]
             /\ c[m] \in 1..Len(list)
  <2>1. m \in 1..m
    BY <1>4
  <2>2. o[m] \in 1..n /\ es[o[m]].type \in Opens /\ NodeOf(es, o[m]) = c[m]
    BY <1>1, <1>2, <2>1 DEF OpenAt
  <2> QED BY <1>3, <2>2 DEF Starts
<1>5. ASSUME NEW q \in 1..n, es[q].type \in Starts
      PROVE  IsChild(fs, q, k) <=> m # 0 /\ NodeOf(es, q) = c[m]
  <2>1. Inside(fs, q, k) <=> Inside(es, q, k)
    <3>1. q \in Nat \ {0} /\ k \in 1..(n + 1)
      BY <1>1
    <3> QED BY <1>2, <3>1, InsideSame
  <2>2. Inside(es, q, k) <=> m # 0 /\ q = o[m]
    BY <1>1, <1>2, Innermost
  <2>3. m # 0 => (q = o[m] <=> NodeOf(es, q) = c[m])
    BY <1>3, <1>4, <1>5
  <2> QED BY <1>2, <2>1, <2>2, <2>3 DEF IsChild
<1> QED BY <1>1, <1>2, <1>3, <1>4, <1>5

\* The nodes with the child attached to the top of the context, if there is one.
AttachedTo(list, c, index) ==
  IF c = <<>> THEN list ELSE [list EXCEPT ![Last(c)] = WithChild(@, index)]

\* A node or an alias becomes the next child of the innermost open collection;
\* mid are the nodes with the one that the event starts, if it starts one.
LEMMA SaidNext ==
  ASSUME NEW es, NEW fs, Grown(es, fs), NEW al, Named(es, al),
         NEW o, NEW c \in Seq(Nat), OpenAt(es, o, c),
         NEW list \in Seq(Node), Said(es, list), fs[Len(fs)].type \notin Ends,
         NEW mid \in Seq(Node), AgreeTo(list, mid, Len(list)),
         IF fs[Len(fs)].type \in Starts
         THEN /\ Len(mid) = Len(list) + 1
              /\ mid[Len(mid)].kind = KindOf[fs[Len(fs)].type]
              /\ ChildrenOf(mid[Len(mid)]) = <<>>
         ELSE Len(mid) = Len(list),
         NEW index \in Nat \ {0}, index = Refers(fs, Len(fs))
  PROVE  Said(fs, AttachedTo(mid, c, index))
<1> DEFINE new == AttachedTo(mid, c, index)
<1>1. PICK n \in Nat, k \in Nat, l \in Nat : n = Len(es) /\ k = n + 1 /\ l = Len(list)
  <2>1. Len(es) \in Nat /\ Len(es) + 1 \in Nat /\ Len(list) \in Nat
    BY LenProperties DEF Grown
  <2> QED BY <2>1
<1>2. /\ Len(fs) = k /\ AgreeTo(es, fs, n) /\ \A i \in 1..l : mid[i] = list[i]
      /\ l = OfTypes(es, 1, n, Starts)
  BY <1>1 DEF Grown, AgreeTo, Said
<1>3. /\ c # <<>> => Last(c) \in 1..l
      /\ \A q \in 1..n : es[q].type \in Starts =>
           /\ NodeOf(es, q) \in 1..l
           /\ IsChild(fs, q, k) <=> c # <<>> /\ NodeOf(es, q) = Last(c)
  <2>1. Len(list) = OfTypes(es, 1, Len(es), Starts)
    BY DEF Said
  <2>2. /\ c # <<>> => Last(c) \in 1..Len(list)
        /\ \A q \in 1..Len(es) : es[q].type \in Starts =>
             /\ NodeOf(es, q) \in 1..Len(list)
             /\ IsChild(fs, q, Len(fs)) <=> c # <<>> /\ NodeOf(es, q) = Last(c)
    BY <2>1, InnermostNode
  <2> QED BY <1>1, <1>2, <2>2
<1>4. Len(mid) \in Nat /\ Len(mid) = IF fs[k].type \in Starts THEN l + 1 ELSE l
  BY <1>1, <1>2, LenProperties
<1>5. /\ Len(new) = Len(mid)
      /\ \A i \in 1..l : new[i] = IF c # <<>> /\ i = Last(c) THEN WithChild(list[i], index)
                                   ELSE list[i]
      /\ fs[k].type \in Starts => new[Len(mid)] = mid[Len(mid)]
  <2>1. CASE c = <<>>
    BY <1>2, <2>1 DEF AttachedTo
  <2>2. CASE c # <<>>
    <3>1. new = [mid EXCEPT ![Last(c)] = WithChild(mid[Last(c)], index)]
      BY <2>2 DEF AttachedTo
    <3>2. DOMAIN mid = 1..Len(mid) /\ Len(new) = Len(mid)
      BY <3>1, LenProperties
    <3>3. \A i \in 1..Len(mid) : new[i] = IF i = Last(c) THEN WithChild(mid[i], index) ELSE mid[i]
      BY <3>1, <3>2
    <3> HIDE DEF new
    <3>4. \A i \in 1..l : i \in 1..Len(mid)
      BY <1>1, <1>4
    <3>5. fs[k].type \in Starts => Len(mid) \in 1..Len(mid) /\ Len(mid) # Last(c)
      BY <1>3, <1>4, <2>2
    <3> QED BY <1>2, <2>2, <3>2, <3>3, <3>4, <3>5
  <2> QED BY <2>1, <2>2
<1> HIDE DEF new
<1>6. OfTypes(fs, 1, k, Starts) = Len(mid)
  <2>1. 1 \in Nat \ {0} /\ n <= n /\ 1 <= n + 1
    BY <1>1
  <2>2. OfTypes(fs, 1, n, Starts) = l
    BY <1>2, <2>1, TypesSame
  <2>3. /\ fs[n + 1].type \in Starts => OfTypes(fs, 1, n + 1, Starts) = OfTypes(fs, 1, n, Starts) + 1
        /\ fs[n + 1].type \notin Starts => OfTypes(fs, 1, n + 1, Starts) = OfTypes(fs, 1, n, Starts)
    BY <2>1, TypesNext
  <2> QED BY <1>1, <1>4, <2>2, <2>3
<1>7. ASSUME NEW q \in 1..n, es[q].type \in Starts PROVE SaidNode(fs, new, q)
  <2>1. SaidNode(es, list, q) /\ NodeOf(es, q) \in 1..l
    BY <1>1, <1>3, <1>7 DEF Said
  <2>2. CASE IsChild(fs, q, k)
    <3>1. new[NodeOf(es, q)] = WithChild(list[NodeOf(es, q)], index)
      BY <1>3, <1>5, <1>7, <2>1, <2>2
    <3>2. q \in 1..Len(es) /\ IsChild(fs, q, Len(fs)) /\ NodeOf(es, q) \in 1..Len(list)
      BY <1>1, <1>2, <2>1, <2>2
    <3> QED BY <2>1, <3>1, <3>2, NodeGrows
  <2>3. CASE ~IsChild(fs, q, k)
    <3>1. new[NodeOf(es, q)] = list[NodeOf(es, q)]
      BY <1>3, <1>5, <1>7, <2>1, <2>3
    <3>2. q \in 1..Len(es) /\ ~IsChild(fs, q, Len(fs))
      BY <1>1, <1>2, <2>3
    <3> QED BY <2>1, <3>1, <3>2, NodeStays
  <2> QED BY <2>2, <2>3
<1>8. ASSUME fs[k].type \in Starts PROVE SaidNode(fs, new, k)
  <2>1. NodeOf(fs, k) = Len(mid) /\ new[NodeOf(fs, k)] = mid[Len(mid)]
    BY <1>5, <1>6, <1>8 DEF NodeOf
  <2>2. /\ mid[Len(mid)].kind = KindOf[fs[k].type]
        /\ ChildrenOf(mid[Len(mid)]) = <<>>
    BY <1>2, <1>8
  <2>3. Len(fs) \in Nat \ {0}
    BY <1>1, <1>2
  <2> QED BY <1>2, <2>1, <2>2, <2>3, NodeBegins
<1>9. ASSUME NEW q \in 1..k, fs[q].type \in Starts PROVE SaidNode(fs, new, q)
  <2>1. CASE q = k
    BY <1>8, <1>9, <2>1
  <2>2. CASE q # k
    <3>1. q \in 1..n
      BY <1>1, <2>2
    <3>2. es[q] = fs[q]
      BY <1>2, <3>1 DEF AgreeTo
    <3> QED BY <1>7, <1>9, <3>1, <3>2
  <2> QED BY <2>1, <2>2
<1> QED BY <1>2, <1>5, <1>6, <1>9 DEF Said, new
-----------------------------------------------------------------------------
Alias == [anchor : Anchors, index : Nat]

\* The events before the next one, and their nodes, are what they were.
LEMMA EventKept ==
  ASSUME NEW es, NEW fs, Grown(es, fs), NEW q \in 1..Len(es)
  PROVE  fs[q] = es[q] /\ NodeOf(fs, q) = NodeOf(es, q)
<1>1. PICK n \in Nat : n = Len(es)
  BY DEF Grown
<1>2. AgreeTo(es, fs, n) /\ q \in Nat /\ q <= n /\ 1 \in Nat \ {0}
  BY <1>1 DEF Grown
<1>3. OfTypes(es, 1, q, Starts) = OfTypes(fs, 1, q, Starts)
  BY <1>2, TypesSame
<1> QED BY <1>1, <1>2, <1>3 DEF AgreeTo, NodeOf

\* An event that gives no anchor, an alias of one that is registered.
LEMMA NamedSame ==
  ASSUME NEW es, NEW fs, Grown(es, fs), NEW list, Named(es, list),
         fs[Len(fs)].type \notin Starts,
         fs[Len(fs)].type = "Alias" =>
           /\ fs[Len(fs)].anchor # NoAnchor
           /\ \E i \in 1..Len(list) : list[i].anchor = fs[Len(fs)].anchor
  PROVE  Named(fs, list)
<1>1. PICK n \in Nat, k \in Nat : n = Len(es) /\ k = n + 1
  <2>1. Len(es) \in Nat /\ Len(es) + 1 \in Nat
    BY DEF Grown
  <2> QED BY <2>1
<1>2. Len(fs) = k /\ \A q : q \in 1..k <=> q \in 1..n \/ q = k
  BY <1>1 DEF Grown
<1>3. \A q \in 1..n : /\ fs[q] = es[q] /\ NodeOf(fs, q) = NodeOf(es, q)
                      /\ \A a : Anchored(fs, q, a) <=> Anchored(es, q, a)
  BY <1>1, EventKept DEF Anchored
<1>4. \A a : ~Anchored(fs, k, a)
  BY <1>2 DEF Anchored
<1>5. ASSUME NEW i \in 1..Len(list)
      PROVE  \E q \in 1..n : Anchored(fs, q, list[i].anchor) /\ NodeOf(fs, q) = list[i].index
  BY <1>1, <1>3 DEF Named
<1>6. ASSUME NEW q \in 1..k, fs[q].type \in Starts, fs[q].anchor # NoAnchor
      PROVE  \E i \in 1..Len(list) : list[i].anchor = fs[q].anchor
  <2>1. q \in 1..n
    BY <1>2, <1>6
  <2> QED BY <1>1, <1>3, <1>6, <2>1 DEF Named
<1>7. ASSUME NEW q \in 1..k, NEW r \in 1..k, Anchored(fs, q, fs[r].anchor),
             fs[r].type \in Starts, fs[r].anchor # NoAnchor
      PROVE  q = r
  <2>1. q \in 1..n /\ r \in 1..n
    BY <1>2, <1>4, <1>7
  <2> QED BY <1>1, <1>3, <1>7, <2>1 DEF Named
<1>8. ASSUME NEW p \in 1..k, fs[p].type = "Alias"
      PROVE  fs[p].anchor # NoAnchor /\ \E q \in 1..p : Anchored(fs, q, fs[p].anchor)
  <2>1. CASE p = k
    <3>1. PICK i \in 1..Len(list) : list[i].anchor = fs[k].anchor
      BY <1>2, <1>8, <2>1
    <3>2. PICK q \in 1..n : Anchored(fs, q, list[i].anchor)
      BY <1>5
    <3>3. q \in 1..p
      BY <1>1, <2>1
    <3> QED BY <1>2, <1>8, <2>1, <3>1, <3>2, <3>3
  <2>2. CASE p # k
    <3>1. p \in 1..n
      BY <1>2, <2>2
    <3>2. /\ es[p].anchor # NoAnchor /\ fs[p] = es[p]
          /\ \E q \in 1..p : Anchored(es, q, es[p].anchor)
      BY <1>1, <1>3, <1>8, <3>1 DEF Named
    <3>3. \A q \in 1..p : q \in 1..n
      BY <1>1, <3>1
    <3> QED BY <1>3, <3>2, <3>3
  <2> QED BY <2>1, <2>2
<1>9. 1..n \subseteq 1..k
  BY <1>2
<1> QED BY <1>2, <1>5, <1>6, <1>7, <1>8, <1>9, SMTT(30) DEF Named

\* A node that is started registers the anchor it is given, if it is given one.
LEMMA NamedNext ==
  ASSUME NEW es, NEW fs, Grown(es, fs), NEW list \in Seq(Alias), Named(es, list),
         fs[Len(fs)].type \in Starts,
         NEW anchor \in Anchors \cup {NoAnchor}, fs[Len(fs)].anchor = anchor,
         anchor # NoAnchor => \A i \in 1..Len(list) : list[i].anchor # anchor,
         NEW index \in Nat, index = NodeOf(fs, Len(fs)),
         NEW new, anchor = NoAnchor => new = list,
         anchor # NoAnchor => new = Append(list, [anchor |-> anchor, index |-> index])
  PROVE  Named(fs, new)
<1>1. PICK n \in Nat, k \in Nat, m \in Nat : n = Len(es) /\ k = n + 1 /\ m = Len(list)
  <2>1. Len(es) \in Nat /\ Len(es) + 1 \in Nat /\ Len(list) \in Nat
    BY LenProperties DEF Grown
  <2> QED BY <2>1
<1>2. Len(fs) = k /\ \A q : q \in 1..k <=> q \in 1..n \/ q = k
  BY <1>1 DEF Grown
<1>3. \A q \in 1..n : /\ fs[q] = es[q] /\ NodeOf(fs, q) = NodeOf(es, q)
                      /\ \A a : Anchored(fs, q, a) <=> Anchored(es, q, a)
  BY <1>1, EventKept DEF Anchored
<1>4. \A a : Anchored(fs, k, a) <=> a = anchor
  BY <1>2 DEF Anchored
<1>5. /\ Len(new) = IF anchor = NoAnchor THEN m ELSE m + 1
      /\ \A i \in 1..m : new[i] = list[i]
      /\ anchor # NoAnchor => new[m + 1].anchor = anchor /\ new[m + 1].index = index
  <2>1. CASE anchor = NoAnchor
    BY <1>1, <2>1
  <2>2. CASE anchor # NoAnchor
    <3>1. PICK entry \in Alias : /\ entry = [anchor |-> anchor, index |-> index]
                                 /\ entry.anchor = anchor /\ entry.index = index
      BY <2>2 DEF Alias
    <3>2. new = Append(list, entry)
      BY <2>2, <3>1
    <3>3. /\ Len(new) = Len(list) + 1 /\ new[Len(list) + 1] = entry
          /\ \A i \in 1..Len(list) : new[i] = list[i]
      BY <3>2, AppendFacts
    <3> QED BY <1>1, <2>2, <3>1, <3>3
  <2> QED BY <2>1, <2>2
<1>6. ASSUME NEW i \in 1..Len(new)
      PROVE  \E q \in 1..k : Anchored(fs, q, new[i].anchor) /\ NodeOf(fs, q) = new[i].index
  <2>1. CASE i \in 1..m
    <3>1. PICK q \in 1..n : Anchored(es, q, list[i].anchor) /\ NodeOf(es, q) = list[i].index
      BY <1>1, <2>1 DEF Named
    <3> QED BY <1>2, <1>3, <1>5, <2>1, <3>1
  <2>2. CASE i \notin 1..m
    <3>1. anchor # NoAnchor /\ i = m + 1 /\ k \in 1..k
      BY <1>1, <1>2, <1>5, <2>2
    <3> QED BY <1>2, <1>4, <1>5, <3>1
  <2> QED BY <2>1, <2>2
<1>7. \A q \in 1..n : es[q].type \in Starts /\ es[q].anchor # NoAnchor =>
        \E i \in 1..m : list[i].anchor = es[q].anchor
  BY <1>1 DEF Named
<1>8. ASSUME NEW q \in 1..k, fs[q].type \in Starts, fs[q].anchor # NoAnchor
      PROVE  \E i \in 1..Len(new) : new[i].anchor = fs[q].anchor
  <2>1. CASE q = k
    <3>1. anchor # NoAnchor /\ m + 1 \in 1..Len(new)
      BY <1>2, <1>5, <1>8, <2>1
    <3> QED BY <1>2, <1>5, <2>1, <3>1
  <2>2. CASE q # k
    <3>1. q \in 1..n /\ fs[q] = es[q]
      BY <1>2, <1>3, <2>2
    <3>2. PICK i \in 1..m : list[i].anchor = fs[q].anchor
      BY <1>7, <1>8, <3>1
    <3>3. i \in 1..Len(new)
      BY <1>5
    <3> QED BY <1>5, <3>2, <3>3
  <2> QED BY <2>1, <2>2
<1>9. ASSUME NEW q \in 1..k, NEW r \in 1..k, Anchored(fs, q, fs[r].anchor),
             fs[r].type \in Starts, fs[r].anchor # NoAnchor
      PROVE  q = r
  <2>1. \A p \in 1..n : es[p].type \in Starts /\ es[p].anchor # NoAnchor => es[p].anchor # anchor
    BY <1>1, <1>7
  <2>2. CASE q \in 1..n /\ r \in 1..n
    <3>1. fs[r] = es[r] /\ Anchored(es, q, fs[r].anchor)
      BY <1>3, <1>9, <2>2
    <3>2. Anchored(es, q, es[r].anchor) /\ es[r].type \in Starts /\ es[r].anchor # NoAnchor
      BY <1>9, <3>1
    <3> QED BY <1>1, <2>2, <3>2 DEF Named
  <2>3. CASE q = k /\ r \in 1..n
    BY <1>3, <1>4, <1>9, <2>1, <2>3
  <2>4. CASE q \in 1..n /\ r = k
    <3>1. fs[r].anchor = anchor /\ es[q].type \in Starts /\ es[q].anchor = anchor
      BY <1>2, <1>3, <1>9, <2>4 DEF Anchored
    <3> QED BY <1>9, <2>1, <2>4, <3>1
  <2> QED BY <1>2, <2>2, <2>3, <2>4
<1>10. ASSUME NEW p \in 1..k, fs[p].type = "Alias"
       PROVE  fs[p].anchor # NoAnchor /\ \E q \in 1..p : Anchored(fs, q, fs[p].anchor)
  <2>1. p \in 1..n
    BY <1>2, <1>10 DEF Starts, Opens
  <2>2. /\ es[p].anchor # NoAnchor /\ fs[p] = es[p]
        /\ \E q \in 1..p : Anchored(es, q, es[p].anchor)
    BY <1>1, <1>3, <1>10, <2>1 DEF Named
  <2>3. \A q \in 1..p : q \in 1..n
    BY <1>1, <2>1
  <2> QED BY <1>3, <2>2, <2>3
<1> QED BY <1>2, <1>6, <1>8, <1>9, <1>10, SMTT(30) DEF Named

\* An alias refers to the node that its anchor is registered for.
LEMMA AliasRefers ==
  ASSUME NEW es, NEW fs, Grown(es, fs), NEW list, Named(es, list),
         fs[Len(fs)].type = "Alias", fs[Len(fs)].anchor # NoAnchor,
         NEW i \in 1..Len(list), list[i].anchor = fs[Len(fs)].anchor
  PROVE  Refers(fs, Len(fs)) = list[i].index
<1>1. PICK n \in Nat, k \in Nat : n = Len(es) /\ k = n + 1
  <2>1. Len(es) \in Nat /\ Len(es) + 1 \in Nat
    BY DEF Grown
  <2> QED BY <2>1
<1>2. Len(fs) = k /\ \A q : q \in 1..k <=> q \in 1..n \/ q = k
  BY <1>1 DEF Grown
<1> DEFINE a == fs[k].anchor
           c == CHOOSE q \in 1..k : Anchored(fs, q, a)
<1>3. PICK q \in 1..n : Anchored(es, q, a) /\ NodeOf(es, q) = list[i].index
  BY <1>1, <1>2 DEF Named
<1>4. \A r \in 1..n : /\ fs[r] = es[r] /\ NodeOf(fs, r) = NodeOf(es, r)
                      /\ Anchored(fs, r, a) <=> Anchored(es, r, a)
  BY <1>1, EventKept DEF Anchored
<1>5. c \in 1..k /\ Anchored(fs, c, a)
  <2>1. q \in 1..k /\ Anchored(fs, q, a)
    BY <1>2, <1>3, <1>4
  <2> QED BY <2>1
<1>6. Refers(fs, k) = NodeOf(fs, c)
  BY <1>2 DEF Refers
<1> HIDE DEF c
<1>7. c \in 1..n /\ Anchored(es, c, a)
  <2>1. c # k
    BY <1>2, <1>5 DEF Anchored, Starts, Opens
  <2> QED BY <1>2, <1>4, <1>5, <2>1
<1>8. c = q
  <2>1. es[q].type \in Starts /\ es[q].anchor = a /\ a # NoAnchor
    BY <1>2, <1>3 DEF Anchored
  <2> QED BY <1>1, <1>3, <1>7, <2>1 DEF Named
<1> QED BY <1>2, <1>3, <1>4, <1>6, <1>8
-----------------------------------------------------------------------------
LEMMA LogGrown ==
  ASSUME NEW es \in Seq(Event), NEW event \in Event, NEW fs, fs = Append(es, event)
  PROVE  fs \in Seq(Event) /\ Grown(es, fs) /\ fs[Len(fs)] = event
<1>1. /\ fs \in Seq(Event) /\ Len(fs) = Len(es) + 1
      /\ \A i \in 1..Len(es) : fs[i] = es[i]
      /\ fs[Len(es) + 1] = event
  BY AppendFacts
<1> QED BY <1>1, LenProperties DEF Grown, AgreeTo

LEMMA LogFacts ==
  ASSUME ComposerInv, LogInv, LoadingNodes
  PROVE  /\ at = "loading" /\ answer = "none" /\ ~Orphaned
         /\ nodes \in Seq(Node) /\ Len(nodes) \in Nat
         /\ ctx \in Seq(Nat) /\ aliases \in Seq(Alias) /\ log \in Seq(Event)
         /\ Said(log, nodes) /\ Named(log, aliases)
         /\ \E o : OpenAt(log, o, ctx)
<1>1. /\ at = "loading" /\ answer = "none" /\ ~Orphaned
  BY NeverOrphaned DEF LoadingNodes
<1>2. /\ nodes \in Seq(Node) /\ ctx \in Seq(NodeIndex) /\ aliases \in Seq(Alias)
      /\ NodeIndex = 1..Len(nodes) /\ Len(nodes) \in Nat
  BY DEF ComposerInv, ComposerTypeOK, NodeIndex, Alias
<1>3. ctx \in Seq(Nat)
  <2>1. NodeIndex \subseteq Nat
    BY <1>2
  <2> QED BY <1>2, <2>1, WiderSeq
<1> QED BY <1>1, <1>2, <1>3 DEF LogInv

\* No document is loaded or handed out: nothing to say.
LEMMA NothingSaid ==
  ASSUME at' # "loading", answer' # "document"
  PROVE  LogInv'
BY DEF LogInv

\* load_alias attaches the node that the alias refers to.
LEMMA AliasSays ==
  ASSUME ComposerInv, LogInv, LoadingNodes, NEW anchor \in Anchors, load_alias(anchor),
         log' = Append(log, [type |-> "Alias", anchor |-> anchor])
  PROVE  LogInv'
<1>1. /\ at = "loading" /\ answer = "none" /\ ~Orphaned
      /\ nodes \in Seq(Node) /\ Len(nodes) \in Nat
      /\ ctx \in Seq(Nat) /\ aliases \in Seq(Alias) /\ log \in Seq(Event)
      /\ Said(log, nodes) /\ Named(log, aliases)
      /\ \E o : OpenAt(log, o, ctx)
  BY LogFacts
<1>2. CASE ~Registered(anchor)
  BY <1>2, NothingSaid DEF load_alias, GiveUp, Answer, Return
<1>3. CASE Registered(anchor)
  <2> DEFINE first == CHOOSE i \in DOMAIN aliases :
                        /\ aliases[i].anchor = anchor
                        /\ \A j \in 1..(i - 1) : aliases[j].anchor # anchor
  <2>1. nodes' = Attached(nodes, aliases[first].index) /\ UNCHANGED <<ctx, aliases, at, answer>>
    BY <1>1, <1>3 DEF load_alias
  <2>2. /\ \A i, j \in DOMAIN aliases : aliases[i].anchor = aliases[j].anchor => i = j
        /\ \A i \in DOMAIN aliases : aliases[i].index \in 1..Len(nodes)
        /\ DOMAIN aliases = 1..Len(aliases) /\ Len(aliases) \in Nat
    BY <1>1, LenProperties DEF ComposerInv, AnchorsLocal, NodeIndex
  <2>3. PICK k \in DOMAIN aliases : aliases[k].anchor = anchor
    BY <1>3 DEF Registered
  <2>4. \A j \in 1..(k - 1) : aliases[j].anchor # anchor
    <3> SUFFICES ASSUME NEW j \in 1..(k - 1), aliases[j].anchor = anchor PROVE FALSE
      OBVIOUS
    <3>1. k \in 1..Len(aliases) /\ j \in DOMAIN aliases /\ j # k
      BY <2>2, <2>3
    <3> QED BY <2>2, <2>3, <3>1
  <2>5. first \in DOMAIN aliases /\ aliases[first].anchor = anchor
    BY <2>3, <2>4
  <2> HIDE DEF first
  <2>6. PICK f \in 1..Len(aliases), index \in Nat \ {0} : f = first /\ index = aliases[f].index
    BY <2>2, <2>5
  <2>7. PICK es, fs, c, o : es = log /\ fs = log' /\ c = ctx /\ OpenAt(es, o, c)
    BY <1>1
  <2>8. /\ fs \in Seq(Event) /\ Grown(es, fs)
        /\ fs[Len(fs)].type = "Alias" /\ fs[Len(fs)].anchor = anchor
    <3>1. PICK event \in Event : /\ event = [type |-> "Alias", anchor |-> anchor]
                                 /\ event.type = "Alias" /\ event.anchor = anchor
      BY DEF Event, EventType
    <3> QED BY <1>1, <2>7, <3>1, LogGrown
  <2>9. /\ "Alias" \notin Opens /\ "Alias" \notin Starts /\ "Alias" \notin Ends
        /\ anchor # NoAnchor
    BY ComposerAssumption DEF Opens, Starts, Ends
  <2>10. Refers(fs, Len(fs)) = index
    <3>1. /\ f \in 1..Len(aliases) /\ aliases[f].anchor = fs[Len(fs)].anchor
          /\ fs[Len(fs)].anchor # NoAnchor /\ fs[Len(fs)].type = "Alias"
          /\ Grown(es, fs) /\ Named(es, aliases)
      BY <1>1, <2>5, <2>6, <2>7, <2>8, <2>9
    <3>2. Refers(fs, Len(fs)) = aliases[f].index
      BY <3>1, AliasRefers
    <3> QED BY <2>6, <3>2
  <2>11. Said(fs, AttachedTo(nodes, c, index))
    <3>1. AgreeTo(nodes, nodes, Len(nodes))
      BY DEF AgreeTo
    <3>2. /\ fs[Len(fs)].type \notin Starts /\ fs[Len(fs)].type \notin Ends
          /\ index = Refers(fs, Len(fs)) /\ Said(es, nodes) /\ Named(es, aliases)
          /\ c \in Seq(Nat)
      BY <1>1, <2>7, <2>8, <2>9, <2>10
    <3> QED BY <1>1, <2>7, <2>8, <3>1, <3>2, SaidNext
  <2>12. OpenAt(fs, o, c)
    <3>1. fs[Len(fs)].type \notin Opens /\ fs[Len(fs)].type \notin Ends
      BY <2>8, <2>9
    <3> QED BY <2>7, <2>8, <3>1, OpenLeaf
  <2>13. Named(fs, aliases)
    <3>1. /\ Grown(es, fs) /\ Named(es, aliases) /\ fs[Len(fs)].type \notin Starts
          /\ fs[Len(fs)].anchor # NoAnchor
          /\ \E i \in 1..Len(aliases) : aliases[i].anchor = fs[Len(fs)].anchor
      BY <1>1, <2>5, <2>6, <2>7, <2>8, <2>9
    <3> QED BY <3>1, NamedSame
  <2>14. nodes' = AttachedTo(nodes, c, index)
    BY <2>1, <2>6, <2>7 DEF Attached, AttachedTo
  <2> QED BY <2>1, <2>7, <2>8, <2>11, <2>12, <2>13, <2>14 DEF LogInv
<1> QED BY <1>2, <1>3

\* A new node has no children.
LEMMA NewNodeBare ==
  ASSUME NEW kind
  PROVE  NewNode(kind).kind = kind /\ ChildrenOf(NewNode(kind)) = <<>>
<1>1. PICK node : node = NewNode(kind)
  OBVIOUS
<1>2. node.kind = kind /\ node.items = <<>> /\ node.pairs = <<>>
  BY <1>1 DEF NewNode
<1>3. [i \in DOMAIN node.pairs |-> PairChildren(node.pairs[i])] = <<>>
  BY <1>2
<1>4. FlattenSeq(<<>>) = <<>>
  BY DEF FlattenSeq
<1> QED BY <1>1, <1>2, <1>3, <1>4 DEF ChildrenOf

\* load_scalar, load_sequence and load_mapping push the node that the event
\* starts, and attach it.
LEMMA NodeSays ==
  ASSUME ComposerInv, LogInv, LoadingNodes, NEW anchor \in Anchors \cup {NoAnchor},
         NEW type \in Starts, NEW kind \in Kind, kind = KindOf[type], NEW context,
         context = IF type \in Opens THEN Append(ctx, Len(nodes) + 1) ELSE ctx,
         LoadNode(kind, anchor, context),
         log' = Append(log, [type |-> type, anchor |-> anchor])
  PROVE  LogInv'
<1>1. /\ at = "loading" /\ answer = "none" /\ ~Orphaned
      /\ nodes \in Seq(Node) /\ Len(nodes) \in Nat
      /\ ctx \in Seq(Nat) /\ aliases \in Seq(Alias) /\ log \in Seq(Event)
      /\ Said(log, nodes) /\ Named(log, aliases)
      /\ \E o : OpenAt(log, o, ctx)
  BY LogFacts
<1>2. CASE anchor # NoAnchor /\ Registered(anchor)
  BY <1>2, NothingSaid DEF LoadNode, GiveUp, Answer, Return
<1>3. CASE ~(anchor # NoAnchor /\ Registered(anchor))
  <2>1. PICK index \in Nat \ {0}, node \in Node, mid \in {Append(nodes, NewNode(kind))} :
          /\ index = Len(nodes) + 1 /\ node = NewNode(kind) /\ mid = Append(nodes, node)
    <3>1. Len(nodes) + 1 \in Nat \ {0} /\ NewNode(kind) \in Node
      BY <1>1 DEF NewNode, Node
    <3> QED BY <3>1
  <2>2. /\ aliases' = WithAnchor(anchor, index)
        /\ nodes' = Attached(mid, index) /\ ctx' = context
        /\ UNCHANGED <<at, answer>>
    BY <1>1, <1>3, <2>1 DEF LoadNode
  <2>3. /\ mid \in Seq(Node) /\ Len(mid) = index /\ AgreeTo(nodes, mid, Len(nodes))
        /\ mid[Len(mid)] = node
    <3>1. /\ mid \in Seq(Node) /\ Len(mid) = Len(nodes) + 1
          /\ \A i \in 1..Len(nodes) : mid[i] = nodes[i]
          /\ mid[Len(nodes) + 1] = node
      BY <1>1, <2>1, AppendFacts
    <3> QED BY <2>1, <3>1 DEF AgreeTo
  <2>4. node.kind = kind /\ ChildrenOf(node) = <<>>
    BY <2>1, NewNodeBare
  <2>5. PICK es, fs, c, o : es = log /\ fs = log' /\ c = ctx /\ OpenAt(es, o, c)
    BY <1>1
  <2>6. /\ fs \in Seq(Event) /\ Grown(es, fs)
        /\ fs[Len(fs)].type = type /\ fs[Len(fs)].anchor = anchor
    <3>1. PICK event \in Event : /\ event = [type |-> type, anchor |-> anchor]
                                 /\ event.type = type /\ event.anchor = anchor
      BY DEF Event, EventType, Starts, Opens
    <3>2. es \in Seq(Event) /\ fs = Append(es, event)
      BY <1>1, <2>5, <3>1
    <3>3. fs \in Seq(Event) /\ Grown(es, fs) /\ fs[Len(fs)] = event
      BY <3>2, LogGrown
    <3> QED BY <3>1, <3>3
  <2>7. type \notin Ends /\ type # "Alias" /\ (type \notin Opens => type = "Scalar")
    BY DEF Opens, Starts, Ends
  <2>8. NodeOf(fs, Len(fs)) = index /\ Refers(fs, Len(fs)) = index
    <3>1. PICK n \in Nat, k \in Nat : n = Len(es) /\ k = n + 1
      <4>1. Len(es) \in Nat /\ Len(es) + 1 \in Nat
        BY <2>6 DEF Grown
      <4> QED BY <4>1
    <3>2. AgreeTo(es, fs, n) /\ Len(fs) = k /\ 1 \in Nat \ {0} /\ n <= n /\ 1 <= n + 1
      BY <2>6, <3>1 DEF Grown
    <3>3. OfTypes(fs, 1, n, Starts) = Len(nodes)
      <4>1. OfTypes(fs, 1, n, Starts) = OfTypes(es, 1, n, Starts)
        BY <3>2, TypesSame
      <4> QED BY <1>1, <2>5, <3>1, <4>1 DEF Said
    <3>4. OfTypes(fs, 1, n + 1, Starts) = OfTypes(fs, 1, n, Starts) + 1
      BY <2>6, <3>1, <3>2, TypesNext
    <3>5. NodeOf(fs, k) = index
      BY <2>1, <3>1, <3>3, <3>4 DEF NodeOf
    <3> QED BY <2>6, <2>7, <3>2, <3>5 DEF Refers
  <2>9. Said(fs, AttachedTo(mid, c, index))
    <3>1. /\ Len(mid) = Len(nodes) + 1
          /\ mid[Len(mid)].kind = KindOf[fs[Len(fs)].type]
          /\ ChildrenOf(mid[Len(mid)]) = <<>>
      BY <2>1, <2>3, <2>4, <2>6
    <3>2. /\ fs[Len(fs)].type \in Starts /\ fs[Len(fs)].type \notin Ends
          /\ index = Refers(fs, Len(fs)) /\ Said(es, nodes) /\ Named(es, aliases)
          /\ c \in Seq(Nat)
      BY <1>1, <2>5, <2>6, <2>7, <2>8
    <3> QED BY <1>1, <2>3, <2>5, <2>6, <3>1, <3>2, SaidNext
  <2>10. \E p : OpenAt(fs, p, ctx')
    <3>1. CASE type \in Opens
      <4>1. ctx' = Append(c, NodeOf(fs, Len(fs)))
        BY <2>1, <2>2, <2>5, <2>8, <3>1
      <4>2. c \in Seq(Nat) /\ NodeOf(fs, Len(fs)) \in Nat /\ fs[Len(fs)].type \in Opens
        BY <1>1, <2>5, <2>6, <2>8, <3>1
      <4>3. OpenAt(fs, Append(o, Len(fs)), Append(c, NodeOf(fs, Len(fs))))
        BY <2>5, <2>6, <4>2, OpenStart
      <4> QED BY <4>1, <4>3
    <3>2. CASE type \notin Opens
      <4>1. OpenAt(fs, o, c)
        <5>1. /\ fs[Len(fs)].type \notin Opens /\ fs[Len(fs)].type \notin Ends
              /\ Grown(es, fs) /\ OpenAt(es, o, c)
          BY <2>5, <2>6, <2>7, <3>2
        <5> QED BY <5>1, OpenLeaf
      <4> QED BY <2>2, <2>5, <3>2, <4>1
    <3> QED BY <3>1, <3>2
  <2>11. Named(fs, aliases')
    <3>1. PICK new : new = aliases'
      OBVIOUS
    <3>2. new = IF anchor = NoAnchor THEN aliases
                ELSE Append(aliases, [anchor |-> anchor, index |-> index])
      BY <2>2, <3>1 DEF WithAnchor
    <3>3. anchor # NoAnchor => \A i \in 1..Len(aliases) : aliases[i].anchor # anchor
      <4>1. DOMAIN aliases = 1..Len(aliases)
        BY <1>1, LenProperties
      <4> QED BY <1>3, <4>1 DEF Registered
    <3>4. index \in Nat /\ index = NodeOf(fs, Len(fs)) /\ fs[Len(fs)].type \in Starts
          /\ Named(es, aliases)
      BY <1>1, <2>5, <2>6, <2>8
    <3>5. Named(fs, new)
      <4>1. /\ Grown(es, fs) /\ aliases \in Seq(Alias) /\ Named(es, aliases)
            /\ fs[Len(fs)].type \in Starts
            /\ anchor \in Anchors \cup {NoAnchor} /\ fs[Len(fs)].anchor = anchor
            /\ anchor # NoAnchor => \A i \in 1..Len(aliases) : aliases[i].anchor # anchor
            /\ index \in Nat /\ index = NodeOf(fs, Len(fs))
            /\ anchor = NoAnchor => new = aliases
            /\ anchor # NoAnchor => new = Append(aliases, [anchor |-> anchor, index |-> index])
        BY <1>1, <2>6, <3>2, <3>3, <3>4
      <4> QED BY <4>1, NamedNext
    <3> QED BY <3>1, <3>5
  <2>12. nodes' = AttachedTo(mid, c, index)
    BY <2>2, <2>5 DEF Attached, AttachedTo
  <2> QED BY <2>2, <2>5, <2>6, <2>9, <2>10, <2>11, <2>12 DEF LogInv
<1> QED BY <1>2, <1>3

\* load_sequence_end and load_mapping_end close the collection whose events end.
LEMMA EndSays ==
  ASSUME ComposerInv, LogInv, LoadingNodes, NEW type \in Ends, NEW kind, LoadCollectionEnd(kind),
         log' = Append(log, [type |-> type, anchor |-> NoAnchor])
  PROVE  LogInv'
<1>1. /\ at = "loading" /\ answer = "none"
      /\ ctx \in Seq(Nat) /\ log \in Seq(Event)
      /\ Said(log, nodes) /\ Named(log, aliases)
      /\ \E o : OpenAt(log, o, ctx)
  BY LogFacts
<1>2. CASE ctx = <<>> \/ nodes[Last(ctx)].kind # kind
  BY <1>2, NothingSaid DEF LoadCollectionEnd, Panic, Return
<1>3. CASE ~(ctx = <<>> \/ nodes[Last(ctx)].kind # kind)
  <2>1. ctx' = Front(ctx) /\ UNCHANGED <<nodes, aliases, at, answer>>
    BY <1>3 DEF LoadCollectionEnd
  <2>2. PICK es, fs, c, o : es = log /\ fs = log' /\ c = ctx /\ OpenAt(es, o, c)
    BY <1>1
  <2>3. fs \in Seq(Event) /\ Grown(es, fs) /\ fs[Len(fs)].type = type
    <3>1. PICK event \in Event : /\ event = [type |-> type, anchor |-> NoAnchor]
                                 /\ event.type = type
      BY DEF Event, EventType, Ends
    <3> QED BY <1>1, <2>2, <3>1, LogGrown
  <2>4. /\ type \notin Starts /\ type # "Alias" /\ c \in Seq(Nat) /\ c # <<>>
        /\ Said(es, nodes) /\ Named(es, aliases)
    BY <1>1, <1>3, <2>2 DEF Opens, Starts, Ends
  <2>5. Said(fs, nodes)
    BY <2>3, <2>4, SaidEnd
  <2>6. Named(fs, aliases)
    BY <2>3, <2>4, NamedSame
  <2>7. OpenAt(fs, Front(o), Front(c))
    BY <2>2, <2>3, <2>4, OpenEnd
  <2> QED BY <2>1, <2>2, <2>3, <2>5, <2>6, <2>7 DEF LogInv
<1> QED BY <1>2, <1>3

-----------------------------------------------------------------------------
\* One event inside a document.
LEMMA LoadNodesSays ==
  ASSUME ComposerInv, LogInv, load_nodes
  PROVE  LogInv'
<1>1. LoadingNodes
  BY DEF load_nodes
<1>2. CASE \E a \in Anchors : AliasEvent(a) /\ HandleNode("Alias", a)
  <2>1. PICK a \in Anchors : HandleNode("Alias", a)
    BY <1>2
  <2>2. load_alias(a) /\ log' = Append(log, [type |-> "Alias", anchor |-> a])
    BY <2>1 DEF HandleNode
  <2> QED BY <1>1, <2>2, AliasSays
<1>3. CASE \E a \in Anchors \cup {NoAnchor}, t \in {"Scalar", "SequenceStart", "MappingStart"} :
             NodeEvent(t, a) /\ HandleNode(t, a)
  <2>1. PICK a \in Anchors \cup {NoAnchor}, t \in Starts : HandleNode(t, a)
    BY <1>3 DEF Starts, Opens
  <2>2. log' = Append(log, [type |-> t, anchor |-> a])
    BY <2>1 DEF HandleNode
  <2>3. PICK kind \in Kind, context \in {ctx, Append(ctx, Len(nodes) + 1)} :
          /\ kind = KindOf[t]
          /\ context = IF t \in Opens THEN Append(ctx, Len(nodes) + 1) ELSE ctx
          /\ LoadNode(kind, a, context)
    <3>1. CASE t = "Scalar"
      BY <2>1, <3>1 DEF HandleNode, load_scalar, Kind, KindOf, Opens
    <3>2. CASE t = "SequenceStart"
      BY <2>1, <3>2 DEF HandleNode, LoadCollection, Kind, KindOf, Opens
    <3>3. CASE t = "MappingStart"
      BY <2>1, <3>3 DEF HandleNode, LoadCollection, Kind, KindOf, Opens
    <3> QED BY <3>1, <3>2, <3>3 DEF Starts, Opens
  <2> QED BY <1>1, <2>2, <2>3, NodeSays
<1>4. CASE \E t \in {"SequenceEnd", "MappingEnd"} : EndEvent(t) /\ HandleNode(t, NoAnchor)
  <2>1. PICK t \in Ends : HandleNode(t, NoAnchor)
    BY <1>4 DEF Ends
  <2>2. /\ log' = Append(log, [type |-> t, anchor |-> NoAnchor])
        /\ LoadCollectionEnd("Sequence") \/ LoadCollectionEnd("Mapping")
    BY <2>1 DEF HandleNode, Ends
  <2> QED BY <1>1, <2>2, EndSays
<1> QED BY <1>2, <1>3, <1>4 DEF load_nodes

\* A document that is begun is empty, and so is what was said.
LEMMA NothingYet ==
  ASSUME load_document, aliases = <<>>
  PROVE  LogInv'
<1>1. nodes' = <<>> /\ log' = <<>> /\ ctx' = <<>> /\ aliases' = <<>>
  BY DEF load_document
<1>2. OfTypes(<<>>, 1, 0, Starts) = 0 /\ Len(<<>>) = 0 /\ <<>> \in Seq(Event)
  <2>1. {p \in 1..0 : <<>>[p].type \in Starts} = {}
    OBVIOUS
  <2> QED BY <2>1, FS_EmptySet DEF OfTypes
<1>3. Said(<<>>, <<>>)
  BY <1>2 DEF Said
<1>4. OpenAt(<<>>, <<>>, <<>>)
  <2>1. <<>> \in Seq(1..0)
    OBVIOUS
  <2> QED BY <1>2, <2>1 DEF OpenAt
<1>5. Named(<<>>, <<>>)
  BY <1>2 DEF Named
<1> QED BY <1>1, <1>2, <1>3, <1>4, <1>5 DEF LogInv

LEMMA LogStep ==
  ASSUME ComposerInv, LogInv, [ComposerNext]_composerVars
  PROVE  LogInv'
<1>1. CASE load_stream \/ load_end \/ load_failed \/ load_nodes_failed \/ load_unexpected
  <2>1. at' # "loading" /\ answer' # "document"
    BY <1>1 DEF load_stream, load_end, load_failed, load_nodes_failed, load_unexpected, GiveUp,
                Answer, Panic, Return
  <2> QED BY <2>1, NothingSaid
<1>2. CASE load_document
  <2>1. aliases = <<>>
    BY <1>2 DEF load_document, Opening, Callable, ComposerInv, AnchorsLocal
  <2> QED BY <1>2, <2>1, NothingYet
<1>3. CASE load_nodes_end
  <2>1. at = "loading" /\ at' = "idle" /\ nodes' = nodes /\ log' = log
    BY <1>3 DEF load_nodes_end, LoadingNodes, Answer, Return
  <2> QED BY <2>1 DEF LogInv
<1>4. CASE UNCHANGED composerVars
  BY <1>4 DEF composerVars, LogInv
<1> QED BY <1>1, <1>2, <1>3, <1>4, LoadNodesSays DEF ComposerNext

\* What is kept of the events is what the property asks.
LEMMA SaysWhatWasSaid ==
  ASSUME ComposerInv, LogInv
  PROVE  DocumentSaysEvents
<1> SUFFICES ASSUME at = "loading" \/ answer = "document" PROVE DocumentSaysEvents
  BY DEF DocumentSaysEvents
<1>1. Said(log, nodes)
  BY DEF LogInv
<1> QED BY <1>1 DEF DocumentSaysEvents, Said, SaidNode, Children

\* The document that load() is building, and the one it hands out, holds what
\* the events said, whatever the events: a node for each event that starts one,
\* of its kind, whose children are, in order, the nodes that the events inside
\* it start or name by their anchor (load_node_add, register_anchor, load_alias).
THEOREM DocumentsSayEvents == ComposerSpec => []DocumentSaysEvents
<1>1. ComposerInit => LogInv
  BY DEF ComposerInit, LogInv
<1>2. ComposerInv /\ LogInv /\ [ComposerNext]_composerVars => LogInv'
  BY LogStep
<1>3. ComposerInv /\ LogInv => DocumentSaysEvents
  BY SaysWhatWasSaid
<1> QED BY <1>1, <1>2, <1>3, ComposerInvInductive, PTL DEF ComposerSpec
=============================================================================
