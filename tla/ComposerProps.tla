----------------------------- MODULE ComposerProps -----------------------------
(***************************************************************************)
(* What the loader must satisfy: no assert! fails, the document it returns *)
(* is well formed and says what the events said.                           *)
(***************************************************************************)
EXTENDS Composer, FiniteSets

NodeIndex == DOMAIN nodes

\* The children of a node in order, a value that is still missing left out.
PairChildren(pair) == IF pair.value = 0 THEN <<pair.key>> ELSE <<pair.key, pair.value>>

ChildrenOf(node) ==
  IF node.kind = "Sequence" THEN node.items
  ELSE FlattenSeq([i \in DOMAIN node.pairs |-> PairChildren(node.pairs[i])])

Children(n) == ChildrenOf(nodes[n])

Node == [kind : Kind, items : Seq(Nat), pairs : Seq([key : Nat, value : Nat])]

\* Type invariant of a document, its context and the aliases.
ComposerTypeOK ==
  /\ GrammarTypeOK
  /\ nodes \in Seq(Node)
  /\ ctx \in Seq(NodeIndex)
  /\ aliases \in Seq([anchor : Anchors, index : Nat])
  /\ at \in {"idle", "begun", "loading"}
  /\ answer \in {"none", "document", "end", "error", "panic"}

-----------------------------------------------------------------------------
\* No assert! or panic! of the loader is reached (document.rs:312, 323-325,
\* 408, 504-506, 556-558) but by a caller who calls load() again after an error.
PanicOnlyAfterError == [][answer' = "panic" => answer \in {"error", "panic"}]_composerVars

\* The frame that a collection with this node has in the grammar.
FrameOf(node) == IF node.kind = "Sequence" THEN "items"
                 ELSE IF Waiting(node) THEN "value" ELSE "key"

\* The loader's stack has one entry for each open collection, of its kind,
\* and a pair waits for its value exactly where the input is to supply one.
ContextMirrorsFrames ==
  at = "loading" =>
    /\ Len(open) = Len(ctx) + 1
    /\ \A i \in DOMAIN ctx : /\ nodes[ctx[i]].kind # "Scalar"
                             /\ open[i + 1] = FrameOf(nodes[ctx[i]])

\* An anchor belongs to the document that defines it: outside a document
\* none is registered, inside one each name is registered once.
AnchorsLocal ==
  /\ at # "loading" => aliases = <<>>
  /\ \A i, j \in DOMAIN aliases : aliases[i].anchor = aliases[j].anchor => i = j
  /\ \A i \in DOMAIN aliases : aliases[i].index \in NodeIndex

\* A document that is handed to the caller has a root, no pair without a
\* value, no index out of range, and no node that its parent does not precede.
DocumentComplete ==
  answer = "document" =>
    /\ nodes # <<>>
    /\ \A n \in NodeIndex :
         /\ \A i \in DOMAIN nodes[n].pairs : nodes[n].pairs[i].value # 0
         /\ \A i \in DOMAIN Children(n) : Children(n)[i] \in NodeIndex
         /\ n > 1 => \E p \in 1..(n - 1) : n \in {Children(p)[i] : i \in DOMAIN Children(p)}

-----------------------------------------------------------------------------
\* The events of a document, read on their own: which event began each node,
\* which node an event refers to, and which event opened the collection it
\* stands in.
Opens == {"SequenceStart", "MappingStart"}
Starts == Opens \cup {"Scalar"}
Ends == {"SequenceEnd", "MappingEnd"}

OfTypes(events, first, last, types) ==
  Cardinality({p \in first..last : events[p].type \in types})

NodeOf(events, p) == OfTypes(events, 1, p, Starts)

Anchored(events, q, anchor) == events[q].type \in Starts /\ events[q].anchor = anchor

Refers(events, p) ==
  IF events[p].type # "Alias" THEN NodeOf(events, p)
  ELSE NodeOf(events, CHOOSE q \in 1..p : Anchored(events, q, events[p].anchor))

Encloses(events, q, p) ==
  /\ q < p /\ events[q].type \in Opens
  /\ \A r \in q..(p - 1) : OfTypes(events, q, r, Opens) > OfTypes(events, q, r, Ends)

Inside(events, q, p) ==
  /\ Encloses(events, q, p)
  /\ \A r \in (q + 1)..(p - 1) : ~Encloses(events, r, p)

IsChild(events, q, p) == events[p].type \notin Ends /\ Inside(events, q, p)

\* The children that the collection of event q has by event p.
ChildrenBy(events, q, p) == Cardinality({r \in 1..p : IsChild(events, q, r)})

KindOf == [Scalar |-> "Scalar", SequenceStart |-> "Sequence", MappingStart |-> "Mapping"]

\* The document, at every moment, holds what its events said: the n-th node
\* is of the kind of the n-th event that starts one, and its children are, in
\* order, the nodes that the events inside it start or name by their anchor.
DocumentSaysEvents ==
  (at = "loading" \/ answer = "document") =>
    /\ Len(nodes) = OfTypes(log, 1, Len(log), Starts)
    /\ \A q \in DOMAIN log :
         log[q].type \in Starts =>
           LET n == NodeOf(log, q)
           IN /\ nodes[n].kind = KindOf[log[q].type]
              /\ Len(Children(n)) = ChildrenBy(log, q, Len(log))
              /\ \A p \in DOMAIN log :
                   IsChild(log, q, p) =>
                     Children(n)[ChildrenBy(log, q, p)] = Refers(log, p)
=============================================================================
