---------------------------- MODULE DumperProofs ----------------------------
(***************************************************************************)
(* Proofs about dump(), for documents of any size: which ones it panics    *)
(* on, that an anchor names one node, and that the events it emits follow  *)
(* the grammar.                                                            *)
(*                                                                         *)
(* The panic needs an argument about numbers.  dump_node visits a node     *)
(* once for each reference to it; the references that are still to be      *)
(* visited are in the loops of dump_node or among the children of nodes it *)
(* has not taken out yet.  So a node that is visited when it is already    *)
(* marked has two references in the document, and one that has no anchor   *)
(* then has fewer than two at the root.  Visits states this as an          *)
(* inequality between counts, and the lemmas say what a step does to them. *)
(***************************************************************************)
EXTENDS RoundTrip, DumperProps, StackLemmas

\* The function by which the references of a list are counted: f[1..k] is the
\* count after k of them.
Counts(f, base, list) ==
  f = [p \in SUBSET DOMAIN list |->
         IF p = {} THEN base ELSE Referenced(f[p \ {Max(p)}], list[Max(p)])]

LEMMA CountsUnfold ==
  ASSUME NEW base, NEW list
  PROVE  FoldLeft(Referenced, base, list) = (CHOOSE f : Counts(f, base, list))[DOMAIN list]
BY DEF FoldLeft, MapThenFoldSet, Counts

LEMMA CountsNext ==
  ASSUME NEW f, NEW base, NEW list, NEW n \in Nat, DOMAIN list = 1..n,
         NEW k \in Nat, k + 1 \in 1..n, Counts(f, base, list)
  PROVE  f[1..(k + 1)] = Referenced(f[1..k], list[k + 1])
<1>1. PICK j \in Nat : j = k + 1
  OBVIOUS
<1>2. (1..j) \in SUBSET DOMAIN list /\ 1..j # {}
  <2>1. j \in 1..n /\ 1 \in 1..j
    BY <1>1
  <2>2. 1..j \subseteq 1..n
    BY <2>1
  <2> QED BY <2>1, <2>2
<1>3. Max(1..j) = j
  <2>1. j \in 1..j /\ \A y \in 1..j : j >= y
    BY <1>1
  <2>2. \A x \in 1..j : (\A y \in 1..j : x >= y) => x = j
    BY <1>1
  <2> QED BY <2>1, <2>2 DEF Max
<1>4. (1..j) \ {j} = 1..k
  BY <1>1
<1>5. f[1..j] = Referenced(f[(1..j) \ {Max(1..j)}], list[Max(1..j)])
  <2>1. f = [p \in SUBSET DOMAIN list |->
               IF p = {} THEN base ELSE Referenced(f[p \ {Max(p)}], list[Max(p)])]
    BY DEF Counts
  <2>2. PICK P : P = 1..j
    OBVIOUS
  <2>3. f[P] = Referenced(f[P \ {Max(P)}], list[Max(P)])
    <3>1. P \in SUBSET DOMAIN list /\ P # {}
      BY <1>2, <2>2
    <3>2. [p \in SUBSET DOMAIN list |->
               IF p = {} THEN base ELSE Referenced(f[p \ {Max(p)}], list[Max(p)])][P]
            = Referenced(f[P \ {Max(P)}], list[Max(P)])
      BY <3>1
    <3> QED BY <2>1, <3>2, Zenon
  <2> QED BY <2>2, <2>3
<1> QED BY <1>1, <1>3, <1>4, <1>5

LEMMA CountsStart ==
  ASSUME NEW f, NEW base, NEW list, NEW n \in Nat, DOMAIN list = 1..n, Counts(f, base, list)
  PROVE  f[1..0] = base
<1>1. 1..0 = {} /\ {} \in SUBSET DOMAIN list
  OBVIOUS
<1>2. f[{}] = base
  BY <1>1 DEF Counts
<1> QED BY <1>1, <1>2

LEMMA CountsExist ==
  ASSUME NEW base, NEW list, NEW n \in Nat, DOMAIN list = 1..n
  PROVE  \E f : Counts(f, base, list)
<1> DEFINE Partly(f, k) ==
             f = [p \in SUBSET (1..k) |->
                    IF p = {} THEN base ELSE Referenced(f[p \ {Max(p)}], list[Max(p)])]
           T == {k \in Nat : \E f : Partly(f, k)}
<1>1. 0 \in T
  <2> DEFINE g == [p \in SUBSET (1..0) |-> base]
  <2>1. \A p \in SUBSET (1..0) : p = {}
    OBVIOUS
  <2>2. g = [p \in SUBSET (1..0) |->
               IF p = {} THEN base ELSE Referenced(g[p \ {Max(p)}], list[Max(p)])]
    BY <2>1
  <2> QED BY <2>2
<1>2. ASSUME NEW k \in Nat, k \in T PROVE k + 1 \in T
  <2>1. PICK f : Partly(f, k)
    BY <1>2
  <2>2. PICK j \in Nat : j = k + 1
    OBVIOUS
  <2> DEFINE g == [p \in SUBSET (1..j) |->
                     IF p = {} THEN base
                     ELSE Referenced(f[p \ {Max(p)}], list[Max(p)])]
  <2>3. \A p \in SUBSET (1..j) : p # {} => p \ {Max(p)} \in SUBSET (1..k)
    <3> SUFFICES ASSUME NEW p \in SUBSET (1..j), p # {} PROVE p \ {Max(p)} \in SUBSET (1..k)
      OBVIOUS
    <3>1. CASE j \in p
      <4>1. \A y \in p : j >= y
        BY <2>2
      <4>2. \A x \in p : (\A y \in p : x >= y) => x = j
        BY <2>2, <3>1, <4>1
      <4>3. Max(p) = j
        BY <3>1, <4>1, <4>2 DEF Max
      <4> QED BY <2>2, <4>3
    <3>2. CASE j \notin p
      <4>1. \A x \in 1..j : x # j => x \in 1..k
        BY <2>2
      <4>2. \A x \in p : x \in 1..k
        BY <3>2, <4>1
      <4> QED BY <4>2
    <3> QED BY <3>1, <3>2
  <2>4. \A p \in SUBSET (1..k) : g[p] = f[p]
    <3> SUFFICES ASSUME NEW p \in SUBSET (1..k) PROVE g[p] = f[p]
      OBVIOUS
    <3>1. p \in SUBSET (1..j)
      BY <2>2
    <3>2. g[p] = IF p = {} THEN base ELSE Referenced(f[p \ {Max(p)}], list[Max(p)])
      BY <3>1
    <3>3. f[p] = IF p = {} THEN base ELSE Referenced(f[p \ {Max(p)}], list[Max(p)])
      <4>1. f = [q \in SUBSET (1..k) |->
                    IF q = {} THEN base ELSE Referenced(f[q \ {Max(q)}], list[Max(q)])]
        BY <2>1
      <4>2. [q \in SUBSET (1..k) |->
                    IF q = {} THEN base ELSE Referenced(f[q \ {Max(q)}], list[Max(q)])][p]
              = IF p = {} THEN base ELSE Referenced(f[p \ {Max(p)}], list[Max(p)])
        OBVIOUS
      <4> QED BY <4>1, <4>2, Zenon
    <3> QED BY <3>2, <3>3
  <2>5. g = [p \in SUBSET (1..j) |->
               IF p = {} THEN base ELSE Referenced(g[p \ {Max(p)}], list[Max(p)])]
    <3>1. g = [p \in SUBSET (1..j) |->
                     IF p = {} THEN base
                     ELSE Referenced(f[p \ {Max(p)}], list[Max(p)])]
      OBVIOUS
    <3> HIDE DEF g
    <3>2. \A p \in SUBSET (1..j) : p # {} => f[p \ {Max(p)}] = g[p \ {Max(p)}]
      BY <2>3, <2>4
    <3> QED BY <3>1, <3>2
  <2>6. Partly(g, j)
    BY <2>5
  <2> QED BY <2>2, <2>6
<1> HIDE DEF T
<1>3. Nat \subseteq T
  BY <1>1, <1>2, NatSetInduction
<1>4. PICK f : Partly(f, n)
  BY <1>3 DEF T
<1> QED BY <1>4 DEF Counts

-----------------------------------------------------------------------------
\* The numbering of the anchors, after k references from a list of which the
\* root has had one before.
AnchorRecord == [references : Nat, anchor : Nat, serialized : BOOLEAN]

Base(n) == IF n = 1 THEN 1 ELSE 0

Tallied(count, n, list, k) ==
  /\ count.anchors \in [1..n -> AnchorRecord] /\ count.last \in Nat
  /\ \A m \in 1..n : /\ count.anchors[m].references = CountIn(list, {m}, k) + Base(m)
                     /\ ~count.anchors[m].serialized
                     /\ count.anchors[m].anchor # NoAnchor <=> count.anchors[m].references >= 2
                     /\ count.anchors[m].anchor <= count.last
  /\ \A l, m \in 1..n :
       count.anchors[l].anchor = count.anchors[m].anchor
         => l = m \/ count.anchors[m].anchor = NoAnchor

\* What anchor_node_sub does to the node and to the others.
Refers(count, n, x, r, refs, id) ==
  /\ refs = count.anchors[x].references + 1
  /\ id = IF refs = 2 THEN count.last + 1 ELSE count.last
  /\ r.references = refs /\ r.serialized = count.anchors[x].serialized
  /\ r.anchor = IF refs = 2 THEN id ELSE count.anchors[x].anchor
  /\ Referenced(count, x).anchors \in [1..n -> AnchorRecord]
  /\ \A m \in 1..n : Referenced(count, x).anchors[m] = IF m = x THEN r ELSE count.anchors[m]
  /\ Referenced(count, x).last = id

LEMMA ReferencedFacts ==
  ASSUME NEW count, NEW n \in Nat, count.anchors \in [1..n -> AnchorRecord],
         count.last \in Nat, NEW x \in 1..n
  PROVE  \E r \in AnchorRecord, refs \in Nat, id \in Nat : Refers(count, n, x, r, refs, id)
<1> DEFINE old == count.anchors
           next == Referenced(count, x)
           new == next.anchors
<1>2. PICK refs \in Nat : refs = old[x].references + 1
  BY DEF AnchorRecord
<1>3. PICK id \in Nat : id = IF refs = 2 THEN count.last + 1 ELSE count.last
  BY <1>2
<1>4. PICK r \in AnchorRecord :
        /\ r.references = refs /\ r.serialized = old[x].serialized
        /\ r.anchor = IF refs = 2 THEN id ELSE old[x].anchor
  <2>1. old[x] \in AnchorRecord
    OBVIOUS
  <2> DEFINE rec == [references |-> refs, serialized |-> old[x].serialized,
                     anchor |-> IF refs = 2 THEN id ELSE old[x].anchor]
  <2>2. rec \in AnchorRecord
    BY <2>1 DEF AnchorRecord
  <2>3. /\ rec.references = refs /\ rec.serialized = old[x].serialized
        /\ rec.anchor = IF refs = 2 THEN id ELSE old[x].anchor
    OBVIOUS
  <2> HIDE DEF rec
  <2> QED BY <2>2, <2>3
<1>5. /\ new \in [1..n -> AnchorRecord]
      /\ \A m \in 1..n : new[m] = IF m = x THEN r ELSE old[m]
      /\ next.last = id
  <2>1. next = [anchors |-> [old EXCEPT ![x].references = refs,
                                        ![x].anchor = IF refs = 2 THEN id ELSE @],
                last |-> id]
    BY <1>2, <1>3 DEF Referenced
  <2>2. old \in [1..n -> AnchorRecord] /\ old[x] \in AnchorRecord
    OBVIOUS
  <2>3. [old[x] EXCEPT !.references = refs, !.anchor = IF refs = 2 THEN id ELSE @] = r
    BY <1>4, <2>2 DEF AnchorRecord
  <2> DEFINE mid == [old EXCEPT ![x].references = refs]
             named == IF refs = 2 THEN id ELSE old[x].anchor
  <2>4. /\ new = [mid EXCEPT ![x].anchor = named] /\ next.last = id
    <3>1. new = [old EXCEPT ![x].references = refs, ![x].anchor = IF refs = 2 THEN id ELSE @]
      BY <2>1
    <3>2. next.last = id
      BY <2>1
    <3> QED BY <3>1, <3>2
  <2>5. /\ mid[x] = [old[x] EXCEPT !.references = refs] /\ DOMAIN mid = 1..n
        /\ \A m \in 1..n : m # x => mid[m] = old[m]
    BY <2>2
  <2>6. mid[x].anchor = old[x].anchor
    BY <2>2, <2>5 DEF AnchorRecord
  <2> HIDE DEF new, next, mid
  <2>7. /\ new[x] = [mid[x] EXCEPT !.anchor = named] /\ DOMAIN new = 1..n
        /\ \A m \in 1..n : m # x => new[m] = mid[m]
        /\ new = [m \in 1..n |-> new[m]]
    BY <2>4, <2>5
  <2>8. new[x] = r
    <3>1. PICK o \in AnchorRecord : o = old[x]
      BY <2>2
    <3>2. [[o EXCEPT !.references = refs] EXCEPT !.anchor = r.anchor] = r
      BY <1>4, <3>1 DEF AnchorRecord
    <3> QED BY <1>4, <2>5, <2>6, <2>7, <3>1, <3>2
  <2>9. \A m \in 1..n : new[m] = IF m = x THEN r ELSE old[m]
    BY <2>5, <2>7, <2>8
  <2>10. new \in [1..n -> AnchorRecord]
    <3>1. \A m \in 1..n : new[m] \in AnchorRecord
      BY <2>2, <2>9
    <3> QED BY <2>7, <3>1
  <2> QED BY <2>4, <2>9, <2>10
<1> HIDE DEF next
<1>6. Refers(count, n, x, r, refs, id)
  BY <1>2, <1>3, <1>4, <1>5 DEF next, Refers
<1> QED BY <1>6

\* anchor_node_sub keeps the numbers distinct and counts one reference more.
LEMMA ReferenceTallied ==
  ASSUME NEW count, NEW n \in Nat, NEW list, NEW k \in Nat, Tallied(count, n, list, k),
         list[k + 1] \in 1..n
  PROVE  Tallied(Referenced(count, list[k + 1]), n, list, k + 1)
<1> DEFINE old == count.anchors
           next == Referenced(count, list[k + 1])
           new == next.anchors
<1>1. PICK x \in 1..n : x = list[k + 1]
  OBVIOUS
<1>2. PICK r \in AnchorRecord, refs \in Nat, id \in Nat : Refers(count, n, x, r, refs, id)
  BY ReferencedFacts DEF Tallied
<1>3. refs = old[x].references + 1 /\ id = IF refs = 2 THEN count.last + 1 ELSE count.last
  BY <1>2 DEF Refers
<1>4. /\ r.references = refs /\ r.serialized = old[x].serialized
      /\ r.anchor = IF refs = 2 THEN id ELSE old[x].anchor
  BY <1>2 DEF Refers
<1>5. /\ new \in [1..n -> AnchorRecord]
      /\ \A m \in 1..n : new[m] = IF m = x THEN r ELSE old[m]
      /\ next.last = id
  <2>1. next = Referenced(count, x)
    BY <1>1
  <2> HIDE DEF next
  <2> QED BY <1>2, <2>1 DEF Refers
<1>6. \A m \in 1..n : CountIn(list, {m}, k + 1) = CountIn(list, {m}, k) + (IF m = x THEN 1 ELSE 0)
  <2> SUFFICES ASSUME NEW m \in 1..n
               PROVE  CountIn(list, {m}, k + 1) = CountIn(list, {m}, k) + (IF m = x THEN 1 ELSE 0)
    OBVIOUS
  <2>1. CountIn(list, {m}, k) \in 0..k
    BY CountFacts
  <2>2. CASE m = x
    BY <1>1, <2>2, CountNext
  <2>3. CASE m # x
    <3>1. list[k + 1] \notin {m}
      BY <1>1, <2>3
    <3>2. CountIn(list, {m}, k + 1) = CountIn(list, {m}, k)
      BY <3>1, CountNext
    <3> QED BY <2>1, <2>3, <3>2
  <2> QED BY <2>2, <2>3
<1> HIDE DEF next, new
<1>7. \A m \in 1..n : CountIn(list, {m}, k) \in Nat /\ Base(m) \in Nat
  BY CountFacts DEF Base
<1>8. ASSUME NEW m \in 1..n
      PROVE  /\ new[m].references = CountIn(list, {m}, k + 1) + Base(m)
             /\ ~new[m].serialized
             /\ new[m].anchor # NoAnchor <=> new[m].references >= 2
             /\ new[m].anchor <= id
  <2>1. /\ old[m].references = CountIn(list, {m}, k) + Base(m)
        /\ ~old[m].serialized
        /\ old[m].anchor # NoAnchor <=> old[m].references >= 2
        /\ old[m].anchor <= count.last
        /\ old[m] \in AnchorRecord /\ count.last \in Nat
    BY DEF Tallied
  <2>2. /\ old[m].references \in Nat /\ old[m].anchor \in Nat
        /\ CountIn(list, {m}, k) \in Nat /\ Base(m) \in Nat
    BY <1>7, <2>1 DEF AnchorRecord
  <2>3. PICK o \in Nat, a \in Nat, c \in Nat, b \in Nat, last \in Nat :
          /\ o = old[m].references /\ a = old[m].anchor /\ last = count.last
          /\ c = CountIn(list, {m}, k) /\ b = Base(m)
    BY <2>1, <2>2
  <2>4. o = c + b /\ (a # 0 <=> o >= 2) /\ a <= last
    BY <2>1, <2>3 DEF NoAnchor
  <2>5. CASE m = x
    <3>1. refs = o + 1 /\ id = IF refs = 2 THEN last + 1 ELSE last
      BY <1>2, <1>3, <2>3, <2>5
    <3>2. new[m].references = refs /\ new[m].anchor = IF refs = 2 THEN id ELSE a
      BY <1>4, <1>5, <2>3, <2>5
    <3>3. CountIn(list, {m}, k + 1) = c + 1
      BY <1>6, <2>3, <2>5
    <3>4. refs = (c + 1) + b
      BY <2>3, <2>4, <3>1
    <3>5. ~new[m].serialized
      BY <1>4, <1>5, <2>1, <2>5
    <3>6. PICK y \in Nat : y = new[m].anchor
      BY <2>3, <3>2
    <3>7. (y # 0 <=> refs >= 2) /\ y <= id
      BY <2>3, <2>4, <3>1, <3>2, <3>6
    <3> QED BY <2>3, <3>2, <3>3, <3>4, <3>5, <3>6, <3>7 DEF NoAnchor
  <2>6. CASE m # x
    <3>1. new[m] = old[m] /\ id >= last
      BY <1>3, <1>5, <2>3, <2>6, SMTT(30)
    <3>2. CountIn(list, {m}, k + 1) = c + 0
      BY <1>6, <2>3, <2>6
    <3>3. c + 0 = c
      BY <2>3
    <3>4. a <= id
      BY <2>3, <2>4, <3>1
    <3>5. new[m].anchor <= id /\ new[m].references = CountIn(list, {m}, k + 1) + Base(m)
      BY <2>1, <2>3, <3>1, <3>2, <3>3, <3>4
    <3> QED BY <2>1, <3>1, <3>5
  <2> QED BY <2>5, <2>6
<1>9. ASSUME NEW l \in 1..n, NEW m \in 1..n, new[l].anchor = new[m].anchor
      PROVE  l = m \/ new[m].anchor = NoAnchor
  <2>1. /\ old[l].anchor = old[m].anchor => l = m \/ old[m].anchor = NoAnchor
        /\ old[m].anchor = old[l].anchor => m = l \/ old[l].anchor = NoAnchor
        /\ old[l].anchor <= count.last /\ old[m].anchor <= count.last
        /\ old[l].anchor \in Nat /\ old[m].anchor \in Nat /\ count.last \in Nat
    BY DEF Tallied, AnchorRecord
  <2>2. refs = 2 => id = count.last + 1
    BY <1>3
  <2>3. /\ l # x => new[l] = old[l]
        /\ m # x => new[m] = old[m]
        /\ l = x => new[l] = r
        /\ m = x => new[m] = r
    BY <1>5
  <2>4. CASE l # x /\ m # x
    BY <1>9, <2>1, <2>3, <2>4
  <2>5. CASE l = x /\ m # x
    BY <1>4, <1>9, <2>1, <2>2, <2>3, <2>5
  <2>6. CASE l # x /\ m = x
    BY <1>4, <1>9, <2>1, <2>2, <2>3, <2>6
  <2> QED BY <2>4, <2>5, <2>6
<1> QED BY <1>1, <1>3, <1>5, <1>8, <1>9, ZenonT(40) DEF Tallied, next, new

LEMMA FoldTallied ==
  ASSUME NEW base, NEW n \in Nat, NEW list \in Seq(1..n), Tallied(base, n, list, 0)
  PROVE  Tallied(FoldLeft(Referenced, base, list), n, list, Len(list))
<1> DEFINE f == CHOOSE f : Counts(f, base, list)
           l == Len(list)
           T == {k \in Nat : k <= l => Tallied(f[1..k], n, list, k)}
<1>1. l \in Nat /\ DOMAIN list = 1..l /\ \A i \in 1..l : list[i] \in 1..n
  BY LenProperties, ElementOfSeq
<1>2. Counts(f, base, list)
  BY <1>1, CountsExist
<1>3. FoldLeft(Referenced, base, list) = f[1..l]
  BY <1>1, CountsUnfold
<1> HIDE DEF f, l
<1>4. 0 \in T
  BY <1>1, <1>2, CountsStart
<1>5. ASSUME NEW k \in Nat, k \in T PROVE k + 1 \in T
  <2> SUFFICES ASSUME k + 1 <= l PROVE Tallied(f[1..(k + 1)], n, list, k + 1)
    OBVIOUS
  <2>1. k + 1 \in 1..l /\ k <= l
    BY <1>1
  <2>2. f[1..(k + 1)] = Referenced(f[1..k], list[k + 1])
    BY <1>1, <1>2, <2>1, CountsNext
  <2>3. Tallied(f[1..k], n, list, k) /\ list[k + 1] \in 1..n
    BY <1>1, <1>5, <2>1
  <2> QED BY <2>2, <2>3, ReferenceTallied
<1> HIDE DEF T
<1>6. Nat \subseteq T
  BY <1>4, <1>5, NatSetInduction
<1>7. Tallied(f[1..l], n, list, l)
  BY <1>1, <1>6 DEF T
<1> QED BY <1>3, <1>7 DEF l

-----------------------------------------------------------------------------
\* Documents, and the calls of dump_node's loops.
NodeKind == {"Scalar", "Sequence", "Mapping", "NoNode"}
NodeRecord == [kind : NodeKind, children : Seq(Nat)]

IsDocument(doc) ==
  /\ doc \in Seq(NodeRecord)
  /\ \A n \in 1..Len(doc) : /\ doc[n].children \in Seq(1..Len(doc))
                            /\ doc[n].kind = "Mapping" => Len(doc[n].children) % 2 = 0

Call == [kind : {"Document", "Sequence", "Mapping"}, rest : Seq(Nat)]

AreCalls(calls, n) ==
  /\ calls \in Seq(Call) /\ calls # <<>>
  /\ \A i \in 1..Len(calls) : /\ calls[i].rest \in Seq(1..n)
                              /\ calls[i].kind = "Document" <=> i = 1
  /\ Len(calls[1].rest) <= 1

ChildLists(doc) == [m \in DOMAIN doc |-> doc[m].children]
Rests(calls) == [i \in DOMAIN calls |-> calls[i].rest]

\* How often a node is in lists.
Listed(lists, n) == CountOf(FlattenSeq(lists), {n})

\* Each reference to a node is visited once: the first marks the node, those
\* to come are in the loops, or in nodes that are not yet dumped.
Visits ==
  \A n \in 1..Len(nodes) :
    (IF anchors[n].serialized THEN 1 ELSE 0)
        + (Listed(Rests(work), n) + Listed(ChildLists(nodes), n))
      <= Listed(ChildLists(source), n) + Base(n)

Walk ==
  /\ nodes # <<>> /\ IsDocument(source) /\ Len(source) = Len(nodes)
  /\ anchors \in [1..Len(nodes) -> AnchorRecord]
  /\ AreCalls(work, Len(nodes))
  /\ Visits

Fresh == [references |-> 0, anchor |-> NoAnchor, serialized |-> FALSE]

Stages ==
  /\ at \in {"building", "dumping", "anchoring", "nodes", "failed", "panic"}
  /\ opened \in BOOLEAN /\ closed \in BOOLEAN /\ (closed => opened)
  /\ at \in {"dumping", "anchoring", "nodes"} => opened /\ ~closed
  /\ at = "dumping" => anchors = <<>> /\ lastAnchorId = 0
  /\ at = "anchoring" => /\ nodes # <<>> /\ source = nodes /\ lastAnchorId = 0
                         /\ anchors = [n \in DOMAIN nodes |-> Fresh]

DumperInv == /\ IsDocument(nodes) /\ Stages
             /\ at = "nodes" => Walk
             /\ AnchorsDistinct /\ PanicOnlyBelowRoot

\* The counts of the properties are those of the lemmas.
LEMMA OccurrencesCounted ==
  ASSUME NEW S, NEW list \in Seq(S), NEW n
  PROVE  Occurrences(list, n) = CountOf(list, {n}) /\ Occurrences(list, n) \in Nat
<1>1. DOMAIN list = 1..Len(list)
  BY LenProperties
<1>2. {i \in DOMAIN list : list[i] = n} = {i \in 1..Len(list) : list[i] \in {n}}
  BY <1>1
<1> QED BY <1>2, CountTyped DEF Occurrences, CountOf, CountIn

\* The lists of a document and of calls.
LEMMA ListsTyped ==
  ASSUME NEW doc, IsDocument(doc)
  PROVE  /\ ChildLists(doc) \in Seq(Seq(Nat)) /\ Len(ChildLists(doc)) = Len(doc)
         /\ \A n \in 1..Len(doc) : ChildLists(doc)[n] = doc[n].children
<1>1. /\ Len(doc) \in Nat /\ DOMAIN doc = 1..Len(doc)
      /\ \A n \in 1..Len(doc) : doc[n].children \in Seq(Nat)
  <2>1. doc \in Seq(NodeRecord)
    BY DEF IsDocument
  <2>2. \A n \in 1..Len(doc) : doc[n] \in NodeRecord
    BY <2>1, ElementOfSeq
  <2> QED BY <2>1, <2>2, LenProperties DEF NodeRecord
<1>2. ChildLists(doc) = [n \in 1..Len(doc) |-> doc[n].children]
  BY <1>1 DEF ChildLists
<1> QED BY <1>1, <1>2

LEMMA RestsTyped ==
  ASSUME NEW calls \in Seq(Call)
  PROVE  Rests(calls) \in Seq(Seq(Nat)) /\ Len(Rests(calls)) = Len(calls)
<1>1. /\ Len(calls) \in Nat /\ DOMAIN calls = 1..Len(calls)
      /\ \A n \in 1..Len(calls) : calls[n].rest \in Seq(Nat)
  <2>1. \A n \in 1..Len(calls) : calls[n] \in Call
    BY ElementOfSeq
  <2> QED BY <2>1, LenProperties DEF Call
<1>2. Rests(calls) = [n \in 1..Len(calls) |-> calls[n].rest]
  BY <1>1 DEF Rests
<1> QED BY <1>1, <1>2

\* A call adds what is left to do in it.
LEMMA CallListed ==
  ASSUME NEW calls \in Seq(Call), NEW call \in Call, NEW n
  PROVE  /\ Listed(Rests(Append(calls, call)), n)
              = Listed(Rests(calls), n) + CountOf(call.rest, {n})
         /\ Listed(Rests(calls), n) \in Nat /\ CountOf(call.rest, {n}) \in Nat
<1>1. /\ Rests(calls) \in Seq(Seq(Nat)) /\ call.rest \in Seq(Nat)
      /\ Len(Rests(calls)) = Len(calls) /\ Len(calls) \in Nat
      /\ \A i \in 1..Len(calls) : Rests(calls)[i] = calls[i].rest
  <2>1. DOMAIN calls = 1..Len(calls) /\ Len(calls) \in Nat
    BY LenProperties
  <2> QED BY <2>1, RestsTyped DEF Rests, Call
<1>2. /\ Append(calls, call) \in Seq(Call)
      /\ Len(Append(calls, call)) = Len(calls) + 1
      /\ \A i \in 1..Len(calls) : Append(calls, call)[i] = calls[i]
      /\ Append(calls, call)[Len(calls) + 1] = call
  BY AppendFacts
<1>3. Rests(Append(calls, call)) = Append(Rests(calls), call.rest)
  <2> DEFINE new == Append(calls, call)
             list == Append(Rests(calls), call.rest)
  <2>1. /\ list \in Seq(Seq(Nat)) /\ Len(list) = Len(calls) + 1
        /\ \A i \in 1..Len(calls) : list[i] = calls[i].rest
        /\ list[Len(calls) + 1] = call.rest
    BY <1>1, AppendFacts
  <2>2. Rests(new) \in Seq(Seq(Nat)) /\ Len(Rests(new)) = Len(calls) + 1
    BY <1>2, RestsTyped
  <2>3. \A i \in 1..Len(Rests(new)) : Rests(new)[i] = list[i]
    <3>1. DOMAIN new = 1..(Len(calls) + 1)
      BY <1>2, LenProperties
    <3>2. \A i \in 1..(Len(calls) + 1) : i \in 1..Len(calls) \/ i = Len(calls) + 1
      BY <1>1
    <3> HIDE DEF list, new
    <3>3. \A i \in 1..(Len(calls) + 1) : Rests(new)[i] = new[i].rest
      BY <3>1 DEF Rests
    <3>4. \A i \in 1..(Len(calls) + 1) : new[i].rest = list[i]
      BY <1>2, <2>1, <3>2 DEF new
    <3> QED BY <2>2, <3>3, <3>4
  <2> HIDE DEF list, new
  <2>4. Rests(new) = list
    BY <2>1, <2>2, <2>3, SeqEqual
  <2> QED BY <2>4 DEF list, new
<1>4. FlattenSeq(Rests(Append(calls, call))) = FlattenSeq(Rests(calls)) \o call.rest
  BY <1>1, <1>3, FlattenPushed
<1>5. FlattenSeq(Rests(calls)) \in Seq(Nat)
  BY <1>1, FlattenTyped
<1> QED BY <1>1, <1>4, <1>5, CountJoined, CountTyped DEF Listed

\* One that is taken from the front of a list leaves the others.
LEMMA CountTail ==
  ASSUME NEW S, NEW list \in Seq(S), list # <<>>, NEW X
  PROVE  /\ Tail(list) \in Seq(S) /\ Len(Tail(list)) = Len(list) - 1
         /\ Head(list) = list[1] /\ Head(list) \in S /\ Len(list) \in Nat \ {0}
         /\ CountOf(list, X) = (IF Head(list) \in X THEN 1 ELSE 0) + CountOf(Tail(list), X)
         /\ CountOf(Tail(list), X) \in Nat
<1>1. /\ Tail(list) \in Seq(S) /\ Len(Tail(list)) = Len(list) - 1
      /\ Head(list) = list[1] /\ Len(list) \in Nat \ {0}
      /\ \A i \in 1..(Len(list) - 1) : Tail(list)[i] = list[1 + i]
  BY EmptySeq, HeadTailProperties, LenProperties
<1>2. Head(list) \in S
  BY <1>1, ElementOfSeq
<1>3. PICK n \in Nat : Len(list) = 1 + n /\ Len(Tail(list)) = n
  <2>1. Len(list) - 1 \in Nat /\ Len(list) = 1 + (Len(list) - 1)
    BY <1>1
  <2> QED BY <1>1, <2>1
<1>4. CountIn(list, X, 1 + n) = CountIn(list, X, 1) + CountIn(Tail(list), X, n)
  <2>1. Continues(list, 1, Tail(list), n)
    BY <1>1, <1>3 DEF Continues
  <2> QED BY <2>1, CountContinues
<1>5. CountIn(list, X, 1) = IF Head(list) \in X THEN 1 ELSE 0
  <2>1. CountIn(list, X, 0 + 1) = CountIn(list, X, 0) + (IF list[0 + 1] \in X THEN 1 ELSE 0)
    BY CountFacts
  <2>2. CountIn(list, X, 0) = 0 /\ 0 + 1 = 1
    BY CountFacts
  <2> QED BY <1>1, <2>1, <2>2
<1> QED BY <1>1, <1>2, <1>3, <1>4, <1>5, CountTyped DEF CountOf

\* A node that is taken out of the document has no children any more.
Without(doc, x) == [doc EXCEPT ![x] = [kind |-> "NoNode", children |-> <<>>]]

LEMMA TakenListed ==
  ASSUME NEW doc, IsDocument(doc), NEW x \in 1..Len(doc)
  PROVE  /\ IsDocument(Without(doc, x)) /\ Len(Without(doc, x)) = Len(doc)
         /\ \A n : /\ Listed(ChildLists(doc), n)
                        = Listed(ChildLists(Without(doc, x)), n) + CountOf(doc[x].children, {n})
                   /\ Listed(ChildLists(Without(doc, x)), n) \in Nat
                   /\ CountOf(doc[x].children, {n}) \in Nat
<1> DEFINE none == [kind |-> "NoNode", children |-> <<>>]
           new == Without(doc, x)
<1>1. none \in NodeRecord /\ doc \in Seq(NodeRecord)
  BY DEF NodeRecord, NodeKind, IsDocument
<1>2. /\ new \in Seq(NodeRecord) /\ Len(new) = Len(doc)
      /\ \A m \in 1..Len(doc) : new[m] = IF m = x THEN none ELSE doc[m]
  <2>1. new = [doc EXCEPT ![x] = none]
    BY DEF Without
  <2> HIDE DEF none, new
  <2> QED BY <1>1, <2>1, ExceptSeq
<1>3. none.children = <<>> /\ none.kind = "NoNode"
  OBVIOUS
<1> HIDE DEF none, new
<1>4. IsDocument(new)
  <2>1. ASSUME NEW m \in 1..Len(doc)
        PROVE  /\ new[m].children \in Seq(1..Len(doc))
               /\ new[m].kind = "Mapping" => Len(new[m].children) % 2 = 0
    <3>1. CASE m = x
      <4>1. new[m].children = <<>> /\ new[m].kind # "Mapping"
        BY <1>2, <1>3, <3>1
      <4> QED BY <4>1
    <3>2. CASE m # x
      BY <1>2, <3>2 DEF IsDocument
    <3> QED BY <3>1, <3>2
  <2> QED BY <1>2, <2>1 DEF IsDocument
<1>5. /\ ChildLists(doc) \in Seq(Seq(Nat)) /\ Len(ChildLists(doc)) = Len(doc)
      /\ ChildLists(new) \in Seq(Seq(Nat)) /\ Len(ChildLists(new)) = Len(doc)
      /\ \A m \in 1..Len(doc) : /\ ChildLists(doc)[m] = doc[m].children
                                /\ ChildLists(new)[m] = new[m].children
  BY <1>2, <1>4, ListsTyped
<1>6. SameBut(ChildLists(doc), ChildLists(new), x) /\ ChildLists(new)[x] = <<>>
  BY <1>2, <1>3, <1>5 DEF SameBut
<1>7. ASSUME NEW n
      PROVE  /\ Listed(ChildLists(doc), n) = Listed(ChildLists(new), n) + CountOf(doc[x].children, {n})
             /\ Listed(ChildLists(new), n) \in Nat /\ CountOf(doc[x].children, {n}) \in Nat
  <2>1. Traded(FlattenSeq(ChildLists(doc)), FlattenSeq(ChildLists(new)),
               ChildLists(doc)[x], ChildLists(new)[x], {n})
    <3>1. x \in 1..Len(ChildLists(doc))
      BY <1>5
    <3> QED BY <1>5, <1>6, <3>1, FlattenReplaced
  <2>2. CountOf(<<>>, {n}) = 0
    BY CountFacts DEF CountOf
  <2>3. /\ Listed(ChildLists(new), n) \in Nat /\ CountOf(doc[x].children, {n}) \in Nat
        /\ Listed(ChildLists(doc), n) \in Nat
    <3>1. doc[x].children \in Seq(Nat)
      BY <1>5, ElementOfSeq
    <3> QED BY <1>5, <3>1, FlattenTyped, CountTyped DEF Listed
  <2>4. Listed(ChildLists(doc), n) = Listed(ChildLists(new), n) + CountOf(doc[x].children, {n})
    BY <1>5, <1>6, <2>1, <2>2, <2>3 DEF Traded, Listed
  <2> QED BY <2>3, <2>4
<1> QED BY <1>2, <1>4, <1>7 DEF new

-----------------------------------------------------------------------------
\* The calls of dump_node's loops.
LEMMA CallFacts ==
  ASSUME NEW calls, NEW n \in Nat, AreCalls(calls, n)
  PROVE  /\ Front(calls) \in Seq(Call) /\ Last(calls) \in Call
         /\ Last(calls) = calls[Len(calls)] /\ Len(calls) \in Nat \ {0}
         /\ Len(Front(calls)) = Len(calls) - 1
         /\ \A i \in 1..(Len(calls) - 1) : Front(calls)[i] = calls[i]
         /\ calls = Append(Front(calls), Last(calls))
         /\ Last(calls).rest \in Seq(1..n)
         /\ Last(calls).kind = "Document" <=> Len(calls) = 1
         /\ Len(calls) = 1 => Len(Last(calls).rest) <= 1
<1>1. calls \in Seq(Call) /\ calls # <<>>
  BY DEF AreCalls
<1>2. /\ Front(calls) \in Seq(Call) /\ Last(calls) \in Call
      /\ Last(calls) = calls[Len(calls)] /\ Len(calls) \in Nat \ {0}
      /\ Len(Front(calls)) = Len(calls) - 1
      /\ \A i \in 1..(Len(calls) - 1) : Front(calls)[i] = calls[i]
  BY <1>1, FrontFacts
<1>3. calls = Append(Front(calls), Last(calls))
  BY <1>1, PopPush
<1>4. Len(calls) \in 1..Len(calls)
  BY <1>2
<1>5. /\ Last(calls).rest \in Seq(1..n)
      /\ Last(calls).kind = "Document" <=> Len(calls) = 1
      /\ Len(calls) = 1 => Len(Last(calls).rest) <= 1
  BY <1>2, <1>4 DEF AreCalls
<1> QED BY <1>2, <1>3, <1>5

LEMMA CallPushed ==
  ASSUME NEW calls, NEW n \in Nat, AreCalls(calls, n),
         NEW kind \in {"Sequence", "Mapping"}, NEW rest \in Seq(1..n)
  PROVE  /\ AreCalls(Append(calls, [kind |-> kind, rest |-> rest]), n)
         /\ [kind |-> kind, rest |-> rest] \in Call
<1> DEFINE call == [kind |-> kind, rest |-> rest]
           new == Append(calls, call)
<1>1. call \in Call /\ call.rest \in Seq(1..n) /\ call.kind # "Document"
  <2>1. rest \in Seq(Nat)
    <3>1. 1..n \subseteq Nat
      OBVIOUS
    <3> QED BY <3>1
  <2> QED BY <2>1 DEF Call
<1>2. calls \in Seq(Call) /\ Len(calls) \in Nat \ {0}
  BY CallFacts DEF AreCalls
<1>3. /\ new \in Seq(Call) /\ new # <<>> /\ Len(new) = Len(calls) + 1
      /\ \A i \in 1..Len(calls) : new[i] = calls[i]
      /\ new[Len(calls) + 1] = call
  <2> HIDE DEF call
  <2> QED BY <1>1, <1>2, AppendFacts, SMTT(30)
<1> HIDE DEF call, new
<1>4. ASSUME NEW i \in 1..(Len(calls) + 1)
      PROVE  new[i].rest \in Seq(1..n) /\ (new[i].kind = "Document" <=> i = 1)
  <2>1. CASE i \in 1..Len(calls)
    BY <1>3, <2>1 DEF AreCalls
  <2>2. CASE i = Len(calls) + 1
    BY <1>1, <1>2, <1>3, <2>2
  <2> QED BY <1>2, <2>1, <2>2
<1>5. Len(new[1].rest) <= 1
  <2>1. 1 \in 1..Len(calls)
    BY <1>2
  <2> QED BY <1>3, <2>1 DEF AreCalls
<1>6. AreCalls(new, n)
  BY <1>3, <1>4, <1>5 DEF AreCalls
<1> QED BY <1>1, <1>6 DEF new, call

LEMMA CallPopped ==
  ASSUME NEW calls, NEW n \in Nat, AreCalls(calls, n), Last(calls).kind # "Document"
  PROVE  AreCalls(Front(calls), n)
<1>1. /\ Front(calls) \in Seq(Call) /\ Len(calls) \in Nat \ {0, 1}
      /\ Len(Front(calls)) = Len(calls) - 1
      /\ \A i \in 1..(Len(calls) - 1) : Front(calls)[i] = calls[i]
  BY CallFacts
<1>2. 1 \in 1..(Len(calls) - 1) /\ Front(calls) # <<>>
  BY <1>1, EmptySeq
<1>3. \A i \in 1..(Len(calls) - 1) : i \in 1..Len(calls)
  BY <1>1
<1> QED BY <1>1, <1>2, <1>3 DEF AreCalls

\* The loop goes on with the next child.
Onward(calls) == Append(Front(calls), [Last(calls) EXCEPT !.rest = Tail(@)])

LEMMA CallMoved ==
  ASSUME NEW calls, NEW n \in Nat, AreCalls(calls, n), Last(calls).rest # <<>>
  PROVE  /\ AreCalls(Onward(calls), n)
         /\ Head(Last(calls).rest) \in 1..n
         /\ \A m : /\ Listed(Rests(calls), m)
                        = Listed(Rests(Onward(calls)), m)
                            + (IF Head(Last(calls).rest) = m THEN 1 ELSE 0)
                   /\ Listed(Rests(Onward(calls)), m) \in Nat
<1> DEFINE call == [Last(calls) EXCEPT !.rest = Tail(@)]
           new == Onward(calls)
           rest == Last(calls).rest
<1>1. /\ Front(calls) \in Seq(Call) /\ Last(calls) \in Call /\ Len(calls) \in Nat \ {0}
      /\ Len(Front(calls)) = Len(calls) - 1
      /\ \A i \in 1..(Len(calls) - 1) : Front(calls)[i] = calls[i]
      /\ calls = Append(Front(calls), Last(calls))
      /\ rest \in Seq(1..n)
      /\ Last(calls).kind = "Document" <=> Len(calls) = 1
      /\ Len(calls) = 1 => Len(rest) <= 1
  BY CallFacts
<1>2. /\ Tail(rest) \in Seq(1..n) /\ Len(Tail(rest)) = Len(rest) - 1
      /\ Head(rest) \in 1..n /\ Len(rest) \in Nat \ {0}
      /\ \A m : /\ CountOf(rest, {m}) = (IF Head(rest) \in {m} THEN 1 ELSE 0)
                                          + CountOf(Tail(rest), {m})
                /\ CountOf(Tail(rest), {m}) \in Nat
  <2>1. rest \in Seq(1..n) /\ rest # <<>>
    BY <1>1
  <2> HIDE DEF rest
  <2>2. \A X : /\ Tail(rest) \in Seq(1..n) /\ Len(Tail(rest)) = Len(rest) - 1
               /\ Head(rest) \in 1..n /\ Len(rest) \in Nat \ {0}
               /\ CountOf(rest, X) = (IF Head(rest) \in X THEN 1 ELSE 0) + CountOf(Tail(rest), X)
               /\ CountOf(Tail(rest), X) \in Nat
    BY <2>1, CountTail
  <2> QED BY <2>2
<1>3. call \in Call /\ call.rest = Tail(rest) /\ call.kind = Last(calls).kind
  <2>1. Tail(rest) \in Seq(Nat)
    <3>1. 1..n \subseteq Nat /\ Tail(rest) \in Seq(1..n)
      BY <1>2
    <3> HIDE DEF rest
    <3> QED BY <3>1
  <2> QED BY <1>1, <2>1 DEF Call
<1>4. /\ new \in Seq(Call) /\ new # <<>> /\ Len(new) = Len(calls)
      /\ \A i \in 1..(Len(calls) - 1) : new[i] = calls[i]
      /\ new[Len(calls)] = call
  <2>1. new = Append(Front(calls), call)
    BY DEF Onward
  <2>2. Len(Front(calls)) + 1 = Len(calls)
    BY <1>1
  <2> HIDE DEF call, new
  <2> QED BY <1>1, <1>3, <2>1, <2>2, AppendFacts
<1>5. ASSUME NEW m
      PROVE  /\ Listed(Rests(calls), m) = Listed(Rests(new), m) + (IF Head(rest) = m THEN 1 ELSE 0)
             /\ Listed(Rests(new), m) \in Nat
  <2>1. new = Append(Front(calls), call)
    BY DEF Onward
  <2> HIDE DEF call, new, rest
  <2>2. /\ Listed(Rests(new), m) = Listed(Rests(Front(calls)), m) + CountOf(Tail(rest), {m})
        /\ Listed(Rests(Front(calls)), m) \in Nat /\ CountOf(Tail(rest), {m}) \in Nat
    BY <1>1, <1>3, <2>1, CallListed
  <2>3. Listed(Rests(calls), m) = Listed(Rests(Front(calls)), m) + CountOf(rest, {m})
    BY <1>1, CallListed DEF rest
  <2>4. CountOf(rest, {m}) = (IF Head(rest) = m THEN 1 ELSE 0) + CountOf(Tail(rest), {m})
    BY <1>2
  <2> QED BY <2>2, <2>3, <2>4
<1> HIDE DEF call, new, rest
<1>6. ASSUME NEW i \in 1..Len(calls)
      PROVE  new[i].rest \in Seq(1..n) /\ (new[i].kind = "Document" <=> i = 1)
  <2>1. CASE i \in 1..(Len(calls) - 1)
    BY <1>1, <1>4, <2>1 DEF AreCalls
  <2>2. CASE i = Len(calls)
    BY <1>1, <1>2, <1>3, <1>4, <2>2
  <2> QED BY <1>1, <2>1, <2>2
<1>7. Len(new[1].rest) <= 1
  <2>1. CASE Len(calls) = 1
    BY <1>1, <1>2, <1>3, <1>4, <2>1
  <2>2. CASE Len(calls) # 1
    <3>1. 1 \in 1..(Len(calls) - 1)
      BY <1>1, <2>2
    <3> QED BY <1>4, <3>1 DEF AreCalls
  <2> QED BY <2>1, <2>2
<1>8. AreCalls(new, n)
  BY <1>4, <1>6, <1>7 DEF AreCalls
<1> QED BY <1>2, <1>5, <1>8 DEF new, rest

-----------------------------------------------------------------------------
\* Where dump_node stands when it is called for a child.
LEMMA VisitFacts ==
  ASSUME DumperInv, Visiting
  PROVE  /\ Walk /\ AreCalls(work, Len(nodes)) /\ Len(nodes) \in Nat
         /\ opened /\ ~closed
         /\ Visited \in 1..Len(nodes) /\ Moved = Onward(work)
         /\ AreCalls(Moved, Len(nodes))
         /\ \A m : /\ Listed(Rests(work), m)
                        = Listed(Rests(Moved), m) + (IF Visited = m THEN 1 ELSE 0)
                   /\ Listed(Rests(Moved), m) \in Nat
         /\ anchors \in [1..Len(nodes) -> AnchorRecord] /\ IsDocument(nodes)
         /\ nodes[Visited].children \in Seq(1..Len(nodes))
<1>1. /\ Walk /\ AreCalls(work, Len(nodes)) /\ Last(work).rest # <<>>
      /\ opened /\ ~closed /\ IsDocument(nodes)
      /\ anchors \in [1..Len(nodes) -> AnchorRecord]
  BY DEF DumperInv, Stages, Visiting, Current, Walk
<1>2. Len(nodes) \in Nat
  BY <1>1, LenProperties DEF IsDocument
<1>3. Moved = Onward(work) /\ Visited = Head(Last(work).rest)
  BY DEF Moved, Onward, Current, Visited
<1>4. /\ AreCalls(Onward(work), Len(nodes))
      /\ Head(Last(work).rest) \in 1..Len(nodes)
      /\ \A m : /\ Listed(Rests(work), m)
                     = Listed(Rests(Onward(work)), m)
                         + (IF Head(Last(work).rest) = m THEN 1 ELSE 0)
                /\ Listed(Rests(Onward(work)), m) \in Nat
  BY <1>1, <1>2, CallMoved
<1>5. nodes[Visited].children \in Seq(1..Len(nodes))
  BY <1>1, <1>3, <1>4 DEF IsDocument
<1> QED BY <1>1, <1>2, <1>3, <1>4, <1>5

\* The anchors stay as they are while the nodes are dumped.
LEMMA AnchorsKept ==
  ASSUME AnchorsDistinct, at = "nodes", at' = "nodes", source' = source,
         DOMAIN anchors' = DOMAIN anchors,
         \A n \in DOMAIN anchors : anchors'[n].anchor = anchors[n].anchor
  PROVE  AnchorsDistinct' /\ PanicOnlyBelowRoot'
<1>1. ASSUME NEW n PROVE RootReferences(n)' = RootReferences(n)
  BY DEF RootReferences, Occurrences
<1>2. /\ \A n \in DOMAIN anchors : anchors[n].anchor # NoAnchor <=> RootReferences(n) >= 2
      /\ \A m, n \in DOMAIN anchors :
            anchors[m].anchor = anchors[n].anchor => m = n \/ anchors[n].anchor = NoAnchor
  BY DEF AnchorsDistinct
<1>3. \A n \in DOMAIN anchors' : anchors'[n].anchor # NoAnchor <=> RootReferences(n)' >= 2
  BY <1>1, <1>2
<1>4. \A m, n \in DOMAIN anchors' :
            anchors'[m].anchor = anchors'[n].anchor => m = n \/ anchors'[n].anchor = NoAnchor
  BY <1>2
<1> QED BY <1>3, <1>4 DEF AnchorsDistinct, PanicOnlyBelowRoot

\* An alias uses up one reference.
LEMMA AliasWalk ==
  ASSUME DumperInv, dump_alias
  PROVE  DumperInv'
<1>1. /\ Visiting /\ work' = Moved /\ at = "nodes"
      /\ UNCHANGED <<nodes, anchors, lastAnchorId, opened, closed, at, source>>
  BY DEF dump_alias, Visiting
<1>2. /\ Walk /\ AreCalls(Moved, Len(nodes)) /\ Len(nodes) \in Nat /\ IsDocument(nodes)
      /\ \A m : /\ Listed(Rests(work), m)
                     = Listed(Rests(Moved), m) + (IF Visited = m THEN 1 ELSE 0)
                /\ Listed(Rests(Moved), m) \in Nat
  BY <1>1, VisitFacts
<1>3. PICK w : w = work'
  OBVIOUS
<1>4. ASSUME NEW n \in 1..Len(nodes)
      PROVE  (IF anchors[n].serialized THEN 1 ELSE 0)
                 + (Listed(Rests(w), n) + Listed(ChildLists(nodes), n))
               <= Listed(ChildLists(source), n) + Base(n)
  <2>1. (IF anchors[n].serialized THEN 1 ELSE 0)
                 + (Listed(Rests(work), n) + Listed(ChildLists(nodes), n))
               <= Listed(ChildLists(source), n) + Base(n)
    BY <1>2 DEF Walk, Visits
  <2>2. /\ Listed(ChildLists(nodes), n) \in Nat /\ Listed(ChildLists(source), n) \in Nat
        /\ Base(n) \in Nat
    BY <1>2, ListsTyped, FlattenTyped, CountTyped DEF Listed, Base, Walk
  <2>3. /\ Listed(Rests(work), n) = Listed(Rests(w), n) + (IF Visited = n THEN 1 ELSE 0)
        /\ Listed(Rests(w), n) \in Nat
    BY <1>1, <1>2, <1>3
  <2> QED BY <2>1, <2>2, <2>3
<1>5. Visits'
  BY <1>1, <1>3, <1>4 DEF Visits, Listed, Rests, ChildLists
<1>6. Walk'
  <2>1. AreCalls(work', Len(nodes'))
    BY <1>1, <1>2
  <2> QED BY <1>1, <1>2, <1>5, <2>1 DEF Walk, IsDocument, AreCalls
<1>7. AnchorsDistinct' /\ PanicOnlyBelowRoot'
  BY <1>1, AnchorsKept DEF DumperInv
<1>8. Stages' /\ IsDocument(nodes')
  BY <1>1, <1>2 DEF DumperInv, Stages
<1> QED BY <1>6, <1>7, <1>8 DEF DumperInv, IsDocument

\* The calls after a node is marked: at most its children are new in them.
Adds(calls, moved, list) ==
  \A m : /\ Listed(Rests(calls), m) \in Nat
         /\ Listed(Rests(calls), m) <= Listed(Rests(moved), m) + CountOf(list, {m})

\* A node is marked once, and what it refers to moves from the document to the
\* calls.
LEMMA SerializeWalk ==
  ASSUME DumperInv, Visiting, ~anchors[Visited].serialized, Serialize(Visited),
         UNCHANGED <<lastAnchorId, opened, closed, at, source>>,
         NEW w, work' = w, AreCalls(w, Len(nodes)),
         Adds(w, Moved, nodes[Visited].children)
  PROVE  DumperInv'
<1>1. /\ Walk /\ Len(nodes) \in Nat /\ IsDocument(nodes) /\ at = "nodes"
      /\ Visited \in 1..Len(nodes) /\ anchors \in [1..Len(nodes) -> AnchorRecord]
      /\ \A m : /\ Listed(Rests(work), m)
                     = Listed(Rests(Moved), m) + (IF Visited = m THEN 1 ELSE 0)
                /\ Listed(Rests(Moved), m) \in Nat
  BY VisitFacts DEF Visiting
<1>2. PICK x \in 1..Len(nodes) : x = Visited
  BY <1>1
<1>3. PICK d : d = Without(nodes, x) /\ d = nodes'
  BY <1>2 DEF Serialize, Without
<1>4. /\ IsDocument(d) /\ Len(d) = Len(nodes)
      /\ \A n : /\ Listed(ChildLists(nodes), n)
                     = Listed(ChildLists(d), n) + CountOf(nodes[x].children, {n})
                /\ Listed(ChildLists(d), n) \in Nat /\ CountOf(nodes[x].children, {n}) \in Nat
  <2>1. IsDocument(nodes) /\ x \in 1..Len(nodes)
    BY <1>1
  <2>2. /\ IsDocument(Without(nodes, x)) /\ Len(Without(nodes, x)) = Len(nodes)
        /\ \A n : /\ Listed(ChildLists(nodes), n)
                       = Listed(ChildLists(Without(nodes, x)), n) + CountOf(nodes[x].children, {n})
                  /\ Listed(ChildLists(Without(nodes, x)), n) \in Nat
                  /\ CountOf(nodes[x].children, {n}) \in Nat
    BY <2>1, TakenListed
  <2> QED BY <1>3, <2>2
<1>5. PICK a : /\ a = [anchors EXCEPT ![x].serialized = TRUE] /\ a = anchors'
  BY <1>2 DEF Serialize
<1>6. /\ a \in [1..Len(nodes) -> AnchorRecord] /\ a[x].serialized = TRUE
      /\ \A n \in 1..Len(nodes) : /\ a[n].anchor = anchors[n].anchor
                                  /\ n # x => a[n] = anchors[n]
  <2>1. PICK r : r = [anchors[x] EXCEPT !.serialized = TRUE]
    OBVIOUS
  <2>2. r \in AnchorRecord /\ r.serialized = TRUE /\ r.anchor = anchors[x].anchor
    <3>1. anchors[x] \in AnchorRecord
      BY <1>1
    <3> QED BY <2>1, <3>1 DEF AnchorRecord
  <2>3. a = [anchors EXCEPT ![x] = r]
    BY <1>5, <2>1
  <2> QED BY <1>1, <2>2, <2>3
<1>7. ASSUME NEW n \in 1..Len(nodes)
      PROVE  (IF a[n].serialized THEN 1 ELSE 0)
                 + (Listed(Rests(w), n) + Listed(ChildLists(d), n))
               <= Listed(ChildLists(source), n) + Base(n)
  <2>1. (IF anchors[n].serialized THEN 1 ELSE 0)
                 + (Listed(Rests(work), n) + Listed(ChildLists(nodes), n))
               <= Listed(ChildLists(source), n) + Base(n)
    BY <1>1 DEF Walk, Visits
  <2>2. Listed(ChildLists(source), n) \in Nat /\ Base(n) \in Nat
    BY <1>1, ListsTyped, FlattenTyped, CountTyped DEF Listed, Base, Walk
  <2>3. PICK old \in Nat, new \in Nat, moved \in Nat, dn \in Nat, dd \in Nat, c \in Nat, t \in Nat,
             b \in Nat :
          /\ old = Listed(Rests(work), n) /\ new = Listed(Rests(w), n)
          /\ moved = Listed(Rests(Moved), n)
          /\ dn = Listed(ChildLists(nodes), n) /\ dd = Listed(ChildLists(d), n)
          /\ c = CountOf(nodes[x].children, {n})
          /\ t = Listed(ChildLists(source), n) /\ b = Base(n)
    <3>1. Listed(Rests(Moved), n) \in Nat /\ Listed(Rests(work), n) \in Nat
      BY <1>1
    <3>2. /\ Listed(ChildLists(d), n) \in Nat /\ CountOf(nodes[x].children, {n}) \in Nat
          /\ Listed(ChildLists(nodes), n) \in Nat
      BY <1>1, <1>4, ListsTyped, FlattenTyped, CountTyped DEF Listed
    <3>3. Listed(Rests(w), n) \in Nat
      BY DEF Adds
    <3> QED BY <2>2, <3>1, <3>2, <3>3
  <2>4. new <= moved + c
    BY <1>2, <2>3 DEF Adds
  <2>5. old = moved + (IF x = n THEN 1 ELSE 0) /\ dn = dd + c
    BY <1>1, <1>2, <1>4, <2>3
  <2>6. (IF anchors[n].serialized THEN 1 ELSE 0) + (old + dn) <= t + b
    BY <2>1, <2>3
  <2>7. CASE n = x
    <3>1. 0 + (old + dn) <= t + b
      BY <1>2, <2>6, <2>7
    <3>2. 1 + (new + dd) <= t + b
      BY <2>4, <2>5, <2>7, <3>1
    <3> QED BY <1>6, <2>3, <2>7, <3>2
  <2>8. CASE n # x
    <3>1. PICK s \in Nat : s = IF a[n].serialized THEN 1 ELSE 0
      OBVIOUS
    <3>2. s + (old + dn) <= t + b
      BY <1>6, <2>6, <2>8, <3>1
    <3>3. s + (new + dd) <= t + b
      BY <2>4, <2>5, <2>8, <3>2
    <3> QED BY <2>3, <3>1, <3>3
  <2> QED BY <2>7, <2>8
<1>8. Visits'
  BY <1>3, <1>4, <1>5, <1>7 DEF Visits, Listed, Rests, ChildLists
<1>9. Walk'
  <2>1. nodes' # <<>> /\ Len(nodes') = Len(nodes)
    BY <1>1, <1>3, <1>4, EmptySeq DEF Walk, IsDocument
  <2>2. AreCalls(work', Len(nodes')) /\ anchors' \in [1..Len(nodes') -> AnchorRecord]
    BY <1>5, <1>6, <2>1
  <2> QED BY <1>1, <1>8, <2>1, <2>2 DEF Walk, IsDocument, AreCalls
<1>10. AnchorsDistinct' /\ PanicOnlyBelowRoot'
  <2>1. /\ DOMAIN anchors' = DOMAIN anchors
        /\ \A n \in DOMAIN anchors : anchors'[n].anchor = anchors[n].anchor
    BY <1>1, <1>5, <1>6
  <2> QED BY <1>1, <2>1, AnchorsKept DEF DumperInv
<1>11. Stages'
  BY <1>1 DEF DumperInv, Stages
<1>12. IsDocument(nodes')
  BY <1>3, <1>4
<1> QED BY <1>9, <1>10, <1>11, <1>12 DEF DumperInv, IsDocument

LEMMA ScalarWalk ==
  ASSUME DumperInv, dump_scalar
  PROVE  DumperInv'
<1>1. /\ Visiting /\ ~anchors[Visited].serialized /\ Serialize(Visited) /\ work' = Moved
      /\ UNCHANGED <<lastAnchorId, opened, closed, at, source>>
  BY DEF dump_scalar
<1>2. /\ AreCalls(Moved, Len(nodes)) /\ nodes[Visited].children \in Seq(1..Len(nodes))
      /\ \A m : Listed(Rests(Moved), m) \in Nat
  BY <1>1, VisitFacts
<1>3. PICK w : w = Moved
  OBVIOUS
<1>4. Adds(w, Moved, nodes[Visited].children)
  <2> SUFFICES ASSUME NEW m
               PROVE  /\ Listed(Rests(w), m) \in Nat
                      /\ Listed(Rests(w), m)
                           <= Listed(Rests(Moved), m) + CountOf(nodes[Visited].children, {m})
    BY DEF Adds
  <2>1. CountOf(nodes[Visited].children, {m}) \in Nat
    BY <1>2, CountTyped
  <2> QED BY <1>2, <1>3, <2>1
<1> QED BY <1>1, <1>2, <1>3, <1>4, SerializeWalk

LEMMA CollectionWalk ==
  ASSUME DumperInv, NEW kind \in {"Sequence", "Mapping"}, NEW type, dump_collection(kind, type)
  PROVE  DumperInv'
<1> DEFINE list == nodes[Visited].children
           call == [kind |-> kind, rest |-> list]
<1>1. /\ Visiting /\ ~anchors[Visited].serialized /\ Serialize(Visited)
      /\ work' = Append(Moved, call)
      /\ UNCHANGED <<lastAnchorId, opened, closed, at, source>>
  BY DEF dump_collection
<1>2. /\ AreCalls(Moved, Len(nodes)) /\ list \in Seq(1..Len(nodes)) /\ Len(nodes) \in Nat
  BY <1>1, VisitFacts
<1>3. AreCalls(Append(Moved, call), Len(nodes)) /\ call \in Call /\ Moved \in Seq(Call)
  <2>1. Moved \in Seq(Call)
    BY <1>2 DEF AreCalls
  <2> HIDE DEF list
  <2> QED BY <1>2, <2>1, CallPushed
<1>4. PICK w : w = Append(Moved, call)
  OBVIOUS
<1>5. Adds(w, Moved, list)
  <2> SUFFICES ASSUME NEW m
               PROVE  /\ Listed(Rests(w), m) \in Nat
                      /\ Listed(Rests(w), m) <= Listed(Rests(Moved), m) + CountOf(list, {m})
    BY DEF Adds
  <2>1. call.rest = list
    OBVIOUS
  <2> HIDE DEF call, list
  <2>2. /\ Listed(Rests(w), m) = Listed(Rests(Moved), m) + CountOf(call.rest, {m})
        /\ Listed(Rests(Moved), m) \in Nat /\ CountOf(call.rest, {m}) \in Nat
    BY <1>3, <1>4, CallListed
  <2> QED BY <2>1, <2>2
<1> HIDE DEF call
<1> QED BY <1>1, <1>3, <1>4, <1>5, SerializeWalk

\* What is left to do in a loop that is done is nothing.
LEMMA CollectionEndWalk ==
  ASSUME DumperInv, NEW kind \in {"Sequence", "Mapping"}, NEW type,
         dump_collection_end(kind, type)
  PROVE  DumperInv'
<1>1. /\ at = "nodes" /\ Last(work).kind # "Document" /\ Last(work).rest = <<>>
      /\ work' = Front(work)
      /\ UNCHANGED <<nodes, anchors, lastAnchorId, opened, closed, at, source>>
  BY DEF dump_collection_end, Current
<1>2. /\ Walk /\ Len(nodes) \in Nat /\ IsDocument(nodes) /\ AreCalls(work, Len(nodes))
  <2>1. Walk /\ IsDocument(nodes)
    BY <1>1 DEF DumperInv
  <2> QED BY <2>1, LenProperties DEF Walk, IsDocument
<1>3. AreCalls(Front(work), Len(nodes))
  BY <1>1, <1>2, CallPopped
<1>4. PICK w : w = work'
  OBVIOUS
<1>5. \A m : Listed(Rests(work), m) = Listed(Rests(w), m)
  <2> SUFFICES ASSUME NEW m PROVE Listed(Rests(work), m) = Listed(Rests(w), m)
    OBVIOUS
  <2>1. /\ Front(work) \in Seq(Call) /\ Last(work) \in Call
        /\ work = Append(Front(work), Last(work))
    BY <1>2, CallFacts
  <2>2. /\ Listed(Rests(work), m) = Listed(Rests(Front(work)), m) + CountOf(Last(work).rest, {m})
        /\ Listed(Rests(Front(work)), m) \in Nat
    BY <2>1, CallListed
  <2>3. CountOf(<<>>, {m}) = 0
    BY CountFacts DEF CountOf
  <2> QED BY <1>1, <1>4, <2>2, <2>3
<1>6. Visits'
  <2>1. Visits
    BY <1>2 DEF Walk
  <2>2. ASSUME NEW n \in 1..Len(nodes)
        PROVE  (IF anchors[n].serialized THEN 1 ELSE 0)
                   + (Listed(Rests(w), n) + Listed(ChildLists(nodes), n))
                 <= Listed(ChildLists(source), n) + Base(n)
    BY <1>5, <2>1 DEF Visits
  <2> QED BY <1>1, <1>4, <2>2 DEF Visits, Listed, Rests, ChildLists
<1>7. Walk'
  <2>1. AreCalls(work', Len(nodes'))
    BY <1>1, <1>3
  <2> QED BY <1>1, <1>2, <1>6, <2>1 DEF Walk, IsDocument, AreCalls
<1>8. AnchorsDistinct' /\ PanicOnlyBelowRoot'
  BY <1>1, AnchorsKept DEF DumperInv
<1>9. Stages' /\ IsDocument(nodes')
  BY <1>1, <1>2 DEF DumperInv, Stages
<1> QED BY <1>7, <1>8, <1>9 DEF DumperInv, IsDocument

\* A node that is visited again and has no anchor was referred to from below
\* the root.
LEMMA PanicStep ==
  ASSUME DumperInv, dump_panic
  PROVE  DumperInv'
<1>1. /\ Visiting /\ anchors[Visited].serialized /\ anchors[Visited].anchor = NoAnchor
      /\ at' = "panic" /\ at = "nodes"
      /\ UNCHANGED <<nodes, anchors, lastAnchorId, opened, closed, work, out, source>>
  BY DEF dump_panic, emitterVars, Visiting
<1>2. /\ Walk /\ Len(nodes) \in Nat /\ IsDocument(nodes) /\ Visited \in 1..Len(nodes)
      /\ anchors \in [1..Len(nodes) -> AnchorRecord]
      /\ \A m : /\ Listed(Rests(work), m)
                     = Listed(Rests(Moved), m) + (IF Visited = m THEN 1 ELSE 0)
                /\ Listed(Rests(Moved), m) \in Nat
  BY <1>1, VisitFacts
<1>3. PICK n \in 1..Len(nodes) : n = Visited
  BY <1>2
<1>4. /\ IsDocument(source) /\ Len(source) = Len(nodes) /\ 1 \in 1..Len(source)
      /\ DOMAIN source = 1..Len(source)
  <2>1. IsDocument(source) /\ Len(source) = Len(nodes)
    BY <1>2 DEF Walk
  <2>2. n \in 1..Len(source) /\ Len(source) \in Nat
    BY <1>2, <2>1
  <2>3. 1 \in 1..Len(source)
    BY <2>2
  <2>4. DOMAIN source = 1..Len(source)
    BY <2>1, LenProperties DEF IsDocument
  <2> QED BY <2>1, <2>3, <2>4
<1>5. /\ Listed(ChildLists(source), n) \in Nat /\ Listed(ChildLists(nodes), n) \in Nat
      /\ Base(n) \in Nat
  BY <1>2, <1>4, ListsTyped, FlattenTyped, CountTyped DEF Listed, Base
<1>6. References(n) >= 2
  <2>1. References(n) = Listed(ChildLists(source), n) + Base(n)
    <3>1. FlattenSeq(ChildLists(source)) \in Seq(Nat)
      BY <1>4, ListsTyped, FlattenTyped
    <3>2. Occurrences(FlattenSeq(ChildLists(source)), n) = Listed(ChildLists(source), n)
      BY <3>1, OccurrencesCounted DEF Listed
    <3> QED BY <3>2 DEF References, ChildLists, Base
  <2>2. 1 + (Listed(Rests(work), n) + Listed(ChildLists(nodes), n))
          <= Listed(ChildLists(source), n) + Base(n)
    BY <1>1, <1>2, <1>3 DEF Walk, Visits
  <2>3. Listed(Rests(work), n) = Listed(Rests(Moved), n) + 1 /\ Listed(Rests(Moved), n) \in Nat
    BY <1>2, <1>3
  <2> QED BY <1>5, <2>1, <2>2, <2>3
<1>7. RootReferences(n) < 2
  <2>1. ~(RootReferences(n) >= 2)
    <3>1. DOMAIN anchors = 1..Len(nodes)
      BY <1>2
    <3> QED BY <1>1, <1>3, <3>1 DEF DumperInv, AnchorsDistinct
  <2>2. RootReferences(n) \in Nat
    <3>1. source[1].children \in Seq(1..Len(source))
      BY <1>4 DEF IsDocument
    <3>2. Occurrences(source[1].children, n) \in Nat
      BY <3>1, OccurrencesCounted
    <3> QED BY <3>2 DEF RootReferences
  <2> QED BY <2>1, <2>2
<1>8. PanicOnlyBelowRoot'
  <2>1. n \in DOMAIN source
    BY <1>3, <1>4
  <2> QED BY <1>1, <1>6, <1>7, <2>1 DEF PanicOnlyBelowRoot, References, RootReferences, Occurrences
<1>9. AnchorsDistinct' /\ Stages' /\ (at' = "nodes" => Walk')
  BY <1>1 DEF AnchorsDistinct, DumperInv, Stages
<1>10. IsDocument(nodes')
  BY <1>1, <1>2
<1> QED BY <1>8, <1>9, <1>10 DEF DumperInv, IsDocument

-----------------------------------------------------------------------------
\* anchor_node counts the root once, and then its children.
LEMMA RootTallied ==
  ASSUME NEW n \in Nat \ {0}, NEW list \in Seq(1..n),
         NEW fresh, fresh = [anchors |-> [m \in 1..n |-> Fresh], last |-> 0]
  PROVE  Tallied(FoldLeft(Referenced, Referenced(fresh, 1), list), n, list, Len(list))
<1> DEFINE base == Referenced(fresh, 1)
           r == [references |-> 1, anchor |-> NoAnchor, serialized |-> FALSE]
<1>1. r \in AnchorRecord /\ Fresh \in AnchorRecord
  BY DEF AnchorRecord, Fresh, NoAnchor
<1>2. /\ base.anchors \in [1..n -> AnchorRecord] /\ base.last = 0
      /\ \A m \in 1..n : base.anchors[m] = IF m = 1 THEN r ELSE Fresh
  <2> DEFINE old == fresh.anchors
  <2>1. /\ old \in [1..n -> AnchorRecord] /\ fresh.last = 0 /\ 1 \in 1..n
        /\ \A m \in 1..n : old[m] = Fresh
    BY <1>1
  <2>2. Fresh.references = 0 /\ Fresh.anchor = NoAnchor /\ Fresh.serialized = FALSE
    BY DEF Fresh
  <2>3. PICK c \in AnchorRecord, refs \in Nat, id \in Nat : Refers(fresh, n, 1, c, refs, id)
    BY <2>1, ReferencedFacts
  <2>4. refs = 1 /\ id = 0
    BY <2>1, <2>2, <2>3 DEF Refers
  <2>5. c = r
    BY <2>1, <2>2, <2>3, <2>4 DEF AnchorRecord, Refers
  <2> HIDE DEF r
  <2> QED BY <2>1, <2>3, <2>4, <2>5 DEF Refers
<1> HIDE DEF base
<1>3. Tallied(base, n, list, 0)
  <2>1. ASSUME NEW m \in 1..n
        PROVE  /\ base.anchors[m].references = CountIn(list, {m}, 0) + Base(m)
               /\ ~base.anchors[m].serialized /\ base.anchors[m].anchor = NoAnchor
               /\ base.anchors[m].anchor # NoAnchor <=> base.anchors[m].references >= 2
               /\ base.anchors[m].anchor <= base.last
    <3>1. CountIn(list, {m}, 0) = 0
      BY CountFacts
    <3>2. CASE m = 1
      BY <1>2, <3>1, <3>2 DEF Base, NoAnchor
    <3>3. CASE m # 1
      BY <1>2, <3>1, <3>3 DEF Fresh, Base, NoAnchor
    <3> QED BY <3>2, <3>3
  <2>2. base.last \in Nat
    BY <1>2
  <2> QED BY <1>2, <2>1, <2>2 DEF Tallied
<1>4. Tallied(FoldLeft(Referenced, base, list), n, list, Len(list))
  BY <1>3, FoldTallied
<1> QED BY <1>4 DEF base

\* The call dump() makes for the root.
LEMMA RootListed ==
  ASSUME NEW n \in Nat \ {0}, NEW calls, calls = <<[kind |-> "Document", rest |-> << 1 >>]>>
  PROVE  AreCalls(calls, n) /\ \A m : Listed(Rests(calls), m) = Base(m)
<1> DEFINE call == [kind |-> "Document", rest |-> <<1>>]
<1>1. /\ call \in Call /\ call.rest = <<1>> /\ call.kind = "Document"
      /\ <<1>> \in Seq(1..n) /\ calls = <<call>>
  BY DEF Call
<1> HIDE DEF call
<1>2. calls \in Seq(Call) /\ calls # <<>> /\ Len(calls) = 1 /\ calls[1] = call
  BY <1>1
<1>3. AreCalls(calls, n)
  <2>1. Len(<<1>>) <= 1
    OBVIOUS
  <2>2. \A i \in 1..Len(calls) : i = 1 /\ calls[i].rest = <<1>> /\ calls[i].kind = "Document"
    BY <1>1, <1>2
  <2> QED BY <1>1, <1>2, <2>1, <2>2 DEF AreCalls
<1>4. ASSUME NEW m PROVE Listed(Rests(calls), m) = Base(m)
  <2>1. calls = Append(<<>>, call) /\ <<>> \in Seq(Call)
    BY <1>1
  <2>2. Listed(Rests(calls), m) = Listed(Rests(<<>>), m) + CountOf(<<1>>, {m})
    BY <1>1, <2>1, CallListed
  <2>3. CountOf(<<>>, {m}) = 0
    BY CountFacts DEF CountOf
  <2>4. Listed(Rests(<<>>), m) = 0
    <3>1. Rests(<<>>) = <<>>
      BY DEF Rests
    <3>2. FlattenSeq(<<>>) = <<>>
      BY DEF FlattenSeq
    <3> QED BY <2>3, <3>1, <3>2 DEF Listed
  <2>5. CountOf(<<1>>, {m}) = IF 1 = m THEN 1 ELSE 0
    <3>1. /\ <<1>> \in Seq(Nat) /\ <<1>> # <<>> /\ Head(<<1>>) = 1 /\ Tail(<<1>>) = <<>>
      OBVIOUS
    <3>2. PICK one : one = <<1>>
      OBVIOUS
    <3>3. one \in Seq(Nat) /\ one # <<>> /\ Head(one) = 1 /\ Tail(one) = <<>>
      BY <3>1, <3>2
    <3>4. CountOf(one, {m}) = (IF Head(one) \in {m} THEN 1 ELSE 0) + CountOf(Tail(one), {m})
      BY <3>3, CountTail
    <3> QED BY <2>3, <3>2, <3>3, <3>4
  <2> QED BY <2>2, <2>4, <2>5 DEF Base
<1> QED BY <1>3, <1>4

LEMMA AnchorStep ==
  ASSUME DumperInv, anchor_node
  PROVE  DumperInv' /\ \A m \in DOMAIN anchors' : ~anchors'[m].serialized
<1> DEFINE n == Len(nodes)
           list == nodes[1].children
           fresh == [anchors |-> anchors, last |-> lastAnchorId]
<1>1. /\ at = "anchoring" /\ at' = "nodes"
      /\ anchors' = Numbered(1).anchors
      /\ work' = <<[kind |-> "Document", rest |-> <<1>>]>>
      /\ UNCHANGED <<nodes, opened, closed, out, source>>
  BY DEF anchor_node
<1>2. /\ nodes # <<>> /\ source = nodes /\ lastAnchorId = 0
      /\ anchors = [m \in DOMAIN nodes |-> Fresh] /\ IsDocument(nodes)
      /\ opened /\ ~closed
  BY <1>1 DEF DumperInv, Stages
<1>3. n \in Nat \ {0} /\ DOMAIN nodes = 1..n /\ list \in Seq(1..n)
  <2>1. n \in Nat \ {0} /\ DOMAIN nodes = 1..n
    BY <1>2, EmptySeq, LenProperties DEF IsDocument
  <2>2. 1 \in 1..n
    BY <2>1
  <2> QED BY <1>2, <2>1, <2>2 DEF IsDocument
<1>4. PICK a : a = anchors'
  OBVIOUS
<1>5. Tallied(Numbered(1), n, list, Len(list))
  <2>1. fresh = [anchors |-> [m \in 1..n |-> Fresh], last |-> 0]
    BY <1>2, <1>3
  <2> HIDE DEF fresh, n, list
  <2>2. Tallied(FoldLeft(Referenced, Referenced(fresh, 1), list), n, list, Len(list))
    BY <1>3, <2>1, RootTallied
  <2> QED BY <2>2 DEF Numbered, fresh, list
<1>6. /\ a \in [1..n -> AnchorRecord]
      /\ \A m \in 1..n : /\ a[m].references = CountOf(list, {m}) + Base(m)
                         /\ ~a[m].serialized
                         /\ a[m].anchor # NoAnchor <=> a[m].references >= 2
      /\ \A l, m \in 1..n : a[l].anchor = a[m].anchor => l = m \/ a[m].anchor = NoAnchor
  <2>1. a = Numbered(1).anchors
    BY <1>1, <1>4
  <2> HIDE DEF n, list
  <2> QED BY <1>5, <2>1 DEF Tallied, CountOf
<1>7. \A m : RootReferences(m)' = CountOf(list, {m}) + Base(m)
  <2> SUFFICES ASSUME NEW m PROVE RootReferences(m)' = CountOf(list, {m}) + Base(m)
    OBVIOUS
  <2>1. source' = nodes
    BY <1>1, <1>2
  <2>2. Occurrences(list, m) = CountOf(list, {m})
    BY <1>3, OccurrencesCounted
  <2> QED BY <2>1, <2>2 DEF RootReferences, Occurrences, Base
<1>8. AnchorsDistinct' /\ PanicOnlyBelowRoot'
  <2>1. DOMAIN anchors' = 1..n
    BY <1>4, <1>6
  <2>2. \A m \in 1..n : a[m].anchor # NoAnchor <=> RootReferences(m)' >= 2
    BY <1>6, <1>7
  <2>3. \A m \in DOMAIN anchors' : anchors'[m].anchor # NoAnchor <=> RootReferences(m)' >= 2
    BY <1>4, <2>1, <2>2
  <2>4. \A l, m \in DOMAIN anchors' :
          anchors'[l].anchor = anchors'[m].anchor => l = m \/ anchors'[m].anchor = NoAnchor
    BY <1>4, <1>6, <2>1
  <2> QED BY <1>1, <2>3, <2>4 DEF AnchorsDistinct, PanicOnlyBelowRoot
<1>9. PICK w : w = work'
  OBVIOUS
<1>10. AreCalls(w, n) /\ \A m : Listed(Rests(w), m) = Base(m)
  BY <1>1, <1>3, <1>9, RootListed
<1>11. Visits'
  <2>1. ASSUME NEW m \in 1..n
        PROVE  (IF a[m].serialized THEN 1 ELSE 0)
                   + (Listed(Rests(w), m) + Listed(ChildLists(nodes), m))
                 <= Listed(ChildLists(nodes), m) + Base(m)
    <3>1. Listed(ChildLists(nodes), m) \in Nat /\ Base(m) \in Nat
      BY <1>2, ListsTyped, FlattenTyped, CountTyped DEF Listed, Base
    <3>2. Listed(Rests(w), m) = Base(m) /\ ~a[m].serialized
      BY <1>6, <1>10
    <3> QED BY <3>1, <3>2
  <2> QED BY <1>1, <1>2, <1>4, <1>9, <2>1 DEF Visits, Listed, Rests, ChildLists
<1>12. Walk'
  <2>1. AreCalls(work', Len(nodes')) /\ anchors' \in [1..Len(nodes') -> AnchorRecord]
    BY <1>1, <1>4, <1>6, <1>9, <1>10
  <2> QED BY <1>1, <1>2, <1>11, <2>1 DEF Walk, IsDocument, AreCalls
<1>13. Stages' /\ IsDocument(nodes')
  BY <1>1, <1>2 DEF DumperInv, Stages
<1>14. \A m \in DOMAIN anchors' : ~anchors'[m].serialized
  BY <1>4, <1>6
<1> QED BY <1>8, <1>12, <1>13, <1>14 DEF DumperInv, IsDocument

-----------------------------------------------------------------------------
\* Building a document: the children of a mapping come in pairs.
LEMMA NodeAdded ==
  ASSUME IsDocument(nodes), NEW kind \in {"Scalar", "Sequence", "Mapping"}, add_node(kind)
  PROVE  IsDocument(nodes')
<1> DEFINE node == [kind |-> kind, children |-> <<>>]
<1>1. node \in NodeRecord /\ node.children = <<>>
  BY DEF NodeRecord, NodeKind
<1>2. PICK d : d = nodes' /\ d = Append(nodes, node)
  BY DEF add_node
<1> HIDE DEF node
<1>3. PICK l \in Nat : l = Len(nodes)
  BY LenProperties DEF IsDocument
<1>4. /\ d \in Seq(NodeRecord) /\ Len(d) = l + 1
      /\ \A n \in 1..l : d[n] = nodes[n]
      /\ d[l + 1] = node
  <2>1. nodes \in Seq(NodeRecord)
    BY DEF IsDocument
  <2> QED BY <1>1, <1>2, <1>3, <2>1, AppendFacts
<1>5. ASSUME NEW n \in 1..(l + 1)
      PROVE  /\ d[n].children \in Seq(1..(l + 1))
             /\ d[n].kind = "Mapping" => Len(d[n].children) % 2 = 0
  <2>1. CASE n \in 1..l
    <3>1. /\ nodes[n].children \in Seq(1..l)
          /\ nodes[n].kind = "Mapping" => Len(nodes[n].children) % 2 = 0
      BY <1>3, <2>1 DEF IsDocument
    <3>2. PICK low, high : low = 1..l /\ high = 1..(l + 1) /\ low \subseteq high
      OBVIOUS
    <3>3. nodes[n].children \in Seq(high)
      BY <3>1, <3>2
    <3> QED BY <1>4, <2>1, <3>1, <3>2, <3>3
  <2>2. CASE n = l + 1
    <3>1. d[n].children = <<>>
      BY <1>1, <1>4, <2>2
    <3> QED BY <3>1
  <2>3. n \in 1..l \/ n = l + 1
    BY <1>3
  <2> QED BY <2>1, <2>2, <2>3
<1> QED BY <1>2, <1>4, <1>5 DEF IsDocument

LEMMA ChildrenAdded ==
  ASSUME IsDocument(nodes), NEW kind, NEW parent \in DOMAIN nodes,
         NEW list \in Seq(DOMAIN nodes), kind = "Mapping" => Len(list) = 2,
         append_children(kind, parent, list)
  PROVE  IsDocument(nodes')
<1> DEFINE old == nodes[parent]
           node == [old EXCEPT !.children = @ \o list]
<1>1. PICK d : d = nodes' /\ d = [nodes EXCEPT ![parent] = node]
  BY DEF append_children
<1>2. PICK l \in Nat : l = Len(nodes) /\ DOMAIN nodes = 1..l
  BY LenProperties DEF IsDocument
<1>3. /\ nodes \in Seq(NodeRecord) /\ old \in NodeRecord /\ old.children \in Seq(1..l)
      /\ old.kind = kind
      /\ old.kind = "Mapping" => Len(old.children) % 2 = 0
  <2>1. nodes \in Seq(NodeRecord)
    BY DEF IsDocument
  <2>2. old \in NodeRecord
    BY <1>2, <2>1, ElementOfSeq
  <2> QED BY <1>2, <2>1, <2>2 DEF IsDocument, append_children
<1>4. /\ old.children \o list \in Seq(1..l)
      /\ Len(old.children \o list) = Len(old.children) + Len(list)
      /\ Len(old.children) \in Nat
  <2>1. list \in Seq(1..l)
    BY <1>2
  <2> QED BY <1>3, <2>1, ConcatProperties, LenProperties
<1>5. /\ node \in NodeRecord /\ node.kind = old.kind
      /\ node.children = old.children \o list
  <2>1. old.children \o list \in Seq(Nat)
    <3>1. PICK low : low = 1..l /\ low \subseteq Nat
      OBVIOUS
    <3>2. old.children \o list \in Seq(low)
      BY <1>4, <3>1
    <3> QED BY <3>1, <3>2
  <2> HIDE DEF old
  <2> QED BY <1>3, <2>1 DEF NodeRecord
<1> HIDE DEF node
<1>6. /\ d \in Seq(NodeRecord) /\ Len(d) = l
      /\ \A n \in 1..l : d[n] = IF n = parent THEN node ELSE nodes[n]
  BY <1>1, <1>2, <1>3, <1>5, ExceptSeq
<1>7. node.kind = "Mapping" => Len(node.children) % 2 = 0
  <2> SUFFICES ASSUME node.kind = "Mapping" PROVE Len(node.children) % 2 = 0
    OBVIOUS
  <2>1. PICK a \in Nat : a = Len(old.children)
    BY <1>4
  <2>2. a % 2 = 0 /\ Len(node.children) = a + 2
    BY <1>3, <1>4, <1>5, <2>1
  <2>3. (a + 2) % 2 = 0
    BY <2>2
  <2> QED BY <2>2, <2>3
<1>8. ASSUME NEW n \in 1..l
      PROVE  /\ d[n].children \in Seq(1..l)
             /\ d[n].kind = "Mapping" => Len(d[n].children) % 2 = 0
  <2>1. CASE n = parent
    BY <1>4, <1>5, <1>6, <1>7, <2>1
  <2>2. CASE n # parent
    BY <1>2, <1>6, <2>2 DEF IsDocument
  <2> QED BY <2>1, <2>2
<1> QED BY <1>1, <1>6, <1>8 DEF IsDocument

LEMMA BuildStep ==
  ASSUME DumperInv, build
  PROVE  DumperInv'
<1>1. IsDocument(nodes)
  BY DEF DumperInv
<1>2. IsDocument(nodes') /\ at = "building" /\ UNCHANGED <<at, emitterVars>>
  <2>1. ASSUME NEW kind \in {"Scalar", "Sequence", "Mapping"}, add_node(kind)
        PROVE  IsDocument(nodes') /\ at = "building" /\ UNCHANGED <<at, emitterVars>>
    BY <1>1, <2>1, NodeAdded DEF add_node, Building
  <2>2. ASSUME NEW parent \in DOMAIN nodes, NEW item \in DOMAIN nodes,
               append_children("Sequence", parent, <<item>>)
        PROVE  IsDocument(nodes') /\ at = "building" /\ UNCHANGED <<at, emitterVars>>
    <3>1. PICK list : list = <<item>>
      OBVIOUS
    <3>2. list \in Seq(DOMAIN nodes)
      BY <3>1
    <3>3. append_children("Sequence", parent, list) /\ "Sequence" # "Mapping"
      BY <2>2, <3>1
    <3>4. IsDocument(nodes')
      BY <1>1, <3>2, <3>3, ChildrenAdded
    <3> QED BY <2>2, <3>4 DEF append_children, Building
  <2>3. ASSUME NEW parent \in DOMAIN nodes, NEW key \in DOMAIN nodes, NEW value \in DOMAIN nodes,
               append_children("Mapping", parent, <<key, value>>)
        PROVE  IsDocument(nodes') /\ at = "building" /\ UNCHANGED <<at, emitterVars>>
    <3>1. PICK list : list = <<key, value>>
      OBVIOUS
    <3>2. list \in Seq(DOMAIN nodes) /\ Len(list) = 2
      BY <3>1
    <3>3. append_children("Mapping", parent, list)
      BY <2>3, <3>1
    <3>4. IsDocument(nodes')
      BY <1>1, <3>2, <3>3, ChildrenAdded
    <3> QED BY <2>3, <3>4 DEF append_children, Building
  <2> QED BY <2>1, <2>2, <2>3 DEF build
<1>3. AnchorsDistinct' /\ PanicOnlyBelowRoot' /\ Stages'
  BY <1>2 DEF DumperInv, Stages, AnchorsDistinct, PanicOnlyBelowRoot, emitterVars
<1> QED BY <1>2, <1>3 DEF DumperInv, IsDocument

-----------------------------------------------------------------------------
\* The steps before and after the nodes: the anchors are reset.
LEMMA OutsideStep ==
  ASSUME DumperInv,
         dump_open \/ open_failed \/ dump_close \/ dump_begin \/ dump_end \/ emit_failed \/ reset
  PROVE  DumperInv'
<1>1. IsDocument(<<>>)
  BY DEF IsDocument
<1>2. Stages /\ IsDocument(nodes) /\ AnchorsDistinct
  BY DEF DumperInv
<1>3. IsDocument(nodes')
  <2>1. nodes' = nodes \/ nodes' = <<>>
    BY DEF dump_open, open_failed, dump_close, dump_begin, dump_end, emit_failed, reset
  <2> QED BY <1>1, <1>2, <2>1 DEF IsDocument
<1>4. Stages' /\ at' \notin {"nodes", "panic"}
  <2>1. CASE dump_open
    BY <1>2, <2>1 DEF dump_open, Stages, AnchorsDistinct, Building
  <2>2. CASE open_failed
    BY <1>2, <2>2 DEF open_failed, Stages
  <2>3. CASE dump_close
    BY <1>2, <2>3 DEF dump_close, Stages, Dumping, Building
  <2>4. CASE dump_begin
    <3>1. lastAnchorId = 0 /\ opened
      BY <1>2, <2>4 DEF dump_begin, Dumping, Building, Stages, AnchorsDistinct
    <3> QED BY <1>2, <2>4, <3>1 DEF dump_begin, Stages, Fresh
  <2>5. CASE dump_end
    BY <1>2, <2>5 DEF dump_end, Stages
  <2>6. CASE emit_failed
    BY <1>2, <2>6 DEF emit_failed, emitterVars, Stages
  <2>7. CASE reset
    BY <1>2, <2>7 DEF reset, Stages
  <2> QED BY <2>1, <2>2, <2>3, <2>4, <2>5, <2>6, <2>7
<1>5. at' = "building" => anchors' = <<>> /\ lastAnchorId' = 0
  BY <1>2 DEF dump_open, open_failed, dump_close, dump_begin, dump_end, emit_failed, reset,
              reset_anchors, AnchorsDistinct, Building
<1>6. AnchorsDistinct' /\ PanicOnlyBelowRoot'
  BY <1>4, <1>5 DEF AnchorsDistinct, PanicOnlyBelowRoot
<1> QED BY <1>3, <1>4, <1>6 DEF DumperInv, IsDocument

LEMMA DumperStart == DumperInit => DumperInv
<1> SUFFICES ASSUME DumperInit PROVE DumperInv
  OBVIOUS
<1>1. IsDocument(nodes)
  BY DEF DumperInit, IsDocument
<1> QED BY <1>1 DEF DumperInit, DumperInv, Stages, AnchorsDistinct, PanicOnlyBelowRoot

LEMMA DumperSteps == DumperInv /\ [DumperNext]_dumperVars => DumperInv'
<1> SUFFICES ASSUME DumperInv, [DumperNext]_dumperVars PROVE DumperInv'
  OBVIOUS
<1>1. CASE dump_alias
  BY <1>1, AliasWalk
<1>2. CASE dump_scalar
  BY <1>2, ScalarWalk
<1>3. CASE dump_collection("Sequence", "SequenceStart")
  BY <1>3, CollectionWalk
<1>4. CASE dump_collection("Mapping", "MappingStart")
  BY <1>4, CollectionWalk
<1>5. CASE dump_collection_end("Sequence", "SequenceEnd")
  BY <1>5, CollectionEndWalk
<1>6. CASE dump_collection_end("Mapping", "MappingEnd")
  BY <1>6, CollectionEndWalk
<1>7. CASE build
  BY <1>7, BuildStep
<1>8. CASE anchor_node
  BY <1>8, AnchorStep
<1>9. CASE dump_panic
  BY <1>9, PanicStep
<1>10. CASE dump_open \/ open_failed \/ dump_close \/ dump_begin \/ dump_end \/ emit_failed \/ reset
  BY <1>10, OutsideStep
<1>11. CASE UNCHANGED dumperVars
  <2>1. UNCHANGED <<nodes, anchors, lastAnchorId, opened, closed, at, work, out, source>>
    BY <1>11 DEF dumperVars
  <2>2. Stages' /\ IsDocument(nodes')
    BY <2>1 DEF DumperInv, Stages
  <2>3. at' = "nodes" => Walk'
    <3>1. Walk => Visits'
      BY <2>1 DEF Walk, Visits, Listed, Rests, ChildLists
    <3> QED BY <2>1, <3>1 DEF DumperInv, Walk, IsDocument, AreCalls
  <2>4. \A n : RootReferences(n)' = RootReferences(n) /\ References(n)' = References(n)
    BY <2>1 DEF RootReferences, References, Occurrences
  <2>5. AnchorsDistinct' /\ PanicOnlyBelowRoot'
    BY <2>1, <2>4 DEF DumperInv, AnchorsDistinct, PanicOnlyBelowRoot
  <2> QED BY <2>2, <2>3, <2>5 DEF DumperInv, IsDocument
<1> QED BY <1>1, <1>2, <1>3, <1>4, <1>5, <1>6, <1>7, <1>8, <1>9, <1>10, <1>11
        DEF DumperNext, emits, emitsNot

\* The invariant of dump(), whatever is dumped.
THEOREM DumperInvariant == DumperSpec => []DumperInv
<1> QED BY DumperStart, DumperSteps, PTL DEF DumperSpec

\* No two nodes of a document have one anchor, and no anchor is left for the
\* next one: dump() with anchor_node and reset_anchors.
THEOREM AnchorsAlwaysDistinct == DumperSpec => []AnchorsDistinct
<1>1. DumperInv => AnchorsDistinct
  BY DEF DumperInv
<1> QED BY <1>1, DumperInvariant, PTL

\* The unwrap() of dump_alias fails for a node shared below the root only.
THEOREM PanicsOnlyBelowRoot == DumperSpec => []PanicOnlyBelowRoot
<1>1. DumperInv => PanicOnlyBelowRoot
  BY DEF DumperInv
<1> QED BY <1>1, DumperInvariant, PTL

-----------------------------------------------------------------------------
\* The events follow the grammar.  The loops of dump_node are its frames.
Frames(calls) == [i \in DOMAIN calls |-> FrameOf(calls[i])]

\* The grammar sees the top of a stack as dump_node does.
LEMMA GrammarStacks == \A s : Grammar!Last(s) = Last(s) /\ Grammar!Front(s) = Front(s)
BY DEF Grammar!Last, Grammar!Front, Last, Front

LEMMA FramesPushed ==
  ASSUME NEW calls \in Seq(Call), NEW call \in Call
  PROVE  /\ Frames(calls) \in Seq(Grammar!Frame) /\ FrameOf(call) \in Grammar!Frame
         /\ Frames(Append(calls, call)) = Append(Frames(calls), FrameOf(call))
<1>1. \A c : FrameOf(c) \in Grammar!Frame
  BY DEF FrameOf, Grammar!Frame
<1>2. PICK n \in Nat : n = Len(calls) /\ DOMAIN calls = 1..n
  BY LenProperties
<1> DEFINE F == Frames(calls)
           new == Append(calls, call)
           G == Frames(new)
           H == Append(F, FrameOf(call))
<1>3. F \in Seq(Grammar!Frame) /\ Len(F) = n /\ \A i \in 1..n : F[i] = FrameOf(calls[i])
  <2>1. F = [i \in 1..n |-> FrameOf(calls[i])]
    BY <1>2 DEF Frames
  <2> QED BY <1>1, <1>2, <2>1
<1>4. /\ Len(new) = n + 1 /\ DOMAIN new = 1..(n + 1)
      /\ \A i \in 1..n : new[i] = calls[i]
      /\ new[n + 1] = call
  <2>1. /\ new \in Seq(Call) /\ Len(new) = n + 1 /\ \A i \in 1..n : new[i] = calls[i]
        /\ new[n + 1] = call
    BY <1>2, AppendFacts
  <2> QED BY <2>1, LenProperties
<1>5. G \in Seq(Grammar!Frame) /\ Len(G) = n + 1 /\ \A i \in 1..(n + 1) : G[i] = FrameOf(new[i])
  <2> HIDE DEF new
  <2>1. G = [i \in 1..(n + 1) |-> FrameOf(new[i])]
    BY <1>4 DEF Frames
  <2>2. n + 1 \in Nat
    BY <1>2
  <2> QED BY <1>1, <2>1, <2>2
<1>6. /\ H \in Seq(Grammar!Frame) /\ Len(H) = n + 1 /\ H[n + 1] = FrameOf(call)
      /\ \A i \in 1..n : H[i] = F[i]
  <2> HIDE DEF F
  <2> QED BY <1>1, <1>2, <1>3, AppendFacts
<1>7. \A i \in 1..(n + 1) : i \in 1..n \/ i = n + 1
  BY <1>2
<1> HIDE DEF F, G, H, new
<1>8. \A i \in 1..Len(G) : G[i] = H[i]
  BY <1>3, <1>4, <1>5, <1>6, <1>7, SMTT(30)
<1>9. G = H
  BY <1>5, <1>6, <1>8, SeqEqual
<1> QED BY <1>1, <1>3, <1>9 DEF F, G, H, new

\* The frame of a loop that goes on.
LEMMA FrameMoved ==
  ASSUME NEW calls, NEW n \in Nat, AreCalls(calls, n), Last(calls).rest # <<>>
  PROVE  LET call == Last(calls)
             next == [call EXCEPT !.rest = Tail(@)]
         IN /\ FrameOf(call) # "closed"
            /\ next \in Call /\ FrameOf(next) = Grammar!Advance[FrameOf(call)]
<1> DEFINE call == Last(calls)
           next == [call EXCEPT !.rest = Tail(@)]
<1>1. /\ call \in Call /\ call.rest \in Seq(1..n)
      /\ call.kind = "Document" => Len(call.rest) <= 1
  BY CallFacts
<1>2. PICK b \in Nat : Len(call.rest) = b + 1
  <2>1. Len(call.rest) \in Nat \ {0}
    BY <1>1, EmptySeq, LenProperties
  <2>2. Len(call.rest) - 1 \in Nat /\ Len(call.rest) = (Len(call.rest) - 1) + 1
    BY <2>1
  <2> QED BY <2>2
<1>3. PICK t \in Seq(1..n) : t = Tail(call.rest) /\ Len(t) = b
  <2>1. call.rest \in Seq(1..n) /\ call.rest # <<>>
    BY <1>1
  <2> HIDE DEF call
  <2>2. Tail(call.rest) \in Seq(1..n) /\ Len(Tail(call.rest)) = Len(call.rest) - 1
    BY <2>1, HeadTailProperties
  <2>3. Len(Tail(call.rest)) = b
    BY <1>2, <2>2
  <2> QED BY <2>2, <2>3
<1>4. /\ next \in Call /\ next.kind = call.kind /\ next.rest = t
  <2>1. t \in Seq(Nat)
    <3>1. PICK low : low = 1..n /\ low \subseteq Nat
      OBVIOUS
    <3>2. t \in Seq(low)
      BY <1>3, <3>1
    <3> QED BY <3>1, <3>2
  <2> HIDE DEF call
  <2> QED BY <1>1, <1>3, <2>1 DEF Call
<1>5. call.kind \in {"Document", "Sequence", "Mapping"}
  BY <1>1 DEF Call
<1> HIDE DEF call, next
<1>6. FrameOf(call) # "closed" /\ FrameOf(next) = Grammar!Advance[FrameOf(call)]
  <2>1. CASE call.kind = "Sequence"
    BY <1>4, <2>1 DEF FrameOf, Grammar!Advance
  <2>2. CASE call.kind = "Mapping"
    <3>1. /\ FrameOf(call) = IF (b + 1) % 2 = 0 THEN "key" ELSE "value"
          /\ FrameOf(next) = IF b % 2 = 0 THEN "key" ELSE "value"
      BY <1>2, <1>3, <1>4, <2>2 DEF FrameOf
    <3>2. (b + 1) % 2 = 0 <=> ~(b % 2 = 0)
      OBVIOUS
    <3>3. CASE b % 2 = 0
      BY <3>1, <3>2, <3>3 DEF Grammar!Advance
    <3>4. CASE ~(b % 2 = 0)
      BY <3>1, <3>2, <3>4 DEF Grammar!Advance
    <3> QED BY <3>3, <3>4
  <2>3. CASE call.kind = "Document"
    <3>1. b + 1 <= 1
      BY <1>1, <1>2, <2>3
    <3>2. b = 0
      BY <3>1
    <3>3. t = <<>>
      BY <1>3, <3>2, EmptySeq
    <3>4. call.rest # <<>>
      BY DEF call
    <3> QED BY <1>4, <2>3, <3>3, <3>4 DEF FrameOf, Grammar!Advance
  <2> QED BY <1>5, <2>1, <2>2, <2>3
<1> QED BY <1>4, <1>6 DEF call, next

\* The frames while the nodes are dumped, and after a step of dump_node that
\* leaves some of its calls.
LEMMA NodesPhase ==
  ASSUME at = "nodes", opened, ~closed
  PROVE  /\ StreamPhase = "stream" /\ OpenFrames = Frames(work)
         /\ (at \in {"failed", "panic"}) = FALSE
BY DEF StreamPhase, OpenFrames, Frames

LEMMA NodesPhaseNext ==
  ASSUME at' = "nodes", opened', ~closed', NEW w, work' = w
  PROVE  /\ StreamPhase' = "stream" /\ OpenFrames' = Frames(w)
         /\ (at' \in {"failed", "panic"}) = FALSE
BY DEF StreamPhase, OpenFrames, Frames, FrameOf

\* What the grammar expects when dump_node is called, and goes on with.
LEMMA VisitFrames ==
  ASSUME DumperInv, Visiting
  PROVE  /\ StreamPhase = "stream" /\ Grammar!ExpectsNode
         /\ Grammar!AfterNode = Frames(Moved)
         /\ Moved \in Seq(Call)
<1>1. /\ AreCalls(work, Len(nodes)) /\ Len(nodes) \in Nat /\ opened /\ ~closed
      /\ at = "nodes" /\ Last(work).rest # <<>>
  BY VisitFacts DEF Visiting, Current
<1>2. PICK F \in Seq(Call), c \in Call :
        F = Front(work) /\ c = Last(work) /\ work = Append(F, c)
  BY <1>1, CallFacts
<1>3. PICK d \in Call : /\ d = [c EXCEPT !.rest = Tail(@)]
                        /\ FrameOf(c) # "closed"
                        /\ FrameOf(d) = Grammar!Advance[FrameOf(c)]
  BY <1>1, <1>2, FrameMoved
<1>4. Moved = Append(F, d)
  BY <1>2, <1>3 DEF Moved, Current
<1>5. /\ Frames(F) \in Seq(Grammar!Frame) /\ FrameOf(c) \in Grammar!Frame
      /\ FrameOf(d) \in Grammar!Frame
      /\ Frames(work) = Append(Frames(F), FrameOf(c))
      /\ Frames(Moved) = Append(Frames(F), FrameOf(d))
  BY <1>2, <1>4, FramesPushed
<1>6. StreamPhase = "stream" /\ OpenFrames = Append(Frames(F), FrameOf(c))
  BY <1>1, <1>5, NodesPhase
<1>7. OpenFrames # <<>> /\ Last(OpenFrames) = FrameOf(c) /\ Front(OpenFrames) = Frames(F)
  BY <1>5, <1>6, AppendFacts
<1>8. Grammar!ExpectsNode
  BY <1>3, <1>7, GrammarStacks DEF Grammar!ExpectsNode
<1>9. Grammar!AfterNode = Frames(Moved)
  BY <1>3, <1>5, <1>7, GrammarStacks DEF Grammar!AfterNode
<1>10. Moved \in Seq(Call)
  BY <1>2, <1>4, AppendFacts
<1> QED BY <1>6, <1>8, <1>9, <1>10

LEMMA LeafGrammar ==
  ASSUME DumperInv, dump_alias \/ dump_scalar
  PROVE  Grammar!GrammarNext
<1>1. /\ Visiting /\ at = "nodes" /\ work' = Moved /\ UNCHANGED <<opened, closed, at>>
      /\ out'.type \in {"Alias", "Scalar"}
  BY DEF dump_alias, dump_scalar, Visiting, Out
<1>2. opened /\ ~closed
  BY <1>1, VisitFacts
<1>3. PICK w : w = Moved
  OBVIOUS
<1>4. StreamPhase' = "stream" /\ OpenFrames' = Frames(w) /\ (at' \in {"failed", "panic"}) = FALSE
  BY <1>1, <1>2, <1>3, NodesPhaseNext
<1>5. Grammar!Leaf
  BY <1>1, <1>3, <1>4, VisitFrames DEF Grammar!Leaf
<1> QED BY <1>5 DEF Grammar!GrammarNext

LEMMA CollectionGrammar ==
  ASSUME DumperInv,
         NEW kind, NEW type, NEW frame, dump_collection(kind, type),
         \/ kind = "Sequence" /\ frame = "items"
         \/ kind = "Mapping" /\ frame = "key"
  PROVE  Grammar!CollectionStart(type, frame)
<1> DEFINE list == nodes[Visited].children
           call == [kind |-> kind, rest |-> list]
<1>1. /\ Visiting /\ at = "nodes" /\ work' = Append(Moved, call)
      /\ UNCHANGED <<opened, closed, at>>
      /\ out'.type = type /\ nodes[Visited].kind = kind
  BY DEF dump_collection, Visiting, Out
<1>2. /\ opened /\ ~closed /\ list \in Seq(1..Len(nodes)) /\ AreCalls(Moved, Len(nodes))
      /\ Len(nodes) \in Nat /\ IsDocument(nodes) /\ Visited \in 1..Len(nodes)
  BY <1>1, VisitFacts
<1>3. call \in Call
  <2> HIDE DEF list
  <2>1. kind \in {"Sequence", "Mapping"}
    OBVIOUS
  <2> QED BY <1>2, <2>1, CallPushed
<1>4. FrameOf(call) = frame
  <2>1. kind = "Mapping" => Len(list) % 2 = 0
    BY <1>1, <1>2 DEF IsDocument
  <2>2. call.kind = kind /\ call.rest = list
    OBVIOUS
  <2> HIDE DEF call, list
  <2> QED BY <2>1, <2>2 DEF FrameOf
<1> HIDE DEF call
<1>5. PICK w : w = Append(Moved, call)
  OBVIOUS
<1>6. StreamPhase' = "stream" /\ OpenFrames' = Frames(w) /\ (at' \in {"failed", "panic"}) = FALSE
  BY <1>1, <1>2, <1>5, NodesPhaseNext
<1>7. /\ StreamPhase = "stream" /\ Grammar!ExpectsNode
      /\ Grammar!AfterNode = Frames(Moved) /\ Moved \in Seq(Call)
  BY <1>1, VisitFrames
<1>8. Frames(w) = Append(Frames(Moved), frame)
  BY <1>3, <1>4, <1>5, <1>7, FramesPushed
<1> QED BY <1>1, <1>6, <1>7, <1>8 DEF Grammar!CollectionStart

LEMMA CollectionEndGrammar ==
  ASSUME DumperInv,
         NEW kind, NEW type, NEW frame, dump_collection_end(kind, type),
         \/ kind = "Sequence" /\ frame = "items"
         \/ kind = "Mapping" /\ frame = "key"
  PROVE  Grammar!CollectionEnd(type, frame)
<1>1. /\ at = "nodes" /\ Last(work).kind = kind /\ Last(work).rest = <<>>
      /\ work' = Front(work) /\ UNCHANGED <<opened, closed, at>> /\ out'.type = type
  BY DEF dump_collection_end, Current, Out
<1>2. /\ opened /\ ~closed /\ AreCalls(work, Len(nodes)) /\ Len(nodes) \in Nat
  <2>1. Walk /\ IsDocument(nodes) /\ opened /\ ~closed
    BY <1>1 DEF DumperInv, Stages
  <2> QED BY <2>1, LenProperties DEF Walk, IsDocument
<1>3. PICK F \in Seq(Call), c \in Call :
        F = Front(work) /\ c = Last(work) /\ work = Append(F, c)
  BY <1>2, CallFacts
<1>4. FrameOf(c) = frame
  <2>1. c.kind = kind /\ c.rest = <<>> /\ Len(<<>>) % 2 = 0
    BY <1>1, <1>3
  <2> QED BY <2>1 DEF FrameOf
<1>5. /\ Frames(F) \in Seq(Grammar!Frame) /\ FrameOf(c) \in Grammar!Frame
      /\ Frames(work) = Append(Frames(F), FrameOf(c))
  BY <1>3, FramesPushed
<1>6. StreamPhase = "stream" /\ OpenFrames = Append(Frames(F), FrameOf(c))
  BY <1>1, <1>2, <1>5, NodesPhase
<1>7. OpenFrames # <<>> /\ Last(OpenFrames) = frame /\ Front(OpenFrames) = Frames(F)
  BY <1>4, <1>5, <1>6, AppendFacts
<1>8. StreamPhase' = "stream" /\ OpenFrames' = Frames(F) /\ (at' \in {"failed", "panic"}) = FALSE
  BY <1>1, <1>2, <1>3, NodesPhaseNext
<1> QED BY <1>1, <1>6, <1>7, <1>8, GrammarStacks DEF Grammar!CollectionEnd

\* The events before and after the nodes.
LEMMA OutsideGrammar ==
  ASSUME DumperInv, dump_open \/ dump_close \/ dump_begin \/ dump_end
  PROVE  Grammar!GrammarNext
<1>1. Stages
  BY DEF DumperInv
<1>2. CASE dump_open
  <2>1. /\ at = "building" /\ ~opened /\ ~closed /\ opened' /\ ~closed'
        /\ at' \in {"building", "dumping"} /\ out'.type = "StreamStart"
    BY <1>1, <1>2 DEF dump_open, Building, Stages, Out
  <2>2. /\ StreamPhase = "before" /\ StreamPhase' = "stream"
        /\ OpenFrames = <<>> /\ OpenFrames' = <<>> /\ at' \notin {"failed", "panic"}
    BY <2>1 DEF StreamPhase, OpenFrames
  <2> QED BY <2>1, <2>2 DEF Grammar!StreamStart, Grammar!GrammarNext
<1>3. CASE dump_close
  <2>1. /\ at \in {"building", "dumping"} /\ opened /\ ~closed /\ closed'
        /\ at' = "building" /\ out'.type = "StreamEnd"
    BY <1>1, <1>3 DEF dump_close, Dumping, Building, Stages, Out
  <2>2. /\ StreamPhase = "stream" /\ StreamPhase' = "end"
        /\ OpenFrames = <<>> /\ OpenFrames' = <<>> /\ at' \notin {"failed", "panic"}
    BY <2>1 DEF StreamPhase, OpenFrames
  <2> QED BY <2>1, <2>2 DEF Grammar!StreamEnd, Grammar!GrammarNext
<1>4. CASE dump_begin
  <2>1. /\ at \in {"building", "dumping"} /\ opened /\ ~closed /\ opened' /\ ~closed'
        /\ at' = "anchoring" /\ out'.type = "DocumentStart"
    BY <1>1, <1>4 DEF dump_begin, Dumping, Building, Stages, Out
  <2>2. /\ StreamPhase = "stream" /\ StreamPhase' = "stream"
        /\ OpenFrames = <<>> /\ OpenFrames' = <<"root">> /\ at' \notin {"failed", "panic"}
    BY <2>1 DEF StreamPhase, OpenFrames
  <2> QED BY <2>1, <2>2 DEF Grammar!DocumentStart, Grammar!GrammarNext
<1>5. CASE dump_end
  <2>1. /\ at = "nodes" /\ Last(work).kind = "Document" /\ Last(work).rest = <<>>
        /\ at' = "building" /\ out'.type = "DocumentEnd" /\ opened /\ ~closed
        /\ opened' /\ ~closed'
    BY <1>1, <1>5 DEF dump_end, Current, Stages, Out
  <2>2. Len(work) = 1 /\ Last(work) = work[Len(work)] /\ work \in Seq(Call)
    <3>1. Walk /\ IsDocument(nodes)
      BY <2>1 DEF DumperInv
    <3>2. AreCalls(work, Len(nodes)) /\ Len(nodes) \in Nat
      BY <3>1, LenProperties DEF Walk, IsDocument
    <3> QED BY <2>1, <3>2, CallFacts DEF AreCalls
  <2>3. Frames(work) = <<"closed">>
    <3>1. DOMAIN work = {1} /\ FrameOf(work[1]) = "closed"
      <4>1. DOMAIN work = 1..1
        BY <2>2, LenProperties
      <4> QED BY <2>1, <2>2, <4>1 DEF FrameOf
    <3>2. Frames(work) = [i \in {1} |-> "closed"]
      BY <3>1 DEF Frames
    <3>3. 1..1 = {1}
      OBVIOUS
    <3>4. [i \in 1..1 |-> "closed"] = <<"closed">>
      OBVIOUS
    <3> QED BY <3>2, <3>3, <3>4
  <2>4. StreamPhase = "stream" /\ OpenFrames = <<"closed">>
    BY <2>1, <2>3, NodesPhase
  <2>5. StreamPhase' = "stream" /\ OpenFrames' = <<>> /\ at' \notin {"failed", "panic"}
    BY <2>1 DEF StreamPhase, OpenFrames
  <2> QED BY <2>1, <2>4, <2>5 DEF Grammar!DocumentEnd, Grammar!GrammarNext
<1> QED BY <1>2, <1>3, <1>4, <1>5

\* A failure, and what follows it; the steps that the grammar does not see.
LEMMA FailureGrammar ==
  ASSUME DumperInv, open_failed \/ emit_failed \/ dump_panic \/ reset
  PROVE  Grammar!GrammarNext
<1>1. Stages
  BY DEF DumperInv
<1>2. CASE open_failed \/ emit_failed \/ dump_panic
  <2>1. /\ at \in {"building", "dumping", "nodes"} /\ ~closed
        /\ at' \in {"failed", "panic"}
    BY <1>1, <1>2 DEF open_failed, emit_failed, dump_panic, Dumping, Building, Visiting, Stages
  <2>2. /\ StreamPhase \in {"before", "stream"} /\ StreamPhase' = "failed"
        /\ OpenFrames' = <<>>
    BY <2>1 DEF StreamPhase, OpenFrames
  <2> QED BY <2>1, <2>2 DEF Grammar!Fail, Grammar!GrammarNext
<1>3. CASE reset
  <2>1. at' = "building" /\ ~opened' /\ ~closed' /\ out'.type = "None"
    BY <1>3 DEF reset, Out
  <2>2. StreamPhase' = "before" /\ OpenFrames' = <<>> /\ at' \notin {"failed", "panic"}
    BY <2>1 DEF StreamPhase, OpenFrames
  <2> QED BY <2>1, <2>2 DEF Grammar!Reset, Grammar!GrammarNext
<1> QED BY <1>2, <1>3

LEMMA UnseenGrammar ==
  ASSUME DumperInv, build \/ anchor_node \/ UNCHANGED dumperVars
  PROVE  UNCHANGED Grammar!grammarVars
<1>1. CASE build
  <2>1. at = "building" /\ UNCHANGED <<at, opened, closed, work, out>>
    BY <1>1 DEF build, add_node, append_children, Building, emitterVars
  <2>2. UNCHANGED <<StreamPhase, OpenFrames>>
    BY <2>1 DEF StreamPhase, OpenFrames
  <2> QED BY <2>1, <2>2 DEF Grammar!grammarVars
<1>2. CASE anchor_node
  <2>1. /\ at = "anchoring" /\ at' = "nodes" /\ UNCHANGED <<opened, closed, out>>
        /\ work' = <<[kind |-> "Document", rest |-> <<1>>]>> /\ opened /\ ~closed
    BY <1>2 DEF anchor_node, DumperInv, Stages
  <2>2. PICK w : w = work'
    OBVIOUS
  <2>3. Frames(w) = <<"root">>
    <3>1. w = <<[kind |-> "Document", rest |-> <<1>>]>>
      BY <2>1, <2>2
    <3>2. DOMAIN w = 1..1 /\ w[1].kind = "Document" /\ w[1].rest # <<>>
      BY <3>1
    <3>3. FrameOf(w[1]) = "root"
      BY <3>2 DEF FrameOf
    <3>4. 1..1 = {1}
      OBVIOUS
    <3>5. [i \in 1..1 |-> "root"] = <<"root">>
      OBVIOUS
    <3>6. Frames(w) = [i \in 1..1 |-> "root"]
      BY <3>2, <3>3, <3>4 DEF Frames
    <3> QED BY <3>5, <3>6
  <2>4. StreamPhase = "stream" /\ OpenFrames = <<"root">>
    BY <2>1 DEF StreamPhase, OpenFrames
  <2>5. StreamPhase' = "stream" /\ OpenFrames' = <<"root">>
    BY <2>1, <2>2, <2>3, NodesPhaseNext
  <2> QED BY <2>1, <2>4, <2>5 DEF Grammar!grammarVars
<1>3. CASE UNCHANGED dumperVars
  <2>1. UNCHANGED <<at, opened, closed, work, out>>
    BY <1>3 DEF dumperVars
  <2>2. UNCHANGED <<StreamPhase, OpenFrames>>
    BY <2>1 DEF StreamPhase, OpenFrames, FrameOf
  <2> QED BY <2>1, <2>2 DEF Grammar!grammarVars
<1> QED BY <1>1, <1>2, <1>3

\* Whatever is dumped, and however it fails, the emitter is given events that
\* the grammar allows: the refinement that EmitterWritesGrammar starts from.
THEOREM DumpAlwaysFollowsGrammar == DumperSpec => DumpFollowsGrammar
<1>1. DumperInit => Grammar!GrammarInit
  BY DEF DumperInit, Grammar!GrammarInit, StreamPhase, OpenFrames, Out
<1>2. DumperInv /\ [DumperNext]_dumperVars => [Grammar!GrammarNext]_(Grammar!grammarVars)
  <2> SUFFICES ASSUME DumperInv, [DumperNext]_dumperVars
               PROVE  Grammar!GrammarNext \/ UNCHANGED Grammar!grammarVars
    OBVIOUS
  <2>1. CASE dump_alias \/ dump_scalar
    BY <2>1, LeafGrammar
  <2>2. CASE dump_collection("Sequence", "SequenceStart")
    BY <2>2, CollectionGrammar DEF Grammar!GrammarNext
  <2>3. CASE dump_collection("Mapping", "MappingStart")
    BY <2>3, CollectionGrammar DEF Grammar!GrammarNext
  <2>4. CASE dump_collection_end("Sequence", "SequenceEnd")
    BY <2>4, CollectionEndGrammar DEF Grammar!GrammarNext
  <2>5. CASE dump_collection_end("Mapping", "MappingEnd")
    BY <2>5, CollectionEndGrammar DEF Grammar!GrammarNext
  <2>6. CASE dump_open \/ dump_close \/ dump_begin \/ dump_end
    BY <2>6, OutsideGrammar
  <2>7. CASE open_failed \/ emit_failed \/ dump_panic \/ reset
    BY <2>7, FailureGrammar
  <2>8. CASE build \/ anchor_node \/ UNCHANGED dumperVars
    BY <2>8, UnseenGrammar
  <2> QED BY <2>1, <2>2, <2>3, <2>4, <2>5, <2>6, <2>7, <2>8 DEF DumperNext, emits, emitsNot
<1> QED BY <1>1, <1>2, DumperInvariant, PTL DEF DumperSpec, DumpFollowsGrammar, Grammar!GrammarSpec

\* A step of the round trip is one of dump(), or none.
LEMMA RoundTripDumpStep == [RoundTripNext]_roundTripVars => [DumperNext]_dumperVars
<1> SUFFICES ASSUME [RoundTripNext]_roundTripVars PROVE DumperNext \/ UNCHANGED dumperVars
  OBVIOUS
<1>1. CASE Build
  BY <1>1 DEF Build, DumperNext, emitsNot
<1>2. CASE Dump
  BY <1>2 DEF Dump, DumperNext, emitsNot
<1>3. CASE Drop
  BY <1>3 DEF Drop
<1>4. CASE Fails
  BY <1>4 DEF Fails, DumperNext, emitsNot
<1>5. CASE StartOver
  BY <1>5 DEF StartOver, DumperNext, emitsNot
<1>6. CASE UNCHANGED roundTripVars
  BY <1>6 DEF roundTripVars
<1> QED BY <1>1, <1>2, <1>3, <1>4, <1>5, <1>6 DEF RoundTripNext

\* The dump of a round trip is one of these: what holds of each dump() holds
\* of the dumps the loader reads.
THEOREM RoundTripDumps == RoundTripSpec => DumperSpec
<1>1. RoundTripInit => DumperInit
  BY DEF RoundTripInit
<1>2. [RoundTripNext]_roundTripVars => [DumperNext]_dumperVars
  BY RoundTripDumpStep
<1> QED BY <1>1, <1>2, PTL DEF RoundTripSpec, DumperSpec
=============================================================================
