---------------------------- MODULE EmitterProofs ----------------------------
(***************************************************************************)
(* Proofs about the emitter, for every nesting of collections, every look  *)
(* of the events, and events in any order: no stack is popped when it is   *)
(* empty, the flow level and the indentations are those of the collections *)
(* that have been begun, what is written is a well-formed stream, and no   *)
(* event is refused that the grammar allows.                               *)
(*                                                                         *)
(* Settled is the stack of the document and the collections begun in it.   *)
(* Every handler pushes one of its states, replaces the last by another of *)
(* the same collection, pops it or leaves it: Pushes, Replaces and Pops    *)
(* show once what that does to flow levels and indentations.               *)
(***************************************************************************)
EXTENDS EmitterProps, StackLemmas

BegunStates == FlowStates \cup BlockStates
Places == BegunStates \cup {"DocumentEnd"}
Indicators == {"stream", "%TAG", "---", "..."}
AllLooks == {"short", "quoted", "literal", "kept", "block", "flow", "named",
             "implicit", "explicit", "directives", ""}
EventRecord == [type : Types, look : AllLooks]

-----------------------------------------------------------------------------
\* The inductive invariant.  The stack S begins with the document; f is the
\* flow level and I the indentations.
Shaped(S) == S \in Seq(Places) /\ \A i \in DOMAIN S : S[i] = "DocumentEnd" <=> i = 1

Levels(S, f) ==
  /\ f = CountIn(S, FlowStates, Len(S))
  /\ \A i, j \in DOMAIN S : i < j /\ S[i] \in FlowStates => S[j] \in FlowStates

\* A collection of kind s, in another of kind r, is indented by x, as that by y.
Further(s, r, x, y) ==
  \/ x > y
  \/ s = "BlockSequenceItem" /\ r \in BegunStates /\ ~SequenceState(r) /\ x = y

Nested(S, I) ==
  /\ I \in Seq(Int) /\ Len(I) = IF S = <<>> THEN 1 ELSE Len(S)
  /\ I[1] = -1 /\ \A i \in 2..Len(I) : I[i] >= 0
  /\ \A i \in 2..Len(S) : Further(S[i], S[i - 1], I[i], I[i - 1])

Settled == IF state \in FirstStates THEN states
           ELSE IF state \in Places THEN AllStates ELSE <<>>

EmitterTypes ==
  /\ canonical \in BOOLEAN /\ orderly \in BOOLEAN
  /\ state \in EmitterState /\ states \in Seq(Places)
  /\ events \in Seq(EventRecord)
  /\ indents \in Seq(Int) /\ indent \in Int /\ flowLevel \in Nat
  /\ mappingContext \in BOOLEAN /\ indention \in BOOLEAN /\ kept \in BOOLEAN
  /\ openEnded \in {0, 1, 2}
  /\ at \in {"idle", "emitting", "refused", "broken", "panic"}

\* Within a collection there is a state to return to.
StacksShaped ==
  /\ state \in FirstStates \cup BegunStates <=> states # <<>>
  /\ Shaped(Settled)
  /\ Levels(Settled, flowLevel)
  /\ IF state = "StreamStart" THEN indents = <<>> ELSE Nested(Settled, Indentation)

\* A collection about to begin: in block style only outside flow collections,
\* and in a mapping if its node was told so.
FirstsFit ==
  state \in FirstStates =>
    /\ state \in {"BlockSequenceFirstItem", "BlockMappingFirstKey"} => flowLevel = 0
    /\ mappingContext => Last(states) \in BegunStates /\ ~SequenceState(Last(states))

\* In block style it is known not to be empty.
FirstsFilled ==
  at \in {"idle", "emitting"} =>
    /\ state = "BlockSequenceFirstItem" => events # <<>> /\ First.type # "SequenceEnd"
    /\ state = "BlockMappingFirstKey" => events # <<>> /\ First.type # "MappingEnd"

InScope == state \notin Outside => tagDirectives = declared \cup DefaultHandles

\* Since the last content the indicator was written.
Writes(w, ind) == \E i \in DOMAIN w : w[i] = ind

\* Directives follow the beginning of the stream or the end of a document.
DirectivesFollow(w) ==
  \A i \in DOMAIN w : w[i] = "%TAG" => \E j \in 1..(i - 1) : w[j] \in {"stream", "..."}

Delimited ==
  /\ written \in Seq(Indicators) /\ DirectivesFollow(written)
  /\ state \in {"StreamStart", "FirstDocumentStart"} => Writes(written, "stream")
  /\ state = "StreamStart" => ~kept
  /\ state = "DocumentStart" => openEnded # 0 \/ Writes(written, "...")
  /\ state = "DocumentContent" => Writes(written, "stream") \/ Writes(written, "---")
  /\ kept /\ state # "DocumentContent" => openEnded = 2 \/ Writes(written, "...")
  /\ state = "End" => openEnded # 2

EmitterInv == /\ EmitterTypes /\ StacksShaped /\ FirstsFit
              /\ FirstsFilled /\ InScope /\ Delimited /\ at # "panic"

-----------------------------------------------------------------------------
\* The three changes of the stack.
LEMMA LevelsFree ==
  ASSUME NEW S, Shaped(S), Levels(S, 0)
  PROVE  \A i \in DOMAIN S : S[i] \notin FlowStates
<1>1. S \in Seq(Places)
  BY DEF Shaped
<1>2. Len(S) \in Nat /\ DOMAIN S = 1..Len(S)
  BY <1>1, LenProperties
<1>3. CountIn(S, FlowStates, Len(S)) = 0
  BY DEF Levels
<1> QED BY <1>2, <1>3, CountNone

LEMMA Pushes ==
  ASSUME NEW S, NEW f, NEW I, Shaped(S), S # <<>>, Levels(S, f), Nested(S, I),
         NEW r \in BegunStates, NEW x \in Int, x >= 0,
         f # 0 => r \in FlowStates, Further(r, Last(S), x, Last(I))
  PROVE  /\ Shaped(Append(S, r))
         /\ Levels(Append(S, r), IF r \in FlowStates THEN f + 1 ELSE f)
         /\ Nested(Append(S, r), Append(I, x))
<1> DEFINE T == Append(S, r)
           J == Append(I, x)
           n == Len(S)
<1>1. /\ S \in Seq(Places) /\ r \in Places /\ n \in Nat \ {0} /\ DOMAIN S = 1..n
      /\ I \in Seq(Int) /\ Len(I) = n /\ Last(S) = S[n] /\ Last(I) = I[n]
  <2>1. S \in Seq(Places) /\ r \in Places
    BY DEF Shaped, Places
  <2>2. n \in Nat \ {0} /\ DOMAIN S = 1..n
    BY <2>1, EmptySeq, LenProperties
  <2>3. I \in Seq(Int) /\ Len(I) = n
    BY DEF Nested
  <2> QED BY <2>1, <2>2, <2>3 DEF Last
<1>2. /\ T \in Seq(Places) /\ Len(T) = n + 1 /\ T[n + 1] = r /\ DOMAIN T = 1..(n + 1)
      /\ \A i \in 1..n : T[i] = S[i]
  <2>1. T \in Seq(Places) /\ Len(T) = n + 1 /\ T[n + 1] = r /\ \A i \in 1..n : T[i] = S[i]
    BY <1>1, AppendFacts
  <2> HIDE DEF T
  <2> QED BY <2>1, LenProperties
<1>3. J \in Seq(Int) /\ Len(J) = n + 1 /\ J[n + 1] = x /\ \A i \in 1..n : J[i] = I[i]
  BY <1>1, AppendFacts
<1> HIDE DEF T, J, n
<1>4. \A i \in 1..(n + 1) : i \in 1..n \/ i = n + 1
  BY <1>1
<1>5. Shaped(T)
  <2>1. "DocumentEnd" \notin BegunStates
    BY DEF BegunStates, FlowStates, BlockStates
  <2>2. n + 1 # 1
    BY <1>1
  <2> QED BY <1>1, <1>2, <1>4, <2>1, <2>2 DEF Shaped
<1>6. Levels(T, IF r \in FlowStates THEN f + 1 ELSE f)
  <2>1. CountIn(S, FlowStates, n) = f /\ f \in Int
    <3>1. CountIn(S, FlowStates, Len(S)) \in 0..Len(S)
      BY <1>1, CountPushed, SMTT(30)
    <3> QED BY <1>1, <3>1 DEF Levels, n
  <2>2. CountIn(T, FlowStates, n + 1) = f + (IF r \in FlowStates THEN 1 ELSE 0)
    BY <1>1, <2>1, CountPushed DEF T, n
  <2>3. ASSUME NEW i \in DOMAIN T, NEW j \in DOMAIN T, i < j, T[i] \in FlowStates
        PROVE  T[j] \in FlowStates
    <3>1. i \in 1..n
      BY <1>1, <1>2, <2>3
    <3>2. S[i] \in FlowStates
      BY <1>2, <2>3, <3>1
    <3>3. CASE j \in 1..n
      BY <1>1, <1>2, <2>3, <3>1, <3>2, <3>3 DEF Levels
    <3>4. CASE j = n + 1
      <4>1. f # 0
        BY <1>1, <3>1, <3>2, LevelsFree
      <4> QED BY <1>2, <3>4, <4>1
    <3> QED BY <1>2, <1>4, <3>3, <3>4
  <2> QED BY <1>2, <2>1, <2>2, <2>3 DEF Levels
<1>7. Nested(T, J)
  <2>1. T # <<>>
    BY <1>1, <1>2
  <2>2. J[1] = -1
    <3>1. 1 \in 1..n
      BY <1>1
    <3> QED BY <1>3, <3>1 DEF Nested
  <2>3. ASSUME NEW i \in 2..(n + 1) PROVE J[i] >= 0
    <3>1. i \in 2..n \/ i = n + 1
      BY <1>1
    <3> QED BY <1>1, <1>3, <3>1 DEF Nested
  <2>4. ASSUME NEW i \in 2..(n + 1) PROVE Further(T[i], T[i - 1], J[i], J[i - 1])
    <3>1. CASE i \in 2..n
      <4>1. i \in 1..n /\ i - 1 \in 1..n /\ i \in 2..Len(S)
        BY <1>1, <3>1 DEF n
      <4>2. Further(S[i], S[i - 1], I[i], I[i - 1])
        BY <4>1 DEF Nested
      <4> QED BY <1>2, <1>3, <4>1, <4>2
    <3>2. CASE i = n + 1
      <4>1. i - 1 = n /\ n \in 1..n
        BY <1>1, <3>2
      <4> QED BY <1>1, <1>2, <1>3, <3>2, <4>1
    <3> QED BY <1>1, <3>1, <3>2
  <2> QED BY <1>2, <1>3, <2>1, <2>2, <2>3, <2>4 DEF Nested
<1> QED BY <1>5, <1>6, <1>7 DEF T, J

\* States of one collection.
SameKind(s, r) == /\ s \in FlowStates <=> r \in FlowStates
                  /\ SequenceState(s) <=> SequenceState(r)

LEMMA Replaces ==
  ASSUME NEW P \in Seq(Places), P # <<>>, NEW s \in BegunStates, NEW r \in BegunStates, SameKind(s, r),
         NEW f, NEW I, Shaped(Append(P, s)), Levels(Append(P, s), f), Nested(Append(P, s), I)
  PROVE  Shaped(Append(P, r)) /\ Levels(Append(P, r), f) /\ Nested(Append(P, r), I)
<1> DEFINE S == Append(P, s)
           T == Append(P, r)
           n == Len(P)
<1>1. n \in Nat \ {0} /\ s \in Places /\ r \in Places
  BY EmptySeq DEF Places
<1>2. /\ S \in Seq(Places) /\ Len(S) = n + 1 /\ S[n + 1] = s /\ DOMAIN S = 1..(n + 1)
      /\ \A i \in 1..n : S[i] = P[i]
  <2>1. S \in Seq(Places) /\ Len(S) = n + 1 /\ S[n + 1] = s /\ \A i \in 1..n : S[i] = P[i]
    BY <1>1, AppendFacts
  <2> HIDE DEF S
  <2> QED BY <2>1, LenProperties
<1>3. /\ T \in Seq(Places) /\ Len(T) = n + 1 /\ T[n + 1] = r /\ DOMAIN T = 1..(n + 1)
      /\ \A i \in 1..n : T[i] = P[i]
  <2>1. T \in Seq(Places) /\ Len(T) = n + 1 /\ T[n + 1] = r /\ \A i \in 1..n : T[i] = P[i]
    BY <1>1, AppendFacts
  <2> HIDE DEF T
  <2> QED BY <2>1, LenProperties
<1>4. S # <<>> /\ T # <<>>
  BY <1>1, <1>2, <1>3
<1> HIDE DEF S, T, n
<1>5. ASSUME NEW i \in 1..(n + 1)
      PROVE  /\ SameKind(S[i], T[i]) /\ T[i] \in Places
             /\ S[i] = "DocumentEnd" <=> T[i] = "DocumentEnd"
             /\ S[i] \in BegunStates <=> T[i] \in BegunStates
             /\ S[i] = "BlockSequenceItem" <=> T[i] = "BlockSequenceItem"
  <2>1. i \in 1..n \/ i = n + 1
    BY <1>1
  <2>2. "DocumentEnd" \notin BegunStates
    BY DEF BegunStates, FlowStates, BlockStates
  <2>3. s = "BlockSequenceItem" <=> r = "BlockSequenceItem"
    BY DEF SameKind, SequenceState, BegunStates, FlowStates, BlockStates
  <2>4. T[i] \in Places
    BY <1>3
  <2> QED BY <1>2, <1>3, <2>1, <2>2, <2>3, <2>4 DEF SameKind
<1>6. Shaped(T)
  BY <1>2, <1>3, <1>5 DEF Shaped, S
<1>7. Levels(T, f)
  <2>1. CountIn(T, FlowStates, n + 1) = CountIn(S, FlowStates, n + 1)
    <3>1. n + 1 \in Nat /\ \A i \in 1..(n + 1) : T[i] \in FlowStates <=> S[i] \in FlowStates
      BY <1>1, <1>5 DEF SameKind
    <3> QED BY <3>1, CountSame
  <2>2. /\ f = CountIn(S, FlowStates, n + 1)
        /\ \A i, j \in 1..(n + 1) : i < j /\ S[i] \in FlowStates => S[j] \in FlowStates
    BY <1>2 DEF Levels, S
  <2> QED BY <1>3, <1>5, <2>1, <2>2 DEF Levels, SameKind
<1>8. Nested(T, I)
  <2>1. /\ I \in Seq(Int) /\ Len(I) = n + 1 /\ I[1] = -1 /\ \A i \in 2..Len(I) : I[i] >= 0
        /\ \A i \in 2..(n + 1) : Further(S[i], S[i - 1], I[i], I[i - 1])
    BY <1>2, <1>4 DEF Nested, S
  <2>2. \A i \in 2..(n + 1) : i \in 1..(n + 1) /\ i - 1 \in 1..(n + 1)
    BY <1>1
  <2>3. ASSUME NEW i \in 2..(n + 1) PROVE Further(T[i], T[i - 1], I[i], I[i - 1])
    <3>1. Further(S[i], S[i - 1], I[i], I[i - 1])
      BY <2>1
    <3> QED BY <1>5, <2>2, <3>1 DEF Further, SameKind
  <2> QED BY <1>3, <1>4, <2>1, <2>3 DEF Nested
<1> QED BY <1>6, <1>7, <1>8 DEF T

LEMMA Pops ==
  ASSUME NEW P \in Seq(Places), P # <<>>, NEW s \in BegunStates,
         NEW f, NEW I, Shaped(Append(P, s)), Levels(Append(P, s), f), Nested(Append(P, s), I)
  PROVE  /\ Shaped(P) /\ Levels(P, IF s \in FlowStates THEN f - 1 ELSE f) /\ Nested(P, Front(I))
         /\ Len(I) > 1 /\ Last(I) >= 0
         /\ s \notin FlowStates => f = 0
<1> DEFINE S == Append(P, s)
           n == Len(P)
<1>1. n \in Nat \ {0} /\ DOMAIN P = 1..n /\ s \in Places
  BY EmptySeq, LenProperties DEF Places
<1>2. /\ S \in Seq(Places) /\ Len(S) = n + 1 /\ S[n + 1] = s /\ DOMAIN S = 1..(n + 1)
      /\ \A i \in 1..n : S[i] = P[i]
  <2>1. S \in Seq(Places) /\ Len(S) = n + 1 /\ S[n + 1] = s /\ \A i \in 1..n : S[i] = P[i]
    BY <1>1, AppendFacts
  <2> HIDE DEF S
  <2> QED BY <2>1, LenProperties
<1>3. S # <<>>
  BY <1>1, <1>2
<1>4. Shaped(S) /\ Levels(S, f) /\ Nested(S, I)
  OBVIOUS
<1> HIDE DEF S, n
<1>5. I \in Seq(Int) /\ Len(I) = n + 1 /\ I # <<>> /\ DOMAIN I = 1..(n + 1)
  <2>1. I \in Seq(Int) /\ Len(I) = n + 1
    BY <1>2, <1>3, <1>4 DEF Nested
  <2> QED BY <1>1, <2>1, LenProperties
<1>6. /\ Front(I) \in Seq(Int) /\ Len(Front(I)) = n /\ Last(I) = I[n + 1]
      /\ \A i \in 1..n : Front(I)[i] = I[i]
  <2>1. /\ Front(I) \in Seq(Int) /\ Len(Front(I)) = Len(I) - 1 /\ Last(I) = I[Len(I)]
        /\ \A i \in 1..(Len(I) - 1) : Front(I)[i] = I[i]
    BY <1>5, FrontFacts
  <2> QED BY <1>1, <1>5, <2>1
<1>7. Shaped(P)
  <2>1. \A i \in 1..n : i \in 1..(n + 1)
    BY <1>1
  <2> QED BY <1>1, <1>2, <1>4, <2>1 DEF Shaped
<1>8. CountIn(P, FlowStates, n) \in Int /\ f = CountIn(P, FlowStates, n) + (IF s \in FlowStates THEN 1 ELSE 0)
  <2>1. /\ CountIn(S, FlowStates, n + 1) = CountIn(P, FlowStates, n) + (IF s \in FlowStates THEN 1 ELSE 0)
        /\ CountIn(P, FlowStates, n) \in 0..n
    BY <1>1, CountPushed DEF S, n
  <2> QED BY <1>1, <1>2, <1>4, <2>1 DEF Levels
<1>9. Levels(P, IF s \in FlowStates THEN f - 1 ELSE f)
  <2>1. \A i, j \in 1..n : i < j /\ P[i] \in FlowStates => P[j] \in FlowStates
    <3>1. \A i \in 1..n : i \in 1..(n + 1)
      BY <1>1
    <3> QED BY <1>2, <1>4, <3>1 DEF Levels
  <2> QED BY <1>1, <1>8, <2>1 DEF Levels, n
<1>10. Nested(P, Front(I))
  <2>1. /\ I[1] = -1 /\ \A i \in 2..(n + 1) : I[i] >= 0
        /\ \A i \in 2..(n + 1) : Further(S[i], S[i - 1], I[i], I[i - 1])
    BY <1>2, <1>4, <1>5 DEF Nested
  <2>2. \A i \in 2..n : i \in 2..(n + 1) /\ i \in 1..n /\ i - 1 \in 1..n
    BY <1>1
  <2>3. 1 \in 1..n
    BY <1>1
  <2>4. \A i \in 2..n : Further(P[i], P[i - 1], Front(I)[i], Front(I)[i - 1])
    BY <1>2, <1>6, <2>1, <2>2
  <2> QED BY <1>1, <1>6, <2>1, <2>2, <2>3, <2>4 DEF Nested, n
<1>11. Len(I) > 1 /\ Last(I) >= 0
  <2>1. n + 1 \in 2..Len(I)
    BY <1>1, <1>5
  <2> QED BY <1>1, <1>4, <1>5, <1>6, <2>1 DEF Nested
<1>12. s \notin FlowStates => f = 0
  <2> SUFFICES ASSUME s \notin FlowStates PROVE CountIn(P, FlowStates, n) = 0
    BY <1>8
  <2>1. ASSUME NEW i \in 1..n PROVE P[i] \notin FlowStates
    <3>1. i \in 1..(n + 1) /\ n + 1 \in 1..(n + 1) /\ i < n + 1
      BY <1>1
    <3> QED BY <1>2, <1>4, <3>1 DEF Levels
  <2>2. n \in Nat /\ \A i \in 1..n : P[i] \in FlowStates <=> P[i] \in {}
    BY <1>1, <2>1
  <2>3. {i \in 1..n : P[i] \in FlowStates} = {}
    BY <2>2
  <2> QED BY <2>3, FS_EmptySet DEF CountIn
<1> QED BY <1>7, <1>9, <1>10, <1>11, <1>12

-----------------------------------------------------------------------------
\* What the invariant says in the states of each kind.
LEMMA StateSets ==
  /\ BegunStates \cap FirstStates = {} /\ "DocumentEnd" \notin BegunStates \cup FirstStates
  /\ Outside \cap (BegunStates \cup FirstStates) = {} /\ "DocumentEnd" \notin Outside
  /\ "DocumentContent" \notin BegunStates \cup FirstStates \cup Outside
  /\ EmitterState = BegunStates \cup FirstStates \cup Outside \cup {"DocumentContent", "DocumentEnd"}
  /\ "StreamStart" \in Outside
BY DEF BegunStates, FlowStates, BlockStates, FirstStates, Outside, EmitterState

LEMMA SettledFacts ==
  ASSUME EmitterInv
  PROVE  /\ states \in Seq(Places)
         /\ state \in FirstStates => Settled = states /\ states # <<>>
         /\ state \in BegunStates => Settled = Append(states, state) /\ states # <<>>
         /\ state = "DocumentEnd" => Settled = Append(states, "DocumentEnd") /\ states = <<>>
         /\ state \notin FirstStates \cup Places => Settled = <<>> /\ states = <<>> /\ flowLevel = 0
         /\ Shaped(Settled) /\ Levels(Settled, flowLevel)
         /\ state # "StreamStart" => Nested(Settled, Indentation)
<1>1. states \in Seq(Places) /\ Shaped(Settled) /\ Levels(Settled, flowLevel)
  BY DEF EmitterInv, EmitterTypes, StacksShaped
<1>2. state # "StreamStart" => Nested(Settled, Indentation)
  BY DEF EmitterInv, StacksShaped
<1>3. state \in FirstStates \cup BegunStates <=> states # <<>>
  BY DEF EmitterInv, StacksShaped
<1>4. ASSUME Settled = <<>> PROVE flowLevel = 0
  <2>1. flowLevel = CountIn(<<>>, FlowStates, 0)
    BY <1>1, <1>4, EmptySeq DEF Levels
  <2> QED BY <2>1, CountFacts
<1> QED BY <1>1, <1>2, <1>3, <1>4, StateSets DEF Settled, AllStates, Places

LEMMA IndentationFacts ==
  ASSUME EmitterInv
  PROVE  /\ Indentation \in Seq(Int) /\ Len(Indentation) = Len(indents) + 1
         /\ Last(Indentation) = indent /\ Front(Indentation) = indents
         /\ Indentation[Len(indents) + 1] = indent
BY AppendFacts DEF EmitterInv, EmitterTypes, Indentation

-----------------------------------------------------------------------------
\* A collection at the head of the queue is not handled before enough is
\* known to tell whether it is empty.
LEMMA LooksAhead ==
  ASSUME events \in Seq(EventRecord), Ready, First.type \in Openers
  PROVE  Len(events) > 1 /\ events[2] \in EventRecord
<1>1. /\ events # <<>> /\ Len(events) \in Nat \ {0} /\ DOMAIN events = 1..Len(events)
      /\ First = events[1]
  BY EmptySeq, LenProperties DEF Ready, First
<1>2. Accumulate(First.type) \in {2, 3}
  BY DEF Accumulate, Openers
<1>3. Len(events) > 1
  <2> SUFFICES ASSUME Len(events) = 1 PROVE FALSE
    BY <1>1
  <2>1. Level(1) = 0
    <3>1. PICK n \in DOMAIN events : Level(n) = 0
      BY <1>1, <1>2 DEF Ready, First
    <3> QED BY <1>1, <3>1
  <2>2. ASSUME NEW T
        PROVE  Cardinality({i \in 1..1 : events[i].type \in T}) = IF First.type \in T THEN 1 ELSE 0
    <3>1. CASE First.type \in T
      <4>1. {i \in 1..1 : events[i].type \in T} = {1}
        BY <1>1, <3>1
      <4> QED BY <3>1, <4>1, FS_Singleton
    <3>2. CASE First.type \notin T
      <4>1. {i \in 1..1 : events[i].type \in T} = {}
        BY <1>1, <3>2
      <4> QED BY <3>2, <4>1, FS_EmptySet
    <3> QED BY <3>1, <3>2
  <2>3. /\ First.type \in Openers \cup {"StreamStart", "DocumentStart"}
        /\ First.type \notin {"StreamEnd", "DocumentEnd", "SequenceEnd", "MappingEnd"}
    BY DEF Openers
  <2>4. Level(1) = 1 - 0
    BY <2>2, <2>3 DEF Level
  <2> QED BY <2>1, <2>4
<1> QED BY <1>1, <1>3, ElementOfSeq

\* The queue without its head.
LEMMA QueueFacts ==
  ASSUME EmitterInv, Ready
  PROVE  /\ events \in Seq(EventRecord) /\ events # <<>> /\ First \in EventRecord
         /\ First = events[1]
         /\ Tail(events) \in Seq(EventRecord)
         /\ Len(events) > 1 => Tail(events) # <<>> /\ Head(Tail(events)) = events[2]
<1>1. events \in Seq(EventRecord) /\ events # <<>> /\ Len(events) \in Nat
  BY LenProperties DEF EmitterInv, EmitterTypes, Ready
<1>2. /\ First \in EventRecord /\ Tail(events) \in Seq(EventRecord)
      /\ Len(Tail(events)) = Len(events) - 1
      /\ \A i \in 1..Len(Tail(events)) : Tail(events)[i] = events[i + 1]
      /\ First = events[1]
  BY <1>1, HeadTailProperties DEF First
<1>3. ASSUME Len(events) > 1 PROVE Tail(events) # <<>> /\ Head(Tail(events)) = events[2]
  <2>1. 1 \in 1..Len(Tail(events)) /\ 1 + 1 = 2
    BY <1>1, <1>2, <1>3
  <2>2. Tail(events)[1] = events[2]
    BY <1>2, <2>1
  <2>3. Tail(events) # <<>>
    <3>1. Len(Tail(events)) # 0
      BY <1>1, <1>2, <1>3
    <3> QED BY <1>2, <3>1, EmptySeq
  <2> QED BY <2>2, <2>3
<1> QED BY <1>1, <1>2, <1>3

\* A block collection begins only where the next event does not end it.
LEMMA BlockFilled ==
  ASSUME EmitterInv, Ready, First.type \in Openers, NEW level
  PROVE  /\ FirstState(level) \in FirstStates
         /\ FirstState(level) = "BlockSequenceFirstItem" =>
              level = 0 /\ Tail(events) # <<>> /\ Head(Tail(events)).type # "SequenceEnd"
         /\ FirstState(level) = "BlockMappingFirstKey" =>
              level = 0 /\ Tail(events) # <<>> /\ Head(Tail(events)).type # "MappingEnd"
<1>1. Len(events) > 1 /\ Tail(events) # <<>> /\ Head(Tail(events)) = events[2]
  BY LooksAhead, QueueFacts
<1>2. ASSUME ~(level # 0 \/ canonical \/ First.look = "flow" \/ CheckEmpty)
      PROVE  level = 0 /\ events[2].type # EndOf[First.type]
  BY <1>1, <1>2 DEF CheckEmpty
<1>3. EndOf["SequenceStart"] = "SequenceEnd" /\ EndOf["MappingStart"] = "MappingEnd"
  BY DEF EndOf
<1>4. First.type = "SequenceStart" \/ First.type = "MappingStart"
  BY DEF Openers
<1> QED BY <1>1, <1>2, <1>3, <1>4 DEF FirstState, FirstStates

\* What a handler of a node leaves, if the stack with the state it returns
\* to is in order.
LEMMA NodeKeeps ==
  ASSUME EmitterInv, at = "emitting", Ready, First.type \in Nodes, Handled, UNCHANGED declared,
         state \notin Outside,
         NEW return \in Places, NEW level, NEW mapping \in BOOLEAN, NEW simple \in BOOLEAN,
         NEW indented \in BOOLEAN, emit_node(return, level, mapping, simple, indented),
         indents' \in Seq(Int), indent' \in Int, flowLevel' \in Nat, level = flowLevel',
         Shaped(Append(states, return)), Levels(Append(states, return), flowLevel'),
         Nested(Append(states, return), Indentation'),
         mapping => return \in BegunStates /\ ~SequenceState(return)
  PROVE  EmitterInv'
<1>1. /\ events' = Tail(events) /\ Tail(events) \in Seq(EventRecord)
      /\ UNCHANGED <<canonical, orderly, at>> /\ tagDirectives' = tagDirectives
  <2>1. First.type # "DocumentStart"
    BY DEF Nodes, Openers
  <2> QED BY <2>1, QueueFacts DEF Handled, Restored, inputVars
<1>2. states \in Seq(Places)
  BY DEF EmitterInv, EmitterTypes
<1>3. /\ Append(states, return) \in Seq(Places) /\ Append(states, return) # <<>>
      /\ Last(Append(states, return)) = return
      /\ return = "DocumentEnd" <=> states = <<>>
  <2>1. /\ Append(states, return) \in Seq(Places) /\ Append(states, return) # <<>>
        /\ Last(Append(states, return)) = return /\ Append(states, return)[Len(states) + 1] = return
        /\ Len(Append(states, return)) = Len(states) + 1
    BY <1>2, AppendFacts
  <2>2. Len(states) \in Nat /\ (Len(states) = 0 <=> states = <<>>)
    BY <1>2, LenProperties, EmptySeq
  <2>3. Len(states) + 1 \in DOMAIN Append(states, return)
    BY <2>1, <2>2, LenProperties
  <2>4. return = "DocumentEnd" <=> Len(states) + 1 = 1
    BY <2>1, <2>3 DEF Shaped
  <2> QED BY <2>1, <2>2, <2>4
<1>4. /\ First.type \in Openers => /\ states' = Append(states, return) /\ state' = FirstState(level)
                                   /\ state' \in FirstStates
      /\ First.type \notin Openers => states' = states /\ state' = return
  BY BlockFilled DEF emit_node, Pushed
<1>5. state' \in FirstStates \cup Places /\ states' \in Seq(Places) /\ Settled' = Append(states, return)
  BY <1>2, <1>3, <1>4, StateSets DEF Settled, AllStates, Places
<1>6. EmitterTypes'
  <2>1. state' \in EmitterState
    BY <1>5, StateSets DEF Places
  <2>2. mappingContext' \in BOOLEAN /\ indention' \in BOOLEAN /\ kept' \in BOOLEAN
    <3>1. mappingContext' = mapping /\ kept' \in BOOLEAN
      BY DEF emit_node
    <3>2. indention' \in BOOLEAN
      <4>1. (indented /\ First.look # "named") \in BOOLEAN
        OBVIOUS
      <4> QED BY <4>1 DEF emit_node
    <3> QED BY <3>1, <3>2
  <2>3. openEnded' \in {0, 1, 2}
    BY DEF emit_node, Hints, EmitterInv, EmitterTypes
  <2>4. at' \in {"idle", "emitting", "refused", "broken", "panic"} /\ canonical' \in BOOLEAN
        /\ orderly' \in BOOLEAN
    BY <1>1 DEF EmitterInv, EmitterTypes
  <2> QED BY <1>1, <1>5, <2>1, <2>2, <2>3, <2>4 DEF EmitterTypes
<1>7. StacksShaped'
  <2>1. state' # "StreamStart"
    BY <1>5, StateSets DEF Places
  <2>2. (state' \in FirstStates \cup BegunStates) <=> states' # <<>>
    BY <1>3, <1>4, StateSets DEF Places
  <2> QED BY <1>5, <2>1, <2>2 DEF StacksShaped
<1>8. FirstsFit'
  <2> SUFFICES ASSUME state' \in FirstStates
               PROVE  /\ state' \in {"BlockSequenceFirstItem", "BlockMappingFirstKey"} => flowLevel' = 0
                      /\ mappingContext' => Last(states') \in BegunStates /\ ~SequenceState(Last(states'))
    BY DEF FirstsFit
  <2>1. First.type \in Openers
    BY <1>4, StateSets DEF Places
  <2>2. mappingContext' = mapping
    BY DEF emit_node
  <2>3. state' \in {"BlockSequenceFirstItem", "BlockMappingFirstKey"} => flowLevel' = 0
    BY <1>4, <2>1, BlockFilled
  <2>4. Last(states') = return
    BY <1>3, <1>4, <2>1
  <2> QED BY <2>2, <2>3, <2>4
<1>9. FirstsFilled'
  <2> SUFFICES ASSUME state' \in FirstStates
               PROVE  /\ state' = "BlockSequenceFirstItem" => events' # <<>> /\ Head(events').type # "SequenceEnd"
                      /\ state' = "BlockMappingFirstKey" => events' # <<>> /\ Head(events').type # "MappingEnd"
    BY DEF FirstsFilled, First, FirstStates
  <2>1. First.type \in Openers
    BY <1>4, StateSets DEF Places
  <2> QED BY <1>1, <1>4, <2>1, BlockFilled
<1>10. InScope'
  BY <1>1 DEF EmitterInv, InScope
<1>11. Delimited'
  <2>1. written' = <<>>
    BY DEF emit_node
  <2>2. state' \notin {"StreamStart", "FirstDocumentStart", "DocumentStart", "DocumentContent", "End"}
    BY <1>5, StateSets DEF Places, Outside
  <2>3. kept' => openEnded' = 2
    BY DEF emit_node, Hints
  <2> QED BY <2>1, <2>2, <2>3 DEF Delimited, DirectivesFollow
<1>12. at' # "panic"
  BY <1>1
<1> QED BY <1>6, <1>7, <1>8, <1>9, <1>10, <1>11, <1>12 DEF EmitterInv


-----------------------------------------------------------------------------
\* The first node of a collection: its state goes on the stack, as its
\* indentation does.
LEMMA OpensStack ==
  ASSUME EmitterInv, state \in FirstStates, NEW flow \in BOOLEAN, NEW indentless \in BOOLEAN,
         NEW return \in BegunStates, return \in FlowStates <=> flow, flow \/ flowLevel = 0,
         indentless => return = "BlockSequenceItem" /\ mappingContext,
         increase_indent(flow, indentless),
         flowLevel' = IF flow THEN flowLevel + 1 ELSE flowLevel
  PROVE  /\ Shaped(Append(states, return)) /\ Levels(Append(states, return), flowLevel')
         /\ Nested(Append(states, return), Indentation')
         /\ indents' \in Seq(Int) /\ indent' \in Int /\ flowLevel' \in Nat
<1>1. /\ states \in Seq(Places) /\ states # <<>> /\ Shaped(states) /\ Levels(states, flowLevel)
      /\ Nested(states, Indentation)
  BY SettledFacts, StateSets
<1>2. /\ flowLevel \in Nat /\ indent \in Int /\ Indentation \in Seq(Int) /\ Last(Indentation) = indent
  BY IndentationFacts DEF EmitterInv, EmitterTypes
<1>3. mappingContext => Last(states) \in BegunStates /\ ~SequenceState(Last(states))
  BY DEF EmitterInv, FirstsFit
<1>4. indents' = Indentation
  BY DEF increase_indent, Indentation
<1>5. PICK x : x = indent'
  OBVIOUS
<1>6. x \in Int /\ x >= 0 /\ (x > indent \/ (x = indent /\ indentless))
  <2>1. x = CASE indent < 0 -> IF flow THEN BestIndent ELSE 0
              [] indent >= 0 /\ ~indentless -> indent + BestIndent
              [] OTHER -> indent
    BY <1>5 DEF increase_indent
  <2> QED BY <1>2, <2>1 DEF BestIndent
<1>7. Further(return, Last(states), x, Last(Indentation))
  BY <1>2, <1>3, <1>6 DEF Further
<1>8. /\ Shaped(Append(states, return))
      /\ Levels(Append(states, return), IF return \in FlowStates THEN flowLevel + 1 ELSE flowLevel)
      /\ Nested(Append(states, return), Append(Indentation, x))
  <2>1. flowLevel # 0 => return \in FlowStates
    OBVIOUS
  <2> QED BY <1>1, <1>6, <1>7, <2>1, Pushes
<1>9. Indentation' = Append(Indentation, x)
  BY <1>4, <1>5 DEF Indentation
<1>10. flowLevel' = (IF return \in FlowStates THEN flowLevel + 1 ELSE flowLevel) /\ flowLevel' \in Nat
  <2>1. PICK l : l = flowLevel'
    OBVIOUS
  <2>2. l = (IF return \in FlowStates THEN flowLevel + 1 ELSE flowLevel) /\ l \in Nat
    BY <1>2, <2>1
  <2> QED BY <2>1, <2>2
<1> QED BY <1>2, <1>4, <1>5, <1>6, <1>8, <1>9, <1>10

\* The nodes behind it: another state of the same collection.
LEMMA GoesOnStack ==
  ASSUME EmitterInv, state \in BegunStates, NEW return \in BegunStates, SameKind(state, return),
         UNCHANGED <<indents, indent, flowLevel>>
  PROVE  /\ Shaped(Append(states, return)) /\ Levels(Append(states, return), flowLevel')
         /\ Nested(Append(states, return), Indentation')
         /\ indents' \in Seq(Int) /\ indent' \in Int /\ flowLevel' \in Nat
<1>1. /\ states \in Seq(Places) /\ states # <<>> /\ Shaped(Append(states, state))
      /\ Levels(Append(states, state), flowLevel) /\ Nested(Append(states, state), Indentation)
  BY SettledFacts, StateSets
<1>2. Indentation' = Indentation
  BY DEF Indentation
<1>3. indents \in Seq(Int) /\ indent \in Int /\ flowLevel \in Nat
  BY DEF EmitterInv, EmitterTypes
<1> QED BY <1>1, <1>2, <1>3, Replaces

LEMMA DocumentContentKeeps ==
  ASSUME EmitterInv, emit_document_content
  PROVE  EmitterInv'
<1>1. /\ at = "emitting" /\ Ready /\ First.type \in Nodes /\ Handled /\ UNCHANGED declared
      /\ state = "DocumentContent"
      /\ emit_node("DocumentEnd", flowLevel, FALSE, FALSE, indention)
      /\ UNCHANGED <<indents, indent, flowLevel>>
  BY DEF emit_document_content, Handling
<1>2. /\ state \notin FirstStates \cup Places /\ states = <<>> /\ flowLevel = 0 /\ Settled = <<>>
      /\ state \notin Outside /\ Nested(<<>>, Indentation)
  BY <1>1, SettledFacts, StateSets DEF Places
<1>3. /\ indents \in Seq(Int) /\ indent \in Int /\ indention \in BOOLEAN /\ flowLevel \in Nat
      /\ Indentation \in Seq(Int)
  BY IndentationFacts DEF EmitterInv, EmitterTypes
<1>4. /\ "DocumentEnd" \in Places /\ "DocumentEnd" \notin FlowStates
  BY DEF Places, FlowStates
<1> DEFINE S == Append(states, "DocumentEnd")
<1>5. S \in Seq(Places) /\ Len(S) = 1 /\ S[1] = "DocumentEnd" /\ S # <<>> /\ DOMAIN S = 1..1
  <2>1. states \in Seq(Places) /\ Len(states) = 0
    BY SettledFacts, <1>2, EmptySeq
  <2>2. /\ S \in Seq(Places) /\ Len(S) = Len(states) + 1
        /\ S[Len(states) + 1] = "DocumentEnd" /\ S # <<>>
    BY <1>4, <2>1, AppendFacts, ZenonT(40)
  <2> HIDE DEF S
  <2> QED BY <2>1, <2>2, LenProperties
<1> HIDE DEF S
<1>6. Shaped(S) /\ Nested(S, Indentation)
  BY <1>2, <1>5 DEF Shaped, Nested
<1>7. Levels(S, flowLevel)
  <2>1. {i \in 1..1 : S[i] \in FlowStates} = {}
    BY <1>4, <1>5
  <2>2. CountIn(S, FlowStates, 1) = 0
    BY <2>1, FS_EmptySet DEF CountIn
  <2> QED BY <1>2, <1>4, <1>5, <2>2 DEF Levels
<1>8. Indentation' = Indentation /\ flowLevel' = flowLevel
  BY <1>1 DEF Indentation
<1>9. /\ Shaped(Append(states, "DocumentEnd")) /\ Levels(Append(states, "DocumentEnd"), flowLevel')
      /\ Nested(Append(states, "DocumentEnd"), Indentation')
  BY <1>6, <1>7, <1>8 DEF S
<1> QED BY <1>1, <1>2, <1>3, <1>4, <1>8, <1>9, NodeKeeps

LEMMA FlowSequenceItemKeeps ==
  ASSUME EmitterInv, emit_flow_sequence_item
  PROVE  EmitterInv'
<1> DEFINE first == state = "FlowSequenceFirstItem"
           return == "FlowSequenceItem"
<1>1. /\ at = "emitting" /\ Ready /\ First.type \in Nodes /\ Handled /\ UNCHANGED declared
      /\ state \in {"FlowSequenceFirstItem", return} /\ Opens(first, TRUE, FALSE)
      /\ flowLevel' = FlowLevelOf(first)
      /\ emit_node(return, flowLevel', FALSE, FALSE, FALSE)
  BY DEF emit_flow_sequence_item, Handling
<1>2. return \in FlowStates /\ return \in BegunStates /\ return \in Places
  BY DEF FlowStates, BegunStates, Places
<1>3. /\ Shaped(Append(states, return)) /\ Levels(Append(states, return), flowLevel')
      /\ Nested(Append(states, return), Indentation')
      /\ indents' \in Seq(Int) /\ indent' \in Int /\ flowLevel' \in Nat
  <2>1. CASE first
    <3>1. /\ state \in FirstStates /\ increase_indent(TRUE, FALSE)
          /\ flowLevel' = IF TRUE THEN flowLevel + 1 ELSE flowLevel
      BY <1>1, <2>1 DEF Opens, FlowLevelOf, FirstStates
    <3> QED BY <1>2, <3>1, OpensStack
  <2>2. CASE ~first
    <3>1. state \in BegunStates /\ SameKind(state, return) /\ UNCHANGED <<indents, indent, flowLevel>>
      BY <1>1, <1>2, <2>2 DEF Opens, FlowLevelOf, SameKind
    <3> QED BY <1>2, <3>1, GoesOnStack
  <2> QED BY <2>1, <2>2
<1>4. state \notin Outside
  BY <1>1 DEF Outside
<1> QED BY <1>1, <1>2, <1>3, <1>4, NodeKeeps

LEMMA FlowMappingKeyKeeps ==
  ASSUME EmitterInv, emit_flow_mapping_key
  PROVE  EmitterInv'
<1> DEFINE first == state = "FlowMappingFirstKey"
           simple == ~canonical /\ CheckSimpleKey
           return == IF simple THEN "FlowMappingSimpleValue" ELSE "FlowMappingValue"
<1>1. /\ at = "emitting" /\ Ready /\ First.type \in Nodes /\ Handled /\ UNCHANGED declared
      /\ state \in {"FlowMappingFirstKey", "FlowMappingKey"} /\ Opens(first, TRUE, FALSE)
      /\ flowLevel' = FlowLevelOf(first)
      /\ emit_node(return, flowLevel', TRUE, simple, FALSE)
  BY DEF emit_flow_mapping_key, Handling
<1>2. /\ return \in FlowStates /\ return \in BegunStates /\ return \in Places /\ ~SequenceState(return)
      /\ simple \in BOOLEAN
  BY DEF FlowStates, BegunStates, Places, SequenceState
<1> HIDE DEF return, simple
<1>3. /\ Shaped(Append(states, return)) /\ Levels(Append(states, return), flowLevel')
      /\ Nested(Append(states, return), Indentation')
      /\ indents' \in Seq(Int) /\ indent' \in Int /\ flowLevel' \in Nat
  <2>1. CASE first
    <3>1. /\ state \in FirstStates /\ increase_indent(TRUE, FALSE)
          /\ flowLevel' = IF TRUE THEN flowLevel + 1 ELSE flowLevel
      BY <1>1, <2>1 DEF Opens, FlowLevelOf, FirstStates
    <3> QED BY <1>2, <3>1, OpensStack
  <2>2. CASE ~first
    <3>1. state \in BegunStates /\ state \in FlowStates /\ ~SequenceState(state)
      BY <1>1, <2>2 DEF BegunStates, FlowStates, SequenceState
    <3>2. SameKind(state, return) /\ UNCHANGED <<indents, indent, flowLevel>>
      BY <1>1, <1>2, <2>2, <3>1 DEF Opens, FlowLevelOf, SameKind
    <3> QED BY <1>2, <3>1, <3>2, GoesOnStack
  <2> QED BY <2>1, <2>2
<1>4. state \notin Outside
  BY <1>1 DEF Outside
<1> QED BY <1>1, <1>2, <1>3, <1>4, NodeKeeps

LEMMA FlowMappingValueKeeps ==
  ASSUME EmitterInv, emit_flow_mapping_value
  PROVE  EmitterInv'
<1> DEFINE return == "FlowMappingKey"
<1>1. /\ at = "emitting" /\ Ready /\ First.type \in Nodes /\ Handled /\ UNCHANGED declared
      /\ state \in {"FlowMappingSimpleValue", "FlowMappingValue"}
      /\ emit_node(return, flowLevel', TRUE, FALSE, FALSE)
      /\ UNCHANGED <<indents, indent, flowLevel>>
  BY DEF emit_flow_mapping_value, Handling
<1>2. /\ return \in BegunStates /\ return \in Places /\ ~SequenceState(return)
      /\ state \in BegunStates /\ SameKind(state, return) /\ state \notin Outside
  BY <1>1 DEF FlowStates, BegunStates, Places, SequenceState, SameKind, Outside
<1>3. /\ Shaped(Append(states, return)) /\ Levels(Append(states, return), flowLevel')
      /\ Nested(Append(states, return), Indentation')
      /\ indents' \in Seq(Int) /\ indent' \in Int /\ flowLevel' \in Nat
  BY <1>1, <1>2, GoesOnStack
<1> QED BY <1>1, <1>2, <1>3, NodeKeeps

LEMMA BlockSequenceItemKeeps ==
  ASSUME EmitterInv, emit_block_sequence_item
  PROVE  EmitterInv'
<1> DEFINE first == state = "BlockSequenceFirstItem"
           return == "BlockSequenceItem"
           indentless == mappingContext /\ ~indention
<1>1. /\ at = "emitting" /\ Ready /\ First.type \in Nodes /\ Handled /\ UNCHANGED declared
      /\ state \in {"BlockSequenceFirstItem", return} /\ Opens(first, FALSE, indentless)
      /\ flowLevel' = flowLevel
      /\ emit_node(return, flowLevel', FALSE, FALSE, TRUE)
  BY DEF emit_block_sequence_item, Handling
<1>2. return \notin FlowStates /\ return \in BegunStates /\ return \in Places
  BY DEF FlowStates, BlockStates, BegunStates, Places
<1>3. indentless \in BOOLEAN /\ (indentless => mappingContext)
  BY DEF EmitterInv, EmitterTypes
<1> HIDE DEF indentless
<1>4. /\ Shaped(Append(states, return)) /\ Levels(Append(states, return), flowLevel')
      /\ Nested(Append(states, return), Indentation')
      /\ indents' \in Seq(Int) /\ indent' \in Int /\ flowLevel' \in Nat
  <2>1. CASE first
    <3>1. /\ state \in FirstStates /\ increase_indent(FALSE, indentless)
          /\ flowLevel' = IF FALSE THEN flowLevel + 1 ELSE flowLevel
      BY <1>1, <2>1 DEF Opens, FirstStates
    <3>2. flowLevel = 0
      BY <2>1, <3>1 DEF EmitterInv, FirstsFit
    <3> QED BY <1>2, <1>3, <3>1, <3>2, OpensStack
  <2>2. CASE ~first
    <3>1. state \in BegunStates /\ SameKind(state, return) /\ UNCHANGED <<indents, indent, flowLevel>>
      BY <1>1, <1>2, <2>2 DEF Opens, SameKind
    <3> QED BY <1>2, <3>1, GoesOnStack
  <2> QED BY <2>1, <2>2
<1>5. state \notin Outside
  BY <1>1 DEF Outside
<1> QED BY <1>1, <1>2, <1>4, <1>5, NodeKeeps

LEMMA BlockMappingKeyKeeps ==
  ASSUME EmitterInv, emit_block_mapping_key
  PROVE  EmitterInv'
<1> DEFINE first == state = "BlockMappingFirstKey"
           simple == CheckSimpleKey
           return == IF simple THEN "BlockMappingSimpleValue" ELSE "BlockMappingValue"
<1>1. /\ at = "emitting" /\ Ready /\ First.type \in Nodes /\ Handled /\ UNCHANGED declared
      /\ state \in {"BlockMappingFirstKey", "BlockMappingKey"} /\ Opens(first, FALSE, FALSE)
      /\ flowLevel' = flowLevel
      /\ emit_node(return, flowLevel', TRUE, simple, TRUE)
  BY DEF emit_block_mapping_key, Handling
<1>2. /\ return \notin FlowStates /\ return \in BegunStates /\ return \in Places /\ ~SequenceState(return)
      /\ simple \in BOOLEAN
  BY DEF FlowStates, BlockStates, BegunStates, Places, SequenceState, CheckSimpleKey
<1> HIDE DEF return, simple
<1>3. /\ Shaped(Append(states, return)) /\ Levels(Append(states, return), flowLevel')
      /\ Nested(Append(states, return), Indentation')
      /\ indents' \in Seq(Int) /\ indent' \in Int /\ flowLevel' \in Nat
  <2>1. CASE first
    <3>1. /\ state \in FirstStates /\ increase_indent(FALSE, FALSE)
          /\ flowLevel' = IF FALSE THEN flowLevel + 1 ELSE flowLevel
      BY <1>1, <2>1 DEF Opens, FirstStates
    <3>2. flowLevel = 0
      BY <2>1, <3>1 DEF EmitterInv, FirstsFit
    <3> QED BY <1>2, <3>1, <3>2, OpensStack
  <2>2. CASE ~first
    <3>1. state \in BegunStates /\ state \notin FlowStates /\ ~SequenceState(state)
      BY <1>1, <2>2 DEF BegunStates, FlowStates, BlockStates, SequenceState
    <3>2. SameKind(state, return) /\ UNCHANGED <<indents, indent, flowLevel>>
      BY <1>1, <1>2, <2>2, <3>1 DEF Opens, SameKind
    <3> QED BY <1>2, <3>1, <3>2, GoesOnStack
  <2> QED BY <2>1, <2>2
<1>4. state \notin Outside
  BY <1>1 DEF Outside
<1> QED BY <1>1, <1>2, <1>3, <1>4, NodeKeeps

LEMMA BlockMappingValueKeeps ==
  ASSUME EmitterInv, emit_block_mapping_value
  PROVE  EmitterInv'
<1> DEFINE return == "BlockMappingKey"
<1>1. /\ at = "emitting" /\ Ready /\ First.type \in Nodes /\ Handled /\ UNCHANGED declared
      /\ state \in {"BlockMappingSimpleValue", "BlockMappingValue"}
      /\ emit_node(return, flowLevel', TRUE, FALSE, state = "BlockMappingValue")
      /\ UNCHANGED <<indents, indent, flowLevel>>
  BY DEF emit_block_mapping_value, Handling
<1>2. /\ return \in BegunStates /\ return \in Places /\ ~SequenceState(return)
      /\ state \in BegunStates /\ SameKind(state, return) /\ state \notin Outside
  BY <1>1 DEF FlowStates, BlockStates, BegunStates, Places, SequenceState, SameKind, Outside
<1>3. /\ Shaped(Append(states, return)) /\ Levels(Append(states, return), flowLevel')
      /\ Nested(Append(states, return), Indentation')
      /\ indents' \in Seq(Int) /\ indent' \in Int /\ flowLevel' \in Nat
  BY <1>1, <1>2, GoesOnStack
<1> QED BY <1>1, <1>2, <1>3, NodeKeeps

-----------------------------------------------------------------------------
\* The ends of collections: what was pushed is popped.
LEMMA EndKeeps ==
  ASSUME EmitterInv, NEW first \in FirstStates, NEW s \in BegunStates, NEW writing \in BOOLEAN,
         writing <=> s \in FlowStates,
         NEW type \in {"SequenceEnd", "MappingEnd"}, CollectionEnd(first, {s}, type, writing)
  PROVE  EmitterInv'
<1> DEFINE begun == state # first
<1>1. at = "emitting" /\ Ready /\ state \in {first, s} /\ First.type = type
  BY DEF CollectionEnd, Handling
<1>2. /\ states \in Seq(Places) /\ states # <<>>
      /\ ~begun => Settled = states
      /\ begun => Settled = Append(states, s) /\ state = s
      /\ Shaped(Settled) /\ Levels(Settled, flowLevel) /\ Nested(Settled, Indentation)
  BY <1>1, SettledFacts, StateSets
<1>3. /\ indents \in Seq(Int) /\ flowLevel \in Nat /\ indent \in Int
      /\ Len(Indentation) = Len(indents) + 1 /\ Front(Indentation) = indents
  BY IndentationFacts DEF EmitterInv, EmitterTypes
<1>4. begun => /\ Shaped(states)
               /\ Levels(states, IF s \in FlowStates THEN flowLevel - 1 ELSE flowLevel)
               /\ Nested(states, indents) /\ indents # <<>>
  <2> SUFFICES ASSUME begun PROVE /\ Shaped(states)
               /\ Levels(states, IF s \in FlowStates THEN flowLevel - 1 ELSE flowLevel)
               /\ Nested(states, indents) /\ indents # <<>>
    OBVIOUS
  <2>1. Shaped(Append(states, s)) /\ Levels(Append(states, s), flowLevel) /\ Nested(Append(states, s), Indentation)
    BY <1>2
  <2>2. /\ Shaped(states) /\ Levels(states, IF s \in FlowStates THEN flowLevel - 1 ELSE flowLevel)
        /\ Nested(states, Front(Indentation)) /\ Len(Indentation) > 1
    BY <1>2, <2>1, Pops
  <2>3. Len(indents) # 0
    BY <1>3, <2>2
  <2> QED BY <1>3, <2>2, <2>3, EmptySeq
<1>5. /\ Handled /\ Closes(~begun) /\ flowLevel' = Lowered(~begun, writing)
      /\ state' = Last(states) /\ states' = Front(states)
      /\ IF writing THEN indention' = FALSE /\ kept' = FALSE /\ written' = <<>>
                    ELSE UNCHANGED <<indention, kept, written>>
      /\ UNCHANGED <<mappingContext, simpleKeyContext, openEnded, declared>>
  BY <1>1, <1>2, <1>4 DEF CollectionEnd
<1>6. /\ events' = Tail(events) /\ Tail(events) \in Seq(EventRecord)
      /\ UNCHANGED <<canonical, orderly, at>> /\ tagDirectives' = tagDirectives
  BY <1>1, <1>5, QueueFacts DEF Handled, Restored, inputVars
<1>7. Shaped(states) /\ Levels(states, flowLevel') /\ Nested(states, Indentation')
  <2>1. CASE begun
    <3>1. Indentation' = indents
      <4>1. Indentation' = Append(Front(indents), Last(indents))
        BY <1>5, <2>1 DEF Closes, Indentation
      <4> QED BY <1>3, <1>4, <2>1, <4>1, PopPush
    <3>2. flowLevel' = IF s \in FlowStates THEN flowLevel - 1 ELSE flowLevel
      BY <1>5, <2>1 DEF Lowered
    <3> QED BY <1>4, <2>1, <3>1, <3>2
  <2>2. CASE ~begun
    <3>1. flowLevel' = flowLevel /\ Indentation' = Indentation
      BY <1>5, <2>2 DEF Closes, Lowered, Indentation
    <3> QED BY <1>2, <2>2, <3>1
  <2> QED BY <2>1, <2>2
<1>8. /\ state' \in Places /\ states' \in Seq(Places) /\ Settled' = states
      /\ state' = "DocumentEnd" <=> states' = <<>>
  <2>1. /\ state' \in Places /\ states' \in Seq(Places) /\ Append(states', state') = states
        /\ state' = states[Len(states)] /\ Len(states') = Len(states) - 1 /\ Len(states) \in Nat \ {0}
    BY <1>2, <1>5, FrontFacts, PopPush
  <2>2. Settled' = states
    BY <2>1, StateSets DEF Settled, AllStates, Places
  <2>3. Len(states) \in DOMAIN states
    BY <1>2, <2>1, LenProperties
  <2>4. state' = "DocumentEnd" <=> Len(states) = 1
    BY <1>7, <2>1, <2>3 DEF Shaped
  <2>5. states' = <<>> <=> Len(states) = 1
    <3>1. PICK n : n = Len(states')
      OBVIOUS
    <3>2. n = Len(states) - 1 /\ (states' = <<>> <=> n = 0)
      BY <2>1, <3>1, EmptySeq
    <3> QED BY <2>1, <3>2
  <2> QED BY <2>1, <2>2, <2>4, <2>5
<1>9. state' \notin FirstStates /\ state' # "StreamStart" /\ state' \in EmitterState
      /\ state' \notin {"StreamStart", "FirstDocumentStart", "DocumentStart", "DocumentContent", "End"}
  BY <1>8, StateSets DEF Places, Outside
<1>10. flowLevel' \in Nat /\ indents' \in Seq(Int) /\ indent' \in Int
  <2>1. indents' \in Seq(Int) /\ indent' \in Int
    <3>1. CASE begun
      BY <1>3, <1>4, <1>5, <3>1, FrontFacts DEF Closes
    <3>2. CASE ~begun
      BY <1>3, <1>5, <3>2 DEF Closes
    <3> QED BY <3>1, <3>2
  <2>2. flowLevel' = CountIn(states, FlowStates, Len(states))
    BY <1>7 DEF Levels
  <2>3. CountIn(states, FlowStates, Len(states)) \in 0..Len(states) /\ Len(states) \in Nat
    BY <1>2, CountPushed, LenProperties
  <2>4. CountIn(states, FlowStates, Len(states)) \in Nat
    BY <2>3
  <2> QED BY <2>1, <2>2, <2>4
<1>11. EmitterTypes'
  <2>1. indention' \in BOOLEAN /\ kept' \in BOOLEAN /\ mappingContext' \in BOOLEAN /\ openEnded' \in {0, 1, 2}
    BY <1>5 DEF EmitterInv, EmitterTypes
  <2>2. canonical' \in BOOLEAN /\ orderly' \in BOOLEAN
        /\ at' \in {"idle", "emitting", "refused", "broken", "panic"}
    BY <1>6 DEF EmitterInv, EmitterTypes
  <2> QED BY <1>6, <1>8, <1>9, <1>10, <2>1, <2>2 DEF EmitterTypes
<1>12. StacksShaped'
  <2>1. state' \in FirstStates \cup BegunStates <=> states' # <<>>
    BY <1>8, <1>9, StateSets DEF Places
  <2> QED BY <1>7, <1>8, <1>9, <2>1 DEF StacksShaped
<1>13. FirstsFit' /\ FirstsFilled' /\ InScope'
  <2>1. FirstsFit' /\ FirstsFilled'
    BY <1>9 DEF FirstsFit, FirstsFilled, FirstStates
  <2>2. state \notin Outside
    BY <1>1, StateSets
  <2>3. InScope'
    BY <1>5, <1>6, <2>2 DEF EmitterInv, InScope
  <2> QED BY <2>1, <2>3
<1>14. Delimited'
  <2>1. CASE writing
    BY <1>5, <1>9, <2>1 DEF Delimited, DirectivesFollow
  <2>2. CASE ~writing
    <3>1. UNCHANGED <<kept, written, openEnded>> /\ state # "DocumentContent"
      BY <1>1, <1>5, <2>2, StateSets
    <3> QED BY <1>9, <3>1 DEF EmitterInv, Delimited
  <2> QED BY <2>1, <2>2
<1>15. at' # "panic"
  BY <1>1, <1>6
<1> QED BY <1>11, <1>12, <1>13, <1>14, <1>15 DEF EmitterInv

LEMMA CollectionEndKeeps ==
  ASSUME EmitterInv,
         \/ emit_flow_sequence_end
         \/ emit_flow_mapping_end
         \/ emit_block_sequence_end
         \/ emit_block_mapping_end
  PROVE  EmitterInv'
<1>1. CASE emit_flow_sequence_end
  <2>1. /\ "FlowSequenceFirstItem" \in FirstStates /\ "FlowSequenceItem" \in BegunStates
        /\ "FlowSequenceItem" \in FlowStates
    BY DEF FirstStates, FlowStates, BegunStates
  <2> QED BY <1>1, <2>1, EndKeeps DEF emit_flow_sequence_end
<1>2. CASE emit_flow_mapping_end
  <2>1. /\ "FlowMappingFirstKey" \in FirstStates /\ "FlowMappingKey" \in BegunStates
        /\ "FlowMappingKey" \in FlowStates
    BY DEF FirstStates, FlowStates, BegunStates
  <2> QED BY <1>2, <2>1, EndKeeps DEF emit_flow_mapping_end
<1>3. CASE emit_block_sequence_end
  <2>1. /\ "BlockSequenceFirstItem" \in FirstStates /\ "BlockSequenceItem" \in BegunStates
        /\ "BlockSequenceItem" \notin FlowStates
    BY DEF FirstStates, FlowStates, BlockStates, BegunStates
  <2> QED BY <1>3, <2>1, EndKeeps DEF emit_block_sequence_end
<1>4. CASE emit_block_mapping_end
  <2>1. /\ "BlockMappingFirstKey" \in FirstStates /\ "BlockMappingKey" \in BegunStates
        /\ "BlockMappingKey" \notin FlowStates
    BY DEF FirstStates, FlowStates, BlockStates, BegunStates
  <2> QED BY <1>4, <2>1, EndKeeps DEF emit_block_mapping_end
<1> QED BY <1>1, <1>2, <1>3, <1>4

-----------------------------------------------------------------------------
\* Between documents.
LEMMA BareFacts ==
  ASSUME EmitterInv, state \notin FirstStates \cup BegunStates, state # "StreamStart"
  PROVE  states = <<>> /\ flowLevel = 0 /\ Nested(<<>>, Indentation)
<1>1. states = <<>> /\ Levels(Settled, flowLevel) /\ Nested(Settled, Indentation)
  BY SettledFacts DEF EmitterInv, StacksShaped
<1>2. CASE state = "DocumentEnd"
  <2> DEFINE S == Append(states, "DocumentEnd")
  <2>1. Settled = S
    BY <1>2, SettledFacts
  <2>2. S \in Seq(Places) /\ Len(S) = 1 /\ S # <<>> /\ S[1] = "DocumentEnd"
    <3>1. states \in Seq(Places) /\ "DocumentEnd" \in Places /\ Len(states) = 0
      BY <1>1, EmptySeq, SettledFacts DEF Places
    <3>2. /\ S \in Seq(Places) /\ Len(S) = Len(states) + 1 /\ S # <<>>
          /\ S[Len(states) + 1] = "DocumentEnd"
      BY <3>1, AppendFacts
    <3> HIDE DEF S
    <3> QED BY <3>1, <3>2
  <2> HIDE DEF S
  <2>3. {i \in 1..1 : S[i] \in FlowStates} = {}
    BY <2>2 DEF FlowStates
  <2>4. flowLevel = 0
    BY <1>1, <2>1, <2>2, <2>3, FS_EmptySet DEF Levels, CountIn
  <2>5. Nested(<<>>, Indentation)
    <3>1. Len(<<>>) = 0
      BY EmptySeq
    <3> QED BY <1>1, <2>1, <2>2, <3>1 DEF Nested
  <2> QED BY <1>1, <2>4, <2>5
<1>3. CASE state # "DocumentEnd"
  <2>1. state \notin FirstStates \cup Places
    BY <1>3 DEF Places
  <2>2. flowLevel = 0 /\ Settled = <<>>
    BY <2>1, SettledFacts
  <2> QED BY <1>1, <2>2
<1> QED BY <1>2, <1>3

LEMMA BareStacks ==
  ASSUME states' = <<>>, flowLevel' = 0, Nested(<<>>, Indentation'),
         state' \in {"FirstDocumentStart", "DocumentStart", "DocumentContent", "End"}
  PROVE  StacksShaped' /\ FirstsFit' /\ FirstsFilled'
<1>1. state' \notin FirstStates \cup Places /\ state' # "StreamStart"
  BY StateSets DEF Places, Outside
<1>2. Settled' = <<>>
  BY <1>1 DEF Settled
<1>3. Shaped(<<>>)
  BY DEF Shaped
<1>4. Levels(<<>>, 0)
  BY CountFacts, EmptySeq DEF Levels
<1>5. StacksShaped'
  BY <1>1, <1>2, <1>3, <1>4 DEF StacksShaped, Places
<1>6. FirstsFit' /\ FirstsFilled'
  BY DEF FirstsFit, FirstsFilled, FirstStates
<1> QED BY <1>5, <1>6

\* One more indicator.
LEMMA WritesMore ==
  ASSUME NEW w \in Seq(Indicators), DirectivesFollow(w), NEW x \in Indicators,
         x = "%TAG" => Writes(w, "stream") \/ Writes(w, "...")
  PROVE  /\ Append(w, x) \in Seq(Indicators) /\ DirectivesFollow(Append(w, x))
         /\ Writes(Append(w, x), x) /\ \A ind : Writes(w, ind) => Writes(Append(w, x), ind)
<1> DEFINE v == Append(w, x)
           n == Len(w)
<1>1. n \in Nat /\ DOMAIN w = 1..n
  BY LenProperties
<1>2. /\ v \in Seq(Indicators) /\ Len(v) = n + 1 /\ v[n + 1] = x /\ DOMAIN v = 1..(n + 1)
      /\ \A i \in 1..n : v[i] = w[i]
  <2>1. v \in Seq(Indicators) /\ Len(v) = n + 1 /\ v[n + 1] = x /\ \A i \in 1..n : v[i] = w[i]
    BY AppendFacts
  <2> HIDE DEF v
  <2> QED BY <2>1, LenProperties
<1> HIDE DEF v, n
<1>3. n + 1 \in 1..(n + 1) /\ \A i \in 1..n : i \in 1..(n + 1)
  BY <1>1
<1>4. Writes(v, x) /\ \A ind : Writes(w, ind) => Writes(v, ind)
  BY <1>1, <1>2, <1>3 DEF Writes
<1>5. ASSUME NEW i \in 1..(n + 1), v[i] = "%TAG"
      PROVE  \E j \in 1..(i - 1) : v[j] \in {"stream", "..."}
  <2>1. CASE i \in 1..n
    <3>1. PICK j \in 1..(i - 1) : w[j] \in {"stream", "..."}
      BY <1>1, <1>2, <1>5, <2>1 DEF DirectivesFollow
    <3>2. j \in 1..n
      BY <1>1, <2>1, <3>1
    <3> QED BY <1>2, <3>1, <3>2
  <2>2. CASE i = n + 1
    <3>1. PICK j \in 1..n : w[j] \in {"stream", "..."}
      BY <1>1, <1>2, <1>5, <2>2 DEF Writes
    <3>2. j \in 1..(i - 1)
      BY <1>1, <2>2, <3>1
    <3> QED BY <1>2, <3>1, <3>2
  <2> QED BY <1>1, <2>1, <2>2
<1>6. DirectivesFollow(v)
  BY <1>2, <1>5 DEF DirectivesFollow
<1> QED BY <1>2, <1>4, <1>6 DEF v

\* One more if c holds, as an emit_* function writes it.
More(w, c, x) == w \o (IF c THEN <<x>> ELSE <<>>)

LEMMA WritesIf ==
  ASSUME NEW w \in Seq(Indicators), DirectivesFollow(w), NEW c \in BOOLEAN, NEW x \in Indicators,
         x = "%TAG" /\ c => Writes(w, "stream") \/ Writes(w, "...")
  PROVE  /\ More(w, c, x) \in Seq(Indicators) /\ DirectivesFollow(More(w, c, x))
         /\ c => Writes(More(w, c, x), x)
         /\ \A ind : Writes(w, ind) => Writes(More(w, c, x), ind)
<1>1. CASE c
  <2>1. More(w, c, x) = Append(w, x)
    BY <1>1, AppendIsConcat DEF More
  <2> QED BY <1>1, <2>1, WritesMore
<1>2. CASE ~c
  <2>1. More(w, c, x) = w
    BY <1>2, ConcatEmptySeq DEF More
  <2> QED BY <1>2, <2>1
<1> QED BY <1>1, <1>2

LEMMA StreamStartKeeps ==
  ASSUME EmitterInv, emit_stream_start
  PROVE  EmitterInv'
<1>1. /\ at = "emitting" /\ Ready /\ state = "StreamStart" /\ First.type = "StreamStart" /\ Handled
      /\ state' = "FirstDocumentStart" /\ indent' = -1 /\ indention' = TRUE /\ openEnded' = 0
      /\ UNCHANGED <<states, indents, flowLevel, mappingContext, declared, written, kept>>
  BY DEF emit_stream_start, Handling
<1>2. /\ events' = Tail(events) /\ Tail(events) \in Seq(EventRecord)
      /\ UNCHANGED <<canonical, orderly, at>> /\ tagDirectives' = tagDirectives
  BY <1>1, QueueFacts DEF Handled, Restored, inputVars
<1>3. states = <<>> /\ flowLevel = 0 /\ indents = <<>>
  <2>1. state \notin FirstStates \cup Places
    BY <1>1, StateSets DEF Places
  <2> QED BY <1>1, <2>1, SettledFacts DEF EmitterInv, StacksShaped
<1>4. Nested(<<>>, Indentation')
  <2> DEFINE I == Append(indents, -1)
  <2>1. Indentation' = I
    BY <1>1 DEF Indentation
  <2>2. I \in Seq(Int) /\ Len(I) = Len(indents) + 1 /\ I[Len(indents) + 1] = -1
    BY <1>3, AppendFacts DEF EmitterInv, EmitterTypes
  <2> HIDE DEF I
  <2>3. Len(indents) = 0 /\ Len(<<>>) = 0
    BY <1>3, EmptySeq
  <2> QED BY <2>1, <2>2, <2>3 DEF Nested
<1>5. StacksShaped' /\ FirstsFit' /\ FirstsFilled'
  BY <1>1, <1>3, <1>4, BareStacks
<1>6. EmitterTypes'
  <2>1. state' \in EmitterState
    BY <1>1 DEF EmitterState
  <2> QED BY <1>1, <1>2, <2>1 DEF EmitterInv, EmitterTypes
<1>7. InScope' /\ at' # "panic"
  BY <1>1, <1>2 DEF InScope, Outside
<1>8. Delimited'
  BY <1>1 DEF EmitterInv, Delimited
<1> QED BY <1>5, <1>6, <1>7, <1>8 DEF EmitterInv

LEMMA DocumentStartKeeps ==
  ASSUME EmitterInv, emit_document_start
  PROVE  EmitterInv'
<1> DEFINE directives == First.look = "directives"
           w1 == More(written, Terminates, "...")
           w2 == More(w1, directives, "%TAG")
           w3 == More(w2, Explicit, "---")
<1>1. /\ at = "emitting" /\ Ready /\ state \in {"FirstDocumentStart", "DocumentStart"}
      /\ First.type = "DocumentStart" /\ Handled /\ written' = w3
      /\ indention' = (IF Explicit THEN canonical ELSE indention) /\ openEnded' = 0
      /\ state' = "DocumentContent" /\ declared' = DeclaredBy(First)
      /\ UNCHANGED <<states, indents, indent, flowLevel, mappingContext, kept>>
  BY DEF emit_document_start, Handling, More
<1>2. /\ events' = Tail(events) /\ Tail(events) \in Seq(EventRecord)
      /\ UNCHANGED <<canonical, orderly, at>> /\ tagDirectives' = DeclaredBy(First) \cup DefaultHandles
  BY <1>1, QueueFacts DEF Handled, Restored, inputVars
<1>3. states = <<>> /\ flowLevel = 0 /\ Nested(<<>>, Indentation) /\ Indentation' = Indentation
  <2>1. state \notin FirstStates \cup BegunStates /\ state # "StreamStart"
    BY <1>1, StateSets DEF Outside
  <2> QED BY <1>1, <2>1, BareFacts DEF Indentation
<1>4. StacksShaped' /\ FirstsFit' /\ FirstsFilled'
  BY <1>1, <1>3, BareStacks
<1>5. EmitterTypes'
  <2>1. state' \in EmitterState /\ indention' \in BOOLEAN
    BY <1>1 DEF EmitterInv, EmitterTypes, EmitterState
  <2> QED BY <1>1, <1>2, <2>1 DEF EmitterInv, EmitterTypes
<1>6. InScope' /\ at' # "panic"
  BY <1>1, <1>2 DEF InScope
<1>7. /\ w1 \in Seq(Indicators) /\ DirectivesFollow(w1) /\ (Terminates => Writes(w1, "..."))
      /\ \A ind : Writes(written, ind) => Writes(w1, ind)
  <2>1. written \in Seq(Indicators) /\ DirectivesFollow(written)
    BY DEF EmitterInv, Delimited
  <2>2. Terminates \in BOOLEAN /\ "..." \in Indicators /\ "..." # "%TAG"
    BY DEF Terminates, Indicators
  <2> HIDE DEF w1
  <2>3. w1 = More(written, Terminates, "...")
    BY DEF w1
  <2> QED BY <2>1, <2>2, <2>3, WritesIf
<1>8. Writes(w1, "stream") \/ Writes(w1, "...") \/ ~directives
  <2>1. CASE state = "FirstDocumentStart"
    BY <1>7, <2>1 DEF EmitterInv, Delimited
  <2>2. CASE state = "DocumentStart"
    BY <1>7, <2>2 DEF EmitterInv, Delimited, Terminates
  <2> QED BY <1>1, <2>1, <2>2
<1> HIDE DEF w1
<1>9. w2 \in Seq(Indicators) /\ DirectivesFollow(w2) /\ \A ind : Writes(w1, ind) => Writes(w2, ind)
  <2>1. directives \in BOOLEAN /\ "%TAG" \in Indicators
    BY DEF Indicators
  <2> HIDE DEF directives
  <2> QED BY <1>7, <1>8, <2>1, WritesIf
<1> HIDE DEF w2
<1>10. /\ w3 \in Seq(Indicators) /\ DirectivesFollow(w3) /\ (Explicit => Writes(w3, "---"))
       /\ \A ind : Writes(w2, ind) => Writes(w3, ind)
  <2>1. Explicit \in BOOLEAN /\ "---" \in Indicators /\ "---" # "%TAG"
    BY DEF Explicit, Indicators, EmitterInv, EmitterTypes
  <2> QED BY <1>9, <2>1, WritesIf
<1> HIDE DEF w3
<1>11. Writes(w3, "stream") \/ Writes(w3, "---")
  <2>1. CASE Explicit
    BY <1>10, <2>1
  <2>2. CASE ~Explicit
    <3>1. state = "FirstDocumentStart"
      BY <1>1, <2>2 DEF Explicit
    <3> QED BY <1>7, <1>9, <1>10, <3>1 DEF EmitterInv, Delimited
  <2> QED BY <2>1, <2>2
<1>12. Delimited'
  BY <1>1, <1>10, <1>11 DEF Delimited
<1> QED BY <1>4, <1>5, <1>6, <1>12 DEF EmitterInv

\* The end of the stream, and of a document, may write "...".
LEMMA StreamEndKeeps ==
  ASSUME EmitterInv, emit_stream_end
  PROVE  EmitterInv'
<1>1. /\ at = "emitting" /\ Ready /\ state \in {"FirstDocumentStart", "DocumentStart"}
      /\ First.type = "StreamEnd" /\ Handled /\ state' = "End"
      /\ UNCHANGED <<states, indents, indent, flowLevel, mappingContext, declared, kept>>
  BY DEF emit_stream_end, Handling
<1>2. /\ events' = Tail(events) /\ Tail(events) \in Seq(EventRecord)
      /\ UNCHANGED <<canonical, orderly, at>>
  BY <1>1, QueueFacts DEF Handled, inputVars
<1>3. states = <<>> /\ flowLevel = 0 /\ Nested(<<>>, Indentation) /\ Indentation' = Indentation
  <2>1. state \notin FirstStates \cup BegunStates /\ state # "StreamStart"
    BY <1>1, StateSets DEF Outside
  <2> QED BY <1>1, <2>1, BareFacts DEF Indentation
<1>4. StacksShaped' /\ FirstsFit' /\ FirstsFilled'
  BY <1>1, <1>3, BareStacks
<1>5. CASE openEnded = 2
  <2>1. written' = Append(written, "...") /\ openEnded' = 0 /\ indention' = TRUE
    BY <1>5 DEF emit_stream_end
  <2>2. EmitterTypes'
    BY <1>1, <1>2, <2>1 DEF EmitterInv, EmitterTypes, EmitterState
  <2>3. written' \in Seq(Indicators) /\ DirectivesFollow(written') /\ Writes(written', "...")
    <3>1. written \in Seq(Indicators) /\ DirectivesFollow(written) /\ "..." \in Indicators
      BY DEF EmitterInv, Delimited, Indicators
    <3>2. "..." # "%TAG"
      OBVIOUS
    <3> QED BY <2>1, <3>1, <3>2, WritesMore
  <2>4. Delimited'
    BY <1>1, <2>1, <2>3 DEF Delimited
  <2> QED BY <1>1, <1>2, <1>4, <2>2, <2>4 DEF EmitterInv, InScope, Outside
<1>6. CASE openEnded # 2
  <2>1. UNCHANGED <<written, openEnded, indention>>
    BY <1>6 DEF emit_stream_end
  <2>2. EmitterTypes'
    BY <1>1, <1>2, <2>1 DEF EmitterInv, EmitterTypes, EmitterState
  <2>3. Delimited'
    BY <1>1, <1>6, <2>1 DEF EmitterInv, Delimited
  <2> QED BY <1>1, <1>2, <1>4, <2>2, <2>3 DEF EmitterInv, InScope, Outside
<1> QED BY <1>5, <1>6

LEMMA DocumentEndKeeps ==
  ASSUME EmitterInv, emit_document_end
  PROVE  EmitterInv'
<1>1. /\ at = "emitting" /\ Ready /\ state = "DocumentEnd" /\ First.type = "DocumentEnd" /\ Handled
      /\ state' = "DocumentStart" /\ indention' = TRUE
      /\ UNCHANGED <<states, indents, indent, flowLevel, mappingContext, declared, kept>>
  BY DEF emit_document_end, Handling
<1>2. /\ events' = Tail(events) /\ Tail(events) \in Seq(EventRecord)
      /\ UNCHANGED <<canonical, orderly, at>>
  BY <1>1, QueueFacts DEF Handled, inputVars
<1>3. states = <<>> /\ flowLevel = 0 /\ Nested(<<>>, Indentation) /\ Indentation' = Indentation
  <2>1. state \notin FirstStates \cup BegunStates /\ state # "StreamStart"
    BY <1>1, StateSets
  <2> QED BY <1>1, <2>1, BareFacts DEF Indentation
<1>4. StacksShaped' /\ FirstsFit' /\ FirstsFilled'
  BY <1>1, <1>3, BareStacks
<1>5. CASE First.look = "explicit"
  <2>1. written' = Append(written, "...") /\ openEnded' = 0
    BY <1>5 DEF emit_document_end
  <2>2. EmitterTypes'
    BY <1>1, <1>2, <2>1 DEF EmitterInv, EmitterTypes, EmitterState
  <2>3. written' \in Seq(Indicators) /\ DirectivesFollow(written') /\ Writes(written', "...")
    <3>1. written \in Seq(Indicators) /\ DirectivesFollow(written) /\ "..." \in Indicators
      BY DEF EmitterInv, Delimited, Indicators
    <3>2. "..." # "%TAG"
      OBVIOUS
    <3> QED BY <2>1, <3>1, <3>2, WritesMore
  <2>4. Delimited'
    BY <1>1, <2>1, <2>3 DEF Delimited
  <2> QED BY <1>1, <1>2, <1>4, <2>2, <2>4 DEF EmitterInv, InScope, Outside
<1>6. CASE First.look # "explicit"
  <2>1. openEnded' = (IF openEnded = 0 THEN 1 ELSE openEnded) /\ UNCHANGED written
    BY <1>6 DEF emit_document_end
  <2>2. openEnded' \in {1, 2} /\ (openEnded = 2 => openEnded' = 2)
    BY <2>1 DEF EmitterInv, EmitterTypes
  <2>3. EmitterTypes'
    BY <1>1, <1>2, <2>2 DEF EmitterInv, EmitterTypes, EmitterState
  <2>4. Delimited'
    BY <1>1, <2>1, <2>2 DEF EmitterInv, Delimited
  <2> QED BY <1>1, <1>2, <1>4, <2>3, <2>4 DEF EmitterInv, InScope, Outside
<1> QED BY <1>5, <1>6

-----------------------------------------------------------------------------
\* The calls: emit() queues an event, and a call ends, for good or with an error.
LEMMA LooksKnown ==
  ASSUME EmitterInv, NEW type \in Types
  PROVE  Looks(type) \subseteq AllLooks
<1>1. orderly \in BOOLEAN
  BY DEF EmitterInv, EmitterTypes
<1>2. ScalarLooks[orderly] \subseteq AllLooks /\ CollectionLooks[orderly] \subseteq AllLooks
  BY <1>1, EmitterAssumption DEF AllLooks
<1>3. DocumentLooks[orderly] \subseteq AllLooks
  BY <1>1, EmitterAssumption DEF AllLooks
<1>4. "" \in AllLooks
  BY DEF AllLooks
<1> QED BY <1>2, <1>3, <1>4 DEF Looks, Types

\* What depends on the stacks alone.
StackPart == StacksShaped /\ FirstsFit /\ InScope /\ Delimited

LEMMA StackPartKept ==
  EmitterInv /\ UNCHANGED <<stackVars, contextVars, openEnded, tagDirectives, historyVars>> => StackPart'
<1> SUFFICES ASSUME EmitterInv,
                    UNCHANGED <<stackVars, contextVars, openEnded, tagDirectives, historyVars>>
             PROVE  StackPart'
  OBVIOUS
<1>1. UNCHANGED <<state, states, indents, indent, flowLevel, mappingContext, openEnded, tagDirectives,
                  declared, written, kept>>
  BY DEF stackVars, contextVars, historyVars
<1>2. Settled' = Settled /\ Indentation' = Indentation
  BY <1>1 DEF Settled, AllStates, Indentation
<1>3. StacksShaped' /\ FirstsFit'
  BY <1>1, <1>2 DEF EmitterInv, StacksShaped, FirstsFit
<1>4. InScope' /\ Delimited'
  BY <1>1 DEF EmitterInv, InScope, Delimited
<1> QED BY <1>3, <1>4 DEF StackPart

LEMMA TypesKept ==
  EmitterInv /\ UNCHANGED <<canonical, orderly, stackVars, contextVars, openEnded, historyVars>>
  /\ events' \in Seq(EventRecord) /\ at' \in {"idle", "emitting", "refused", "broken"}
  => EmitterTypes' /\ at' # "panic"
BY DEF EmitterInv, EmitterTypes, stackVars, contextVars, historyVars

LEMMA EmitKeeps ==
  ASSUME EmitterInv, emit
  PROVE  EmitterInv'
<1>1. PICK type \in Types : \E look \in Looks(type) : events' = Append(events, [type |-> type, look |-> look])
  BY DEF emit
<1>2. PICK look \in Looks(type) : events' = Append(events, [type |-> type, look |-> look])
  BY <1>1
<1> DEFINE e == [type |-> type, look |-> look]
<1>3. /\ at = "idle" /\ at' = "emitting"
      /\ UNCHANGED <<canonical, stackVars, contextVars, openEnded, tagDirectives, orderly, historyVars>>
  BY DEF emit
<1>4. e \in EventRecord
  BY <1>1, <1>2, LooksKnown DEF EventRecord
<1>5. events \in Seq(EventRecord) /\ events' = Append(events, e)
  BY <1>2 DEF EmitterInv, EmitterTypes
<1> HIDE DEF e
<1>6. events' \in Seq(EventRecord) /\ (events # <<>> => events' # <<>> /\ Head(events') = Head(events))
  <2>1. /\ events' \in Seq(EventRecord) /\ events' # <<>> /\ Len(events') = Len(events) + 1
        /\ \A i \in 1..Len(events) : events'[i] = events[i]
    BY <1>4, <1>5, AppendFacts
  <2>2. ASSUME events # <<>> PROVE Head(events') = Head(events)
    <3>1. Len(events) \in Nat \ {0}
      BY <1>5, <2>2, EmptySeq
    <3>2. 1 \in 1..Len(events)
      BY <3>1
    <3>3. Head(events) = events[1] /\ Head(events') = events'[1]
      BY <1>5, <2>1, <2>2, HeadTailProperties
    <3> QED BY <2>1, <3>2, <3>3
  <2> QED BY <2>1, <2>2
<1>7. FirstsFilled'
  <2>1. state' = state
    BY <1>3 DEF stackVars
  <2> QED BY <1>3, <1>6, <2>1 DEF EmitterInv, FirstsFilled, First
<1>8. EmitterTypes' /\ at' # "panic"
  BY <1>3, <1>6, TypesKept
<1>9. StackPart'
  BY <1>3, StackPartKept
<1> QED BY <1>7, <1>8, <1>9 DEF EmitterInv, StackPart

LEMMA ReturnKeeps ==
  ASSUME EmitterInv, Return
  PROVE  EmitterInv'
<1>1. /\ at = "emitting" /\ at' = "idle"
      /\ UNCHANGED <<canonical, stackVars, contextVars, openEnded, tagDirectives, events, orderly,
                     historyVars>>
  BY DEF Return, inputVars
<1>2. FirstsFilled'
  <2>1. state' = state /\ events' = events
    BY <1>1 DEF stackVars
  <2> QED BY <1>1, <2>1 DEF EmitterInv, FirstsFilled, First
<1>3. events' \in Seq(EventRecord)
  BY <1>1 DEF EmitterInv, EmitterTypes
<1>4. EmitterTypes' /\ at' # "panic"
  BY <1>1, <1>3, TypesKept
<1>5. StackPart'
  BY <1>1, StackPartKept
<1> QED BY <1>2, <1>4, <1>5 DEF EmitterInv, StackPart

LEMMA StopKeeps ==
  ASSUME EmitterInv, Ready, NEW how \in {"refused", "broken"}, Stop(how)
  PROVE  EmitterInv'
<1>1. /\ at' = how /\ events' = Tail(events)
      /\ UNCHANGED <<canonical, stackVars, contextVars, openEnded, tagDirectives, orderly, historyVars>>
  BY DEF Stop, inputVars
<1>2. events' \in Seq(EventRecord)
  BY <1>1, QueueFacts
<1>3. EmitterTypes' /\ at' # "panic"
  BY <1>1, <1>2, TypesKept
<1>4. StackPart'
  BY <1>1, StackPartKept
<1>5. FirstsFilled'
  BY <1>1 DEF FirstsFilled
<1> QED BY <1>3, <1>4, <1>5 DEF EmitterInv, StackPart

\* A new emitter, and one that starts over.
Fresh ==
  /\ canonical \in BOOLEAN /\ orderly \in BOOLEAN
  /\ state = "StreamStart" /\ states = <<>> /\ events = <<>>
  /\ indents = <<>> /\ indent = 0 /\ flowLevel = 0
  /\ mappingContext = FALSE /\ indention = FALSE
  /\ openEnded = 0 /\ at = "idle" /\ written = <<"stream">> /\ kept = FALSE

LEMMA FreshInv == Fresh => EmitterInv
<1> SUFFICES ASSUME Fresh PROVE EmitterInv
  OBVIOUS
<1>1. state \notin FirstStates \cup Places /\ state \in Outside /\ state \in EmitterState
  BY StateSets DEF Fresh, Places
<1>2. EmitterTypes
  <2>1. <<>> \in Seq(Places) /\ <<>> \in Seq(EventRecord) /\ <<>> \in Seq(Int)
    OBVIOUS
  <2>2. states \in Seq(Places) /\ events \in Seq(EventRecord) /\ indents \in Seq(Int)
    BY <2>1 DEF Fresh
  <2>3. openEnded \in {0, 1, 2} /\ flowLevel \in Nat /\ indent \in Int
    BY DEF Fresh
  <2>4. canonical \in BOOLEAN /\ orderly \in BOOLEAN /\ state \in EmitterState
    BY <1>1 DEF Fresh
  <2>5. mappingContext \in BOOLEAN /\ indention \in BOOLEAN /\ kept \in BOOLEAN
    BY DEF Fresh
  <2>6. at \in {"idle", "emitting", "refused", "broken", "panic"}
    BY DEF Fresh
  <2> QED BY <2>2, <2>3, <2>4, <2>5, <2>6 DEF EmitterTypes
<1>3. StacksShaped
  <2>1. Shaped(<<>>)
    BY DEF Shaped
  <2>2. Levels(<<>>, 0)
    BY CountFacts, EmptySeq DEF Levels
  <2>3. Settled = <<>>
    BY <1>1 DEF Settled
  <2> QED BY <1>1, <2>1, <2>2, <2>3 DEF Fresh, StacksShaped, Places
<1>4. FirstsFit /\ FirstsFilled /\ InScope
  BY <1>1 DEF Fresh, FirstsFit, FirstsFilled, InScope, FirstStates
<1>5. Delimited
  <2> DEFINE w == <<"stream">>
  <2>1. w \in Seq(Indicators) /\ 1 \in DOMAIN w /\ w[1] = "stream" /\ \A i \in DOMAIN w : w[i] = "stream"
    BY DEF Indicators
  <2> HIDE DEF w
  <2>2. DirectivesFollow(w) /\ Writes(w, "stream")
    BY <2>1 DEF DirectivesFollow, Writes
  <2>3. written = w
    BY DEF Fresh, w
  <2> QED BY <2>1, <2>2, <2>3 DEF Fresh, Delimited
<1> QED BY <1>2, <1>3, <1>4, <1>5 DEF Fresh, EmitterInv

LEMMA ResetKeeps ==
  ASSUME EmitterInv, reset
  PROVE  EmitterInv'
<1>1. Fresh'
  BY DEF reset, Fresh, EmitterInv, EmitterTypes
<1> QED BY <1>1, FreshInv, PTL

LEMMA StutterKeeps == EmitterInv /\ UNCHANGED emitterVars => EmitterInv'
<1> SUFFICES ASSUME EmitterInv, UNCHANGED emitterVars PROVE EmitterInv'
  OBVIOUS
<1>1. /\ UNCHANGED <<canonical, orderly, stackVars, contextVars, openEnded, tagDirectives, events, at,
                     historyVars>>
  BY DEF emitterVars, inputVars
<1>2. StackPart'
  BY <1>1, StackPartKept
<1>3. FirstsFilled'
  <2>1. state' = state /\ events' = events /\ at' = at
    BY <1>1 DEF stackVars
  <2> QED BY <2>1 DEF EmitterInv, FirstsFilled, First
<1>4. EmitterTypes' /\ at' # "panic"
  <2>1. events' \in Seq(EventRecord) /\ at' \in {"idle", "emitting", "refused", "broken"}
    BY <1>1 DEF EmitterInv, EmitterTypes
  <2> QED BY <1>1, <2>1, TypesKept
<1> QED BY <1>2, <1>3, <1>4 DEF EmitterInv, StackPart

\* Every action keeps the invariant.
LEMMA EmitterStep == EmitterInv /\ [EmitterNext]_emitterVars => EmitterInv'
<1> SUFFICES ASSUME EmitterInv, [EmitterNext]_emitterVars PROVE EmitterInv'
  OBVIOUS
<1>1. CASE emit_stream_start
  BY <1>1, StreamStartKeeps
<1>2. CASE emit_document_start
  BY <1>2, DocumentStartKeeps
<1>3. CASE emit_stream_end
  BY <1>3, StreamEndKeeps
<1>4. CASE emit_document_end
  BY <1>4, DocumentEndKeeps
<1>5. CASE emit_document_content
  BY <1>5, DocumentContentKeeps
<1>6. CASE emit_flow_sequence_item
  BY <1>6, FlowSequenceItemKeeps
<1>7. CASE emit_flow_mapping_key
  BY <1>7, FlowMappingKeyKeeps
<1>8. CASE emit_flow_mapping_value
  BY <1>8, FlowMappingValueKeeps
<1>9. CASE emit_block_sequence_item
  BY <1>9, BlockSequenceItemKeeps
<1>10. CASE emit_block_mapping_key
  BY <1>10, BlockMappingKeyKeeps
<1>11. CASE emit_block_mapping_value
  BY <1>11, BlockMappingValueKeeps
<1>12. CASE \/ emit_flow_sequence_end \/ emit_flow_mapping_end
            \/ emit_block_sequence_end \/ emit_block_mapping_end
  BY <1>12, CollectionEndKeeps
<1>13. CASE emit
  BY <1>13, EmitKeeps
<1>14. CASE Return
  BY <1>14, ReturnKeeps
<1>15. CASE Refuses \/ Breaks
  BY <1>15, StopKeeps DEF Refuses, Breaks
<1>16. CASE reset
  BY <1>16, ResetKeeps
<1>17. CASE UNCHANGED emitterVars
  BY <1>17, StutterKeeps
<1> QED BY <1>1, <1>2, <1>3, <1>4, <1>5, <1>6, <1>7, <1>8, <1>9, <1>10, <1>11, <1>12, <1>13, <1>14,
           <1>15, <1>16, <1>17 DEF EmitterNext, state_machine

\* The inductive invariant holds in every state the emitter reaches.
THEOREM EmitterInvariant == EmitterSpec => []EmitterInv
<1>1. EmitterInit => EmitterInv
  <2>1. EmitterInit => Fresh
    BY DEF EmitterInit, Fresh
  <2> QED BY <2>1, FreshInv
<1> QED BY <1>1, EmitterStep, PTL DEF EmitterSpec

-----------------------------------------------------------------------------
\* EmitterNeverPanics: whatever events are given, no stack is popped that is
\* empty, in the handlers of the ends of collections.
THEOREM NoStackUnderflows == EmitterSpec => []EmitterNeverPanics
<1>1. EmitterInv => EmitterNeverPanics
  BY DEF EmitterInv, EmitterNeverPanics
<1> QED BY <1>1, EmitterInvariant, PTL

\* The collections that have been begun are those above the document.
LEMMA BegunFacts ==
  ASSUME EmitterInv
  PROVE  /\ Begun = 2..Len(Settled)
         /\ BegunFlow = {i \in 1..Len(Settled) : Settled[i] \in FlowStates}
         /\ Len(Settled) \in Nat
         /\ \A i \in 1..Len(Settled) : i \in DOMAIN AllStates /\ AllStates[i] = Settled[i]
<1>1. /\ states \in Seq(Places) /\ Shaped(Settled) /\ Settled \in Seq(Places)
      /\ Len(Settled) \in Nat /\ DOMAIN Settled = 1..Len(Settled) /\ Len(states) \in Nat
  <2>1. states \in Seq(Places) /\ Shaped(Settled) /\ Settled \in Seq(Places)
    BY SettledFacts DEF Shaped
  <2> QED BY <2>1, LenProperties
<1> DEFINE n == Len(states)
<1>2. /\ DOMAIN AllStates = 1..(n + 1) /\ AllStates[n + 1] = state
      /\ \A i \in 1..n : AllStates[i] = states[i]
  <2>1. states \in Seq(EmitterState) /\ state \in EmitterState
    <3>1. \A i \in 1..n : states[i] \in EmitterState
      BY <1>1, ElementOfSeq, StateSets DEF Places
    <3>2. states \in Seq(EmitterState)
      BY <1>1, <3>1, SeqDef
    <3> QED BY <3>2 DEF EmitterInv, EmitterTypes
  <2>2. /\ AllStates \in Seq(EmitterState) /\ Len(AllStates) = n + 1 /\ AllStates[n + 1] = state
        /\ \A i \in 1..n : AllStates[i] = states[i]
    BY <2>1, AppendFacts DEF AllStates
  <2> QED BY <2>2, LenProperties
<1>3. /\ \A i \in 1..Len(Settled) : i \in DOMAIN AllStates /\ AllStates[i] = Settled[i]
      /\ \A i \in 1..(n + 1) : i \notin 1..Len(Settled) => AllStates[i] \notin BegunStates
  <2>1. CASE state \in FirstStates
    <3>1. Settled = states /\ Len(Settled) = n
      BY <2>1, SettledFacts
    <3>2. \A i \in 1..n : i \in 1..(n + 1)
      BY <1>1
    <3>3. \A i \in 1..(n + 1) : i \notin 1..n => i = n + 1
      BY <1>1
    <3> QED BY <1>2, <2>1, <3>1, <3>2, <3>3, StateSets
  <2>2. CASE state \in Places
    <3>1. Settled = AllStates
      BY <2>2, StateSets DEF Settled, Places
    <3>2. DOMAIN AllStates = 1..Len(Settled)
      BY <1>1, <3>1
    <3> QED BY <1>2, <3>1, <3>2
  <2>3. CASE state \notin FirstStates \cup Places
    <3>1. Settled = <<>> /\ states = <<>>
      BY <2>3, SettledFacts
    <3>2. Len(Settled) = 0 /\ n = 0
      BY <3>1, EmptySeq
    <3>3. \A i \in 1..(n + 1) : i = n + 1
      BY <3>2
    <3> QED BY <1>2, <2>3, <3>2, <3>3 DEF Places
  <2> QED BY <2>1, <2>2, <2>3
<1>4. \A i \in 1..Len(Settled) : Settled[i] \in BegunStates <=> i # 1
  <2>1. "DocumentEnd" \notin BegunStates
    BY StateSets
  <2>2. \A i \in 1..Len(Settled) : Settled[i] \in Places /\ (Settled[i] = "DocumentEnd" <=> i = 1)
    BY <1>1, ElementOfSeq DEF Shaped
  <2> QED BY <2>1, <2>2 DEF Places
<1>5. \A i : i \in Begun <=> i \in 1..Len(Settled) /\ i # 1
  BY <1>2, <1>3, <1>4 DEF Begun, BegunStates
<1>6. \A i : i \in 2..Len(Settled) <=> i \in 1..Len(Settled) /\ i # 1
  BY <1>1
<1>7. Begun = 2..Len(Settled)
  BY <1>5, <1>6
<1>8. BegunFlow = {i \in 1..Len(Settled) : Settled[i] \in FlowStates}
  <2>1. \A i \in 1..Len(Settled) : Settled[i] \in FlowStates => i # 1
    BY <1>4 DEF BegunStates
  <2> QED BY <1>3, <1>5, <2>1 DEF BegunFlow
<1> QED BY <1>1, <1>3, <1>7, <1>8

\* StacksAgree: the stack of indentations and the flow level are those of the
\* collections begun, and block collections are not begun in flow collections.
THEOREM StacksAlwaysAgree == EmitterSpec => []StacksAgree
<1>1. EmitterInv => StacksAgree
  <2> SUFFICES ASSUME EmitterInv PROVE StacksAgree
    OBVIOUS
  <2>1. Begun = 2..Len(Settled) /\ Len(Settled) \in Nat
    BY BegunFacts
  <2>2. BegunFlow = {i \in 1..Len(Settled) : Settled[i] \in FlowStates}
    BY BegunFacts
  <2>3. Len(indents) = Cardinality(Begun)
    <3>1. Cardinality(Begun) = IF 2 > Len(Settled) THEN 0 ELSE Len(Settled) - 1
      BY <2>1, FS_Interval
    <3>2. Len(Settled) = 0 <=> Settled = <<>>
      BY SettledFacts, EmptySeq DEF Shaped
    <3>3. CASE state = "StreamStart"
      <4>1. indents = <<>> /\ Settled = <<>>
        <5>1. state \notin FirstStates \cup Places
          BY <3>3, StateSets DEF Places
        <5> QED BY <3>3, <5>1, SettledFacts DEF EmitterInv, StacksShaped
      <4> QED BY <3>1, <3>2, <4>1, EmptySeq
    <3>4. CASE state # "StreamStart"
      <4>1. Len(indents) + 1 = IF Settled = <<>> THEN 1 ELSE Len(Settled)
        BY <3>4, SettledFacts, IndentationFacts DEF Nested
      <4>2. Len(indents) \in Nat
        BY LenProperties DEF EmitterInv, EmitterTypes
      <4> QED BY <2>1, <3>1, <3>2, <4>1, <4>2
    <3> QED BY <3>3, <3>4
  <2>4. flowLevel = Cardinality(BegunFlow)
    BY <2>2, SettledFacts DEF Levels, CountIn
  <2>5. ASSUME NEW i \in BegunFlow, NEW j \in Begun, i < j PROVE j \in BegunFlow
    <3>1. i \in 1..Len(Settled) /\ j \in 1..Len(Settled) /\ Settled[i] \in FlowStates
      BY <2>1, <2>2, <2>5
    <3>2. DOMAIN Settled = 1..Len(Settled)
      BY SettledFacts, LenProperties DEF Shaped
    <3>3. Settled[j] \in FlowStates
      BY <2>5, <3>1, <3>2, SettledFacts DEF Levels
    <3> QED BY <2>2, <3>1, <3>3
  <2> QED BY <2>3, <2>4, <2>5 DEF StacksAgree
<1> QED BY <1>1, EmitterInvariant, PTL

\* IndentsNest: a collection is indented further than the one that holds it,
\* or is a block sequence in a mapping, in the columns of its keys.
THEOREM IndentsAlwaysNest == EmitterSpec => []IndentsNest
<1>1. EmitterInv => IndentsNest
  <2> SUFFICES ASSUME EmitterInv, state # "StreamStart"
               PROVE  /\ Indentation[1] = -1
                      /\ \A i \in Begun :
                           \/ Indentation[i] > Indentation[i - 1]
                           \/ /\ AllStates[i] = "BlockSequenceItem"
                              /\ i - 1 \in Begun /\ ~SequenceState(AllStates[i - 1])
                              /\ Indentation[i] = Indentation[i - 1]
    BY DEF IndentsNest
  <2>1. Begun = 2..Len(Settled) /\ Len(Settled) \in Nat
    BY BegunFacts
  <2>2. Nested(Settled, Indentation)
    BY SettledFacts
  <2>3. ASSUME NEW i \in Begun
        PROVE  \/ Indentation[i] > Indentation[i - 1]
               \/ /\ AllStates[i] = "BlockSequenceItem"
                  /\ i - 1 \in Begun /\ ~SequenceState(AllStates[i - 1])
                  /\ Indentation[i] = Indentation[i - 1]
    <3>1. i \in 2..Len(Settled) /\ i \in 1..Len(Settled) /\ i - 1 \in 1..Len(Settled)
      BY <2>1
    <3>2. AllStates[i] = Settled[i] /\ AllStates[i - 1] = Settled[i - 1] /\ i - 1 \in DOMAIN AllStates
      BY <3>1, BegunFacts
    <3>3. Further(Settled[i], Settled[i - 1], Indentation[i], Indentation[i - 1])
      BY <2>2, <3>1 DEF Nested
    <3> QED BY <3>2, <3>3 DEF Further, Begun, BegunStates
  <2> QED BY <2>2, <2>3 DEF Nested
<1> QED BY <1>1, EmitterInvariant, PTL

\* NoEmptyBlock: no collection is begun in block style that the next event
\* ends: check_empty_sequence() and check_empty_mapping() see enough of the queue.
THEOREM BlocksHaveContent == EmitterSpec => []NoEmptyBlock
<1>1. EmitterInv => NoEmptyBlock
  BY DEF EmitterInv, FirstsFilled, NoEmptyBlock
<1> QED BY <1>1, EmitterInvariant, PTL

\* DirectivesInScope: the handles tags are written with are those of the
\* open document, with the default ones.
THEOREM DirectivesStayInScope == EmitterSpec => []DirectivesInScope
<1>1. EmitterInv => DirectivesInScope
  BY DEF EmitterInv, InScope, DirectivesInScope
<1> QED BY <1>1, EmitterInvariant, PTL

\* DocumentsDelimited: the indicators written between documents tell where
\* one ends and whose the directives are.
THEOREM DocumentsAlwaysDelimited == EmitterSpec => []DocumentsDelimited
<1>1. EmitterInv => DocumentsDelimited
  <2> SUFFICES ASSUME Delimited PROVE DocumentsDelimited
    BY DEF EmitterInv
  <2>1. \A i \in DOMAIN written : written[i] = "%TAG" => \E j \in 1..(i - 1) : written[j] \in {"stream", "..."}
    BY DEF Delimited, DirectivesFollow
  <2>2. state = "DocumentContent" => \E i \in DOMAIN written : written[i] \in {"stream", "---"}
    BY DEF Delimited, Writes
  <2>3. state = "End" /\ kept => \E i \in DOMAIN written : written[i] = "..."
    BY DEF Delimited, Writes
  <2> QED BY <2>1, <2>2, <2>3 DEF DocumentsDelimited
<1> QED BY <1>1, EmitterInvariant, PTL

-----------------------------------------------------------------------------
\* The frames of the grammar that a stack of states stands for.
Frames(S) == [i \in DOMAIN S |-> FrameOf(S[i])]

LEMMA FramesPushed ==
  ASSUME NEW S \in Seq(EmitterState), NEW s \in EmitterState
  PROVE  /\ Frames(S) \in Seq(Grammar!Frame) /\ FrameOf(s) \in Grammar!Frame
         /\ Frames(Append(S, s)) = Append(Frames(S), FrameOf(s))
<1> DEFINE n == Len(S)
           T == Append(S, s)
           F == Frames(S)
           G == Frames(T)
           H == Append(F, FrameOf(s))
<1>1. n \in Nat /\ DOMAIN S = 1..n
  BY LenProperties
<1>2. /\ T \in Seq(EmitterState) /\ Len(T) = n + 1 /\ DOMAIN T = 1..(n + 1) /\ T[n + 1] = s
      /\ \A i \in 1..n : T[i] = S[i]
  <2>1. T \in Seq(EmitterState) /\ Len(T) = n + 1 /\ T[n + 1] = s /\ \A i \in 1..n : T[i] = S[i]
    BY AppendFacts
  <2> HIDE DEF T
  <2> QED BY <2>1, LenProperties
<1>3. \A x : FrameOf(x) \in Grammar!Frame
  BY DEF FrameOf, Grammar!Frame
<1> HIDE DEF T
<1>4. /\ F \in Seq(Grammar!Frame) /\ Len(F) = n /\ \A i \in 1..n : F[i] = FrameOf(S[i])
  <2>1. F = [i \in 1..n |-> FrameOf(S[i])]
    BY <1>1 DEF Frames
  <2>2. F \in [1..n -> Grammar!Frame]
    BY <1>3, <2>1
  <2>3. F \in Seq(Grammar!Frame)
    BY <1>1, <2>2, SeqDef
  <2>4. DOMAIN F = 1..n
    BY <2>1
  <2>5. Len(F) = n
    BY <1>1, <2>3, <2>4, LenProperties
  <2> QED BY <2>1, <2>3, <2>5
<1>5. /\ G \in Seq(Grammar!Frame) /\ Len(G) = n + 1 /\ \A i \in 1..(n + 1) : G[i] = FrameOf(T[i])
  <2>1. G = [i \in 1..(n + 1) |-> FrameOf(T[i])]
    BY <1>2 DEF Frames
  <2>2. G \in [1..(n + 1) -> Grammar!Frame]
    BY <1>3, <2>1
  <2>3. G \in Seq(Grammar!Frame)
    BY <1>1, <2>2, SeqDef
  <2>4. DOMAIN G = 1..(n + 1)
    BY <2>1
  <2>5. Len(G) = n + 1
    BY <1>1, <2>3, <2>4, LenProperties
  <2> QED BY <2>1, <2>3, <2>5
<1> HIDE DEF F, G
<1>6. /\ H \in Seq(Grammar!Frame) /\ Len(H) = n + 1 /\ H[n + 1] = FrameOf(s)
      /\ \A i \in 1..n : H[i] = F[i]
  BY <1>3, <1>4, AppendFacts
<1> HIDE DEF H
<1>7. \A i \in 1..(n + 1) : G[i] = H[i]
  <2>1. \A i \in 1..(n + 1) : i \in 1..n \/ i = n + 1
    BY <1>1
  <2> QED BY <1>2, <1>4, <1>5, <1>6, <2>1
<1>8. G = H
  BY <1>5, <1>6, <1>7, SeqEqual
<1> QED BY <1>3, <1>4, <1>8 DEF F, G, H, T

\* The open frames are those of the stack and of the state.
OpenKnown ==
  /\ states \in Seq(EmitterState) /\ state \in EmitterState
  /\ Stopped \/ state \in Outside => OpenFrames = <<>>
  /\ ~Stopped /\ state \notin Outside =>
       /\ OpenFrames = Append(Frames(states), FrameOf(state))
       /\ OpenFrames # <<>> /\ Last(OpenFrames) = FrameOf(state) /\ Front(OpenFrames) = Frames(states)
  /\ ~Stopped /\ state \notin {"StreamStart", "End"} => StreamPhase = "stream"

LEMMA OpenFacts == EmitterInv => OpenKnown
<1> SUFFICES ASSUME EmitterInv PROVE OpenKnown
  OBVIOUS
<1>1. states \in Seq(EmitterState) /\ state \in EmitterState
  <2>1. states \in Seq(Places) /\ state \in EmitterState /\ Len(states) \in Nat
    BY LenProperties DEF EmitterInv, EmitterTypes
  <2>2. \A i \in 1..Len(states) : states[i] \in EmitterState
    BY <2>1, ElementOfSeq, StateSets DEF Places
  <2> QED BY <2>1, <2>2, SeqDef
<1>2. CASE Stopped
  BY <1>1, <1>2 DEF OpenKnown, OpenFrames
<1>3. CASE ~Stopped /\ state \in Outside
  <2>1. states = <<>>
    <3>1. state \notin FirstStates \cup Places
      BY <1>3, StateSets DEF Places
    <3> QED BY <3>1, SettledFacts
  <2>2. OpenFrames = [i \in DOMAIN <<>> |-> FrameOf(<<>>[i])]
    BY <1>3, <2>1 DEF OpenFrames, OpenStates
  <2>3. OpenFrames = <<>>
    BY <2>2
  <2>4. state \notin {"StreamStart", "End"} => StreamPhase = "stream"
    BY <1>3 DEF StreamPhase
  <2> QED BY <1>1, <1>3, <2>3, <2>4 DEF OpenKnown
<1>4. CASE ~Stopped /\ state \notin Outside
  <2>1. OpenFrames = Append(Frames(states), FrameOf(state))
    <3>1. OpenFrames = Frames(Append(states, state))
      BY <1>4 DEF OpenFrames, OpenStates, AllStates, Frames
    <3> QED BY <1>1, <3>1, FramesPushed
  <2>2. Frames(states) \in Seq(Grammar!Frame) /\ FrameOf(state) \in Grammar!Frame
    BY <1>1, FramesPushed
  <2>3. StreamPhase = "stream"
    BY <1>4 DEF StreamPhase, Outside
  <2> QED BY <1>1, <1>4, <2>1, <2>2, <2>3, AppendFacts DEF OpenKnown
<1> QED BY <1>2, <1>3, <1>4

LEMMA NodeWritten ==
  ASSUME EmitterInv, EmitterInv', at = "emitting", at' = "emitting", state \notin Outside,
         First.type \in Nodes, handled' = First.type,
         NEW return \in Places, NEW level, NEW mapping, NEW simple, NEW indented,
         emit_node(return, level, mapping, simple, indented),
         FrameOf(state) # "closed", FrameOf(return) = Grammar!Advance[FrameOf(state)]
  PROVE  Grammar!GrammarNext
<1>1. ~Stopped /\ ~Stopped'
  BY DEF Stopped
<1>2. OpenKnown /\ OpenKnown'
  BY OpenFacts, PTL
<1>3. return \in EmitterState /\ return \notin Outside
  BY StateSets DEF Places
<1>4. /\ StreamPhase = "stream" /\ Grammar!ExpectsNode
      /\ Grammar!AfterNode = Append(Frames(states), FrameOf(return))
  <2>1. state \notin {"StreamStart", "End"}
    BY DEF Outside
  <2>2. /\ OpenFrames # <<>> /\ Last(OpenFrames) = FrameOf(state) /\ Front(OpenFrames) = Frames(states)
        /\ StreamPhase = "stream"
    BY <1>1, <1>2, <2>1 DEF OpenKnown
  <2>3. Grammar!ExpectsNode
    BY <2>2 DEF Grammar!ExpectsNode, Grammar!Last, Last
  <2>4. Grammar!AfterNode = Append(Frames(states), FrameOf(return))
    BY <2>2 DEF Grammar!AfterNode, Grammar!Last, Last, Grammar!Front, Front
  <2> QED BY <2>2, <2>3, <2>4
<1>5. CASE First.type \notin Openers
  <2>1. states' = states /\ state' = return
    BY <1>5 DEF emit_node
  <2>2. StreamPhase' = "stream" /\ OpenFrames' = Append(Frames(states), FrameOf(return))
    <3>1. state' \notin {"StreamStart", "End"}
      BY <1>3, <2>1 DEF Outside
    <3> QED BY <1>1, <1>2, <1>3, <2>1, <3>1 DEF OpenKnown
  <2>3. First.type \in {"Alias", "Scalar"}
    BY <1>5 DEF Nodes
  <2>4. Grammar!Leaf
    BY <1>1, <1>4, <2>2, <2>3 DEF Grammar!Leaf
  <2> QED BY <2>4 DEF Grammar!GrammarNext
<1>6. CASE First.type \in Openers
  <2>1. states' = Append(states, return) /\ state' = FirstState(level)
    BY <1>6 DEF emit_node, Pushed
  <2> DEFINE frame == IF First.type = "SequenceStart" THEN "items" ELSE "key"
  <2>2. FirstState(level) \in FirstStates /\ FrameOf(FirstState(level)) = frame
    BY <1>6 DEF FirstState, FirstStates, FrameOf, Openers
  <2>3. StreamPhase' = "stream" /\ OpenFrames' = Append(Grammar!AfterNode, frame)
    <3>1. state' \notin Outside /\ state' \notin {"StreamStart", "End"}
      BY <2>1, <2>2, StateSets DEF Outside
    <3>2. OpenFrames' = Append(Frames(states)', FrameOf(state)')
      BY <1>1, <1>2, <3>1 DEF OpenKnown
    <3>3. Frames(states)' = Append(Frames(states), FrameOf(return))
      <4>1. Frames(states)' = Frames(Append(states, return))
        BY <2>1 DEF Frames
      <4> QED BY <1>2, <1>3, <4>1, FramesPushed DEF OpenKnown
    <3>4. FrameOf(state)' = frame
      BY <2>1, <2>2 DEF FrameOf
    <3> QED BY <1>1, <1>2, <1>4, <3>1, <3>2, <3>3, <3>4 DEF OpenKnown
  <2>4. CASE First.type = "SequenceStart"
    <3>1. Grammar!CollectionStart("SequenceStart", "items")
      BY <1>1, <1>4, <2>3, <2>4 DEF Grammar!CollectionStart
    <3> QED BY <3>1 DEF Grammar!GrammarNext
  <2>5. CASE First.type = "MappingStart"
    <3>1. Grammar!CollectionStart("MappingStart", "key")
      BY <1>1, <1>4, <2>3, <2>5 DEF Grammar!CollectionStart
    <3> QED BY <3>1 DEF Grammar!GrammarNext
  <2> QED BY <1>6, <2>4, <2>5 DEF Openers
<1> QED BY <1>5, <1>6

NodeHandler == \/ emit_document_content
               \/ emit_flow_sequence_item \/ emit_flow_mapping_key \/ emit_flow_mapping_value
               \/ emit_block_sequence_item \/ emit_block_mapping_key \/ emit_block_mapping_value

LEMMA NodesWritten ==
  ASSUME EmitterInv, EmitterInv', NodeHandler
  PROVE  Grammar!GrammarNext
<1>1. ASSUME NEW ss, Handling(ss, Nodes), Handled
      PROVE  /\ at = "emitting" /\ at' = "emitting" /\ state \in ss
             /\ First.type \in Nodes /\ handled' = First.type
  BY <1>1 DEF Handling, Handled
<1>2. CASE emit_document_content
  <2>1. /\ at = "emitting" /\ at' = "emitting" /\ state = "DocumentContent"
        /\ First.type \in Nodes /\ handled' = First.type
        /\ emit_node("DocumentEnd", flowLevel, FALSE, FALSE, indention)
    <3>1. /\ Handling({"DocumentContent"}, Nodes) /\ Handled
          /\ emit_node("DocumentEnd", flowLevel, FALSE, FALSE, indention)
      BY <1>2 DEF emit_document_content
    <3> QED BY <3>1 DEF Handling, Handled
  <2>2. /\ "DocumentEnd" \in Places /\ state \notin Outside
        /\ FrameOf(state) # "closed" /\ FrameOf("DocumentEnd") = Grammar!Advance[FrameOf(state)]
    BY <2>1 DEF Places, Outside, FrameOf, Grammar!Advance
  <2> QED BY <2>1, <2>2, NodeWritten
<1>3. CASE emit_flow_sequence_item
  <2>1. /\ at = "emitting" /\ at' = "emitting" /\ state \in {"FlowSequenceFirstItem", "FlowSequenceItem"}
        /\ First.type \in Nodes /\ handled' = First.type
        /\ emit_node("FlowSequenceItem", flowLevel', FALSE, FALSE, FALSE)
    BY <1>1, <1>3 DEF emit_flow_sequence_item
  <2>2. /\ "FlowSequenceItem" \in Places /\ state \notin Outside
        /\ FrameOf(state) # "closed" /\ FrameOf("FlowSequenceItem") = Grammar!Advance[FrameOf(state)]
    BY <2>1 DEF Places, BegunStates, FlowStates, Outside, FrameOf, Grammar!Advance
  <2> QED BY <2>1, <2>2, NodeWritten
<1>4. CASE emit_flow_mapping_key
  <2> DEFINE simple == ~canonical /\ CheckSimpleKey
             return == IF simple THEN "FlowMappingSimpleValue" ELSE "FlowMappingValue"
  <2>1. /\ at = "emitting" /\ at' = "emitting" /\ state \in {"FlowMappingFirstKey", "FlowMappingKey"}
        /\ First.type \in Nodes /\ handled' = First.type
        /\ emit_node(return, flowLevel', TRUE, simple, FALSE)
    BY <1>1, <1>4 DEF emit_flow_mapping_key
  <2>2. return \in {"FlowMappingSimpleValue", "FlowMappingValue"}
    OBVIOUS
  <2> HIDE DEF return, simple
  <2>3. /\ return \in Places /\ state \notin Outside
        /\ FrameOf(state) # "closed" /\ FrameOf(return) = Grammar!Advance[FrameOf(state)]
    BY <2>1, <2>2 DEF Places, BegunStates, FlowStates, Outside, FrameOf, Grammar!Advance
  <2> QED BY <2>1, <2>3, NodeWritten
<1>5. CASE emit_flow_mapping_value
  <2>1. /\ at = "emitting" /\ at' = "emitting" /\ state \in {"FlowMappingSimpleValue", "FlowMappingValue"}
        /\ First.type \in Nodes /\ handled' = First.type
        /\ emit_node("FlowMappingKey", flowLevel, TRUE, FALSE, FALSE)
    BY <1>1, <1>5 DEF emit_flow_mapping_value
  <2>2. /\ "FlowMappingKey" \in Places /\ state \notin Outside
        /\ FrameOf(state) # "closed" /\ FrameOf("FlowMappingKey") = Grammar!Advance[FrameOf(state)]
    BY <2>1 DEF Places, BegunStates, FlowStates, Outside, FrameOf, Grammar!Advance
  <2> QED BY <2>1, <2>2, NodeWritten
<1>6. CASE emit_block_sequence_item
  <2>1. /\ at = "emitting" /\ at' = "emitting" /\ state \in {"BlockSequenceFirstItem", "BlockSequenceItem"}
        /\ First.type \in Nodes /\ handled' = First.type
        /\ emit_node("BlockSequenceItem", flowLevel, FALSE, FALSE, TRUE)
    BY <1>1, <1>6 DEF emit_block_sequence_item
  <2>2. /\ "BlockSequenceItem" \in Places /\ state \notin Outside
        /\ FrameOf(state) # "closed" /\ FrameOf("BlockSequenceItem") = Grammar!Advance[FrameOf(state)]
    BY <2>1 DEF Places, BegunStates, BlockStates, Outside, FrameOf, Grammar!Advance
  <2> QED BY <2>1, <2>2, NodeWritten
<1>7. CASE emit_block_mapping_key
  <2> DEFINE simple == CheckSimpleKey
             return == IF simple THEN "BlockMappingSimpleValue" ELSE "BlockMappingValue"
  <2>1. /\ at = "emitting" /\ at' = "emitting" /\ state \in {"BlockMappingFirstKey", "BlockMappingKey"}
        /\ First.type \in Nodes /\ handled' = First.type
        /\ emit_node(return, flowLevel, TRUE, simple, TRUE)
    BY <1>1, <1>7 DEF emit_block_mapping_key
  <2>2. return \in {"BlockMappingSimpleValue", "BlockMappingValue"}
    OBVIOUS
  <2> HIDE DEF return, simple
  <2>3. /\ return \in Places /\ state \notin Outside
        /\ FrameOf(state) # "closed" /\ FrameOf(return) = Grammar!Advance[FrameOf(state)]
    BY <2>1, <2>2 DEF Places, BegunStates, BlockStates, Outside, FrameOf, Grammar!Advance
  <2> QED BY <2>1, <2>3, NodeWritten
<1>8. CASE emit_block_mapping_value
  <2>1. /\ at = "emitting" /\ at' = "emitting" /\ state \in {"BlockMappingSimpleValue", "BlockMappingValue"}
        /\ First.type \in Nodes /\ handled' = First.type
        /\ emit_node("BlockMappingKey", flowLevel, TRUE, FALSE, state = "BlockMappingValue")
    BY <1>1, <1>8 DEF emit_block_mapping_value
  <2>2. /\ "BlockMappingKey" \in Places /\ state \notin Outside
        /\ FrameOf(state) # "closed" /\ FrameOf("BlockMappingKey") = Grammar!Advance[FrameOf(state)]
    BY <2>1 DEF Places, BegunStates, BlockStates, Outside, FrameOf, Grammar!Advance
  <2> QED BY <2>1, <2>2, NodeWritten
<1> QED BY <1>2, <1>3, <1>4, <1>5, <1>6, <1>7, <1>8 DEF NodeHandler

LEMMA EndWritten ==
  ASSUME EmitterInv, EmitterInv', NEW first \in FirstStates, NEW s \in BegunStates, NEW writing,
         NEW type, CollectionEnd(first, {s}, type, writing),
         \/ type = "SequenceEnd" /\ FrameOf(first) = "items" /\ FrameOf(s) = "items"
         \/ type = "MappingEnd" /\ FrameOf(first) = "key" /\ FrameOf(s) = "key"
  PROVE  Grammar!GrammarNext
<1>1. at = "emitting" /\ state \in {first, s} /\ First.type = type
  BY DEF CollectionEnd, Handling
<1>2. at' # "panic"
  BY DEF EmitterInv
<1>3. Handled /\ state' = Last(states) /\ states' = Front(states)
  BY <1>2 DEF CollectionEnd, Stop
<1>4. /\ states \in Seq(EmitterState) /\ states \in Seq(Places) /\ states # <<>>
      /\ state \notin Outside /\ OpenKnown /\ OpenKnown'
  <2>1. OpenKnown /\ OpenKnown'
    BY OpenFacts, PTL
  <2> QED BY <1>1, <2>1, SettledFacts, StateSets DEF OpenKnown
<1>5. ~Stopped /\ ~Stopped' /\ handled' = type
  BY <1>1, <1>3 DEF Handled, Stopped
<1>6. OpenFrames' = Frames(states) /\ StreamPhase' = "stream"
  <2>1. state' \in Places
    BY <1>3, <1>4, FrontFacts
  <2>2. state' \notin Outside /\ state' \notin {"StreamStart", "End"}
    BY <2>1, StateSets DEF Places, Outside
  <2>3. OpenFrames' = Append(Frames(states)', FrameOf(state)') /\ StreamPhase' = "stream"
    BY <1>4, <1>5, <2>2 DEF OpenKnown
  <2>4. Frames(Append(states', state')) = Append(Frames(states'), FrameOf(state'))
    BY <1>4, FramesPushed DEF OpenKnown
  <2>5. Append(states', state') = states
    BY <1>3, <1>4, PopPush
  <2>6. Frames(states)' = Frames(states') /\ FrameOf(state)' = FrameOf(state')
    BY DEF Frames, FrameOf
  <2> QED BY <2>3, <2>4, <2>5, <2>6
<1>7. /\ StreamPhase = "stream" /\ OpenFrames # <<>> /\ Last(OpenFrames) = FrameOf(state)
      /\ Front(OpenFrames) = Frames(states)
  <2>1. state \notin {"StreamStart", "End"}
    BY <1>4 DEF Outside
  <2> QED BY <1>4, <1>5, <2>1 DEF OpenKnown
<1>8. CASE type = "SequenceEnd"
  <2>1. Grammar!CollectionEnd("SequenceEnd", "items")
    <3>1. FrameOf(state) = "items"
      BY <1>1, <1>8
    <3>2. ~(Stopped' /\ state' # "End")
      BY <1>5
    <3> QED BY <1>5, <1>6, <1>7, <1>8, <3>1, <3>2 DEF Grammar!CollectionEnd, Grammar!Last, Last, Grammar!Front, Front
  <2> QED BY <2>1 DEF Grammar!GrammarNext
<1>9. CASE type = "MappingEnd"
  <2>1. Grammar!CollectionEnd("MappingEnd", "key")
    <3>1. FrameOf(state) = "key"
      BY <1>1, <1>9
    <3>2. ~(Stopped' /\ state' # "End")
      BY <1>5
    <3> QED BY <1>5, <1>6, <1>7, <1>9, <3>1, <3>2 DEF Grammar!CollectionEnd, Grammar!Last, Last, Grammar!Front, Front
  <2> QED BY <2>1 DEF Grammar!GrammarNext
<1> QED BY <1>8, <1>9

LEMMA EndsWritten ==
  ASSUME EmitterInv, EmitterInv',
         \/ emit_flow_sequence_end
         \/ emit_flow_mapping_end
         \/ emit_block_sequence_end
         \/ emit_block_mapping_end
  PROVE  Grammar!GrammarNext
<1> USE DEF FirstStates, BegunStates, FlowStates, BlockStates, FrameOf
<1>1. CASE emit_flow_sequence_end
  BY <1>1, EndWritten DEF emit_flow_sequence_end
<1>2. CASE emit_flow_mapping_end
  BY <1>2, EndWritten DEF emit_flow_mapping_end
<1>3. CASE emit_block_sequence_end
  BY <1>3, EndWritten DEF emit_block_sequence_end
<1>4. CASE emit_block_mapping_end
  BY <1>4, EndWritten DEF emit_block_mapping_end
<1> QED BY <1>1, <1>2, <1>3, <1>4

\* Documents and the stream.
LEMMA DocumentsWritten ==
  ASSUME EmitterInv, EmitterInv',
         \/ emit_stream_start
         \/ emit_document_start
         \/ emit_stream_end
         \/ emit_document_end
  PROVE  Grammar!GrammarNext
<1>1. OpenKnown /\ OpenKnown'
  BY OpenFacts, PTL
<1>2. ASSUME NEW ss, NEW types, Handling(ss, types), Handled
      PROVE  ~Stopped /\ ~Stopped' /\ state \in ss /\ First.type \in types /\ handled' = First.type
  BY <1>2 DEF Handling, Handled, Stopped
<1>3. CASE emit_stream_start
  <2>1. /\ ~Stopped /\ ~Stopped' /\ state = "StreamStart" /\ state' = "FirstDocumentStart"
        /\ handled' = "StreamStart"
    BY <1>2, <1>3 DEF emit_stream_start
  <2>2. /\ StreamPhase = "before" /\ StreamPhase' = "stream" /\ OpenFrames = <<>> /\ OpenFrames' = <<>>
    BY <1>1, <2>1 DEF OpenKnown, Outside, StreamPhase
  <2>3. Grammar!StreamStart
    BY <2>1, <2>2 DEF Grammar!StreamStart
  <2> QED BY <2>3 DEF Grammar!GrammarNext
<1>4. CASE emit_document_start
  <2>1. /\ ~Stopped /\ ~Stopped' /\ state \in {"FirstDocumentStart", "DocumentStart"}
        /\ state' = "DocumentContent" /\ handled' = "DocumentStart" /\ states' = states
    BY <1>2, <1>4 DEF emit_document_start
  <2>2. StreamPhase = "stream" /\ StreamPhase' = "stream" /\ OpenFrames = <<>>
    BY <1>1, <2>1 DEF OpenKnown, Outside
  <2>3. OpenFrames' = <<"root">>
    <3>1. states' = <<>>
      <4>1. state \notin FirstStates \cup BegunStates /\ state # "StreamStart"
        BY <2>1, StateSets DEF Outside
      <4> QED BY <2>1, <4>1, BareFacts
    <3>2. OpenFrames' = Append(Frames(states)', FrameOf(state)')
      BY <1>1, <2>1 DEF OpenKnown, Outside
    <3>3. Frames(states)' = <<>> /\ FrameOf(state)' = "root"
      BY <2>1, <3>1 DEF Frames, FrameOf
    <3>4. Append(<<>>, "root") = <<"root">>
      OBVIOUS
    <3> QED BY <3>2, <3>3, <3>4
  <2>4. Grammar!DocumentStart
    BY <2>1, <2>2, <2>3 DEF Grammar!DocumentStart
  <2> QED BY <2>4 DEF Grammar!GrammarNext
<1>5. CASE emit_stream_end
  <2>1. /\ ~Stopped /\ ~Stopped' /\ state \in {"FirstDocumentStart", "DocumentStart"}
        /\ state' = "End" /\ handled' = "StreamEnd"
    BY <1>2, <1>5 DEF emit_stream_end
  <2>2. StreamPhase = "stream" /\ StreamPhase' = "end" /\ OpenFrames = <<>> /\ OpenFrames' = <<>>
    BY <1>1, <2>1 DEF OpenKnown, Outside, StreamPhase
  <2>3. Grammar!StreamEnd
    BY <2>1, <2>2 DEF Grammar!StreamEnd
  <2> QED BY <2>3 DEF Grammar!GrammarNext
<1>6. CASE emit_document_end
  <2>1. /\ ~Stopped /\ ~Stopped' /\ state = "DocumentEnd"
        /\ state' = "DocumentStart" /\ handled' = "DocumentEnd"
    BY <1>2, <1>6 DEF emit_document_end
  <2>2. StreamPhase = "stream" /\ StreamPhase' = "stream" /\ OpenFrames' = <<>>
    BY <1>1, <2>1 DEF OpenKnown, Outside
  <2>3. OpenFrames = <<"closed">>
    <3>1. states = <<>>
      BY <2>1, SettledFacts
    <3>2. OpenFrames = Append(Frames(states), FrameOf(state))
      BY <1>1, <2>1 DEF OpenKnown, Outside
    <3>3. Frames(states) = <<>> /\ FrameOf(state) = "closed"
      BY <2>1, <3>1 DEF Frames, FrameOf
    <3>4. Append(<<>>, "closed") = <<"closed">>
      OBVIOUS
    <3> QED BY <3>2, <3>3, <3>4
  <2>4. Grammar!DocumentEnd
    BY <2>1, <2>2, <2>3 DEF Grammar!DocumentEnd
  <2> QED BY <2>4 DEF Grammar!GrammarNext
<1> QED BY <1>3, <1>4, <1>5, <1>6

\* A call that neither stops nor handles an event says nothing.
LEMMA CallsStutter ==
  ASSUME \/ emit
         \/ Return
         \/ UNCHANGED emitterVars
  PROVE  UNCHANGED Grammar!grammarVars
<1>1. state' = state /\ states' = states /\ handled' = handled /\ Stopped' = Stopped
  BY DEF emit, Return, emitterVars, stackVars, historyVars, Stopped
<1>2. OpenFrames' = OpenFrames /\ StreamPhase' = StreamPhase
  BY <1>1 DEF OpenFrames, OpenStates, AllStates, StreamPhase
<1> QED BY <1>1, <1>2 DEF Grammar!grammarVars

\* An error ends the stream, or comes after its end.
LEMMA StopFails ==
  ASSUME EmitterInv, EmitterInv', at = "emitting", NEW how \in {"refused", "broken"}, Stop(how)
  PROVE  Grammar!GrammarNext \/ UNCHANGED Grammar!grammarVars
<1>1. OpenKnown /\ OpenKnown'
  BY OpenFacts, PTL
<1>2. ~Stopped /\ Stopped' /\ state' = state /\ handled' = handled
  BY DEF Stop, Stopped, stackVars, historyVars
<1>3. OpenFrames' = <<>>
  BY <1>1, <1>2 DEF OpenKnown
<1>4. CASE state = "End"
  <2>1. OpenFrames = <<>> /\ StreamPhase = "end" /\ StreamPhase' = "end"
    BY <1>1, <1>2, <1>4 DEF OpenKnown, Outside, StreamPhase
  <2> QED BY <1>2, <1>3, <1>4, <2>1 DEF Grammar!grammarVars
<1>5. CASE state # "End"
  <2>1. StreamPhase \in {"before", "stream"} /\ StreamPhase' = "failed"
    BY <1>2, <1>5 DEF StreamPhase
  <2>2. Grammar!Fail
    BY <1>2, <1>3, <1>5, <2>1 DEF Grammar!Fail
  <2> QED BY <2>2 DEF Grammar!GrammarNext
<1> QED BY <1>4, <1>5

\* WritesGrammar: the emitter implements EventGrammar.  Whatever events it is
\* given, in any order, the events it has handled form a stream of well-formed
\* documents, which it ends, or gives up with an error, or starts over.
THEOREM EmitterWritesGrammar == EmitterSpec => WritesGrammar
<1>1. EmitterInit => Grammar!GrammarInit
  <2> SUFFICES ASSUME EmitterInit PROVE Grammar!GrammarInit
    OBVIOUS
  <2>1. ~Stopped /\ state = "StreamStart" /\ states = <<>> /\ handled = "None"
    BY DEF EmitterInit, Stopped
  <2>2. StreamPhase = "before"
    BY <2>1 DEF StreamPhase
  <2>3. OpenFrames = <<>>
    BY <2>1 DEF OpenFrames, OpenStates, Outside
  <2> QED BY <2>1, <2>2, <2>3 DEF Grammar!GrammarInit
<1>2. EmitterInv /\ EmitterInv' /\ [EmitterNext]_emitterVars => [Grammar!GrammarNext]_(Grammar!grammarVars)
  <2> SUFFICES ASSUME EmitterInv, EmitterInv', [EmitterNext]_emitterVars
               PROVE  Grammar!GrammarNext \/ UNCHANGED Grammar!grammarVars
    OBVIOUS
  <2>1. CASE emit \/ Return \/ UNCHANGED emitterVars
    BY <2>1, CallsStutter
  <2>2. CASE Refuses \/ Breaks
    BY <2>2, StopFails DEF Refuses, Breaks
  <2>3. CASE reset
    <3>1. ~Stopped' /\ state' = "StreamStart" /\ states' = <<>> /\ handled' = "None"
      BY <2>3 DEF reset, Stopped
    <3>2. StreamPhase' = "before" /\ OpenFrames' = <<>>
      BY <3>1 DEF StreamPhase, OpenFrames, OpenStates, Outside
    <3>3. Grammar!Reset
      BY <3>1, <3>2 DEF Grammar!Reset
    <3> QED BY <3>3 DEF Grammar!GrammarNext
  <2>4. CASE \/ emit_stream_start \/ emit_document_start \/ emit_stream_end \/ emit_document_end
    BY <2>4, DocumentsWritten
  <2>5. CASE NodeHandler
    BY <2>5, NodesWritten
  <2>6. CASE \/ emit_flow_sequence_end \/ emit_flow_mapping_end
             \/ emit_block_sequence_end \/ emit_block_mapping_end
    BY <2>6, EndsWritten
  <2> QED BY <2>1, <2>2, <2>3, <2>4, <2>5, <2>6 DEF EmitterNext, state_machine, NodeHandler
<1> QED BY <1>1, <1>2, EmitterInvariant, PTL DEF EmitterSpec, WritesGrammar, Grammar!GrammarSpec

\* RefusesOnlyWrong: an event that a handler refuses is one that the grammar
\* does not allow next.
THEOREM RefusesOnlyTheWrong == EmitterSpec => RefusesOnlyWrong
<1>1. EmitterInv /\ [EmitterNext]_emitterVars => [at' = "refused" => ~Allowed(First.type)]_emitterVars
  <2> SUFFICES ASSUME EmitterInv, EmitterNext, at' = "refused", Allowed(First.type) PROVE FALSE
    OBVIOUS
  <2>1. Refuses
    BY DEF EmitterNext, emit, Return, Breaks, reset, Stop, state_machine, Handling, Handled, CollectionEnd,
       emit_stream_start, emit_document_start, emit_stream_end, emit_document_end,
       emit_document_content, emit_flow_sequence_item, emit_flow_mapping_key, emit_flow_mapping_value,
       emit_block_sequence_item, emit_block_mapping_key, emit_block_mapping_value,
       emit_flow_sequence_end, emit_flow_mapping_end, emit_block_sequence_end, emit_block_mapping_end
  <2>2. ~Stopped /\ Ready /\ First.type \notin ExpectedIn(state)
    BY <2>1 DEF Refuses, Stopped
  <2>3. OpenKnown /\ First.type \in Types
    BY <2>2, OpenFacts, QueueFacts DEF EventRecord
  <2>4. CASE state \in Outside
    <3>1. OpenFrames = <<>> /\ <<"closed">> # <<>>
      BY <2>3, <2>4 DEF OpenKnown
    <3>2. First.type \in {"StreamStart", "StreamEnd", "DocumentStart"}
      BY <2>3, <3>1 DEF Allowed, Types
    <3>3. CASE First.type = "StreamStart"
      <4>1. StreamPhase = "before"
        BY <3>3 DEF Allowed
      <4>2. state = "StreamStart"
        BY <2>2, <4>1 DEF StreamPhase
      <4> QED BY <2>2, <3>3, <4>2 DEF ExpectedIn
    <3>4. CASE First.type \in {"StreamEnd", "DocumentStart"}
      <4>1. StreamPhase = "stream"
        BY <3>4 DEF Allowed
      <4>2. state \in {"FirstDocumentStart", "DocumentStart"}
        BY <2>2, <2>4, <4>1 DEF StreamPhase, Outside
      <4> QED BY <2>2, <3>4, <4>2 DEF ExpectedIn
    <3> QED BY <3>2, <3>3, <3>4
  <2>5. CASE state \notin Outside
    <3>1. OpenFrames # <<>> /\ Last(OpenFrames) = FrameOf(state) /\ StreamPhase = "stream"
      BY <2>2, <2>3, <2>5 DEF OpenKnown, Outside
    <3>2. First.type = "DocumentEnd" => FrameOf(state) = "closed"
      <4>1. ASSUME First.type = "DocumentEnd" PROVE OpenFrames = <<"closed">>
        BY <4>1 DEF Allowed
      <4>2. Last(<<"closed">>) = "closed"
        BY DEF Last
      <4> QED BY <3>1, <4>1, <4>2
    <3>3. First.type = "SequenceEnd" => FrameOf(state) = "items"
      BY <3>1 DEF Allowed
    <3>4. First.type = "MappingEnd" => FrameOf(state) = "key"
      BY <3>1 DEF Allowed
    <3>5. First.type \in Nodes => FrameOf(state) # "closed"
      BY <3>1 DEF Allowed, Nodes, Openers
    <3>6. First.type \in Nodes \cup {"DocumentEnd", "SequenceEnd", "MappingEnd"}
      BY <2>3, <3>1 DEF Allowed, Types, Nodes, Openers
    <3>7. state \in EmitterState
      BY <2>3 DEF OpenKnown
    <3> QED BY <2>2, <2>5, <3>2, <3>3, <3>4, <3>5, <3>6, <3>7
            DEF ExpectedIn, FrameOf, EmitterState, FlowStates, BlockStates, FirstStates, Outside
  <2> QED BY <2>4, <2>5
<1> QED BY <1>1, EmitterInvariant, PTL DEF EmitterSpec, RefusesOnlyWrong
=============================================================================
