---------------------------- MODULE ParserProofs ----------------------------
(***************************************************************************)
(* Proofs about the parser, for every set of handles, every depth and any  *)
(* sequence of tokens.  A handler of a collection may do four things to    *)
(* the stacks only (CollectionShape): fail, stay, descend or ascend.  The  *)
(* handlers are shown to have that shape one by one, the shape is shown to *)
(* keep each part of the invariant once, and the few handlers outside of   *)
(* collections are treated apart.                                          *)
(***************************************************************************)
EXTENDS ParserProps, StackLemmas

Answer == [type : EventTypes, handle : AllHandles \cup {NoHandle}]
TokenSeen == TokenType \cup {"ScanError"}

NodeAnswers == {"Alias", "Scalar", "SequenceStart", "MappingStart"}

\* The states that a node may leave the parser in when it starts a collection.
StartStates(block) == {"FlowSequenceFirstEntry", "FlowMappingFirstKey"}
  \cup (IF block THEN {"BlockSequenceFirstEntry", "BlockMappingFirstKey",
                       "IndentlessSequenceEntry"} ELSE {})

\* What parse_node does to the stack.
NodeShape(block, stack) ==
  /\ look' \in TokenType \cup {"NoToken"}
  /\ event' \in Answer
  /\ event'.handle \in tagDirectives \cup {NoHandle}
  /\ \/ event'.type = "Error" /\ states' = stack /\ state' = state
     \/ event'.type \in NodeAnswers /\ state' = Last(stack) /\ states' = Front(stack)
     \/ event'.type \in NodeAnswers /\ states' = stack /\ state' \in StartStates(block)

\* The scanner hands out tokens or fails.
LEMMA SupplyTokens == Supply \subseteq TokenSeen
BY DEF Supply, TokenSeen, TokenType, Directives, Openers

\* parse_node has the shape, whatever the properties and the content.
LEMMA NodeSteps ==
  ASSUME ParserTypeOK,
         NEW block \in BOOLEAN, NEW indentless \in BOOLEAN, indentless => block,
         NEW t \in TokenSeen, NEW stack, stack # <<>>,
         Node(block, indentless, t, stack)
  PROVE  NodeShape(block, stack)
<1>1. CASE t = "Alias"
  BY <1>1 DEF Node, Return, Event, NodeShape, Answer, EventTypes, NodeAnswers
<1>2. CASE t # "Alias"
  <2>1. PICK p \in NodeProperties(t) :
          IF p.handle \in AllHandles \ tagDirectives
          THEN Fail(p.next) /\ states' = stack /\ UNCHANGED state
          ELSE NodeContent(block, indentless, p, stack)
    BY <1>2 DEF Node
  <2>2. /\ p.handle \in AllHandles \cup {NoHandle}
        /\ p.next \in TokenSeen
        /\ p.some \in BOOLEAN
    BY <2>1, SupplyTokens DEF NodeProperties
  <2>3. ASSUME Fail(p.next)
        PROVE /\ look' \in TokenType \cup {"NoToken"}
              /\ event' = Event("Error", NoHandle)
    BY <2>2, <2>3 DEF Fail, TokenSeen
  <2>4. Event("Error", NoHandle) \in Answer /\ Event("Error", NoHandle).type = "Error"
        /\ Event("Error", NoHandle).handle = NoHandle
    BY DEF Event, Answer, EventTypes
  <2>5. CASE p.handle \in AllHandles \ tagDirectives
    BY <2>1, <2>3, <2>4, <2>5 DEF NodeShape
  <2>6. CASE p.handle \notin AllHandles \ tagDirectives
    <3>1. p.handle \in tagDirectives \cup {NoHandle}
      BY <2>2, <2>6
    <3>2. NodeContent(block, indentless, p, stack)
      BY <2>1, <2>6
    <3>3. \A y \in NodeAnswers :
            /\ Event(y, p.handle) \in Answer
            /\ Event(y, p.handle).type = y
            /\ Event(y, p.handle).handle = p.handle
      BY <2>2 DEF Event, Answer, NodeAnswers, EventTypes
    <3>4. CASE p.next = "Scalar"
      BY <3>1, <3>2, <3>3, <3>4 DEF NodeContent, Return, NodeShape, NodeAnswers, StartTokens
    <3>5. CASE p.next \in StartTokens(block, indentless)
      BY <3>1, <3>2, <3>3, <3>5 DEF NodeContent, Collection, NodeShape, NodeAnswers,
         StartTokens, StartStates, CollectionState, CollectionEvent, TokenType, Openers
    <3>6. CASE /\ p.some
               /\ p.next \notin StartTokens(block, indentless) \cup {"Scalar", "ScanError"}
      BY <2>2, <3>1, <3>2, <3>3, <3>6 DEF NodeContent, Return, NodeShape, NodeAnswers, TokenSeen
    <3>7. CASE /\ p.next # "Scalar" /\ p.next \notin StartTokens(block, indentless)
               /\ ~(p.some /\ p.next \notin StartTokens(block, indentless)
                                              \cup {"Scalar", "ScanError"})
      <4>1. Fail(p.next) /\ states' = stack /\ UNCHANGED state
        BY <3>2, <3>7 DEF NodeContent
      <4> QED BY <4>1, <2>3, <2>4 DEF NodeShape
    <3> QED BY <3>4, <3>5, <3>6, <3>7
  <2> QED BY <2>5, <2>6
<1> QED BY <1>1, <1>2

-----------------------------------------------------------------------------
\* The states that read a node with nothing of their own on the marks.
Unmarked == {"IndentlessSequenceEntry", "DocumentContent", "BlockNode"}

\* The states of the collection that state s belongs to, its start apart; for
\* the states that read a root node, the collections it may start.
Kin(s) ==
  CASE s \in {"DocumentContent", "BlockNode"} -> StartStates(TRUE)
    [] s \in {"BlockSequenceFirstEntry", "BlockSequenceEntry"} -> {"BlockSequenceEntry"}
    [] s \in {"BlockMappingFirstKey", "BlockMappingKey", "BlockMappingValue"} ->
         {"BlockMappingKey", "BlockMappingValue"}
    [] s = "IndentlessSequenceEntry" -> {"IndentlessSequenceEntry"}
    [] OTHER -> FlowStates

NodeStates == BlockStates \cup FlowStates \cup FirstStates \cup Unmarked

InFlow == state \in FlowStates \cup {"FlowSequenceFirstEntry", "FlowMappingFirstKey"}

EnteredMarks == IF state \in FirstStates THEN Append(marks, Len(states)) ELSE marks

MarksLeft == CASE state \in Unmarked -> marks
               [] state \in FirstStates -> marks
               [] OTHER -> Front(marks)

\* What a handler of a collection does to the two stacks: it fails, stays in
\* its collection, descends into a node that is a collection, or ascends to
\* the parent.
Stays == states' = states /\ state' \in Kin(state) /\ marks' = EnteredMarks
Descends == /\ \E s \in Kin(state) \cap ReturnStates : states' = Append(states, s)
            /\ state' \in StartStates(~InFlow)
            /\ marks' = EnteredMarks
Ascends == state' = Last(states) /\ states' = Front(states) /\ marks' = MarksLeft
Fails == /\ state' = state
         /\ \/ states' = states
            \/ \E s \in Kin(state) \cap ReturnStates : states' = Append(states, s)
         /\ marks' \in Seq(Nat)

CollectionShape ==
  /\ look' \in TokenType \cup {"NoToken"}
  /\ event' \in Answer
  /\ event'.handle \in tagDirectives \cup {NoHandle}
  /\ streamEnded' \in BOOLEAN
  /\ \/ event'.type = "Error" /\ Fails
     \/ event'.type \notin {"Error", "Panic"} /\ (Stays \/ Descends \/ Ascends)

\* What a handler of a collection relies on.
CollectionReady == /\ ParserTypeOK
                   /\ state \in NodeStates
                   /\ states # <<>>
                   /\ state \in Marked => marks # <<>>

\* The events the handlers build are well typed.
LEMMA EventFacts ==
  ASSUME NEW y \in EventTypes, NEW h \in AllHandles \cup {NoHandle}
  PROVE  Event(y, h) \in Answer /\ Event(y, h).type = y /\ Event(y, h).handle = h
BY DEF Event, Answer

\* A handler that fails answers with an error and leaves the token.
LEMMA FailFacts ==
  ASSUME NEW t \in TokenSeen, Fail(t)
  PROVE  /\ look' \in TokenType \cup {"NoToken"}
         /\ event' \in Answer /\ event'.type = "Error" /\ event'.handle = NoHandle
<1>1. "Error" \in EventTypes /\ NoHandle \in AllHandles \cup {NoHandle}
  BY DEF EventTypes
<1> QED BY <1>1, EventFacts DEF Fail, TokenSeen

\* The first token a handler of a collection examines, and its marks.
LEMMA EnteredFacts ==
  ASSUME ParserTypeOK, state \in NodeStates, NEW first \in BOOLEAN,
         first <=> state \in FirstStates,
         NEW e \in Entered(first)
  PROVE  /\ e.tok \in TokenSeen
         /\ e.ended \in BOOLEAN
         /\ e.marks \in Seq(Nat)
         /\ e.tok # "ScanError" => e.marks = EnteredMarks
<1>1. EnteredMarks \in Seq(Nat) /\ marks \in Seq(Nat)
  BY AppendFacts, LenProperties DEF ParserTypeOK, EnteredMarks
<1>2. Peeked \subseteq TokenSeen
  BY SupplyTokens DEF Peeked, TokenSeen, ParserTypeOK
<1> QED BY <1>1, <1>2, SupplyTokens DEF Entered, EnteredMarks, TokenSeen, TokenType

\* A peek finds a token or fails.
LEMMA PeekedTokens == ParserTypeOK => Peeked \subseteq TokenSeen
BY SupplyTokens DEF Peeked, TokenSeen, ParserTypeOK

\* A node read by a handler that pushed the return state s.
LEMMA EntryNode ==
  ASSUME CollectionReady, NEW s \in Kin(state) \cap ReturnStates,
         NEW indentless \in BOOLEAN, indentless => ~InFlow,
         NEW t \in TokenSeen,
         Node(~InFlow, indentless, t, Append(states, s)),
         marks' = EnteredMarks, marks' \in Seq(Nat), streamEnded' \in BOOLEAN
  PROVE  CollectionShape
<1> DEFINE stack == Append(states, s)
<1>1. stack # <<>> /\ Last(stack) = s /\ Front(stack) = states
  BY AppendFacts, SMTT(30) DEF CollectionReady, ParserTypeOK
<1>2. NodeShape(~InFlow, stack)
  BY <1>1, NodeSteps DEF CollectionReady, InFlow
<1>3. CASE event'.type = "Error" /\ states' = stack /\ state' = state
  BY <1>2, <1>3 DEF NodeShape, CollectionShape, Fails
<1>4. CASE event'.type \in NodeAnswers /\ state' = Last(stack) /\ states' = Front(stack)
  BY <1>1, <1>2, <1>4 DEF NodeShape, CollectionShape, Stays, NodeAnswers
<1>5. CASE event'.type \in NodeAnswers /\ states' = stack /\ state' \in StartStates(~InFlow)
  BY <1>1, <1>2, <1>5 DEF NodeShape, CollectionShape, Descends, NodeAnswers
<1> HIDE DEF stack
<1> QED BY <1>2, <1>3, <1>4, <1>5 DEF NodeShape

\* The leaves of the handlers.
LEMMA StayStep ==
  ASSUME CollectionReady, NEW s \in Kin(state), NEW y \in EventTypes \ {"Error", "Panic"},
         event' = Event(y, NoHandle), state' = s, states' = states, marks' = EnteredMarks,
         look' \in TokenType \cup {"NoToken"}, streamEnded' \in BOOLEAN
  PROVE  CollectionShape
BY EventFacts DEF CollectionShape, Stays

\* The handler fails before it pushed a state.
LEMMA FailStep ==
  ASSUME CollectionReady, NEW t \in TokenSeen, Fail(t), UNCHANGED <<state, states>>,
         marks' \in Seq(Nat), streamEnded' \in BOOLEAN
  PROVE  CollectionShape
BY FailFacts DEF CollectionShape, Fails

\* The handler read the end token of its collection.
LEMMA OverStep ==
  ASSUME CollectionReady, state \notin Unmarked,
         NEW y \in EventTypes \ {"Error", "Panic"}, CollectionOver(y, EnteredMarks),
         streamEnded' \in BOOLEAN
  PROVE  CollectionShape
<1>1. event' = Event(y, NoHandle) /\ state' = Last(states) /\ states' = Front(states)
  BY DEF CollectionOver, Return, CollectionReady
<1>2. look' = "NoToken"
  BY DEF CollectionOver
<1>3. marks' = MarksLeft
  <2>1. EnteredMarks # <<>>
    BY AppendFacts, LenProperties
       DEF CollectionReady, ParserTypeOK, EnteredMarks, NodeStates, Unmarked, Marked
  <2>2. marks' = Front(EnteredMarks)
    BY <2>1 DEF CollectionOver
  <2>3. CASE state \in FirstStates
    <3>1. marks \in Seq(Nat) /\ Len(states) \in Nat
      BY LenProperties DEF CollectionReady, ParserTypeOK
    <3>2. Front(Append(marks, Len(states))) = marks
      BY <3>1, AppendFacts
    <3> QED BY <2>2, <2>3, <3>2 DEF EnteredMarks, MarksLeft
  <2>4. CASE state \notin FirstStates
    BY <2>2, <2>4 DEF EnteredMarks, MarksLeft
  <2> QED BY <2>3, <2>4
<1> QED BY <1>1, <1>2, <1>3, EventFacts DEF CollectionShape, Ascends

\* The handler found neither an entry nor the end: it pops its mark for the
\* error, which is there.
LEMMA UnexpectedStep ==
  ASSUME CollectionReady, state \notin Unmarked, NEW t \in TokenSeen,
         Unexpected(t, EnteredMarks), streamEnded' \in BOOLEAN
  PROVE  CollectionShape
<1>1. EnteredMarks # <<>> /\ EnteredMarks \in Seq(Nat)
  BY AppendFacts, LenProperties, SMTT(30)
     DEF CollectionReady, ParserTypeOK, EnteredMarks, NodeStates, Unmarked, Marked
<1>2. marks' \in Seq(Nat) /\ Fail(t) /\ UNCHANGED <<state, states>>
  BY <1>1, FrontFacts DEF Unexpected
<1> QED BY <1>2, FailStep

\* The token after an indicator of a block collection.
LEMMA BlockEntryStep ==
  ASSUME CollectionReady, ~InFlow, NEW t \in Supply, NEW ends, "ScanError" \notin ends,
         NEW s \in Kin(state) \cap ReturnStates, NEW indentless \in BOOLEAN,
         EntryContent(t, ends, s, indentless),
         marks' = EnteredMarks, streamEnded' \in BOOLEAN
  PROVE  CollectionShape
<1>1. t \in TokenSeen
  BY SupplyTokens
<1>2. EnteredMarks \in Seq(Nat)
  BY AppendFacts, LenProperties DEF CollectionReady, ParserTypeOK, EnteredMarks
<1>3. CASE t = "ScanError"
  BY <1>1, <1>2, <1>3, FailStep DEF EntryContent
<1>4. CASE t # "ScanError" /\ t \in ends
  <2>1. "Scalar" \in EventTypes \ {"Error", "Panic"}
    BY DEF EventTypes
  <2>2. look' \in TokenType
    BY <1>1, <1>4 DEF EntryContent, TokenSeen
  <2> QED BY <1>4, <2>1, <2>2, StayStep DEF EntryContent, EmptyScalar
<1>5. CASE t # "ScanError" /\ t \notin ends
  <2>1. Node(~InFlow, indentless, t, Append(states, s))
    BY <1>5 DEF EntryContent
  <2> QED BY <1>1, <1>2, <2>1, EntryNode
<1> QED BY <1>3, <1>4, <1>5

\* A node of a flow collection.
LEMMA FlowNodeStep ==
  ASSUME CollectionReady, InFlow, NEW t \in TokenSeen,
         NEW s \in Kin(state) \cap ReturnStates, FlowNode(t, s),
         marks' = EnteredMarks, streamEnded' \in BOOLEAN
  PROVE  CollectionShape
<1>1. EnteredMarks \in Seq(Nat)
  BY AppendFacts, LenProperties DEF CollectionReady, ParserTypeOK, EnteredMarks
<1>2. Node(~InFlow, FALSE, t, Append(states, s))
  BY DEF FlowNode
<1> QED BY <1>1, <1>2, EntryNode

\* The value of a pair of a flow collection.
LEMMA FlowValueStep ==
  ASSUME CollectionReady, InFlow, NEW t \in Peeked, NEW ends, "ScanError" \notin ends,
         NEW s \in Kin(state) \cap ReturnStates, FlowValue(t, ends, s),
         marks' = EnteredMarks, streamEnded' \in BOOLEAN
  PROVE  CollectionShape
<1>1. t \in TokenSeen
  BY PeekedTokens DEF CollectionReady
<1>2. EnteredMarks \in Seq(Nat)
  BY AppendFacts, LenProperties DEF CollectionReady, ParserTypeOK, EnteredMarks
<1>3. "Scalar" \in EventTypes \ {"Error", "Panic"}
  BY DEF EventTypes
<1>4. ASSUME NEW u \in TokenSeen, u # "ScanError",
             EmptyScalar(s, states), look' = u
      PROVE  CollectionShape
  <2>1. look' \in TokenType
    BY <1>4 DEF TokenSeen
  <2> QED BY <1>3, <1>4, <2>1, StayStep DEF EmptyScalar
<1>5. CASE t = "Value"
  <2>1. PICK u \in Supply :
          CASE u = "ScanError" -> Fail(u) /\ UNCHANGED <<state, states>>
            [] u \in ends -> EmptyScalar(s, states) /\ look' = u
            [] OTHER -> FlowNode(u, s)
    BY <1>5 DEF FlowValue
  <2>2. u \in TokenSeen
    BY SupplyTokens
  <2>3. CASE u = "ScanError"
    BY <1>2, <2>1, <2>2, <2>3, FailStep
  <2>4. CASE u # "ScanError" /\ u \in ends
    BY <1>4, <2>1, <2>2, <2>4
  <2>5. CASE u # "ScanError" /\ u \notin ends
    BY <2>1, <2>2, <2>5, FlowNodeStep
  <2> QED BY <2>3, <2>4, <2>5
<1>6. CASE t = "ScanError"
  BY <1>1, <1>2, <1>6, FailStep DEF FlowValue
<1>7. CASE t \notin {"Value", "ScanError"}
  BY <1>1, <1>4, <1>7 DEF FlowValue
<1> QED BY <1>5, <1>6, <1>7

-----------------------------------------------------------------------------
\* Each handler of a collection has the shape.
CollectionHandlers ==
  \/ \E first \in BOOLEAN : \/ parse_block_sequence_entry(first)
                            \/ parse_block_mapping_key(first)
                            \/ parse_flow_sequence_entry(first)
                            \/ parse_flow_mapping_key(first)
  \/ parse_indentless_sequence_entry
  \/ parse_block_mapping_value
  \/ parse_flow_sequence_entry_mapping_key
  \/ parse_flow_sequence_entry_mapping_value
  \/ parse_flow_sequence_entry_mapping_end
  \/ \E empty \in BOOLEAN : parse_flow_mapping_value(empty)

\* parse_block_sequence_entry has the shape.
LEMMA BlockSequenceStep ==
  ASSUME CollectionReady, NEW first \in BOOLEAN, parse_block_sequence_entry(first)
  PROVE  CollectionShape
<1>1. /\ first <=> state \in FirstStates
      /\ state \in {"BlockSequenceFirstEntry", "BlockSequenceEntry"}
      /\ ~InFlow /\ "BlockSequenceEntry" \in Kin(state) \cap ReturnStates
      /\ state \notin Unmarked
  BY DEF Unmarked, parse_block_sequence_entry, FirstStates, InFlow, FlowStates, Kin, ReturnStates
<1>2. PICK e \in Entered(first) :
        /\ streamEnded' = e.ended
        /\ CASE e.tok = "BlockEntry" ->
                  /\ \E t \in Supply :
                       EntryContent(t, {"BlockEntry", "BlockEnd"}, "BlockSequenceEntry", FALSE)
                  /\ marks' = e.marks
             [] e.tok = "BlockEnd" -> CollectionOver("SequenceEnd", e.marks)
             [] e.tok = "ScanError" -> ScanFailed(e.marks)
             [] OTHER -> Unexpected(e.tok, e.marks)
  BY DEF parse_block_sequence_entry
<1>3. /\ e.tok \in TokenSeen /\ e.ended \in BOOLEAN /\ e.marks \in Seq(Nat)
      /\ e.tok # "ScanError" => e.marks = EnteredMarks
  BY <1>1, EnteredFacts DEF CollectionReady
<1>4. CASE e.tok = "BlockEntry"
  <2>1. "ScanError" \notin {"BlockEntry", "BlockEnd"}
    OBVIOUS
  <2> QED BY <1>1, <1>2, <1>3, <1>4, <2>1, BlockEntryStep
<1>5. CASE e.tok = "BlockEnd"
  <2>1. "SequenceEnd" \in EventTypes \ {"Error", "Panic"}
    BY DEF EventTypes
  <2>2. CollectionOver("SequenceEnd", EnteredMarks)
    BY <1>2, <1>3, <1>5
  <2> QED BY <1>1, <1>2, <1>3, <2>1, <2>2, OverStep
<1>6. CASE e.tok = "ScanError"
  BY <1>2, <1>3, <1>6, FailStep DEF ScanFailed, TokenSeen
<1>7. CASE e.tok \notin {"BlockEntry", "BlockEnd", "ScanError"}
  BY <1>1, <1>2, <1>3, <1>7, UnexpectedStep
<1> QED BY <1>4, <1>5, <1>6, <1>7

\* parse_block_mapping_key has the shape.
LEMMA BlockMappingKeyStep ==
  ASSUME CollectionReady, NEW first \in BOOLEAN, parse_block_mapping_key(first)
  PROVE  CollectionShape
<1>1. /\ first <=> state \in FirstStates
      /\ state \in {"BlockMappingFirstKey", "BlockMappingKey"}
      /\ ~InFlow /\ "BlockMappingValue" \in Kin(state) \cap ReturnStates
      /\ state \notin Unmarked
  BY DEF Unmarked, parse_block_mapping_key, FirstStates, InFlow, FlowStates, Kin, ReturnStates
<1>2. PICK e \in Entered(first) :
        /\ streamEnded' = e.ended
        /\ CASE e.tok = "Key" ->
                  /\ \E t \in Supply :
                       EntryContent(t, {"Key", "Value", "BlockEnd"}, "BlockMappingValue", TRUE)
                  /\ marks' = e.marks
             [] e.tok = "BlockEnd" -> CollectionOver("MappingEnd", e.marks)
             [] e.tok = "ScanError" -> ScanFailed(e.marks)
             [] OTHER -> Unexpected(e.tok, e.marks)
  BY DEF parse_block_mapping_key
<1>3. /\ e.tok \in TokenSeen /\ e.ended \in BOOLEAN /\ e.marks \in Seq(Nat)
      /\ e.tok # "ScanError" => e.marks = EnteredMarks
  BY <1>1, EnteredFacts DEF CollectionReady
<1>4. CASE e.tok = "Key"
  <2>1. "ScanError" \notin {"Key", "Value", "BlockEnd"}
    OBVIOUS
  <2> QED BY <1>1, <1>2, <1>3, <1>4, <2>1, BlockEntryStep
<1>5. CASE e.tok = "BlockEnd"
  <2>1. "MappingEnd" \in EventTypes \ {"Error", "Panic"}
    BY DEF EventTypes
  <2>2. CollectionOver("MappingEnd", EnteredMarks)
    BY <1>2, <1>3, <1>5
  <2> QED BY <1>1, <1>2, <1>3, <2>1, <2>2, OverStep
<1>6. CASE e.tok = "ScanError"
  BY <1>2, <1>3, <1>6, FailStep DEF ScanFailed, TokenSeen
<1>7. CASE e.tok \notin {"Key", "BlockEnd", "ScanError"}
  BY <1>1, <1>2, <1>3, <1>7, UnexpectedStep
<1> QED BY <1>4, <1>5, <1>6, <1>7

\* parse_block_mapping_value has the shape.
LEMMA BlockMappingValueStep ==
  ASSUME CollectionReady, parse_block_mapping_value
  PROVE  CollectionShape
<1>1. /\ state = "BlockMappingValue" /\ ~InFlow /\ state \notin FirstStates
      /\ "BlockMappingKey" \in Kin(state) \cap ReturnStates
  BY DEF parse_block_mapping_value, FirstStates, InFlow, FlowStates, Kin, ReturnStates
<1>2. /\ marks' = EnteredMarks /\ EnteredMarks \in Seq(Nat) /\ streamEnded' \in BOOLEAN
  BY <1>1 DEF parse_block_mapping_value, EnteredMarks, CollectionReady, ParserTypeOK
<1>3. PICK t \in Peeked :
       CASE t = "Value" ->
              \E u \in Supply :
                EntryContent(u, {"Key", "Value", "BlockEnd"}, "BlockMappingKey", TRUE)
         [] t = "ScanError" -> Fail(t) /\ UNCHANGED <<state, states>>
         [] OTHER -> EmptyScalar("BlockMappingKey", states) /\ look' = t
  BY DEF parse_block_mapping_value
<1>4. t \in TokenSeen
  BY PeekedTokens DEF CollectionReady
<1>5. CASE t = "Value"
  <2>1. "ScanError" \notin {"Key", "Value", "BlockEnd"}
    OBVIOUS
  <2> QED BY <1>1, <1>2, <1>3, <1>5, <2>1, BlockEntryStep
<1>6. CASE t = "ScanError"
  BY <1>2, <1>3, <1>4, <1>6, FailStep
<1>7. CASE t \notin {"Value", "ScanError"}
  <2>1. "Scalar" \in EventTypes \ {"Error", "Panic"} /\ t \in TokenType
    BY <1>4, <1>7 DEF EventTypes, TokenSeen
  <2> QED BY <1>1, <1>2, <1>3, <1>7, <2>1, StayStep DEF EmptyScalar
<1> QED BY <1>5, <1>6, <1>7

\* parse_indentless_sequence_entry has the shape.
LEMMA IndentlessStep ==
  ASSUME CollectionReady, parse_indentless_sequence_entry
  PROVE  CollectionShape
<1>1. /\ state = "IndentlessSequenceEntry" /\ ~InFlow /\ state \notin FirstStates
      /\ "IndentlessSequenceEntry" \in Kin(state) \cap ReturnStates
  BY DEF parse_indentless_sequence_entry, FirstStates, InFlow, FlowStates, Kin, ReturnStates
<1>2. /\ marks' = EnteredMarks /\ EnteredMarks \in Seq(Nat) /\ streamEnded' \in BOOLEAN
  BY <1>1 DEF parse_indentless_sequence_entry, EnteredMarks, CollectionReady, ParserTypeOK
<1>3. PICK t \in Peeked :
       CASE t = "BlockEntry" ->
              \E u \in Supply :
                EntryContent(u, {"BlockEntry", "Key", "Value", "BlockEnd"},
                             "IndentlessSequenceEntry", FALSE)
         [] t = "ScanError" -> Fail(t) /\ UNCHANGED <<state, states>>
         [] OTHER -> Return(states, Event("SequenceEnd", NoHandle)) /\ look' = t
  BY DEF parse_indentless_sequence_entry
<1>4. t \in TokenSeen
  BY PeekedTokens DEF CollectionReady
<1>5. CASE t = "BlockEntry"
  <2>1. "ScanError" \notin {"BlockEntry", "Key", "Value", "BlockEnd"}
    OBVIOUS
  <2> QED BY <1>1, <1>2, <1>3, <1>5, <2>1, BlockEntryStep
<1>6. CASE t = "ScanError"
  BY <1>2, <1>3, <1>4, <1>6, FailStep
<1>7. CASE t \notin {"BlockEntry", "ScanError"}
  <2>1. "SequenceEnd" \in EventTypes \ {"Error", "Panic"} /\ t \in TokenType
    BY <1>4, <1>7 DEF EventTypes, TokenSeen
  <2>2. event' = Event("SequenceEnd", NoHandle) /\ state' = Last(states)
        /\ states' = Front(states) /\ look' = t
    BY <1>3, <1>7 DEF Return, CollectionReady
  <2>3. marks' = MarksLeft
    BY <1>1, <1>2 DEF MarksLeft, EnteredMarks, Unmarked
  <2> QED BY <1>2, <2>1, <2>2, <2>3, EventFacts DEF CollectionShape, Ascends
<1> QED BY <1>5, <1>6, <1>7

\* An entry of a flow sequence has the shape.
LEMMA FlowSequenceItemStep ==
  ASSUME CollectionReady, InFlow, state \in {"FlowSequenceFirstEntry", "FlowSequenceEntry"},
         NEW t \in TokenSeen, NEW m \in Seq(Nat), t # "ScanError" => m = EnteredMarks,
         FlowSequenceItem(t, m), streamEnded' \in BOOLEAN
  PROVE  CollectionShape
<1>1. /\ "FlowSequenceEntry" \in Kin(state) \cap ReturnStates
      /\ "FlowSequenceEntryMappingKey" \in Kin(state) /\ state \notin Unmarked
      /\ {"SequenceEnd", "MappingStart"} \subseteq EventTypes \ {"Error", "Panic"}
  BY DEF Kin, ReturnStates, FlowStates, EventTypes, Unmarked
<1>2. CASE t = "Key"
  BY <1>1, <1>2, StayStep DEF FlowSequenceItem, Collection
<1>3. CASE t = "FlowSequenceEnd"
  <2>1. CollectionOver("SequenceEnd", EnteredMarks)
    BY <1>3 DEF FlowSequenceItem
  <2> QED BY <1>1, <2>1, OverStep
<1>4. CASE t = "ScanError"
  BY <1>4, FailStep DEF FlowSequenceItem, ScanFailed
<1>5. CASE t \notin {"Key", "FlowSequenceEnd", "ScanError"}
  BY <1>1, <1>5, FlowNodeStep DEF FlowSequenceItem
<1> QED BY <1>2, <1>3, <1>4, <1>5

\* parse_flow_sequence_entry has the shape.
LEMMA FlowSequenceStep ==
  ASSUME CollectionReady, NEW first \in BOOLEAN, parse_flow_sequence_entry(first)
  PROVE  CollectionShape
<1>1. /\ first <=> state \in FirstStates
      /\ state \in {"FlowSequenceFirstEntry", "FlowSequenceEntry"}
      /\ InFlow /\ state \notin Unmarked
  BY DEF Unmarked, parse_flow_sequence_entry, FirstStates, InFlow, FlowStates
<1>2. PICK e \in Entered(first) :
       /\ streamEnded' = e.ended
       /\ CASE first \/ e.tok = "FlowSequenceEnd" -> FlowSequenceItem(e.tok, e.marks)
            [] ~first /\ e.tok = "FlowEntry" -> \E t \in Supply : FlowSequenceItem(t, e.marks)
            [] ~first /\ e.tok = "ScanError" -> ScanFailed(e.marks)
            [] OTHER -> Unexpected(e.tok, e.marks)
  BY DEF parse_flow_sequence_entry
<1>3. /\ e.tok \in TokenSeen /\ e.ended \in BOOLEAN /\ e.marks \in Seq(Nat)
      /\ e.tok # "ScanError" => e.marks = EnteredMarks
  BY <1>1, EnteredFacts DEF CollectionReady
<1>4. CASE first \/ e.tok = "FlowSequenceEnd"
  BY <1>1, <1>2, <1>3, <1>4, FlowSequenceItemStep
<1>5. CASE ~first /\ e.tok = "FlowEntry"
  <2>1. PICK t \in Supply : FlowSequenceItem(t, e.marks)
    BY <1>2, <1>5
  <2> QED BY <1>1, <1>2, <1>3, <1>5, <2>1, SupplyTokens, FlowSequenceItemStep
<1>6. CASE ~first /\ e.tok = "ScanError"
  BY <1>2, <1>3, <1>6, FailStep DEF ScanFailed, TokenSeen
<1>7. CASE ~first /\ e.tok \notin {"FlowSequenceEnd", "FlowEntry", "ScanError"}
  BY <1>1, <1>2, <1>3, <1>7, UnexpectedStep
<1> QED BY <1>4, <1>5, <1>6, <1>7

\* A pair of a flow mapping has the shape.
LEMMA FlowMappingPairStep ==
  ASSUME CollectionReady, InFlow, state \in {"FlowMappingFirstKey", "FlowMappingKey"},
         NEW t \in TokenSeen, NEW m \in Seq(Nat), t # "ScanError" => m = EnteredMarks,
         FlowMappingPair(t, m), streamEnded' \in BOOLEAN
  PROVE  CollectionShape
<1>1. /\ {"FlowMappingValue", "FlowMappingEmptyValue"} \subseteq Kin(state) \cap ReturnStates
      /\ state \notin Unmarked
      /\ {"MappingEnd", "Scalar"} \subseteq EventTypes \ {"Error", "Panic"}
  BY DEF Kin, ReturnStates, FlowStates, EventTypes, Unmarked
<1>2. CASE t = "Key"
  <2>1. PICK u \in Supply :
              CASE u = "ScanError" -> Fail(u) /\ UNCHANGED <<state, states>>
                [] u \in {"Value", "FlowEntry", "FlowMappingEnd"} ->
                     EmptyScalar("FlowMappingValue", states) /\ look' = u
                [] OTHER -> FlowNode(u, "FlowMappingValue")
    BY <1>2 DEF FlowMappingPair
  <2>2. u \in TokenSeen /\ marks' = EnteredMarks /\ marks' \in Seq(Nat)
    BY <1>2, SupplyTokens DEF FlowMappingPair
  <2>3. CASE u = "ScanError"
    BY <2>1, <2>2, <2>3, FailStep
  <2>4. CASE u \in {"Value", "FlowEntry", "FlowMappingEnd"}
    <3>1. u \in TokenType
      BY <2>2, <2>4 DEF TokenSeen
    <3>2. EmptyScalar("FlowMappingValue", states) /\ look' = u
      BY <2>1, <2>4
    <3> QED BY <1>1, <2>2, <3>1, <3>2, StayStep DEF EmptyScalar
  <2>5. CASE u \notin {"ScanError", "Value", "FlowEntry", "FlowMappingEnd"}
    <3>1. FlowNode(u, "FlowMappingValue")
      BY <2>1, <2>5
    <3> QED BY <1>1, <2>2, <3>1, FlowNodeStep
  <2> QED BY <2>3, <2>4, <2>5
<1>3. CASE t = "FlowMappingEnd"
  <2>1. CollectionOver("MappingEnd", EnteredMarks)
    BY <1>3 DEF FlowMappingPair
  <2> QED BY <1>1, <2>1, OverStep
<1>4. CASE t = "ScanError"
  BY <1>4, FailStep DEF FlowMappingPair, ScanFailed
<1>5. CASE t \notin {"Key", "FlowMappingEnd", "ScanError"}
  BY <1>1, <1>5, FlowNodeStep DEF FlowMappingPair
<1> QED BY <1>2, <1>3, <1>4, <1>5

\* parse_flow_mapping_key has the shape.
LEMMA FlowMappingStep ==
  ASSUME CollectionReady, NEW first \in BOOLEAN, parse_flow_mapping_key(first)
  PROVE  CollectionShape
<1>1. /\ first <=> state \in FirstStates
      /\ state \in {"FlowMappingFirstKey", "FlowMappingKey"}
      /\ InFlow /\ state \notin Unmarked
  BY DEF Unmarked, parse_flow_mapping_key, FirstStates, InFlow, FlowStates
<1>2. PICK e \in Entered(first) :
       /\ streamEnded' = e.ended
       /\ CASE first \/ e.tok = "FlowMappingEnd" -> FlowMappingPair(e.tok, e.marks)
            [] ~first /\ e.tok = "FlowEntry" -> \E t \in Supply : FlowMappingPair(t, e.marks)
            [] ~first /\ e.tok = "ScanError" -> ScanFailed(e.marks)
            [] OTHER -> Unexpected(e.tok, e.marks)
  BY DEF parse_flow_mapping_key
<1>3. /\ e.tok \in TokenSeen /\ e.ended \in BOOLEAN /\ e.marks \in Seq(Nat)
      /\ e.tok # "ScanError" => e.marks = EnteredMarks
  BY <1>1, EnteredFacts DEF CollectionReady
<1>4. CASE first \/ e.tok = "FlowMappingEnd"
  BY <1>1, <1>2, <1>3, <1>4, FlowMappingPairStep
<1>5. CASE ~first /\ e.tok = "FlowEntry"
  <2>1. PICK t \in Supply : FlowMappingPair(t, e.marks)
    BY <1>2, <1>5
  <2> QED BY <1>1, <1>2, <1>3, <1>5, <2>1, SupplyTokens, FlowMappingPairStep
<1>6. CASE ~first /\ e.tok = "ScanError"
  BY <1>2, <1>3, <1>6, FailStep DEF ScanFailed, TokenSeen
<1>7. CASE ~first /\ e.tok \notin {"FlowMappingEnd", "FlowEntry", "ScanError"}
  BY <1>1, <1>2, <1>3, <1>7, UnexpectedStep
<1> QED BY <1>4, <1>5, <1>6, <1>7

\* The handlers of flow collections that keep their marks as they are.
LEMMA FlowMarks ==
  ASSUME CollectionReady, state \in FlowStates, UNCHANGED <<marks, streamEnded>>
  PROVE  /\ InFlow /\ Kin(state) = FlowStates
         /\ marks' = EnteredMarks /\ EnteredMarks \in Seq(Nat) /\ streamEnded' \in BOOLEAN
BY DEF FlowStates, FirstStates, InFlow, Kin, EnteredMarks, CollectionReady, ParserTypeOK

\* The handlers of single pairs and of flow mapping values have the shape.
LEMMA FlowPairStep ==
  ASSUME CollectionReady,
         \/ parse_flow_sequence_entry_mapping_key
         \/ parse_flow_sequence_entry_mapping_value
         \/ parse_flow_sequence_entry_mapping_end
         \/ \E empty \in BOOLEAN : parse_flow_mapping_value(empty)
  PROVE  CollectionShape
<1>1. /\ state \in FlowStates /\ InFlow /\ Kin(state) = FlowStates
      /\ marks' = EnteredMarks /\ EnteredMarks \in Seq(Nat) /\ streamEnded' \in BOOLEAN
  <2>1. state \in FlowStates /\ UNCHANGED <<marks, streamEnded>>
    BY DEF parse_flow_sequence_entry_mapping_key, parse_flow_sequence_entry_mapping_value,
           parse_flow_sequence_entry_mapping_end, parse_flow_mapping_value, FlowStates
  <2> QED BY <2>1, FlowMarks
<1>2. {"FlowSequenceEntryMappingValue", "FlowSequenceEntryMappingEnd", "FlowSequenceEntry",
       "FlowMappingKey"} \subseteq Kin(state) \cap ReturnStates
  BY <1>1 DEF FlowStates, ReturnStates
<1>3. {"Scalar", "MappingEnd"} \subseteq EventTypes \ {"Error", "Panic"}
  BY DEF EventTypes
<1>4. \A t \in Peeked : t \in TokenSeen
  BY PeekedTokens DEF CollectionReady
<1>5. CASE parse_flow_sequence_entry_mapping_key
  <2>1. PICK t \in Peeked :
       CASE t = "ScanError" -> Fail(t) /\ UNCHANGED <<state, states>>
         [] t \in {"Value", "FlowEntry", "FlowSequenceEnd"} ->
              EmptyScalar("FlowSequenceEntryMappingValue", states) /\ look' = "NoToken"
         [] OTHER -> FlowNode(t, "FlowSequenceEntryMappingValue")
    BY <1>5 DEF parse_flow_sequence_entry_mapping_key
  <2>2. CASE t = "ScanError"
    BY <1>1, <1>4, <2>1, <2>2, FailStep
  <2>3. CASE t \in {"Value", "FlowEntry", "FlowSequenceEnd"}
    BY <1>1, <1>2, <1>3, <2>1, <2>3, StayStep DEF EmptyScalar
  <2>4. CASE t \notin {"ScanError", "Value", "FlowEntry", "FlowSequenceEnd"}
    BY <1>1, <1>2, <1>4, <2>1, <2>4, FlowNodeStep
  <2> QED BY <2>2, <2>3, <2>4
<1>6. CASE parse_flow_sequence_entry_mapping_value
  <2>1. PICK t \in Peeked :
          FlowValue(t, {"FlowEntry", "FlowSequenceEnd"}, "FlowSequenceEntryMappingEnd")
    BY <1>6 DEF parse_flow_sequence_entry_mapping_value
  <2>2. "ScanError" \notin {"FlowEntry", "FlowSequenceEnd"}
    OBVIOUS
  <2> QED BY <1>1, <1>2, <2>1, <2>2, FlowValueStep
<1>7. CASE parse_flow_sequence_entry_mapping_end
  <2>1. PICK t \in Peeked :
       IF t = "ScanError"
       THEN Fail(t) /\ UNCHANGED state
       ELSE /\ state' = "FlowSequenceEntry"
            /\ event' = Event("MappingEnd", NoHandle)
            /\ look' = t
    BY <1>7 DEF parse_flow_sequence_entry_mapping_end
  <2>2. states' = states
    BY <1>7 DEF parse_flow_sequence_entry_mapping_end
  <2>3. CASE t = "ScanError"
    BY <1>1, <1>4, <2>1, <2>2, <2>3, FailStep
  <2>4. CASE t # "ScanError"
    <3>1. t \in TokenType
      BY <1>4, <2>4 DEF TokenSeen
    <3> QED BY <1>1, <1>2, <1>3, <2>1, <2>2, <2>4, <3>1, StayStep
  <2> QED BY <2>3, <2>4
<1>8. ASSUME NEW empty \in BOOLEAN, parse_flow_mapping_value(empty)
      PROVE  CollectionShape
  <2>1. PICK t \in Peeked :
       IF empty
       THEN IF t = "ScanError"
            THEN Fail(t) /\ UNCHANGED <<state, states>>
            ELSE EmptyScalar("FlowMappingKey", states) /\ look' = t
       ELSE FlowValue(t, {"FlowEntry", "FlowMappingEnd"}, "FlowMappingKey")
    BY <1>8 DEF parse_flow_mapping_value
  <2>2. CASE empty /\ t = "ScanError"
    BY <1>1, <1>4, <2>1, <2>2, FailStep
  <2>3. CASE empty /\ t # "ScanError"
    <3>1. t \in TokenType
      BY <1>4, <2>3 DEF TokenSeen
    <3> QED BY <1>1, <1>2, <1>3, <2>1, <2>3, <3>1, StayStep DEF EmptyScalar
  <2>4. CASE ~empty
    <3>1. "ScanError" \notin {"FlowEntry", "FlowMappingEnd"}
      OBVIOUS
    <3> QED BY <1>1, <1>2, <2>1, <2>4, <3>1, FlowValueStep
  <2> QED BY <2>2, <2>3, <2>4
<1> QED BY <1>5, <1>6, <1>7, <1>8

\* All handlers of collections together.
LEMMA CollectionSteps == CollectionReady /\ CollectionHandlers => CollectionShape
BY BlockSequenceStep, BlockMappingKeyStep, BlockMappingValueStep, IndentlessStep,
   FlowSequenceStep, FlowMappingStep, FlowPairStep DEF CollectionHandlers

-----------------------------------------------------------------------------
\* The marked depths of a stack of states.
Depths(st) == {i - 1 : i \in {j \in DOMAIN st : st[j] \in Marked}}

\* A marked depth is below the height of the stack.
LEMMA DepthsBound ==
  ASSUME NEW st \in Seq(ReturnStates), NEW d \in Depths(st)
  PROVE  d \in Nat /\ d < Len(st)
BY LenProperties DEF Depths

\* Pushing a state adds at most its own depth.
LEMMA DepthsAppend ==
  ASSUME NEW st \in Seq(ReturnStates), NEW s \in ReturnStates
  PROVE  Depths(Append(st, s)) = Depths(st) \cup (IF s \in Marked THEN {Len(st)} ELSE {})
<1> DEFINE new == Append(st, s)
<1>1. /\ DOMAIN new = 1..(Len(st) + 1) /\ DOMAIN st = 1..Len(st) /\ Len(st) \in Nat
      /\ \A i \in 1..Len(st) : new[i] = st[i]
      /\ new[Len(st) + 1] = s
  BY AppendFacts, LenProperties
<1> HIDE DEF new
<1>2. \A d : d \in Depths(new) <=> \E i \in DOMAIN new : new[i] \in Marked /\ d = i - 1
  BY DEF Depths
<1>3. \A d : d \in Depths(st) <=> \E i \in DOMAIN st : st[i] \in Marked /\ d = i - 1
  BY DEF Depths
<1>4. ASSUME NEW d \in Depths(new)
      PROVE  d \in Depths(st) \cup (IF s \in Marked THEN {Len(st)} ELSE {})
  BY <1>1, <1>2, <1>3
<1>5. Depths(st) \subseteq Depths(new)
  BY <1>1, <1>2, <1>3
<1>6. s \in Marked => Len(st) \in Depths(new)
  <2>1. Len(st) + 1 \in DOMAIN new /\ (Len(st) + 1) - 1 = Len(st)
    BY <1>1
  <2> QED BY <1>1, <1>2, <2>1
<1> QED BY <1>4, <1>5, <1>6 DEF new

\* Popping a state removes at most its own depth.
LEMMA DepthsFront ==
  ASSUME NEW st \in Seq(ReturnStates), st # <<>>
  PROVE  Depths(st) = Depths(Front(st))
                        \cup (IF Last(st) \in Marked THEN {Len(Front(st))} ELSE {})
<1>1. Front(st) \in Seq(ReturnStates) /\ Last(st) \in ReturnStates
  BY FrontFacts
<1>2. st = Append(Front(st), Last(st))
  <2>1. Append(Front(st), Last(st)) \in Seq(ReturnStates)
        /\ Len(Append(Front(st), Last(st))) = Len(st)
    BY <1>1, FrontFacts, AppendFacts
  <2>2. ASSUME NEW i \in 1..Len(st) PROVE Append(Front(st), Last(st))[i] = st[i]
    BY <1>1, FrontFacts, AppendFacts
  <2> QED BY <2>1, <2>2, SeqEqual
<1> QED BY <1>1, <1>2, DepthsAppend

Increasing(s) == \A i, j \in DOMAIN s : i < j => s[i] < s[j]
Members(s) == {s[i] : i \in DOMAIN s}

\* A mark above all others is pushed: the marks stay increasing.
LEMMA PushMark ==
  ASSUME NEW m \in Seq(Nat), Increasing(m), NEW n \in Nat, \A d \in Members(m) : d < n
  PROVE  Increasing(Append(m, n)) /\ Members(Append(m, n)) = Members(m) \cup {n}
<1> DEFINE new == Append(m, n)
<1>1. /\ DOMAIN new = 1..(Len(m) + 1) /\ DOMAIN m = 1..Len(m) /\ Len(m) \in Nat
      /\ \A i \in 1..Len(m) : new[i] = m[i]
      /\ new[Len(m) + 1] = n
  BY AppendFacts, LenProperties
<1>2. \A i \in DOMAIN m : m[i] \in Members(m) /\ m[i] \in Nat
  BY <1>1, ElementOfSeq DEF Members
<1> HIDE DEF new
<1>3. Increasing(new)
  <2> SUFFICES ASSUME NEW i \in DOMAIN new, NEW j \in DOMAIN new, i < j
               PROVE  new[i] < new[j]
    BY DEF Increasing
  <2>1. CASE j = Len(m) + 1
    BY <1>1, <1>2, <2>1
  <2>2. CASE j # Len(m) + 1
    BY <1>1, <1>2, <2>2 DEF Increasing
  <2> QED BY <2>1, <2>2
<1>4. Members(new) = Members(m) \cup {n}
  <2>1. Len(m) + 1 \in DOMAIN new
    BY <1>1
  <2>2. Members(new) \subseteq Members(m) \cup {n}
    BY <1>1 DEF Members
  <2>3. Members(m) \cup {n} \subseteq Members(new)
    BY <1>1, <2>1 DEF Members
  <2> QED BY <2>2, <2>3
<1> QED BY <1>3, <1>4 DEF new

\* The innermost mark is popped: it was the largest.
LEMMA PopMark ==
  ASSUME NEW m \in Seq(Nat), Increasing(m), NEW n \in Nat, NEW D \in SUBSET Nat,
         \A d \in D : d < n, Members(m) = D \cup {n}
  PROVE  m # <<>> /\ Increasing(Front(m)) /\ Members(Front(m)) = D
<1>1. m # <<>>
  BY DEF Members
<1>2. /\ DOMAIN m = 1..Len(m) /\ Len(m) \in Nat \ {0}
      /\ DOMAIN Front(m) = 1..(Len(m) - 1)
      /\ \A i \in 1..(Len(m) - 1) : Front(m)[i] = m[i]
  BY <1>1, FrontFacts, LenProperties
<1>3. \A i \in DOMAIN m : m[i] \in Nat
  BY <1>2, ElementOfSeq
<1>4. Increasing(Front(m))
  BY <1>2, SMTT(30) DEF Increasing
<1>5. PICK k \in DOMAIN m : m[k] = n
  BY DEF Members
<1>6. k = Len(m)
  <2> SUFFICES ASSUME k < Len(m) PROVE FALSE
    BY <1>2, <1>5
  <2>1. m[k] < m[Len(m)] /\ m[Len(m)] \in D \cup {n}
    BY <1>2, <1>5, SMTT(30) DEF Increasing, Members
  <2> QED BY <1>3, <1>5, <2>1
<1>7. \A i \in 1..(Len(m) - 1) : m[i] < n
  BY <1>2, <1>5, <1>6, SMTT(30) DEF Increasing
<1>8. Members(Front(m)) \subseteq D
  <2> SUFFICES ASSUME NEW i \in 1..(Len(m) - 1) PROVE m[i] \in D
    BY <1>2 DEF Members
  <2>1. m[i] \in D \cup {n}
    BY <1>2, SMTT(30) DEF Members
  <2>2. m[i] < n /\ m[i] \in Nat
    BY <1>2, <1>3, <1>7
  <2> QED BY <2>1, <2>2
<1>9. D \subseteq Members(Front(m))
  <2> SUFFICES ASSUME NEW d \in D PROVE \E i \in 1..(Len(m) - 1) : m[i] = d
    BY <1>2 DEF Members
  <2>1. PICK i \in DOMAIN m : m[i] = d
    BY DEF Members
  <2>2. d < n /\ d \in Nat
    OBVIOUS
  <2>3. i # Len(m)
    BY <1>5, <1>6, <2>1, <2>2
  <2> QED BY <1>2, <2>1, <2>3
<1> QED BY <1>1, <1>4, <1>8, <1>9

-----------------------------------------------------------------------------
\* At the start of a document no directive of an earlier one is left; within
\* it the handles in force are the declared ones and the defaults.
TagsScoped ==
  /\ Healthy => /\ tagDirectives \subseteq declared \cup DefaultHandles
                /\ state \in {"StreamStart", "ImplicitDocumentStart", "DocumentStart"}
                     => tagDirectives = {}
  /\ TagScope

\* The inductive invariant: the pops are safe because of the frame of the
\* stack and the agreement of the marks, and those hold together only.
ParserInv == /\ ParserTypeOK /\ StackFramed /\ MarksMatchStates
             /\ NoBlockInFlow /\ NoPanic /\ TagsScoped

\* The marked depths in terms of the stack alone.
LEMMA MarksMeaning ==
  MarkedDepths = Depths(states) \cup (IF state \in Marked THEN {Len(states)} ELSE {})
BY DEF MarkedDepths, Depths

\* The agreement of the stacks in terms of sets of marks.
LEMMA MarksMatchMeaning ==
  MarksMatchStates <=>
    (Healthy => /\ Members(marks) = Depths(states)
                                      \cup (IF state \in Marked THEN {Len(states)} ELSE {})
                /\ Increasing(marks))
BY MarksMeaning DEF MarksMatchStates, Members, Increasing

\* The same of the next state.
LEMMA MarksMatchMeaningNext ==
  MarksMatchStates' <=>
    (Healthy' => /\ Members(marks') = Depths(states')
                                      \cup (IF state' \in Marked THEN {Len(states')} ELSE {})
                 /\ Increasing(marks'))
<1>1. MarkedDepths' = Depths(states') \cup (IF state' \in Marked THEN {Len(states')} ELSE {})
  BY DEF MarkedDepths, Depths, Marked, BlockStates, FlowStates
<1> QED BY <1>1 DEF MarksMatchStates, Members, Increasing

\* The invariant gives a handler what it relies on.
LEMMA InvReady ==
  ASSUME ParserInv, Healthy, state \in NodeStates
  PROVE  CollectionReady
<1>1. states # <<>>
  BY DEF ParserInv, StackFramed, NodeStates, Unmarked, StreamStates, BlockStates, FlowStates,
         FirstStates
<1>2. state \in Marked => marks # <<>>
  BY MarksMatchMeaning DEF ParserInv, Members
<1> QED BY <1>1, <1>2 DEF CollectionReady, ParserInv

\* What the kin of a state may be.
LEMMA KinStates ==
  ASSUME state \in NodeStates
  PROVE  /\ Kin(state) \subseteq BlockStates \cup FlowStates \cup FirstStates
                              \cup {"IndentlessSequenceEntry"}
         /\ state \notin Unmarked => Kin(state) \subseteq Marked
         /\ state \in Unmarked => Kin(state) \cap Marked = {}
         /\ InFlow => Kin(state) = FlowStates
         /\ ~InFlow => Kin(state) \cap FlowStates = {}
BY DEF NodeStates, Unmarked, Kin, StartStates, BlockStates, FlowStates, FirstStates,
       Marked, InFlow

\* The shape keeps the types.
LEMMA CollectionType ==
  ASSUME ParserInv, Healthy, state \in NodeStates, CollectionShape,
         UNCHANGED <<tagDirectives, declared>>
  PROVE  ParserTypeOK'
<1>1. CollectionReady
  BY InvReady
<1>2. marks \in Seq(Nat) /\ states \in Seq(ReturnStates) /\ Len(states) \in Nat
  BY LenProperties DEF ParserInv, ParserTypeOK
<1>3. EnteredMarks \in Seq(Nat)
  BY <1>2, AppendFacts DEF EnteredMarks
<1>4. Ascends => MarksLeft \in Seq(Nat)
  BY <1>1, <1>2, FrontFacts
     DEF CollectionReady, MarksLeft, NodeStates, Unmarked, Marked, BlockStates, FlowStates
<1>5. ReturnStates \subseteq ParserState /\ Kin(state) \subseteq ParserState
      /\ StartStates(~InFlow) \subseteq ParserState
  BY KinStates DEF ReturnStates, ParserState, BlockStates, FlowStates, FirstStates,
     DocumentStates, StartStates
<1>6. \A s \in ReturnStates : Append(states, s) \in Seq(ReturnStates)
  BY <1>2, AppendFacts
<1>7. Front(states) \in Seq(ReturnStates) /\ Last(states) \in ReturnStates
  BY <1>1, <1>2, FrontFacts DEF CollectionReady
<1>8. state' \in ParserState /\ states' \in Seq(ReturnStates) /\ marks' \in Seq(Nat)
  <2>1. state \in ParserState
    BY DEF ParserInv, ParserTypeOK
  <2>2. CASE event'.type = "Error" /\ Fails
    BY <1>2, <1>6, <2>1, <2>2 DEF Fails
  <2>3. CASE Stays
    BY <1>2, <1>3, <1>5, <2>3 DEF Stays
  <2>4. CASE Descends
    BY <1>3, <1>5, <1>6, <2>4 DEF Descends
  <2>5. CASE Ascends
    BY <1>4, <1>5, <1>7, <2>5 DEF Ascends
  <2> QED BY <2>2, <2>3, <2>4, <2>5 DEF CollectionShape
<1> QED BY <1>8 DEF CollectionShape, ParserInv, ParserTypeOK, Answer

\* The shape keeps the frame of the stack.
LEMMA CollectionFramed ==
  ASSUME ParserInv, Healthy, state \in NodeStates, CollectionShape
  PROVE  StackFramed'
<1> SUFFICES ASSUME Healthy'
             PROVE  IF state' \in StreamStates \cup {"DocumentEnd"}
                    THEN states' = <<>>
                    ELSE /\ states' # <<>>
                         /\ \A i \in DOMAIN states' : states'[i] = "DocumentEnd" <=> i = 1
  BY DEF StackFramed, StreamStates
<1>1. /\ states \in Seq(ReturnStates) /\ states # <<>>
      /\ \A i \in DOMAIN states : states[i] = "DocumentEnd" <=> i = 1
  BY DEF ParserInv, ParserTypeOK, StackFramed, NodeStates, Unmarked, StreamStates, BlockStates,
         FlowStates, FirstStates
<1>2. Stays \/ Descends \/ Ascends
  BY DEF Healthy, CollectionShape
<1>3. Kin(state) \cap (StreamStates \cup {"DocumentEnd"}) = {}
  BY KinStates DEF StreamStates, BlockStates, FlowStates, FirstStates
<1>4. CASE Stays
  BY <1>1, <1>3, <1>4 DEF Stays
<1>5. CASE Descends
  <2>1. PICK s \in Kin(state) \cap ReturnStates : states' = Append(states, s)
    BY <1>5 DEF Descends
  <2>2. state' \notin StreamStates \cup {"DocumentEnd"}
    BY <1>5 DEF Descends, StartStates, StreamStates
  <2>3. /\ DOMAIN states' = 1..(Len(states) + 1) /\ DOMAIN states = 1..Len(states)
        /\ states'[Len(states) + 1] = s /\ \A i \in 1..Len(states) : states'[i] = states[i]
        /\ states' # <<>> /\ Len(states) \in Nat \ {0}
    BY <1>1, <2>1, AppendFacts, FrontFacts, LenProperties
  <2>4. s # "DocumentEnd"
    BY <1>3, <2>1
  <2> QED BY <1>1, <2>2, <2>3, <2>4
<1>6. CASE Ascends
  <2>1. state' = Last(states) /\ states' = Front(states)
    BY <1>6 DEF Ascends
  <2>2. /\ DOMAIN states' = 1..(Len(states) - 1) /\ DOMAIN states = 1..Len(states)
        /\ Len(states) \in Nat \ {0} /\ state' = states[Len(states)]
        /\ \A i \in 1..(Len(states) - 1) : states'[i] = states[i]
        /\ state' \in ReturnStates /\ states' \in Seq(ReturnStates)
        /\ Len(states') = Len(states) - 1
    BY <1>1, <2>1, FrontFacts, LenProperties
  <2>3. CASE Len(states) = 1
    BY <1>1, <2>2, <2>3, EmptySeq
  <2>4. CASE Len(states) # 1
    <3>1. states' # <<>>
      BY <2>2, <2>4, EmptySeq
    <3>2. state' \notin StreamStates \cup {"DocumentEnd"}
      BY <1>1, <2>2, <2>4 DEF ReturnStates, StreamStates
    <3> QED BY <1>1, <2>2, <2>4, <3>1, <3>2
  <2> QED BY <2>3, <2>4
<1> QED BY <1>2, <1>4, <1>5, <1>6

\* The shape keeps the agreement of marks and states.
LEMMA CollectionMarks ==
  ASSUME ParserInv, Healthy, state \in NodeStates, CollectionShape
  PROVE  MarksMatchStates'
<1> SUFFICES ASSUME Healthy'
             PROVE  /\ Members(marks') = Depths(states')
                                      \cup (IF state' \in Marked THEN {Len(states')} ELSE {})
                    /\ Increasing(marks')
  BY MarksMatchMeaningNext
<1> DEFINE n == Len(states)
           D == Depths(states)
<1>1. /\ states \in Seq(ReturnStates) /\ states # <<>> /\ marks \in Seq(Nat) /\ n \in Nat
  BY InvReady, LenProperties DEF CollectionReady, ParserTypeOK
<1>2. D \subseteq Nat /\ \A d \in D : d < n
  BY <1>1, DepthsBound
<1>3. /\ Members(marks) = D \cup (IF state \in Marked THEN {n} ELSE {})
      /\ Increasing(marks)
  BY MarksMatchMeaning DEF ParserInv
<1>4. Stays \/ Descends \/ Ascends
  BY DEF Healthy, CollectionShape
<1>5. /\ state \in FirstStates => state \notin Marked
      /\ state \in Unmarked => state \notin Marked
      /\ state \notin FirstStates \cup Unmarked => state \in Marked
  BY DEF NodeStates, Unmarked, FirstStates, Marked, BlockStates, FlowStates
<1>6. /\ Members(EnteredMarks) =
           D \cup (IF state \in Unmarked THEN {} ELSE {n})
      /\ Increasing(EnteredMarks)
  <2>1. CASE state \in FirstStates
    <3>1. /\ Members(Append(marks, n)) = Members(marks) \cup {n}
          /\ Increasing(Append(marks, n))
      BY <1>1, <1>2, <1>3, <1>5, <2>1, PushMark
    <3>2. state \notin Unmarked
      BY <2>1 DEF FirstStates, Unmarked
    <3> QED BY <1>3, <1>5, <2>1, <3>1, <3>2 DEF EnteredMarks
  <2>2. CASE state \notin FirstStates
    BY <1>3, <1>5, <2>2 DEF EnteredMarks
  <2> QED BY <2>1, <2>2
<1>7. CASE Stays
  <2>1. state' \in Marked <=> state \notin Unmarked
    BY <1>7, KinStates DEF Stays
  <2> QED BY <1>6, <1>7, <2>1 DEF Stays
<1>8. CASE Descends
  <2>1. PICK s \in Kin(state) \cap ReturnStates : states' = Append(states, s)
    BY <1>8 DEF Descends
  <2>2. s \in Marked <=> state \notin Unmarked
    BY <2>1, KinStates
  <2>3. Depths(states') = D \cup (IF s \in Marked THEN {n} ELSE {})
    BY <1>1, <2>1, DepthsAppend
  <2>4. state' \notin Marked
    BY <1>8 DEF Descends, StartStates, Marked, BlockStates, FlowStates
  <2> QED BY <1>6, <1>8, <2>2, <2>3, <2>4 DEF Descends
<1>9. CASE Ascends
  <2>1. state' = Last(states) /\ states' = Front(states) /\ marks' = MarksLeft
    BY <1>9 DEF Ascends
  <2>2. D = Depths(states') \cup (IF state' \in Marked THEN {Len(states')} ELSE {})
    BY <1>1, <2>1, DepthsFront
  <2>3. Members(MarksLeft) = D /\ Increasing(MarksLeft)
    <3>1. CASE state \in FirstStates \cup Unmarked
      BY <1>3, <1>5, <3>1 DEF MarksLeft, FirstStates, Unmarked
    <3>2. CASE state \notin FirstStates \cup Unmarked
      <4>1. Members(marks) = D \cup {n}
        BY <1>3, <1>5, <3>2
      <4>2. Increasing(Front(marks)) /\ Members(Front(marks)) = D
        <5> HIDE DEF n, D
        <5> QED BY <1>1, <1>2, <1>3, <4>1, PopMark
      <4> QED BY <3>2, <4>2 DEF MarksLeft
    <3> QED BY <3>1, <3>2
  <2> QED BY <2>1, <2>2, <2>3
<1> QED BY <1>4, <1>7, <1>8, <1>9

\* The shape keeps block collections out of flow collections.
LEMMA CollectionFlow ==
  ASSUME ParserInv, Healthy, state \in NodeStates, CollectionShape
  PROVE  NoBlockInFlow'
<1> DEFINE FlowTop == FlowStates \cup {"FlowSequenceFirstEntry", "FlowMappingFirstKey"}
<1>1. /\ states \in Seq(ReturnStates) /\ states # <<>> /\ Len(states) \in Nat \ {0}
      /\ DOMAIN states = 1..Len(states)
  BY InvReady, FrontFacts, LenProperties DEF CollectionReady, ParserTypeOK
<1>2. \A i \in DOMAIN states : states[i] \in FlowStates =>
         state \in FlowTop /\ \A j \in i..Len(states) : states[j] \in FlowStates
  BY DEF ParserInv, NoBlockInFlow
<1>3. /\ state \in FlowTop => Kin(state) = FlowStates
      /\ state \notin FlowTop => Kin(state) \cap FlowStates = {}
      /\ state \in FlowTop => StartStates(~InFlow) \subseteq FlowTop
  BY KinStates DEF InFlow, StartStates
<1>4. SUFFICES ASSUME NEW i \in DOMAIN states', states'[i] \in FlowStates
               PROVE  /\ \A j \in i..Len(states') : states'[j] \in FlowStates
                      /\ Healthy' => state' \in FlowTop
  BY DEF NoBlockInFlow, FlowStates
<1>5. ASSUME NEW s \in Kin(state) \cap ReturnStates, states' = Append(states, s),
             Healthy' => state' \in StartStates(~InFlow)
      PROVE  /\ \A j \in i..Len(states') : states'[j] \in FlowStates
             /\ Healthy' => state' \in FlowTop
  <2>1. /\ DOMAIN states' = 1..(Len(states) + 1) /\ Len(states') = Len(states) + 1
        /\ states'[Len(states) + 1] = s
        /\ \A k \in 1..Len(states) : states'[k] = states[k]
    BY <1>1, <1>5, AppendFacts, LenProperties
  <2>2. state \in FlowTop
    <3>1. CASE i = Len(states) + 1
      BY <1>3, <1>4, <2>1, <3>1
    <3>2. CASE i # Len(states) + 1
      BY <1>1, <1>2, <1>4, <2>1, <3>2
    <3> QED BY <3>1, <3>2
  <2>3. s \in FlowStates
    BY <1>3, <2>2
  <2>4. \A j \in i..Len(states') : states'[j] \in FlowStates
    <3> SUFFICES ASSUME NEW j \in i..Len(states') PROVE states'[j] \in FlowStates
      OBVIOUS
    <3>1. CASE j = Len(states) + 1
      BY <2>1, <2>3, <3>1
    <3>2. CASE j # Len(states) + 1
      BY <1>1, <1>2, <1>4, <2>1, <3>2
    <3> QED BY <3>1, <3>2
  <2> QED BY <1>3, <1>5, <2>2, <2>4
<1>6. CASE event'.type = "Error" /\ Fails
  <2>1. CASE states' = states
    BY <1>2, <1>4, <1>6, <2>1 DEF Healthy
  <2>2. CASE \E s \in Kin(state) \cap ReturnStates : states' = Append(states, s)
    BY <1>5, <1>6, <2>2 DEF Healthy
  <2> QED BY <1>6, <2>1, <2>2 DEF Fails
<1>7. CASE Stays
  BY <1>2, <1>3, <1>4, <1>7 DEF Stays
<1>8. CASE Descends
  BY <1>5, <1>8 DEF Descends
<1>9. CASE Ascends
  <2>1. /\ DOMAIN states' = 1..(Len(states) - 1) /\ Len(states') = Len(states) - 1
        /\ state' = states[Len(states)]
        /\ \A k \in 1..(Len(states) - 1) : states'[k] = states[k]
    BY <1>1, <1>9, FrontFacts, LenProperties DEF Ascends
  <2>2. \A j \in i..Len(states) : states[j] \in FlowStates
    BY <1>1, <1>2, <1>4, <2>1
  <2>3. state' \in FlowStates
    BY <1>1, <1>4, <2>1, <2>2
  <2> QED BY <1>1, <1>4, <2>1, <2>2, <2>3
<1> QED BY <1>6, <1>7, <1>8, <1>9 DEF CollectionShape

\* The shape keeps tags in the scope of their document.
LEMMA CollectionTags ==
  ASSUME ParserInv, Healthy, state \in NodeStates, CollectionShape,
         UNCHANGED <<tagDirectives, declared>>
  PROVE  TagsScoped'
<1>1. Healthy' => state' \notin {"StreamStart", "ImplicitDocumentStart", "DocumentStart"}
  <2> SUFFICES ASSUME Healthy' PROVE state' \notin StreamStates
    BY DEF StreamStates
  <2>1. Stays \/ Descends \/ Ascends
    BY DEF Healthy, CollectionShape
  <2>2. CASE Stays
    BY <2>2, KinStates DEF Stays, StreamStates, BlockStates, FlowStates, FirstStates
  <2>3. CASE Descends
    BY <2>3 DEF Descends, StartStates, StreamStates
  <2>4. CASE Ascends
    <3>1. states \in Seq(ReturnStates) /\ states # <<>>
      BY InvReady DEF CollectionReady, ParserTypeOK
    <3>2. state' \in ReturnStates
      BY <2>4, <3>1, FrontFacts DEF Ascends
    <3> QED BY <3>2 DEF ReturnStates, StreamStates
  <2> QED BY <2>1, <2>2, <2>3, <2>4
<1>2. event'.handle \in tagDirectives \cup {NoHandle}
  BY DEF CollectionShape
<1>3. tagDirectives \subseteq declared \cup DefaultHandles
  BY DEF ParserInv, TagsScoped
<1> QED BY <1>1, <1>2, <1>3 DEF TagsScoped, TagScope

\* The shape keeps the invariant.
LEMMA ShapeKeeps ==
  ASSUME ParserInv, Healthy, state \in NodeStates, CollectionShape,
         UNCHANGED <<tagDirectives, declared>>
  PROVE  ParserInv'
<1>1. NoPanic'
  BY DEF CollectionShape, NoPanic
<1> QED BY <1>1, CollectionType, CollectionFramed, CollectionMarks,
        CollectionFlow, CollectionTags DEF ParserInv

\* The handlers of collections keep the invariant.
LEMMA CollectionKeeps ==
  ASSUME ParserInv, Healthy, CollectionHandlers
  PROVE  ParserInv'
<1>1. /\ state \in NodeStates
      /\ UNCHANGED <<tagDirectives, declared>>
  BY DEF CollectionHandlers, NodeStates, Unmarked, BlockStates, FlowStates, FirstStates,
     parse_block_sequence_entry, parse_block_mapping_key, parse_flow_sequence_entry,
     parse_flow_mapping_key, parse_indentless_sequence_entry, parse_block_mapping_value,
     parse_flow_sequence_entry_mapping_key, parse_flow_sequence_entry_mapping_value,
     parse_flow_sequence_entry_mapping_end, parse_flow_mapping_value
<1>2. CollectionShape
  BY <1>1, InvReady, CollectionSteps
<1> QED BY <1>1, <1>2, ShapeKeeps

-----------------------------------------------------------------------------
\* The handlers that read a root node have the shape too.
LEMMA RootSteps ==
  ASSUME ParserInv, Healthy, parse_document_content \/ parse_block_node
  PROVE  CollectionShape
<1>1. /\ state \in {"DocumentContent", "BlockNode"} /\ ~InFlow
      /\ Kin(state) = StartStates(~InFlow)
      /\ MarksLeft = marks /\ EnteredMarks = marks
      /\ UNCHANGED <<marks, streamEnded>>
  BY DEF parse_document_content, parse_block_node, InFlow, FlowStates, Kin, MarksLeft, Unmarked,
         EnteredMarks, FirstStates
<1>2. CollectionReady
  BY <1>1, InvReady DEF NodeStates, Unmarked
<1>3. marks' \in Seq(Nat) /\ streamEnded' \in BOOLEAN
  BY <1>1, <1>2 DEF CollectionReady, ParserTypeOK
<1>4. ASSUME NEW t \in Peeked, Node(TRUE, FALSE, t, states)
      PROVE  CollectionShape
  <2>1. NodeShape(TRUE, states)
    BY <1>2, <1>4, NodeSteps, PeekedTokens DEF CollectionReady
  <2>2. CASE event'.type = "Error" /\ states' = states /\ state' = state
    BY <1>3, <2>1, <2>2 DEF NodeShape, CollectionShape, Fails
  <2>3. CASE event'.type \in NodeAnswers /\ state' = Last(states) /\ states' = Front(states)
    BY <1>1, <1>3, <2>1, <2>3 DEF NodeShape, CollectionShape, Ascends, NodeAnswers
  <2>4. CASE event'.type \in NodeAnswers /\ states' = states /\ state' \in StartStates(TRUE)
    BY <1>1, <1>3, <2>1, <2>4 DEF NodeShape, CollectionShape, Stays, NodeAnswers, StartStates
  <2> QED BY <2>1, <2>2, <2>3, <2>4 DEF NodeShape
<1>5. ASSUME NEW t \in TokenType, Return(states, Event("Scalar", NoHandle)), look' = t
      PROVE  CollectionShape
  <2>1. event' = Event("Scalar", NoHandle) /\ state' = Last(states) /\ states' = Front(states)
    BY <1>2, <1>5 DEF Return, CollectionReady
  <2>2. "Scalar" \in EventTypes /\ NoHandle \in AllHandles \cup {NoHandle}
    BY DEF EventTypes
  <2>3. event' \in Answer /\ event'.type = "Scalar" /\ event'.handle = NoHandle
    BY <2>1, <2>2, EventFacts
  <2> QED BY <1>1, <1>3, <1>5, <2>1, <2>3 DEF CollectionShape, Ascends
<1>6. CASE parse_block_node
  BY <1>4, <1>6 DEF parse_block_node
<1>7. CASE parse_document_content
  <2>1. PICK t \in Peeked :
       IF t \in Directives \cup {"DocumentStart", "DocumentEnd", "StreamEnd"}
       THEN Return(states, Event("Scalar", NoHandle)) /\ look' = t
       ELSE Node(TRUE, FALSE, t, states)
    BY <1>7 DEF parse_document_content
  <2>2. Directives \cup {"DocumentStart", "DocumentEnd", "StreamEnd"} \subseteq TokenType
    BY DEF TokenType
  <2> QED BY <1>4, <1>5, <2>1, <2>2
<1> QED BY <1>6, <1>7

\* The handlers that read a root node keep the invariant.
LEMMA RootKeeps ==
  ASSUME ParserInv, Healthy, parse_document_content \/ parse_block_node
  PROVE  ParserInv'
<1>1. state \in NodeStates /\ UNCHANGED <<tagDirectives, declared>>
  BY DEF parse_document_content, parse_block_node, NodeStates, Unmarked
<1> QED BY <1>1, RootSteps, ShapeKeeps

-----------------------------------------------------------------------------
\* A state outside every collection: both stacks are as the invariant says.
LEMMA OutsideKeeps ==
  ASSUME ParserTypeOK', NoPanic', TagsScoped',
         Healthy' => /\ marks' = <<>>
                     /\ \/ states' = <<>> /\ state' \in StreamStates \cup {"DocumentEnd"}
                        \/ /\ states' = <<"DocumentEnd">>
                           /\ state' \in {"DocumentContent", "BlockNode"},
         ~Healthy' => states' = <<>>
  PROVE  ParserInv'
<1>1. state' \in StreamStates \cup {"DocumentEnd", "DocumentContent", "BlockNode"}
        => state' \notin Marked
  BY DEF StreamStates, Marked, BlockStates, FlowStates
<1>2. StackFramed'
  BY DEF StackFramed, StreamStates
<1>3. MarksMatchStates'
  <2> SUFFICES ASSUME Healthy'
               PROVE  /\ Members(marks') = Depths(states')
                                      \cup (IF state' \in Marked THEN {Len(states')} ELSE {})
                      /\ Increasing(marks')
    BY MarksMatchMeaningNext
  <2>1. Members(marks') = {} /\ Increasing(marks')
    BY DEF Members, Increasing
  <2>2. state' \notin Marked
    BY <1>1
  <2>3. Depths(states') = {}
    BY DEF Depths, Marked, BlockStates, FlowStates
  <2> QED BY <2>1, <2>2, <2>3
<1>4. NoBlockInFlow'
  BY DEF NoBlockInFlow, FlowStates
<1> QED BY <1>2, <1>3, <1>4 DEF ParserInv

\* Outside of documents both stacks are empty.
LEMMA OutsideFacts ==
  ASSUME ParserInv, Healthy, state \in StreamStates \cup {"DocumentEnd"}
  PROVE  states = <<>> /\ marks = <<>>
<1>1. states = <<>>
  BY DEF ParserInv, StackFramed
<1>2. state \notin Marked
  BY DEF StreamStates, Marked, BlockStates, FlowStates
<1>3. Depths(states) = {}
  BY <1>1 DEF Depths
<1>4. Members(marks) = {} /\ marks \in Seq(Nat)
  BY <1>2, <1>3, MarksMatchMeaning DEF ParserInv, ParserTypeOK
<1>5. marks = <<>>
  <2> SUFFICES ASSUME marks # <<>> PROVE FALSE
    OBVIOUS
  <2>1. Len(marks) \in DOMAIN marks
    BY <1>4, FrontFacts, LenProperties
  <2> QED BY <1>4, <2>1 DEF Members
<1> QED BY <1>1, <1>5

\* parse_stream_start keeps the invariant.
LEMMA StreamStartKeeps ==
  ASSUME ParserInv, Healthy, parse_stream_start
  PROVE  ParserInv'
<1>1. /\ state = "StreamStart" /\ states = <<>> /\ marks = <<>> /\ tagDirectives = {}
      /\ UNCHANGED <<states, marks, tagDirectives, streamEnded, declared>>
  BY OutsideFacts DEF parse_stream_start, StreamStates, ParserInv, TagsScoped
<1>2. PICK t \in Peeked :
       IF t = "StreamStart"
       THEN /\ event' = Event("StreamStart", NoHandle)
            /\ state' = "ImplicitDocumentStart"
            /\ look' = "NoToken"
       ELSE Fail(t) /\ UNCHANGED state
  BY DEF parse_stream_start
<1>3. /\ look' \in TokenType \cup {"NoToken"}
      /\ event' \in Answer /\ event'.handle = NoHandle /\ event'.type # "Panic"
      /\ state' \in {"StreamStart", "ImplicitDocumentStart"}
  <2>1. t \in TokenSeen
    BY PeekedTokens DEF ParserInv
  <2>2. "StreamStart" \in EventTypes /\ NoHandle \in AllHandles \cup {NoHandle}
    BY DEF EventTypes
  <2> QED BY <1>1, <1>2, <2>1, <2>2, EventFacts, FailFacts
<1>4. ParserTypeOK'
  BY <1>1, <1>3 DEF ParserInv, ParserTypeOK, Answer, ParserState, StreamStates
<1>5. TagsScoped' /\ NoPanic'
  BY <1>1, <1>3 DEF TagsScoped, TagScope, NoPanic
<1> QED BY <1>1, <1>3, <1>4, <1>5, OutsideKeeps DEF StreamStates

\* parse_document_end keeps the invariant.
LEMMA DocumentEndKeeps ==
  ASSUME ParserInv, Healthy, parse_document_end
  PROVE  ParserInv'
<1>1. /\ state = "DocumentEnd" /\ states = <<>> /\ marks = <<>>
      /\ UNCHANGED <<states, marks, streamEnded, declared>>
  BY OutsideFacts DEF parse_document_end
<1>2. PICK t \in Peeked :
       IF t = "ScanError"
       THEN Fail(t) /\ UNCHANGED <<state, tagDirectives>>
       ELSE /\ look' = IF t = "DocumentEnd" THEN "NoToken" ELSE t
            /\ tagDirectives' = {}
            /\ state' = "DocumentStart"
            /\ event' = Event("DocumentEnd", NoHandle)
  BY DEF parse_document_end
<1>3. t \in TokenSeen
  BY PeekedTokens DEF ParserInv
<1>4. "DocumentEnd" \in EventTypes /\ NoHandle \in AllHandles \cup {NoHandle}
  BY DEF EventTypes
<1>5. CASE t = "ScanError"
  <2>1. look' \in TokenType \cup {"NoToken"} /\ event' \in Answer
        /\ event'.type = "Error" /\ event'.handle = NoHandle
        /\ UNCHANGED <<state, tagDirectives>>
    BY <1>2, <1>3, <1>5, FailFacts
  <2>2. ParserTypeOK' /\ TagsScoped' /\ NoPanic' /\ ~Healthy'
    BY <1>1, <2>1 DEF ParserInv, ParserTypeOK, Answer, TagsScoped, TagScope, NoPanic, Healthy
  <2> QED BY <1>1, <2>2, OutsideKeeps
<1>6. CASE t # "ScanError"
  <2>1. look' \in TokenType \cup {"NoToken"} /\ event' \in Answer
        /\ event'.type = "DocumentEnd" /\ event'.handle = NoHandle
        /\ state' = "DocumentStart" /\ tagDirectives' = {}
    BY <1>2, <1>3, <1>4, <1>6, EventFacts DEF TokenSeen
  <2>2. ParserTypeOK' /\ TagsScoped' /\ NoPanic'
    BY <1>1, <2>1 DEF ParserInv, ParserTypeOK, Answer, TagsScoped, TagScope, NoPanic,
       ParserState, StreamStates
  <2> QED BY <1>1, <2>1, <2>2, OutsideKeeps DEF StreamStates, Healthy
<1> QED BY <1>5, <1>6

\* parse_document_start keeps the invariant.
LEMMA DocumentStartKeeps ==
  ASSUME ParserInv, Healthy, NEW implicit \in BOOLEAN, parse_document_start(implicit)
  PROVE  ParserInv'
<1>1. /\ state \in {"ImplicitDocumentStart", "DocumentStart"}
      /\ states = <<>> /\ marks = <<>> /\ tagDirectives = {}
      /\ marks' = marks
  BY OutsideFacts DEF parse_document_start, StreamStates, ParserInv, TagsScoped
<1>2. PICK t0 \in Peeked :
     \E t \in IF ~implicit /\ t0 = "DocumentEnd" THEN Supply \ {"DocumentEnd"} ELSE {t0} :
       CASE t = "ScanError" ->
              Fail(t) /\ UNCHANGED <<state, states, tagDirectives, streamEnded, declared>>
         [] t = "StreamEnd" -> StreamOver
         [] implicit /\ t \notin Directives \cup {"DocumentStart", "StreamEnd", "ScanError"} ->
              ImplicitDocument(t)
         [] OTHER -> ExplicitDocument(t) \/ BadDirective(t)
  BY DEF parse_document_start
<1>3. PICK t \in TokenSeen :
       CASE t = "ScanError" ->
              Fail(t) /\ UNCHANGED <<state, states, tagDirectives, streamEnded, declared>>
         [] t = "StreamEnd" -> StreamOver
         [] implicit /\ t \notin Directives \cup {"DocumentStart", "StreamEnd", "ScanError"} ->
              ImplicitDocument(t)
         [] OTHER -> ExplicitDocument(t) \/ BadDirective(t)
  BY <1>2, PeekedTokens, SupplyTokens DEF ParserInv
<1>4. /\ {"DocumentStart", "StreamEnd"} \subseteq EventTypes
      /\ NoHandle \in AllHandles \cup {NoHandle}
      /\ Append(states, "DocumentEnd") = <<"DocumentEnd">>
      /\ <<"DocumentEnd">> \in Seq(ReturnStates)
      /\ Handles \subseteq AllHandles /\ DefaultHandles \subseteq AllHandles
  BY <1>1 DEF EventTypes, ReturnStates, AllHandles
<1>5. /\ streamEnded \in BOOLEAN /\ declared \in SUBSET Handles
      /\ tagDirectives \subseteq declared \cup DefaultHandles
      /\ state \in ParserState /\ marks \in Seq(Nat) /\ states \in Seq(ReturnStates)
  BY DEF ParserInv, ParserTypeOK, TagsScoped
<1>6. ASSUME NEW u \in TokenSeen, Fail(u), UNCHANGED <<state, states, streamEnded, declared>>,
             tagDirectives' \in SUBSET AllHandles
      PROVE  ParserInv'
  <2>1. look' \in TokenType \cup {"NoToken"} /\ event' \in Answer
        /\ event'.type = "Error" /\ event'.handle = NoHandle
    BY <1>6, FailFacts
  <2>2. ParserTypeOK' /\ TagsScoped' /\ NoPanic' /\ ~Healthy'
    BY <1>1, <1>5, <1>6, <2>1 DEF ParserTypeOK, Answer, TagsScoped, TagScope, NoPanic, Healthy
  <2> QED BY <1>1, <1>6, <2>2, OutsideKeeps
<1>7. ASSUME NEW u \in TokenType \cup {"NoToken"}, NEW D \in SUBSET Handles,
             NEW s \in {"BlockNode", "DocumentContent"},
             look' = u, declared' = D, tagDirectives' \subseteq D \cup DefaultHandles,
             states' = Append(states, "DocumentEnd"), state' = s,
             event' = Event("DocumentStart", NoHandle), UNCHANGED streamEnded
      PROVE  ParserInv'
  <2>1. event' \in Answer /\ event'.type = "DocumentStart" /\ event'.handle = NoHandle
    BY <1>4, <1>7, EventFacts
  <2>2. ParserTypeOK' /\ TagsScoped' /\ NoPanic'
    BY <1>1, <1>4, <1>5, <1>7, <2>1 DEF ParserTypeOK, Answer, TagsScoped, TagScope, NoPanic,
       ParserState, DocumentStates
  <2> QED BY <1>1, <1>4, <1>7, <2>1, <2>2, OutsideKeeps DEF Healthy
<1>8. CASE t = "ScanError"
  BY <1>1, <1>3, <1>6, <1>8
<1>9. CASE t = "StreamEnd"
  <2>1. /\ state' = "End" /\ event' = Event("StreamEnd", NoHandle) /\ look' = "NoToken"
        /\ streamEnded' = TRUE /\ UNCHANGED <<states, tagDirectives, declared>>
    BY <1>3, <1>9 DEF StreamOver
  <2>2. event' \in Answer /\ event'.type = "StreamEnd" /\ event'.handle = NoHandle
    BY <1>4, <2>1, EventFacts
  <2>3. ParserTypeOK' /\ TagsScoped' /\ NoPanic'
    BY <1>1, <1>5, <2>1, <2>2 DEF ParserTypeOK, Answer, TagsScoped, TagScope, NoPanic,
       ParserState, StreamStates
  <2> QED BY <1>1, <2>1, <2>2, <2>3, OutsideKeeps DEF StreamStates, Healthy
<1>10. CASE implicit /\ t \notin Directives \cup {"DocumentStart", "StreamEnd", "ScanError"}
  <2>1. ImplicitDocument(t) /\ t \in TokenType
    BY <1>3, <1>10 DEF TokenSeen
  <2> QED BY <1>1, <1>7, <2>1 DEF ImplicitDocument
<1>11. CASE /\ t \notin {"ScanError", "StreamEnd"}
            /\ ~(implicit /\ t \notin Directives \cup {"DocumentStart", "StreamEnd", "ScanError"})
  <2>1. ExplicitDocument(t) \/ BadDirective(t)
    BY <1>3, <1>11
  <2>2. CASE BadDirective(t)
    <3>1. PICK D \in SUBSET Handles, u \in Directives : tagDirectives' = D /\ Fail(u)
      BY <1>1, <2>2 DEF BadDirective
    <3>2. u \in TokenSeen
      BY DEF TokenSeen, TokenType
    <3> QED BY <1>4, <1>6, <2>2, <3>1, <3>2 DEF BadDirective
  <2>3. CASE ExplicitDocument(t)
    <3>1. PICK D \in SUBSET Handles, u \in Supply \cup {t} :
            /\ tagDirectives' = tagDirectives \cup D
                          \cup (IF u = "ScanError" THEN {} ELSE DefaultHandles)
            /\ IF u = "DocumentStart"
               THEN /\ declared' = D
                    /\ states' = Append(states, "DocumentEnd")
                    /\ state' = "DocumentContent"
                    /\ event' = Event("DocumentStart", NoHandle)
                    /\ look' = "NoToken"
               ELSE Fail(u) /\ UNCHANGED <<state, states, declared>>
            /\ UNCHANGED streamEnded
      BY <2>3 DEF ExplicitDocument
    <3>2. u \in TokenSeen
      BY SupplyTokens
    <3>3. tagDirectives' \subseteq D \cup DefaultHandles /\ tagDirectives' \in SUBSET AllHandles
      BY <1>1, <1>4, <3>1
    <3>4. CASE u = "DocumentStart"
      BY <1>7, <3>1, <3>3, <3>4
    <3>5. CASE u # "DocumentStart"
      BY <1>6, <3>1, <3>2, <3>3, <3>5
    <3> QED BY <3>4, <3>5
  <2> QED BY <2>1, <2>2, <2>3
<1> QED BY <1>8, <1>9, <1>10, <1>11

-----------------------------------------------------------------------------
\* The caller of the theorems stops at the first error, as the drivers do.
StopsAtError == Repoll = FALSE

\* A new parser satisfies the invariant.
LEMMA InitInv == ParserInit => ParserInv
<1> SUFFICES ASSUME ParserInit PROVE ParserInv
  OBVIOUS
<1>1. /\ state = "StreamStart" /\ states = <<>> /\ marks = <<>> /\ tagDirectives = {}
      /\ look = "NoToken" /\ streamEnded = FALSE /\ declared = {}
      /\ event = Event("None", NoHandle)
  BY DEF ParserInit
<1>2. event \in Answer /\ event.type = "None" /\ event.handle = NoHandle
  BY <1>1, EventFacts DEF EventTypes
<1>3. ParserTypeOK
  <2>1. state \in ParserState
    BY <1>1 DEF ParserState, StreamStates
  <2>2. states \in Seq(ReturnStates) /\ marks \in Seq(Nat)
    BY <1>1
  <2>3. tagDirectives \in SUBSET AllHandles /\ declared \in SUBSET Handles
    BY <1>1
  <2> QED BY <1>1, <1>2, <2>1, <2>2, <2>3 DEF ParserTypeOK, Answer
<1>4. StackFramed /\ NoPanic /\ TagsScoped /\ NoBlockInFlow
  BY <1>1, <1>2 DEF StackFramed, StreamStates, NoPanic, TagsScoped, TagScope, NoBlockInFlow
<1>5. MarksMatchStates
  <2>1. state \notin Marked
    BY <1>1 DEF Marked, BlockStates, FlowStates
  <2> QED BY <1>1, <2>1 DEF MarksMatchStates, MarkedDepths
<1> QED BY <1>3, <1>4, <1>5 DEF ParserInv

\* Parser::reset() re-establishes the invariant.
LEMMA ResetKeeps == Reset => ParserInv'
<1> SUFFICES ASSUME Reset PROVE ParserInv'
  OBVIOUS
<1>1. /\ state' = "StreamStart" /\ states' = <<>> /\ marks' = <<>> /\ tagDirectives' = {}
      /\ look' = "NoToken" /\ streamEnded' = FALSE /\ declared' = {}
      /\ event' = Event("None", NoHandle)
  BY DEF Reset
<1>2. event' \in Answer /\ event'.type = "None" /\ event'.handle = NoHandle
  BY <1>1, EventFacts DEF EventTypes
<1>3. ParserTypeOK'
  <2>1. state' \in ParserState
    BY <1>1 DEF ParserState, StreamStates
  <2>2. states' \in Seq(ReturnStates) /\ marks' \in Seq(Nat)
    BY <1>1
  <2>3. tagDirectives' \in SUBSET AllHandles /\ declared' \in SUBSET Handles
    BY <1>1
  <2> QED BY <1>1, <1>2, <2>1, <2>2, <2>3 DEF ParserTypeOK, Answer
<1>4. NoPanic' /\ TagsScoped' /\ Healthy'
  BY <1>1, <1>2 DEF NoPanic, TagsScoped, TagScope, Healthy
<1> QED BY <1>1, <1>3, <1>4, OutsideKeeps DEF StreamStates

\* parse() after the end keeps the invariant.
LEMMA AfterEndKeeps ==
  ASSUME ParserInv, Healthy, ParseAfterEnd
  PROVE  ParserInv'
<1>1. /\ UNCHANGED <<state, states, marks, tagDirectives, look, streamEnded, declared>>
      /\ event' = Event("StreamEnd", NoHandle)
  BY DEF ParseAfterEnd
<1>2. event' \in Answer /\ event'.type = "StreamEnd" /\ event'.handle = NoHandle
  BY <1>1, EventFacts DEF EventTypes
<1>3. ParserTypeOK' /\ NoPanic' /\ TagsScoped'
  BY <1>1, <1>2 DEF ParserInv, ParserTypeOK, Answer, NoPanic, TagsScoped, TagScope
<1>4. StackFramed' /\ NoBlockInFlow'
  BY <1>1 DEF ParserInv, StackFramed, NoBlockInFlow
<1>5. MarksMatchStates'
  BY <1>1 DEF ParserInv, MarksMatchStates, MarkedDepths
<1> QED BY <1>3, <1>4, <1>5 DEF ParserInv

\* The invariant is inductive, whatever the tokens, for a caller that stops
\* at the first error.
THEOREM ParserInvInductive ==
  ASSUME StopsAtError
  PROVE  ParserSpec => []ParserInv
<1>1. ParserInit => ParserInv
  BY InitInv
<1>2. ParserInv /\ [ParserNext]_parserVars => ParserInv'
  <2> SUFFICES ASSUME ParserInv, [ParserNext]_parserVars
               PROVE  ParserInv'
    OBVIOUS
  <2>1. Polling => Healthy
    BY DEF Polling, Healthy, StopsAtError
  <2>2. CASE CollectionHandlers
    <3>1. Healthy
      BY <2>1, <2>2 DEF CollectionHandlers, Calling, parse_block_sequence_entry,
         parse_block_mapping_key, parse_flow_sequence_entry, parse_flow_mapping_key,
         parse_indentless_sequence_entry, parse_block_mapping_value,
         parse_flow_sequence_entry_mapping_key, parse_flow_sequence_entry_mapping_value,
         parse_flow_sequence_entry_mapping_end, parse_flow_mapping_value
    <3> QED BY <2>2, <3>1, CollectionKeeps
  <2>3. CASE parse_document_content \/ parse_block_node
    BY <2>1, <2>3, RootKeeps DEF parse_document_content, parse_block_node, Calling
  <2>4. CASE parse_stream_start
    BY <2>1, <2>4, StreamStartKeeps DEF parse_stream_start, Calling
  <2>5. CASE \E implicit \in BOOLEAN : parse_document_start(implicit)
    BY <2>1, <2>5, DocumentStartKeeps DEF parse_document_start, Calling
  <2>6. CASE parse_document_end
    BY <2>1, <2>6, DocumentEndKeeps DEF parse_document_end, Calling
  <2>7. CASE ParseAfterEnd
    BY <2>1, <2>7, AfterEndKeeps DEF ParseAfterEnd
  <2>8. CASE Reset
    BY <2>8, ResetKeeps
  <2>9. CASE UNCHANGED parserVars
    <3>1. UNCHANGED <<state, states, marks, tagDirectives, look, streamEnded, event, declared>>
      BY <2>9 DEF parserVars
    <3>2. ParserTypeOK' /\ NoPanic' /\ TagsScoped' /\ StackFramed' /\ NoBlockInFlow'
      BY <3>1 DEF ParserInv, ParserTypeOK, NoPanic, TagsScoped, TagScope, StackFramed,
         NoBlockInFlow, Healthy
    <3>3. MarksMatchStates'
      BY <3>1 DEF ParserInv, MarksMatchStates, MarkedDepths, Healthy
    <3> QED BY <3>2, <3>3 DEF ParserInv
  <2> QED BY <2>2, <2>3, <2>4, <2>5, <2>6, <2>7, <2>8, <2>9
             DEF ParserNext, Parse, CollectionHandlers
<1> QED BY <1>1, <1>2, PTL DEF ParserSpec

\* Every field of the parser keeps its type.
THEOREM ParserTypeCorrect ==
  ASSUME StopsAtError
  PROVE  ParserSpec => []ParserTypeOK
<1>1. ParserInv => ParserTypeOK
  BY DEF ParserInv
<1> QED BY <1>1, ParserInvInductive, PTL

\* No unwrap() of an empty states or marks stack is reached.
THEOREM ParserNeverPanics ==
  ASSUME StopsAtError
  PROVE  ParserSpec => []NoPanic
<1>1. ParserInv => NoPanic
  BY DEF ParserInv
<1> QED BY <1>1, ParserInvInductive, PTL

\* The stack of states returns to DocumentEnd from its bottom only.
THEOREM ParserStackFramed ==
  ASSUME StopsAtError
  PROVE  ParserSpec => []StackFramed
<1>1. ParserInv => StackFramed
  BY DEF ParserInv
<1> QED BY <1>1, ParserInvInductive, PTL

\* The marks are those of the open collections, innermost last.
THEOREM ParserMarksMatch ==
  ASSUME StopsAtError
  PROVE  ParserSpec => []MarksMatchStates
<1>1. ParserInv => MarksMatchStates
  BY DEF ParserInv
<1> QED BY <1>1, ParserInvInductive, PTL

\* No block collection opens inside a flow collection at any depth.
THEOREM ParserFlowHoldsFlow ==
  ASSUME StopsAtError
  PROVE  ParserSpec => []NoBlockInFlow
<1>1. ParserInv => NoBlockInFlow
  BY DEF ParserInv
<1> QED BY <1>1, ParserInvInductive, PTL

\* Tags resolve through the directives of their own document only.
THEOREM ParserTagScope ==
  ASSUME StopsAtError
  PROVE  ParserSpec => []TagScope
<1>1. ParserInv => TagScope
  BY DEF ParserInv, TagsScoped
<1> QED BY <1>1, ParserInvInductive, PTL

-----------------------------------------------------------------------------
(***************************************************************************)
(* The parser implements EventGrammar.  Each handler of a collection is    *)
(* shown to write one node, to open or close a pair, to close its          *)
(* collection, or to fail (Writes); what it writes is then a step of the   *)
(* grammar on the frames that the parser's stack stands for.  The frames   *)
(* below the current state change with the stack only: FrameStackPushed.   *)
(***************************************************************************)
\* The states that read the root node of a document.
RootStates == {"DocumentContent", "BlockNode"}

\* The states of a single pair in a flow sequence: two frames are open in them.
Pairs == {"FlowSequenceEntryMappingKey", "FlowSequenceEntryMappingValue",
          "FlowSequenceEntryMappingEnd"}

\* The states in which a document is open and its root node has begun.
Inside == (NodeStates \ RootStates) \cup {"DocumentEnd"}

Top(s) == Last(FramesOf(s))

\* The frames below the innermost one.
Under(frames, s) == IF s \in Pairs THEN Append(frames, "items") ELSE frames

\* State s resumes after a node that is read in the current state.
Follows(s) == /\ s \in ReturnStates \ {"DocumentEnd"}
              /\ Top(s) = Grammar!Advance[Top(state)]
              /\ s \in Pairs <=> state \in Pairs

\* What a node writes when its parent resumes from the stack.
NodeWrites(stack) ==
  \/ /\ event'.type \in {"Alias", "Scalar"}
     /\ state' = Last(stack) /\ states' = Front(stack)
  \/ /\ event'.type = "SequenceStart" /\ states' = stack
     /\ state' \in {"BlockSequenceFirstEntry", "FlowSequenceFirstEntry", "IndentlessSequenceEntry"}
  \/ /\ event'.type = "MappingStart" /\ states' = stack
     /\ state' \in {"BlockMappingFirstKey", "FlowMappingFirstKey"}

PairOpens == /\ event'.type = "MappingStart" /\ states' = states
             /\ state \in {"FlowSequenceFirstEntry", "FlowSequenceEntry"}
             /\ state' = "FlowSequenceEntryMappingKey"

PairCloses == /\ event'.type = "MappingEnd" /\ states' = states
              /\ state = "FlowSequenceEntryMappingEnd"
              /\ state' = "FlowSequenceEntry"

Closes == /\ \/ event'.type = "SequenceEnd" /\ Top(state) = "items"
             \/ event'.type = "MappingEnd" /\ Top(state) = "key"
          /\ state \notin Pairs
          /\ state' = Last(states) /\ states' = Front(states)

\* What a handler of a collection does to the frames.
Writes == \/ event'.type \in {"Error", "Panic"}
          \/ /\ streamEnded' = FALSE
             /\ \/ \E s : Follows(s) /\ NodeWrites(Append(states, s))
                \/ PairOpens \/ PairCloses \/ Closes

\* The stack that a handler of a collection finds.
Stacked == states \in Seq(ReturnStates) /\ states # <<>>

\* The frames of the states.
LEMMA StateFrames ==
  ASSUME NEW s \in Inside
  PROVE  /\ Top(s) \in Grammar!Frame
         /\ FramesOf(s) = IF s \in Pairs THEN <<"items", Top(s)>> ELSE <<Top(s)>>
<1>1. \A x, y : Last(<<x>>) = x /\ Last(<<x, y>>) = y
  BY DEF Last
<1> QED BY <1>1 DEF Inside, RootStates, NodeStates, BlockStates, FlowStates, FirstStates, Unmarked,
   Top, FramesOf, Pairs, Grammar!Frame

\* A node fails or writes one event.
LEMMA NodeWritten ==
  ASSUME NEW block, NEW indentless, NEW t, NEW stack, stack # <<>>,
         Node(block, indentless, t, stack)
  PROVE  event'.type = "Error" \/ NodeWrites(stack)
<1>1. \A y, h : Event(y, h).type = y
  BY DEF Event
<1>2. CASE t = "Alias"
  BY <1>1, <1>2 DEF Node, Return, NodeWrites
<1>3. CASE t # "Alias"
  <2>1. PICK p \in NodeProperties(t) :
          IF p.handle \in AllHandles \ tagDirectives
          THEN Fail(p.next) /\ states' = stack /\ UNCHANGED state
          ELSE NodeContent(block, indentless, p, stack)
    BY <1>3 DEF Node
  <2>2. ASSUME Fail(p.next) PROVE event'.type = "Error"
    BY <1>1, <2>2 DEF Fail
  <2>3. CASE NodeContent(block, indentless, p, stack)
    <3>1. CASE p.next = "Scalar"
      BY <1>1, <2>3, <3>1 DEF NodeContent, Return, NodeWrites, StartTokens
    <3>2. CASE p.next \in StartTokens(block, indentless)
      BY <1>1, <2>3, <3>2 DEF NodeContent, Collection, NodeWrites, StartTokens,
         CollectionState, CollectionEvent
    <3>3. CASE /\ p.some
               /\ p.next \notin StartTokens(block, indentless) \cup {"Scalar", "ScanError"}
      BY <1>1, <2>3, <3>3 DEF NodeContent, Return, NodeWrites
    <3>4. CASE /\ p.next # "Scalar" /\ p.next \notin StartTokens(block, indentless)
               /\ ~(p.some /\ p.next \notin StartTokens(block, indentless)
                                              \cup {"Scalar", "ScanError"})
      BY <2>2, <2>3, <3>4 DEF NodeContent
    <3> QED BY <3>1, <3>2, <3>3, <3>4
  <2> QED BY <2>1, <2>2, <2>3
<1> QED BY <1>2, <1>3

\* A node of a collection.
LEMMA NodeLeaf ==
  ASSUME Stacked, NEW s, Follows(s), streamEnded' = FALSE,
         NEW block, NEW indentless, NEW t, Node(block, indentless, t, Append(states, s))
  PROVE  Writes
<1>1. Append(states, s) # <<>>
  BY AppendFacts DEF Stacked, Follows
<1> QED BY <1>1, NodeWritten DEF Writes

\* An empty node in a collection.
LEMMA EmptyLeaf ==
  ASSUME Stacked, NEW s, Follows(s), streamEnded' = FALSE, EmptyScalar(s, states)
  PROVE  Writes
<1>1. Last(Append(states, s)) = s /\ Front(Append(states, s)) = states
  BY AppendFacts DEF Stacked, Follows
<1>2. NodeWrites(Append(states, s))
  BY <1>1 DEF EmptyScalar, NodeWrites, Event
<1> QED BY <1>2 DEF Writes

\* A handler that fails writes nothing.
LEMMA FailLeaf == ASSUME NEW t, Fail(t) PROVE Writes
BY DEF Fail, Event, Writes

LEMMA UnexpectedLeaf == ASSUME NEW t, NEW m, Unexpected(t, m) PROVE Writes
<1>1. CASE m = <<>>
  BY <1>1 DEF Unexpected, Event, Writes
<1>2. CASE m # <<>>
  BY <1>2, FailLeaf DEF Unexpected
<1> QED BY <1>1, <1>2

\* The token after an indicator of a block collection.
LEMMA ContentLeaf ==
  ASSUME Stacked, NEW s, Follows(s), streamEnded' = FALSE,
         NEW t, NEW ends, "ScanError" \notin ends, NEW indentless,
         EntryContent(t, ends, s, indentless)
  PROVE  Writes
<1>1. CASE t = "ScanError"
  BY <1>1, FailLeaf DEF EntryContent
<1>2. CASE t # "ScanError" /\ t \in ends
  BY <1>2, EmptyLeaf DEF EntryContent
<1>3. CASE t # "ScanError" /\ t \notin ends
  BY <1>3, NodeLeaf DEF EntryContent
<1> QED BY <1>1, <1>2, <1>3

\* The value of a pair of a flow collection.
LEMMA FlowValueLeaf ==
  ASSUME Stacked, NEW s, Follows(s), streamEnded' = FALSE,
         NEW t, NEW ends, "ScanError" \notin ends, FlowValue(t, ends, s)
  PROVE  Writes
<1>1. CASE t = "Value"
  <2>1. PICK u \in Supply :
          CASE u = "ScanError" -> Fail(u) /\ UNCHANGED <<state, states>>
            [] u \in ends -> EmptyScalar(s, states) /\ look' = u
            [] OTHER -> FlowNode(u, s)
    BY <1>1 DEF FlowValue
  <2>2. CASE u = "ScanError"
    BY <2>1, <2>2, FailLeaf
  <2>3. CASE u # "ScanError" /\ u \in ends
    BY <2>1, <2>3, EmptyLeaf
  <2>4. CASE u # "ScanError" /\ u \notin ends
    BY <2>1, <2>4, NodeLeaf DEF FlowNode
  <2> QED BY <2>2, <2>3, <2>4
<1>2. CASE t = "ScanError"
  BY <1>2, FailLeaf DEF FlowValue
<1>3. CASE t \notin {"Value", "ScanError"}
  BY <1>3, EmptyLeaf DEF FlowValue
<1> QED BY <1>1, <1>2, <1>3

\* The end token of a collection.
LEMMA OverLeaf ==
  ASSUME Stacked, state \notin Pairs, streamEnded' = FALSE, NEW y, NEW m,
         \/ y = "SequenceEnd" /\ Top(state) = "items"
         \/ y = "MappingEnd" /\ Top(state) = "key",
         CollectionOver(y, m)
  PROVE  Writes
<1>1. event'.type = y /\ state' = Last(states) /\ states' = Front(states)
  BY DEF CollectionOver, Return, Event, Stacked
<1>2. Closes
  BY <1>1 DEF Closes
<1> QED BY <1>2 DEF Writes

\* The handler of a collection finds the stream open, unless it will fail.
LEMMA EnteredOpen ==
  ASSUME NEW first \in BOOLEAN, NEW e \in Entered(first)
  PROVE  e.ended \in BOOLEAN /\ (e.ended => e.tok = "StreamEnd")
BY DEF Entered

\* Where no collection starts, the end of the stream is no node.
LEMMA NoNodeAtEnd ==
  ASSUME NEW s, FlowNode("StreamEnd", s)
  PROVE  Writes
<1>1. PICK p \in NodeProperties("StreamEnd") :
         IF p.handle \in AllHandles \ tagDirectives
         THEN Fail(p.next) /\ states' = Append(states, s) /\ UNCHANGED state
         ELSE NodeContent(FALSE, FALSE, p, Append(states, s))
  BY DEF FlowNode, Node
<1>2. p.some = FALSE /\ p.next = "StreamEnd"
  BY DEF NodeProperties
<1>3. Fail(p.next)
  BY <1>1, <1>2 DEF NodeContent, StartTokens
<1> QED BY <1>3, FailLeaf

-----------------------------------------------------------------------------
\* Each handler of a collection writes what the grammar allows.
LEMMA BlockWrites ==
  ASSUME Stacked, NEW first \in BOOLEAN,
         parse_block_sequence_entry(first) \/ parse_block_mapping_key(first)
  PROVE  Writes
<1>1. CASE parse_block_sequence_entry(first)
  <2>1. state \in {"BlockSequenceFirstEntry", "BlockSequenceEntry"}
    BY <1>1 DEF parse_block_sequence_entry
  <2>2. Follows("BlockSequenceEntry") /\ Top(state) = "items" /\ state \notin Pairs
    BY <2>1 DEF Follows, ReturnStates, Top, FramesOf, Last, Grammar!Advance, Pairs
  <2>3. PICK e \in Entered(first) :
        /\ streamEnded' = e.ended
        /\ CASE e.tok = "BlockEntry" ->
                  /\ \E t \in Supply :
                       EntryContent(t, {"BlockEntry", "BlockEnd"}, "BlockSequenceEntry", FALSE)
                  /\ marks' = e.marks
             [] e.tok = "BlockEnd" -> CollectionOver("SequenceEnd", e.marks)
             [] e.tok = "ScanError" -> ScanFailed(e.marks)
             [] OTHER -> Unexpected(e.tok, e.marks)
    BY <1>1 DEF parse_block_sequence_entry
  <2>4. e.tok # "StreamEnd" => streamEnded' = FALSE
    BY <2>3, EnteredOpen
  <2>5. CASE e.tok = "BlockEntry"
    BY <2>2, <2>3, <2>4, <2>5, ContentLeaf
  <2>6. CASE e.tok = "BlockEnd"
    BY <2>2, <2>3, <2>4, <2>6, OverLeaf
  <2>7. CASE e.tok = "ScanError"
    BY <2>3, <2>7, FailLeaf DEF ScanFailed
  <2>8. CASE e.tok \notin {"BlockEntry", "BlockEnd", "ScanError"}
    BY <2>3, <2>8, UnexpectedLeaf
  <2> QED BY <2>5, <2>6, <2>7, <2>8
<1>2. CASE parse_block_mapping_key(first)
  <2>1. state \in {"BlockMappingFirstKey", "BlockMappingKey"}
    BY <1>2 DEF parse_block_mapping_key
  <2>2. Follows("BlockMappingValue") /\ Top(state) = "key" /\ state \notin Pairs
    BY <2>1 DEF Follows, ReturnStates, Top, FramesOf, Last, Grammar!Advance, Pairs
  <2>3. PICK e \in Entered(first) :
        /\ streamEnded' = e.ended
        /\ CASE e.tok = "Key" ->
                  /\ \E t \in Supply :
                       EntryContent(t, {"Key", "Value", "BlockEnd"}, "BlockMappingValue", TRUE)
                  /\ marks' = e.marks
             [] e.tok = "BlockEnd" -> CollectionOver("MappingEnd", e.marks)
             [] e.tok = "ScanError" -> ScanFailed(e.marks)
             [] OTHER -> Unexpected(e.tok, e.marks)
    BY <1>2 DEF parse_block_mapping_key
  <2>4. e.tok # "StreamEnd" => streamEnded' = FALSE
    BY <2>3, EnteredOpen
  <2>5. CASE e.tok = "Key"
    BY <2>2, <2>3, <2>4, <2>5, ContentLeaf
  <2>6. CASE e.tok = "BlockEnd"
    BY <2>2, <2>3, <2>4, <2>6, OverLeaf
  <2>7. CASE e.tok = "ScanError"
    BY <2>3, <2>7, FailLeaf DEF ScanFailed
  <2>8. CASE e.tok \notin {"Key", "BlockEnd", "ScanError"}
    BY <2>3, <2>8, UnexpectedLeaf
  <2> QED BY <2>5, <2>6, <2>7, <2>8
<1> QED BY <1>1, <1>2

\* The handlers of block collections that keep their marks.
LEMMA BlockRestWrites ==
  ASSUME Stacked, parse_block_mapping_value \/ parse_indentless_sequence_entry
  PROVE  Writes
<1>1. CASE parse_block_mapping_value
  <2>1. state = "BlockMappingValue" /\ streamEnded' = FALSE
    BY <1>1 DEF parse_block_mapping_value, Calling
  <2>2. Follows("BlockMappingKey")
    BY <2>1 DEF Follows, ReturnStates, Top, FramesOf, Last, Grammar!Advance, Pairs
  <2>3. PICK t \in Peeked :
       CASE t = "Value" ->
              \E u \in Supply :
                EntryContent(u, {"Key", "Value", "BlockEnd"}, "BlockMappingKey", TRUE)
         [] t = "ScanError" -> Fail(t) /\ UNCHANGED <<state, states>>
         [] OTHER -> EmptyScalar("BlockMappingKey", states) /\ look' = t
    BY <1>1 DEF parse_block_mapping_value
  <2>4. CASE t = "Value"
    BY <2>1, <2>2, <2>3, <2>4, ContentLeaf
  <2>5. CASE t = "ScanError"
    BY <2>3, <2>5, FailLeaf
  <2>6. CASE t \notin {"Value", "ScanError"}
    BY <2>1, <2>2, <2>3, <2>6, EmptyLeaf
  <2> QED BY <2>4, <2>5, <2>6
<1>2. CASE parse_indentless_sequence_entry
  <2>1. state = "IndentlessSequenceEntry" /\ streamEnded' = FALSE
    BY <1>2 DEF parse_indentless_sequence_entry, Calling
  <2>2. Follows("IndentlessSequenceEntry") /\ Top(state) = "items" /\ state \notin Pairs
    BY <2>1 DEF Follows, ReturnStates, Top, FramesOf, Last, Grammar!Advance, Pairs
  <2>3. PICK t \in Peeked :
       CASE t = "BlockEntry" ->
              \E u \in Supply :
                EntryContent(u, {"BlockEntry", "Key", "Value", "BlockEnd"},
                             "IndentlessSequenceEntry", FALSE)
         [] t = "ScanError" -> Fail(t) /\ UNCHANGED <<state, states>>
         [] OTHER -> Return(states, Event("SequenceEnd", NoHandle)) /\ look' = t
    BY <1>2 DEF parse_indentless_sequence_entry
  <2>4. CASE t = "BlockEntry"
    BY <2>1, <2>2, <2>3, <2>4, ContentLeaf
  <2>5. CASE t = "ScanError"
    BY <2>3, <2>5, FailLeaf
  <2>6. CASE t \notin {"BlockEntry", "ScanError"}
    <3>1. event' = Event("SequenceEnd", NoHandle) /\ state' = Last(states)
          /\ states' = Front(states)
      BY <2>3, <2>6 DEF Return, Stacked
    <3>2. event'.type = "SequenceEnd"
      BY <3>1 DEF Event
    <3>3. Closes
      BY <2>2, <3>1, <3>2 DEF Closes
    <3> QED BY <2>1, <3>3 DEF Writes
  <2> QED BY <2>4, <2>5, <2>6
<1> QED BY <1>1, <1>2

\* An entry of a flow sequence.
LEMMA FlowItemWrites ==
  ASSUME Stacked, state \in {"FlowSequenceFirstEntry", "FlowSequenceEntry"},
         NEW t, NEW m, FlowSequenceItem(t, m), t # "StreamEnd" => streamEnded' = FALSE
  PROVE  Writes
<1>1. Follows("FlowSequenceEntry") /\ Top(state) = "items" /\ state \notin Pairs
  BY DEF Follows, ReturnStates, Top, FramesOf, Last, Grammar!Advance, Pairs
<1>2. CASE t = "Key"
  <2>1. PairOpens
    BY <1>2 DEF FlowSequenceItem, Collection, Event, PairOpens
  <2> QED BY <1>2, <2>1 DEF Writes
<1>3. CASE t = "FlowSequenceEnd"
  BY <1>1, <1>3, OverLeaf DEF FlowSequenceItem
<1>4. CASE t = "ScanError"
  BY <1>4, FailLeaf DEF FlowSequenceItem, ScanFailed
<1>5. CASE t = "StreamEnd"
  BY <1>5, NoNodeAtEnd DEF FlowSequenceItem
<1>6. CASE t \notin {"Key", "FlowSequenceEnd", "ScanError", "StreamEnd"}
  BY <1>1, <1>6, NodeLeaf DEF FlowSequenceItem, FlowNode
<1> QED BY <1>2, <1>3, <1>4, <1>5, <1>6

\* A pair of a flow mapping.
LEMMA FlowPairWrites ==
  ASSUME Stacked, state \in {"FlowMappingFirstKey", "FlowMappingKey"},
         NEW t, NEW m, FlowMappingPair(t, m), t # "StreamEnd" => streamEnded' = FALSE
  PROVE  Writes
<1>1. /\ Follows("FlowMappingValue") /\ Follows("FlowMappingEmptyValue")
      /\ Top(state) = "key" /\ state \notin Pairs
  BY DEF Follows, ReturnStates, Top, FramesOf, Last, Grammar!Advance, Pairs
<1>2. CASE t = "Key"
  <2>1. PICK u \in Supply :
              CASE u = "ScanError" -> Fail(u) /\ UNCHANGED <<state, states>>
                [] u \in {"Value", "FlowEntry", "FlowMappingEnd"} ->
                     EmptyScalar("FlowMappingValue", states) /\ look' = u
                [] OTHER -> FlowNode(u, "FlowMappingValue")
    BY <1>2 DEF FlowMappingPair
  <2>2. CASE u = "ScanError"
    BY <2>1, <2>2, FailLeaf
  <2>3. CASE u \in {"Value", "FlowEntry", "FlowMappingEnd"}
    <3>1. EmptyScalar("FlowMappingValue", states)
      BY <2>1, <2>3
    <3> QED BY <1>1, <1>2, <3>1, EmptyLeaf
  <2>4. CASE u \notin {"ScanError", "Value", "FlowEntry", "FlowMappingEnd"}
    <3>1. FlowNode(u, "FlowMappingValue")
      BY <2>1, <2>4
    <3> QED BY <1>1, <1>2, <3>1, NodeLeaf DEF FlowNode
  <2> QED BY <2>2, <2>3, <2>4
<1>3. CASE t = "FlowMappingEnd"
  BY <1>1, <1>3, OverLeaf DEF FlowMappingPair
<1>4. CASE t = "ScanError"
  BY <1>4, FailLeaf DEF FlowMappingPair, ScanFailed
<1>5. CASE t = "StreamEnd"
  BY <1>5, NoNodeAtEnd DEF FlowMappingPair
<1>6. CASE t \notin {"Key", "FlowMappingEnd", "ScanError", "StreamEnd"}
  BY <1>1, <1>6, NodeLeaf DEF FlowMappingPair, FlowNode
<1> QED BY <1>2, <1>3, <1>4, <1>5, <1>6

\* The handlers that begin an entry of a flow collection.
LEMMA FlowWrites ==
  ASSUME Stacked, NEW first \in BOOLEAN,
         parse_flow_sequence_entry(first) \/ parse_flow_mapping_key(first)
  PROVE  Writes
<1>1. CASE parse_flow_sequence_entry(first)
  <2>1. state \in {"FlowSequenceFirstEntry", "FlowSequenceEntry"}
    BY <1>1 DEF parse_flow_sequence_entry
  <2>2. PICK e \in Entered(first) :
       /\ streamEnded' = e.ended
       /\ CASE first \/ e.tok = "FlowSequenceEnd" -> FlowSequenceItem(e.tok, e.marks)
            [] ~first /\ e.tok = "FlowEntry" -> \E t \in Supply : FlowSequenceItem(t, e.marks)
            [] ~first /\ e.tok = "ScanError" -> ScanFailed(e.marks)
            [] OTHER -> Unexpected(e.tok, e.marks)
    BY <1>1 DEF parse_flow_sequence_entry
  <2>3. e.tok # "StreamEnd" => streamEnded' = FALSE
    BY <2>2, EnteredOpen
  <2>4. CASE first \/ e.tok = "FlowSequenceEnd"
    BY <2>1, <2>2, <2>3, <2>4, FlowItemWrites
  <2>5. CASE ~first /\ e.tok = "FlowEntry"
    BY <2>1, <2>2, <2>3, <2>5, FlowItemWrites
  <2>6. CASE ~first /\ e.tok = "ScanError"
    BY <2>2, <2>6, FailLeaf DEF ScanFailed
  <2>7. CASE ~first /\ e.tok \notin {"FlowSequenceEnd", "FlowEntry", "ScanError"}
    BY <2>2, <2>7, UnexpectedLeaf
  <2> QED BY <2>4, <2>5, <2>6, <2>7
<1>2. CASE parse_flow_mapping_key(first)
  <2>1. state \in {"FlowMappingFirstKey", "FlowMappingKey"}
    BY <1>2 DEF parse_flow_mapping_key
  <2>2. PICK e \in Entered(first) :
       /\ streamEnded' = e.ended
       /\ CASE first \/ e.tok = "FlowMappingEnd" -> FlowMappingPair(e.tok, e.marks)
            [] ~first /\ e.tok = "FlowEntry" -> \E t \in Supply : FlowMappingPair(t, e.marks)
            [] ~first /\ e.tok = "ScanError" -> ScanFailed(e.marks)
            [] OTHER -> Unexpected(e.tok, e.marks)
    BY <1>2 DEF parse_flow_mapping_key
  <2>3. e.tok # "StreamEnd" => streamEnded' = FALSE
    BY <2>2, EnteredOpen
  <2>4. CASE first \/ e.tok = "FlowMappingEnd"
    BY <2>1, <2>2, <2>3, <2>4, FlowPairWrites
  <2>5. CASE ~first /\ e.tok = "FlowEntry"
    BY <2>1, <2>2, <2>3, <2>5, FlowPairWrites
  <2>6. CASE ~first /\ e.tok = "ScanError"
    BY <2>2, <2>6, FailLeaf DEF ScanFailed
  <2>7. CASE ~first /\ e.tok \notin {"FlowMappingEnd", "FlowEntry", "ScanError"}
    BY <2>2, <2>7, UnexpectedLeaf
  <2> QED BY <2>4, <2>5, <2>6, <2>7
<1> QED BY <1>1, <1>2

\* The handlers of single pairs and of flow mapping values.
LEMMA FlowRestWrites ==
  ASSUME Stacked,
         \/ parse_flow_sequence_entry_mapping_key
         \/ parse_flow_sequence_entry_mapping_value
         \/ parse_flow_sequence_entry_mapping_end
         \/ \E empty \in BOOLEAN : parse_flow_mapping_value(empty)
  PROVE  Writes
<1>1. CASE parse_flow_sequence_entry_mapping_key
  <2>1. state = "FlowSequenceEntryMappingKey" /\ streamEnded' = FALSE
    BY <1>1 DEF parse_flow_sequence_entry_mapping_key, Calling
  <2>2. Follows("FlowSequenceEntryMappingValue")
    BY <2>1 DEF Follows, ReturnStates, Top, FramesOf, Last, Grammar!Advance, Pairs
  <2>3. PICK t \in Peeked :
       CASE t = "ScanError" -> Fail(t) /\ UNCHANGED <<state, states>>
         [] t \in {"Value", "FlowEntry", "FlowSequenceEnd"} ->
              EmptyScalar("FlowSequenceEntryMappingValue", states) /\ look' = "NoToken"
         [] OTHER -> FlowNode(t, "FlowSequenceEntryMappingValue")
    BY <1>1 DEF parse_flow_sequence_entry_mapping_key
  <2>4. CASE t = "ScanError"
    BY <2>3, <2>4, FailLeaf
  <2>5. CASE t \in {"Value", "FlowEntry", "FlowSequenceEnd"}
    <3>1. EmptyScalar("FlowSequenceEntryMappingValue", states)
      BY <2>3, <2>5
    <3> QED BY <2>1, <2>2, <3>1, EmptyLeaf
  <2>6. CASE t \notin {"ScanError", "Value", "FlowEntry", "FlowSequenceEnd"}
    <3>1. FlowNode(t, "FlowSequenceEntryMappingValue")
      BY <2>3, <2>6
    <3> QED BY <2>1, <2>2, <3>1, NodeLeaf DEF FlowNode
  <2> QED BY <2>4, <2>5, <2>6
<1>2. CASE parse_flow_sequence_entry_mapping_value
  <2>1. state = "FlowSequenceEntryMappingValue" /\ streamEnded' = FALSE
    BY <1>2 DEF parse_flow_sequence_entry_mapping_value, Calling
  <2>2. Follows("FlowSequenceEntryMappingEnd")
    BY <2>1 DEF Follows, ReturnStates, Top, FramesOf, Last, Grammar!Advance, Pairs
  <2>3. PICK t \in Peeked :
       FlowValue(t, {"FlowEntry", "FlowSequenceEnd"}, "FlowSequenceEntryMappingEnd")
    BY <1>2 DEF parse_flow_sequence_entry_mapping_value
  <2> QED BY <2>1, <2>2, <2>3, FlowValueLeaf
<1>3. CASE parse_flow_sequence_entry_mapping_end
  <2>1. state = "FlowSequenceEntryMappingEnd" /\ UNCHANGED states /\ streamEnded' = FALSE
    BY <1>3 DEF parse_flow_sequence_entry_mapping_end, Calling
  <2>2. PICK t \in Peeked :
       IF t = "ScanError"
       THEN Fail(t) /\ UNCHANGED state
       ELSE /\ state' = "FlowSequenceEntry"
            /\ event' = Event("MappingEnd", NoHandle)
            /\ look' = t
    BY <1>3 DEF parse_flow_sequence_entry_mapping_end
  <2>3. CASE t = "ScanError"
    BY <2>2, <2>3, FailLeaf
  <2>4. CASE t # "ScanError"
    <3>1. PairCloses
      BY <2>1, <2>2, <2>4 DEF Event, PairCloses
    <3> QED BY <2>1, <3>1 DEF Writes
  <2> QED BY <2>3, <2>4
<1>4. ASSUME NEW empty \in BOOLEAN, parse_flow_mapping_value(empty) PROVE Writes
  <2>1. state \in {"FlowMappingEmptyValue", "FlowMappingValue"} /\ streamEnded' = FALSE
    BY <1>4 DEF parse_flow_mapping_value, Calling
  <2>2. Follows("FlowMappingKey")
    BY <2>1 DEF Follows, ReturnStates, Top, FramesOf, Last, Grammar!Advance, Pairs
  <2>3. PICK t \in Peeked :
       IF empty
       THEN IF t = "ScanError"
            THEN Fail(t) /\ UNCHANGED <<state, states>>
            ELSE EmptyScalar("FlowMappingKey", states) /\ look' = t
       ELSE FlowValue(t, {"FlowEntry", "FlowMappingEnd"}, "FlowMappingKey")
    BY <1>4 DEF parse_flow_mapping_value
  <2>4. CASE ~empty
    BY <2>1, <2>2, <2>3, <2>4, FlowValueLeaf
  <2>5. CASE empty /\ t = "ScanError"
    BY <2>3, <2>5, FailLeaf
  <2>6. CASE empty /\ t # "ScanError"
    BY <2>1, <2>2, <2>3, <2>6, EmptyLeaf
  <2> QED BY <2>4, <2>5, <2>6
<1> QED BY <1>1, <1>2, <1>3, <1>4

LEMMA CollectionWrites == Stacked /\ CollectionHandlers => Writes
BY BlockWrites, BlockRestWrites, FlowWrites, FlowRestWrites DEF CollectionHandlers

-----------------------------------------------------------------------------
\* The frames that a stack and a state of the parser stand for.
Opened(stack, s) == Append(Under(FrameStack(stack), s), Top(s))

\* A sequence is the function of its elements.
LEMMA SeqIsFunction ==
  ASSUME NEW S, NEW s \in Seq(S), NEW n, Len(s) = n
  PROVE  s = [i \in 1..n |-> s[i]]
BY LenProperties

\* The frames of a state are frames.
LEMMA FramesTyped == \A s \in ReturnStates : FramesOf(s) \in Seq(Grammar!Frame)
<1> SUFFICES ASSUME NEW s \in ReturnStates PROVE FramesOf(s) \in Seq(Grammar!Frame)
  OBVIOUS
<1>1. FramesOf(s) \in {<<"closed">>, <<"items">>, <<"key">>, <<"value">>,
                       <<"items", "key">>, <<"items", "value">>}
  BY DEF ReturnStates, FramesOf
<1>2. \A x, y \in Grammar!Frame : <<x>> \in Seq(Grammar!Frame) /\ <<x, y>> \in Seq(Grammar!Frame)
  OBVIOUS
<1>3. {"closed", "items", "key", "value"} \subseteq Grammar!Frame
  BY DEF Grammar!Frame
<1> QED BY <1>1, <1>2, <1>3

\* The frames below the current state are well typed.
LEMMA FrameStackTyped ==
  ASSUME NEW P \in Seq(ReturnStates)
  PROVE  FrameStack(P) \in Seq(Grammar!Frame)
<1> DEFINE ss == [i \in DOMAIN P |-> FramesOf(P[i])]
<1>1. DOMAIN P = 1..Len(P) /\ Len(P) \in Nat /\ \A i \in 1..Len(P) : P[i] \in ReturnStates
  BY LenProperties, ElementOfSeq
<1>2. \A s \in ReturnStates : FramesOf(s) \in Seq(Grammar!Frame)
  BY FramesTyped
<1>3. ss = [i \in 1..Len(P) |-> FramesOf(P[i])]
  BY <1>1
<1>4. ss \in Seq(Seq(Grammar!Frame))
  BY <1>1, <1>2, <1>3
<1> QED BY <1>4, FlattenTyped DEF FrameStack

\* A pushed state opens its frames above the others.
LEMMA FrameStackPushed ==
  ASSUME NEW P \in Seq(ReturnStates), NEW s \in ReturnStates
  PROVE  FrameStack(Append(P, s)) = FrameStack(P) \o FramesOf(s)
<1> DEFINE ss == [i \in DOMAIN P |-> FramesOf(P[i])]
           tt == [i \in DOMAIN Append(P, s) |-> FramesOf(Append(P, s)[i])]
<1>1. DOMAIN P = 1..Len(P) /\ Len(P) \in Nat /\ \A i \in 1..Len(P) : P[i] \in ReturnStates
  BY LenProperties, ElementOfSeq
<1>2. \A x \in ReturnStates : FramesOf(x) \in Seq(Grammar!Frame)
  BY FramesTyped
<1>3. ss = [i \in 1..Len(P) |-> FramesOf(P[i])]
  BY <1>1
<1>4. ss \in Seq(Seq(Grammar!Frame)) /\ Len(ss) = Len(P)
  BY <1>1, <1>2, <1>3
<1>5. tt = Append(ss, FramesOf(s))
  <2>1. /\ DOMAIN Append(P, s) = 1..(Len(P) + 1)
        /\ \A i \in 1..Len(P) : Append(P, s)[i] = P[i]
        /\ Append(P, s)[Len(P) + 1] = s
    BY <1>1, AppendFacts, LenProperties
  <2>2. /\ DOMAIN Append(ss, FramesOf(s)) = 1..(Len(P) + 1)
        /\ Append(ss, FramesOf(s)) \in Seq(Seq(Grammar!Frame))
        /\ \A i \in 1..Len(P) : Append(ss, FramesOf(s))[i] = ss[i]
        /\ Append(ss, FramesOf(s))[Len(P) + 1] = FramesOf(s)
    <3> HIDE DEF ss
    <3> QED BY <1>2, <1>4, AppendFacts, LenProperties
  <2>3. \A i \in 1..(Len(P) + 1) : i \in 1..Len(P) \/ i = Len(P) + 1
    BY <1>1
  <2>4. \A i \in 1..Len(P) : ss[i] = FramesOf(P[i])
    BY <1>3
  <2> DEFINE n == Len(P) + 1
             a == Append(ss, FramesOf(s))
             b == Append(P, s)
  <2>5. a = [i \in 1..n |-> a[i]]
    <3>1. Len(a) = n /\ a \in Seq(Seq(Grammar!Frame))
      <4> HIDE DEF ss
      <4> QED BY <1>2, <1>4, <2>2, AppendFacts
    <3> HIDE DEF a, n
    <3> QED BY <3>1, SeqIsFunction
  <2>6. \A i \in 1..n : a[i] = FramesOf(b[i])
    <3> HIDE DEF ss, FramesOf
    <3> QED BY <2>1, <2>2, <2>3, <2>4
  <2>7. tt = [i \in 1..n |-> FramesOf(b[i])]
    BY <2>1
  <2> HIDE DEF a, b, n, tt, ss
  <2>8. tt = a
    BY <2>5, <2>6, <2>7
  <2> QED BY <2>8 DEF a
<1> HIDE DEF ss, tt
<1>6. FlattenSeq(Append(ss, FramesOf(s))) = FlattenSeq(ss) \o FramesOf(s)
  BY <1>2, <1>4, FlattenPushed
<1> QED BY <1>5, <1>6 DEF FrameStack, ss, tt

\* Nothing pushed, no frame.
LEMMA FrameStackEmpty == FrameStack(<<>>) = <<>>
BY DEF FrameStack, FlattenSeq

\* The frames of a stack and a state, innermost apart.
LEMMA OpenedFacts ==
  ASSUME NEW P \in Seq(ReturnStates), NEW s \in Inside
  PROVE  /\ FrameStack(P) \o FramesOf(s) = Opened(P, s)
         /\ Under(FrameStack(P), s) \in Seq(Grammar!Frame)
         /\ Top(s) \in Grammar!Frame
         /\ Opened(P, s) # <<>>
         /\ Last(Opened(P, s)) = Top(s)
         /\ Front(Opened(P, s)) = Under(FrameStack(P), s)
<1>1. PICK F \in Seq(Grammar!Frame) : F = FrameStack(P)
  BY FrameStackTyped
<1>2. "items" \in Grammar!Frame
  BY DEF Grammar!Frame
<1>3. Under(F, s) \in Seq(Grammar!Frame)
  BY <1>1, <1>2, AppendFacts DEF Under
<1>4. PICK x \in Grammar!Frame : x = Top(s)
  BY StateFrames
<1>5. F \o FramesOf(s) = Append(Under(F, s), x)
  <2>1. F \o <<x>> = Append(F, x) /\ F \o <<"items", x>> = Append(Append(F, "items"), x)
    BY <1>1, <1>2, <1>4
  <2> QED BY <1>4, <2>1, StateFrames DEF Under
<1>6. PICK U \in Seq(Grammar!Frame) : U = Under(F, s)
  BY <1>3
<1>7. Append(U, x) # <<>> /\ Last(Append(U, x)) = x /\ Front(Append(U, x)) = U
  BY <1>4, <1>6, AppendFacts
<1> QED BY <1>1, <1>3, <1>4, <1>5, <1>6, <1>7 DEF Opened

-----------------------------------------------------------------------------
\* What the fields of a healthy parser say of the stream: a root node is read
\* at the bottom of the stack, and the state tells whether the stream has
\* begun and whether it is over.
Positions ==
  Healthy =>
    /\ state \in RootStates => states = <<"DocumentEnd">>
    /\ event.type = "None" <=> state = "StreamStart"
    /\ streamEnded <=> state = "End"
    /\ state = "End" => event.type = "StreamEnd"

\* The grammar sees the top of a stack as the parser does.
LEMMA GrammarStacks == \A s : Grammar!Last(s) = Last(s) /\ Grammar!Front(s) = Front(s)
BY DEF Grammar!Last, Grammar!Front, Last, Front

\* The phase and the frames while a document is open.
LEMMA InsideFacts ==
  ASSUME ParserInv, Positions, Healthy, state \in Inside
  PROVE  /\ StreamPhase = "stream"
         /\ OpenFrames = Opened(states, state)
         /\ streamEnded = FALSE
<1>1. states \in Seq(ReturnStates) /\ state \notin RootStates /\ state \notin StreamStates
      /\ streamEnded \in BOOLEAN
  BY DEF ParserInv, ParserTypeOK, Inside, RootStates, NodeStates, BlockStates, FlowStates,
     FirstStates, Unmarked, StreamStates
<1>2. event.type # "None" /\ ~streamEnded
  BY <1>1 DEF Positions, StreamStates
<1>3. StreamPhase = "stream"
  BY <1>2 DEF StreamPhase, Healthy
<1>4. OpenFrames = FrameStack(states) \o FramesOf(state)
  BY <1>1 DEF OpenFrames, Healthy, RootStates
<1> QED BY <1>1, <1>2, <1>3, <1>4, OpenedFacts

\* ... and after a step that leaves the parser inside a document.
LEMMA InsideNext ==
  ASSUME ParserInv', streamEnded' = FALSE, state' \in Inside,
         event'.type \notin {"Error", "Panic", "None"}
  PROVE  /\ StreamPhase' = "stream"
         /\ OpenFrames' = Opened(states', state')
         /\ Positions'
<1>1. states' \in Seq(ReturnStates) /\ state' \notin RootStates /\ state' \notin StreamStates
  BY DEF ParserInv, ParserTypeOK, Inside, RootStates, NodeStates, BlockStates, FlowStates,
     FirstStates, Unmarked, StreamStates
<1>2. StreamPhase' = "stream"
  BY DEF StreamPhase
<1>3. OpenFrames' = FrameStack(states') \o FramesOf(state')
  BY <1>1 DEF OpenFrames, RootStates
<1>4. Positions'
  BY <1>1 DEF Positions, StreamStates
<1> QED BY <1>1, <1>2, <1>3, <1>4, OpenedFacts

\* A step that fails.
LEMMA FailGrammar ==
  ASSUME ParserInv, Positions, Healthy, ~streamEnded, event'.type = "Error"
  PROVE  Grammar!GrammarNext /\ Positions'
<1>1. StreamPhase \in {"before", "stream"}
  BY DEF StreamPhase, Healthy
<1>2. StreamPhase' = "failed" /\ OpenFrames' = <<>>
  BY DEF StreamPhase, OpenFrames
<1>3. Grammar!Fail
  BY <1>1, <1>2 DEF Grammar!Fail
<1>4. Positions'
  BY DEF Positions, Healthy
<1> QED BY <1>3, <1>4 DEF Grammar!GrammarNext

\* A node read in a collection.
LEMMA NodeGrammar ==
  ASSUME ParserInv, ParserInv', Positions, Healthy, state \in Inside \ {"DocumentEnd"},
         streamEnded' = FALSE, NEW s, Follows(s), NodeWrites(Append(states, s))
  PROVE  Grammar!GrammarNext /\ Positions'
<1>1. /\ StreamPhase = "stream" /\ OpenFrames = Opened(states, state)
      /\ states \in Seq(ReturnStates) /\ states' \in Seq(ReturnStates)
  BY InsideFacts DEF ParserInv, ParserTypeOK
<1>2. PICK U \in Seq(Grammar!Frame), x \in Grammar!Frame :
        /\ U = Under(FrameStack(states), state) /\ x = Top(state)
        /\ OpenFrames # <<>> /\ Last(OpenFrames) = x /\ Front(OpenFrames) = U
  BY <1>1, OpenedFacts
<1>3. /\ s \in Inside /\ s \in ReturnStates
      /\ Top(s) = Grammar!Advance[x] /\ Under(FrameStack(states), s) = U
  BY <1>2 DEF Follows, Under, Inside, ReturnStates, RootStates, NodeStates, BlockStates,
     FlowStates, FirstStates, Unmarked
<1>4. x # "closed" /\ x # "root"
  BY <1>2 DEF Inside, NodeStates, RootStates, BlockStates, FlowStates, FirstStates, Unmarked,
     Top, FramesOf, Last
<1>5. /\ Grammar!ExpectsNode
      /\ Grammar!AfterNode = Append(U, Top(s))
      /\ Opened(states, s) = Grammar!AfterNode
  <2>1. Last(OpenFrames) # "closed" /\ OpenFrames # <<>>
    BY <1>2, <1>4
  <2>2. Append(Front(OpenFrames), Grammar!Advance[Last(OpenFrames)]) = Append(U, Top(s))
    BY <1>2, <1>3
  <2>3. Opened(states, s) = Append(U, Top(s))
    BY <1>3 DEF Opened
  <2> QED BY <2>1, <2>2, <2>3, GrammarStacks DEF Grammar!ExpectsNode, Grammar!AfterNode
<1>6. Last(Append(states, s)) = s /\ Front(Append(states, s)) = states
  BY <1>1, <1>3, AppendFacts
<1>7. CASE /\ event'.type \in {"Alias", "Scalar"}
           /\ state' = Last(Append(states, s)) /\ states' = Front(Append(states, s))
  <2>1. state' = s /\ states' = states
    BY <1>6, <1>7
  <2>2. StreamPhase' = "stream" /\ OpenFrames' = Opened(states, s) /\ Positions'
    BY <1>3, <1>7, <2>1, InsideNext
  <2>3. Grammar!Leaf
    BY <1>1, <1>5, <1>7, <2>2 DEF Grammar!Leaf
  <2> QED BY <2>2, <2>3 DEF Grammar!GrammarNext
<1>8. ASSUME NEW y, NEW f, event'.type = y, states' = Append(states, s),
             \/ y = "SequenceStart" /\ f = "items"
             \/ y = "MappingStart" /\ f = "key",
             state' \in Inside \ Pairs, Top(state') = f
      PROVE  Grammar!CollectionStart(y, f) /\ Positions'
  <2>1. StreamPhase' = "stream" /\ OpenFrames' = Opened(states', state') /\ Positions'
    BY <1>8, InsideNext
  <2>2. Opened(states', state') = Append(FrameStack(Append(states, s)), f)
    BY <1>8 DEF Opened, Under
  <2>3. FrameStack(Append(states, s)) = Opened(states, s)
    BY <1>1, <1>3, FrameStackPushed, OpenedFacts
  <2>4. OpenFrames' = Append(Grammar!AfterNode, f)
    BY <1>5, <2>1, <2>2, <2>3
  <2> QED BY <1>1, <1>5, <1>8, <2>1, <2>4 DEF Grammar!CollectionStart
<1>9. CASE /\ event'.type = "SequenceStart" /\ states' = Append(states, s)
           /\ state' \in {"BlockSequenceFirstEntry", "FlowSequenceFirstEntry",
                          "IndentlessSequenceEntry"}
  <2>1. state' \in Inside \ Pairs /\ Top(state') = "items"
    BY <1>9 DEF Inside, NodeStates, RootStates, BlockStates, FlowStates, FirstStates, Unmarked,
       Pairs, Top, FramesOf, Last
  <2>2. Grammar!CollectionStart("SequenceStart", "items") /\ Positions'
    BY <1>8, <1>9, <2>1
  <2> QED BY <2>2 DEF Grammar!GrammarNext
<1>10. CASE /\ event'.type = "MappingStart" /\ states' = Append(states, s)
            /\ state' \in {"BlockMappingFirstKey", "FlowMappingFirstKey"}
  <2>1. state' \in Inside \ Pairs /\ Top(state') = "key"
    BY <1>10 DEF Inside, NodeStates, RootStates, BlockStates, FlowStates, FirstStates, Unmarked,
       Pairs, Top, FramesOf, Last
  <2>2. Grammar!CollectionStart("MappingStart", "key") /\ Positions'
    BY <1>8, <1>10, <2>1
  <2> QED BY <2>2 DEF Grammar!GrammarNext
<1> QED BY <1>7, <1>9, <1>10 DEF NodeWrites

\* A single pair of a flow sequence opens, or closes.
LEMMA PairGrammar ==
  ASSUME ParserInv, ParserInv', Positions, Healthy, streamEnded' = FALSE,
         PairOpens \/ PairCloses
  PROVE  Grammar!GrammarNext /\ Positions'
<1>1. state \in Inside /\ state' \in Inside /\ states' = states
      /\ event'.type \in {"MappingStart", "MappingEnd"}
  BY DEF PairOpens, PairCloses, Inside, NodeStates, RootStates, BlockStates, FlowStates,
     FirstStates, Unmarked
<1>2. /\ StreamPhase = "stream" /\ OpenFrames = Opened(states, state)
      /\ StreamPhase' = "stream" /\ OpenFrames' = Opened(states, state') /\ Positions'
  BY <1>1, InsideFacts, InsideNext
<1>3. PICK F \in Seq(Grammar!Frame) : F = FrameStack(states)
  BY FrameStackTyped DEF ParserInv, ParserTypeOK
<1>4. {"items", "key"} \subseteq Grammar!Frame
  BY DEF Grammar!Frame
<1>5. PICK G \in Seq(Grammar!Frame) : G = Append(F, "items")
  BY <1>3, <1>4, AppendFacts
<1>6. /\ G # <<>> /\ Last(G) = "items" /\ Front(G) = F
      /\ Append(G, "key") # <<>> /\ Last(Append(G, "key")) = "key" /\ Front(Append(G, "key")) = G
  <2>1. G # <<>> /\ Last(G) = "items" /\ Front(G) = F
    BY <1>3, <1>4, <1>5, AppendFacts
  <2>2. /\ Append(G, "key") # <<>> /\ Last(Append(G, "key")) = "key"
        /\ Front(Append(G, "key")) = G
    <3>1. G \in Seq(Grammar!Frame) /\ "key" \in Grammar!Frame
      BY <1>4, <1>5
    <3> QED BY <3>1, AppendFacts
  <2> QED BY <2>1, <2>2
<1>7. \A s \in {"FlowSequenceFirstEntry", "FlowSequenceEntry"} : Opened(states, s) = G
  BY <1>3, <1>5 DEF Opened, Under, Pairs, Top, FramesOf, Last
<1>8. \A s \in {"FlowSequenceEntryMappingKey", "FlowSequenceEntryMappingEnd"} :
        Opened(states, s) = Append(G, "key")
  <2>1. ASSUME NEW s \in {"FlowSequenceEntryMappingKey", "FlowSequenceEntryMappingEnd"}
        PROVE  Opened(states, s) = Append(G, "key")
    <3>1. Top(s) = "key" /\ s \in Pairs
      BY StateFrames DEF Pairs, Top, FramesOf, Last
    <3> QED BY <1>3, <1>5, <3>1 DEF Opened, Under
  <2> QED BY <2>1
<1>9. CASE PairOpens
  <2>1. OpenFrames = G /\ OpenFrames' = Append(G, "key") /\ event'.type = "MappingStart"
    BY <1>2, <1>7, <1>8, <1>9 DEF PairOpens
  <2>2. Grammar!ExpectsNode /\ Grammar!AfterNode = G
    BY <1>3, <1>5, <1>6, <2>1, GrammarStacks DEF Grammar!ExpectsNode, Grammar!AfterNode, Grammar!Advance
  <2>3. Grammar!CollectionStart("MappingStart", "key")
    BY <1>2, <2>1, <2>2 DEF Grammar!CollectionStart
  <2> QED BY <1>2, <2>3 DEF Grammar!GrammarNext
<1>10. CASE PairCloses
  <2>1. OpenFrames = Append(G, "key") /\ OpenFrames' = G /\ event'.type = "MappingEnd"
    BY <1>2, <1>7, <1>8, <1>10 DEF PairCloses
  <2>2. Grammar!CollectionEnd("MappingEnd", "key")
    BY <1>2, <1>6, <2>1, GrammarStacks DEF Grammar!CollectionEnd
  <2> QED BY <1>2, <2>2 DEF Grammar!GrammarNext
<1> QED BY <1>9, <1>10

\* A collection closes and its parent resumes.
LEMMA CloseGrammar ==
  ASSUME ParserInv, ParserInv', Positions, Healthy, states # <<>>,
         state \in Inside, streamEnded' = FALSE, Closes
  PROVE  Grammar!GrammarNext /\ Positions'
<1>1. /\ StreamPhase = "stream" /\ OpenFrames = Opened(states, state)
      /\ states \in Seq(ReturnStates)
  BY InsideFacts DEF ParserInv, ParserTypeOK
<1>2. PICK s \in ReturnStates, P \in Seq(ReturnStates) :
        s = Last(states) /\ P = Front(states) /\ states = Append(P, s)
  BY <1>1, FrontFacts, PopPush
<1>3. s \in Inside
  BY DEF Inside, ReturnStates, RootStates, NodeStates, BlockStates, FlowStates, FirstStates,
     Unmarked
<1>4. state' = s /\ states' = P /\ event'.type \in {"SequenceEnd", "MappingEnd"}
  BY <1>2 DEF Closes
<1>5. StreamPhase' = "stream" /\ OpenFrames' = Opened(P, s) /\ Positions'
  BY <1>3, <1>4, InsideNext
<1>6. Opened(P, s) = FrameStack(states)
  BY <1>2, <1>3, FrameStackPushed, OpenedFacts, ZenonT(40)
<1>7. OpenFrames # <<>> /\ Last(OpenFrames) = Top(state) /\ Front(OpenFrames) = FrameStack(states)
  BY <1>1, OpenedFacts DEF Under, Closes
<1>8. \/ Grammar!CollectionEnd("SequenceEnd", "items")
      \/ Grammar!CollectionEnd("MappingEnd", "key")
  BY <1>1, <1>5, <1>6, <1>7, GrammarStacks DEF Closes, Grammar!CollectionEnd
<1> QED BY <1>5, <1>8 DEF Grammar!GrammarNext

\* A handler of a collection takes a step of the grammar.
LEMMA CollectionGrammar ==
  ASSUME ParserInv, ParserInv', Positions, Healthy, CollectionHandlers
  PROVE  Grammar!GrammarNext /\ Positions'
<1>1. state \in Inside \ {"DocumentEnd"} /\ state \notin StreamStates /\ ~streamEnded
  BY DEF CollectionHandlers, Inside, RootStates, NodeStates, StreamStates,
     BlockStates, FlowStates, FirstStates, Unmarked, Calling,
     parse_block_sequence_entry, parse_block_mapping_key, parse_flow_sequence_entry,
     parse_flow_mapping_key, parse_indentless_sequence_entry, parse_block_mapping_value,
     parse_flow_sequence_entry_mapping_key, parse_flow_sequence_entry_mapping_value,
     parse_flow_sequence_entry_mapping_end, parse_flow_mapping_value
<1>2. states # <<>> /\ states \in Seq(ReturnStates)
  BY <1>1 DEF ParserInv, ParserTypeOK, StackFramed
<1>3. Writes
  BY <1>2, CollectionWrites DEF Stacked
<1>4. event'.type # "Panic"
  BY DEF ParserInv, NoPanic
<1>5. CASE event'.type = "Error"
  BY <1>1, <1>5, FailGrammar
<1>6. CASE event'.type # "Error"
  <2>1. streamEnded' = FALSE
    BY <1>3, <1>4, <1>6 DEF Writes
  <2>2. CASE \E s : Follows(s) /\ NodeWrites(Append(states, s))
    BY <1>1, <2>1, <2>2, NodeGrammar
  <2>3. CASE PairOpens \/ PairCloses
    BY <2>1, <2>3, PairGrammar
  <2>4. CASE Closes
    BY <1>1, <1>2, <2>1, <2>4, CloseGrammar
  <2> QED BY <1>3, <1>4, <1>6, <2>2, <2>3, <2>4 DEF Writes
<1> QED BY <1>5, <1>6

\* The handlers that read a root node take a step of the grammar.
LEMMA RootGrammar ==
  ASSUME ParserInv, ParserInv', Positions, Healthy, parse_document_content \/ parse_block_node
  PROVE  Grammar!GrammarNext /\ Positions'
<1>1. /\ state \in RootStates /\ ~streamEnded /\ streamEnded' = FALSE
      /\ states = <<"DocumentEnd">> /\ states # <<>>
      /\ state \notin StreamStates
  <2>1. /\ state \in RootStates /\ ~streamEnded /\ streamEnded' = streamEnded
    BY DEF parse_document_content, parse_block_node, Calling, RootStates
  <2>2. states = <<"DocumentEnd">> /\ streamEnded \in BOOLEAN
    BY <2>1 DEF Positions, ParserInv, ParserTypeOK
  <2>3. state \notin StreamStates
    BY <2>1 DEF RootStates, StreamStates
  <2> QED BY <2>1, <2>2, <2>3
<1>2. event'.type = "Error" \/ NodeWrites(states)
  <2>1. CASE parse_block_node
    BY <1>1, <2>1, NodeWritten DEF parse_block_node
  <2>2. CASE parse_document_content
    <3>1. PICK t \in Peeked :
       IF t \in Directives \cup {"DocumentStart", "DocumentEnd", "StreamEnd"}
       THEN Return(states, Event("Scalar", NoHandle)) /\ look' = t
       ELSE Node(TRUE, FALSE, t, states)
      BY <2>2 DEF parse_document_content
    <3>2. CASE Return(states, Event("Scalar", NoHandle))
      BY <1>1, <3>2 DEF Return, Event, NodeWrites
    <3>3. CASE Node(TRUE, FALSE, t, states)
      BY <1>1, <3>3, NodeWritten
    <3> QED BY <3>1, <3>2, <3>3
  <2> QED BY <2>1, <2>2
<1>3. CASE event'.type = "Error"
  BY <1>1, <1>3, FailGrammar
<1>4. CASE event'.type # "Error" /\ NodeWrites(states)
  <2>1. StreamPhase = "stream" /\ OpenFrames = <<"root">>
    BY <1>1 DEF Positions, StreamPhase, OpenFrames, Healthy, RootStates, StreamStates
  <2>2. Grammar!ExpectsNode /\ Grammar!AfterNode = <<"closed">>
    <3>1. Last(<<"root">>) = "root" /\ Front(<<"root">>) = <<>> /\ Append(<<>>, "closed") = <<"closed">>
      BY DEF Last, Front
    <3>2. Grammar!Advance["root"] = "closed"
      BY DEF Grammar!Advance
    <3>3. Last(OpenFrames) = "root" /\ Front(OpenFrames) = <<>> /\ OpenFrames # <<>>
      BY <2>1, <3>1
    <3>4. Append(Front(OpenFrames), Grammar!Advance[Last(OpenFrames)]) = <<"closed">>
      BY <3>1, <3>2, <3>3
    <3> QED BY <3>3, <3>4, GrammarStacks DEF Grammar!ExpectsNode, Grammar!AfterNode
  <2>3. Last(states) = "DocumentEnd" /\ Front(states) = <<>>
    BY <1>1 DEF Last, Front
  <2>4. Top("DocumentEnd") = "closed" /\ "DocumentEnd" \in Inside \ Pairs
        /\ "DocumentEnd" \in ReturnStates
        /\ <<>> \in Seq(ReturnStates) /\ Append(<<>>, "DocumentEnd") = <<"DocumentEnd">>
    BY DEF Top, FramesOf, Last, Inside, Pairs, ReturnStates
  <2>5. Opened(<<>>, "DocumentEnd") = <<"closed">>
    <3>1. Append(<<>>, "closed") = <<"closed">>
      OBVIOUS
    <3> QED BY <2>4, <3>1, FrameStackEmpty DEF Opened, Under
  <2>6. CASE /\ event'.type \in {"Alias", "Scalar"}
             /\ state' = Last(states) /\ states' = Front(states)
    <3>1. StreamPhase' = "stream" /\ OpenFrames' = <<"closed">> /\ Positions'
      BY <1>1, <2>3, <2>4, <2>5, <2>6, InsideNext
    <3>2. Grammar!Leaf
      BY <2>1, <2>2, <2>6, <3>1 DEF Grammar!Leaf
    <3> QED BY <3>1, <3>2 DEF Grammar!GrammarNext
  <2>7. ASSUME NEW y, NEW f, event'.type = y, states' = states,
               \/ y = "SequenceStart" /\ f = "items"
               \/ y = "MappingStart" /\ f = "key",
               state' \in Inside \ Pairs, Top(state') = f
        PROVE  Grammar!CollectionStart(y, f) /\ Positions'
    <3>1. StreamPhase' = "stream" /\ OpenFrames' = Opened(states', state') /\ Positions'
      BY <1>1, <2>7, InsideNext
    <3>2. Opened(states', state') = Append(FrameStack(<<"DocumentEnd">>), f)
      BY <1>1, <2>7 DEF Opened, Under
    <3>3. FrameStack(<<"DocumentEnd">>) = <<"closed">>
      BY <2>4, <2>5, FrameStackPushed, OpenedFacts
    <3> QED BY <2>1, <2>2, <2>7, <3>1, <3>2, <3>3 DEF Grammar!CollectionStart
  <2>8. CASE /\ event'.type = "SequenceStart" /\ states' = states
             /\ state' \in {"BlockSequenceFirstEntry", "FlowSequenceFirstEntry",
                            "IndentlessSequenceEntry"}
    <3>1. state' \in Inside \ Pairs /\ Top(state') = "items"
      BY <2>8 DEF Inside, NodeStates, RootStates, BlockStates, FlowStates, FirstStates, Unmarked,
         Pairs, Top, FramesOf, Last
    <3>2. Grammar!CollectionStart("SequenceStart", "items") /\ Positions'
      BY <2>7, <2>8, <3>1
    <3> QED BY <3>2 DEF Grammar!GrammarNext
  <2>9. CASE /\ event'.type = "MappingStart" /\ states' = states
             /\ state' \in {"BlockMappingFirstKey", "FlowMappingFirstKey"}
    <3>1. state' \in Inside \ Pairs /\ Top(state') = "key"
      BY <2>9 DEF Inside, NodeStates, RootStates, BlockStates, FlowStates, FirstStates, Unmarked,
         Pairs, Top, FramesOf, Last
    <3>2. Grammar!CollectionStart("MappingStart", "key") /\ Positions'
      BY <2>7, <2>9, <3>1
    <3> QED BY <3>2 DEF Grammar!GrammarNext
  <2> QED BY <1>4, <2>6, <2>8, <2>9 DEF NodeWrites
<1> QED BY <1>2, <1>3, <1>4

-----------------------------------------------------------------------------
\* Outside of documents, where no frame is open.
LEMMA OutsideGrammar ==
  ASSUME ParserInv, Positions, Healthy, state \in StreamStates
  PROVE  /\ OpenFrames = <<>>
         /\ StreamPhase = CASE state = "StreamStart" -> "before"
                            [] state = "End" -> "end"
                            [] OTHER -> "stream"
<1>1. states = <<>> /\ state \notin RootStates /\ event.type # "Error"
  BY OutsideFacts DEF RootStates, StreamStates, Healthy
<1>2. FramesOf(state) = <<>>
  BY DEF FramesOf, StreamStates
<1>3. OpenFrames = <<>>
  BY <1>1, <1>2, FrameStackEmpty DEF OpenFrames, RootStates
<1>4. StreamPhase = CASE state = "StreamStart" -> "before"
                      [] state = "End" -> "end"
                      [] OTHER -> "stream"
  BY <1>1 DEF StreamPhase, Positions, StreamStates
<1> QED BY <1>3, <1>4

\* A step that leaves the parser outside of documents.
LEMMA OutsideGrammarNext ==
  ASSUME ParserInv', state' \in StreamStates, event'.type \notin {"Error", "Panic"},
         event'.type = "None" <=> state' = "StreamStart",
         streamEnded' <=> state' = "End",
         state' = "End" => event'.type = "StreamEnd"
  PROVE  /\ OpenFrames' = <<>> /\ Positions'
         /\ StreamPhase' = CASE state' = "StreamStart" -> "before"
                             [] state' = "End" -> "end"
                             [] OTHER -> "stream"
<1>1. state' \notin RootStates /\ state' \notin {"DocumentContent", "BlockNode"}
  BY DEF RootStates, StreamStates
<1>2. Positions'
  BY <1>1 DEF Positions
<1>3. states' = <<>>
  BY DEF ParserInv, StackFramed, Healthy
<1>4. FramesOf(state') = <<>>
  BY DEF FramesOf, StreamStates
<1>5. OpenFrames' = <<>>
  BY <1>1, <1>3, <1>4, FrameStackEmpty DEF OpenFrames
<1>6. StreamPhase' = CASE state' = "StreamStart" -> "before"
                       [] state' = "End" -> "end"
                       [] OTHER -> "stream"
  BY DEF StreamPhase
<1> QED BY <1>2, <1>5, <1>6

\* The handlers at the borders of the stream and of its documents.
LEMMA BorderGrammar ==
  ASSUME ParserInv, ParserInv', Positions, Healthy,
         \/ parse_stream_start \/ parse_document_end
         \/ \E implicit \in BOOLEAN : parse_document_start(implicit)
  PROVE  Grammar!GrammarNext /\ Positions'
<1>1. ~streamEnded
  BY DEF parse_stream_start, parse_document_end, parse_document_start, Calling
<1>2. CASE event'.type = "Error"
  BY <1>1, <1>2, FailGrammar
<1>3. CASE parse_stream_start /\ event'.type # "Error"
  <2>1. /\ state = "StreamStart" /\ state' = "ImplicitDocumentStart"
        /\ event'.type = "StreamStart" /\ streamEnded' = FALSE
    BY <1>3 DEF parse_stream_start, Calling, Fail, Event
  <2>2. state \in StreamStates /\ state' \in StreamStates
    BY <2>1 DEF StreamStates
  <2>3. StreamPhase = "before" /\ OpenFrames = <<>>
    BY <2>1, <2>2, OutsideGrammar
  <2>4. StreamPhase' = "stream" /\ OpenFrames' = <<>> /\ Positions'
    BY <2>1, <2>2, OutsideGrammarNext
  <2>5. Grammar!StreamStart
    BY <2>1, <2>3, <2>4 DEF Grammar!StreamStart
  <2> QED BY <2>4, <2>5 DEF Grammar!GrammarNext
<1>4. CASE parse_document_end /\ event'.type # "Error"
  <2>1. /\ state = "DocumentEnd" /\ state' = "DocumentStart"
        /\ event'.type = "DocumentEnd" /\ streamEnded' = FALSE
    BY <1>4 DEF parse_document_end, Calling, Fail, Event
  <2>2. state \in Inside /\ state' \in StreamStates
    BY <2>1 DEF Inside, StreamStates
  <2>3. StreamPhase = "stream" /\ OpenFrames = Opened(<<>>, "DocumentEnd")
    <3>1. states = <<>>
      BY <2>1, OutsideFacts
    <3> QED BY <2>1, <2>2, <3>1, InsideFacts
  <2>4. Opened(<<>>, "DocumentEnd") = <<"closed">>
    <3>1. Append(<<>>, "closed") = <<"closed">> /\ Top("DocumentEnd") = "closed"
          /\ "DocumentEnd" \notin Pairs
      BY DEF Top, FramesOf, Last, Pairs
    <3> QED BY <3>1, FrameStackEmpty DEF Opened, Under
  <2>5. StreamPhase' = "stream" /\ OpenFrames' = <<>> /\ Positions'
    BY <2>1, <2>2, OutsideGrammarNext
  <2>6. Grammar!DocumentEnd
    BY <2>1, <2>3, <2>4, <2>5 DEF Grammar!DocumentEnd
  <2> QED BY <2>5, <2>6 DEF Grammar!GrammarNext
<1>5. ASSUME NEW implicit \in BOOLEAN, parse_document_start(implicit), event'.type # "Error"
      PROVE  Grammar!GrammarNext /\ Positions'
  <2>1. state \in {"ImplicitDocumentStart", "DocumentStart"} /\ states = <<>>
    BY <1>5, OutsideFacts DEF parse_document_start, StreamStates
  <2>2. StreamPhase = "stream" /\ OpenFrames = <<>>
    BY <2>1, OutsideGrammar DEF StreamStates
  <2>3. PICK t :
       CASE t = "ScanError" ->
              Fail(t) /\ UNCHANGED <<state, states, tagDirectives, streamEnded, declared>>
         [] t = "StreamEnd" -> StreamOver
         [] implicit /\ t \notin Directives \cup {"DocumentStart", "StreamEnd", "ScanError"} ->
              ImplicitDocument(t)
         [] OTHER -> ExplicitDocument(t) \/ BadDirective(t)
    BY <1>5 DEF parse_document_start
  <2>4. \A u : Fail(u) => event'.type = "Error"
    BY DEF Fail, Event
  <2>5. \/ StreamOver
        \/ /\ event' = Event("DocumentStart", NoHandle) /\ streamEnded' = streamEnded
           /\ states' = Append(states, "DocumentEnd")
           /\ state' \in RootStates
    <3>1. CASE t = "ScanError"
      BY <1>5, <2>3, <2>4, <3>1
    <3>2. CASE t = "StreamEnd"
      BY <2>3, <3>2
    <3>3. CASE implicit /\ t \notin Directives \cup {"DocumentStart", "StreamEnd", "ScanError"}
      BY <2>3, <3>3 DEF ImplicitDocument, RootStates
    <3>4. CASE /\ t \notin {"ScanError", "StreamEnd"}
               /\ ~(implicit /\ t \notin Directives \cup {"DocumentStart", "StreamEnd", "ScanError"})
      <4>1. ExplicitDocument(t) \/ BadDirective(t)
        BY <2>3, <3>4
      <4> QED BY <1>5, <2>4, <4>1 DEF ExplicitDocument, BadDirective, RootStates
    <3> QED BY <3>1, <3>2, <3>3, <3>4
  <2>6. CASE StreamOver
    <3>1. state' = "End" /\ event'.type = "StreamEnd" /\ streamEnded' = TRUE
      BY <2>6 DEF StreamOver, Event
    <3>2. StreamPhase' = "end" /\ OpenFrames' = <<>> /\ Positions'
      BY <3>1, OutsideGrammarNext DEF StreamStates
    <3>3. Grammar!StreamEnd
      BY <2>2, <3>1, <3>2 DEF Grammar!StreamEnd
    <3> QED BY <3>2, <3>3 DEF Grammar!GrammarNext
  <2>7. CASE /\ event' = Event("DocumentStart", NoHandle) /\ streamEnded' = streamEnded
             /\ states' = Append(states, "DocumentEnd")
             /\ state' \in RootStates
    <3>1. event'.type = "DocumentStart" /\ states' = <<"DocumentEnd">> /\ ~streamEnded'
      BY <1>1, <2>1, <2>7 DEF Event
    <3>2. StreamPhase' = "stream" /\ OpenFrames' = <<"root">>
      BY <2>7, <3>1 DEF StreamPhase, OpenFrames, RootStates
    <3>3. Positions'
      BY <2>7, <3>1 DEF Positions, RootStates
    <3>4. Grammar!DocumentStart
      BY <2>2, <3>1, <3>2 DEF Grammar!DocumentStart
    <3> QED BY <3>3, <3>4 DEF Grammar!GrammarNext
  <2> QED BY <2>5, <2>6, <2>7
<1> QED BY <1>2, <1>3, <1>4, <1>5

\* A new parser has emitted nothing.
LEMMA InitGrammar == ParserInit => Grammar!GrammarInit /\ Positions
<1> SUFFICES ASSUME ParserInit PROVE Grammar!GrammarInit /\ Positions
  OBVIOUS
<1>1. state = "StreamStart" /\ streamEnded = FALSE /\ states = <<>> /\ event.type = "None"
  BY DEF ParserInit, Event
<1>2. Positions
  BY <1>1 DEF Positions, RootStates
<1>3. StreamPhase = "before" /\ OpenFrames = <<>>
  BY <1>1, FrameStackEmpty DEF StreamPhase, OpenFrames, FramesOf
<1> QED BY <1>1, <1>2, <1>3 DEF Grammar!GrammarInit

\* The events of the parser, whatever the tokens, follow the grammar: the
\* loader and the emitter never see a document, a sequence or a mapping that
\* is closed twice, or not at all, or a key without a value.
THEOREM ParserFollowsGrammar ==
  ASSUME StopsAtError
  PROVE  ParserSpec => EventsFollowGrammar
<1>1. ParserInit => Grammar!GrammarInit /\ Positions
  BY InitGrammar
<1>2. ParserInv /\ ParserInv' /\ Positions /\ [ParserNext]_parserVars
        => [Grammar!GrammarNext]_(Grammar!grammarVars) /\ Positions'
  <2> SUFFICES ASSUME ParserInv, ParserInv', Positions, [ParserNext]_parserVars
               PROVE  (Grammar!GrammarNext \/ UNCHANGED Grammar!grammarVars) /\ Positions'
    OBVIOUS
  <2>1. Polling => Healthy
    BY DEF Polling, Healthy, StopsAtError
  <2>2. CASE CollectionHandlers
    <3>1. Healthy
      BY <2>1, <2>2 DEF CollectionHandlers, Calling, parse_block_sequence_entry,
         parse_block_mapping_key, parse_flow_sequence_entry, parse_flow_mapping_key,
         parse_indentless_sequence_entry, parse_block_mapping_value,
         parse_flow_sequence_entry_mapping_key, parse_flow_sequence_entry_mapping_value,
         parse_flow_sequence_entry_mapping_end, parse_flow_mapping_value
    <3> QED BY <2>2, <3>1, CollectionGrammar
  <2>3. CASE parse_document_content \/ parse_block_node
    BY <2>1, <2>3, RootGrammar DEF parse_document_content, parse_block_node, Calling
  <2>4. CASE \/ parse_stream_start \/ parse_document_end
             \/ \E implicit \in BOOLEAN : parse_document_start(implicit)
    <3>1. Healthy
      BY <2>1, <2>4 DEF parse_stream_start, parse_document_end, parse_document_start, Calling
    <3> QED BY <2>4, <3>1, BorderGrammar
  <2>5. CASE ParseAfterEnd
    <3>1. /\ Healthy /\ state = "End" /\ event.type = "StreamEnd"
      BY <2>1, <2>5 DEF ParseAfterEnd, Positions
    <3>2. /\ UNCHANGED <<state, states, streamEnded>> /\ event'.type = "StreamEnd"
      BY <2>5 DEF ParseAfterEnd, Event
    <3>3. UNCHANGED <<StreamPhase, OpenFrames, event.type>>
      BY <3>1, <3>2 DEF StreamPhase, OpenFrames
    <3>4. Positions'
      BY <3>1, <3>2 DEF Positions, RootStates
    <3> QED BY <3>3, <3>4 DEF Grammar!grammarVars
  <2>6. CASE Reset
    <3>1. state' = "StreamStart" /\ streamEnded' = FALSE /\ states' = <<>> /\ event'.type = "None"
      BY <2>6 DEF Reset, Event
    <3>2. StreamPhase' = "before" /\ OpenFrames' = <<>> /\ Positions'
      BY <3>1, OutsideGrammarNext DEF StreamStates
    <3>3. Grammar!Reset
      BY <3>1, <3>2 DEF Grammar!Reset
    <3> QED BY <3>2, <3>3 DEF Grammar!GrammarNext
  <2>7. CASE UNCHANGED parserVars
    <3>1. UNCHANGED <<state, states, streamEnded, event>>
      BY <2>7 DEF parserVars
    <3>2. UNCHANGED <<StreamPhase, OpenFrames, event.type>>
      BY <3>1 DEF StreamPhase, OpenFrames
    <3>3. Positions'
      BY <3>1 DEF Positions, Healthy
    <3> QED BY <3>2, <3>3 DEF Grammar!grammarVars
  <2> QED BY <2>2, <2>3, <2>4, <2>5, <2>6, <2>7 DEF ParserNext, Parse, CollectionHandlers
<1>3. ParserSpec => []ParserInv
  BY ParserInvInductive
<1> QED BY <1>1, <1>2, <1>3, PTL DEF ParserSpec, EventsFollowGrammar, Grammar!GrammarSpec
=============================================================================
