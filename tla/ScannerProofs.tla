---------------------------- MODULE ScannerProofs ----------------------------
(***************************************************************************)
(* Proofs about the token queue, for every text, every nesting of flow     *)
(* collections and every limit on keys, and for a caller that goes on      *)
(* after errors: keys stand at tokens in the queue, indentations agree     *)
(* with the block collections open, and the tokens delivered are one       *)
(* stream in the order of the input.                                       *)
(*                                                                         *)
(* Every step of the scanner but the delivery of a token and the insertion *)
(* before a simple key appends tokens of one mark to the queue (Appends):  *)
(* AppendsKeeps shows once what such a step preserves.                     *)
(***************************************************************************)
EXTENDS ScannerProps, StackLemmas

BlockStarts == {"BlockSequenceStart", "BlockMappingStart"}
KeyStarts == {"Content", "FlowStart"}

Position == [line : Nat, column : Nat]
KeyRecord == [possible : BOOLEAN, required : BOOLEAN, tokenNumber : Nat, mark : Position]
TokenRecord == [type : TokenType, mark : Position]

NotAfter(p, q) == Stream!NotAfter(p, q)

-----------------------------------------------------------------------------
\* The inductive invariant.
ScannerTypes ==
  /\ mark \in Position /\ over \in BOOLEAN /\ started \in BOOLEAN /\ ended \in BOOLEAN
  /\ flowLevel \in Nat
  /\ tokens \in Seq(TokenRecord)
  /\ tokensParsed \in Nat /\ tokenAvailable \in BOOLEAN
  /\ indents \in Seq(Int) /\ indents # <<>>
  /\ simpleKeyAllowed \in BOOLEAN
  /\ simpleKeys \in Seq(KeyRecord)
  /\ at \in {"idle", "testing", "skipping", "fetching", "failed"}
  /\ delivered \in [type : TokenType \cup {"None"}, mark : Position]
  /\ blocks \in Int

\* Before the StreamStart token nothing has happened; a token that is
\* available is no possible key.
Stages ==
  /\ ~started => /\ at \in {"idle", "testing", "skipping"}
                 /\ tokens = <<>> /\ tokensParsed = 0 /\ ~tokenAvailable /\ ~ended
                 /\ simpleKeys = <<>> /\ ~simpleKeyAllowed /\ flowLevel = 0 /\ indents = <<0>>
                 /\ mark = Origin /\ delivered = NoToken /\ blocks = 0
  /\ tokenAvailable => at = "idle" /\ tokens # <<>> /\ ~HeldBack(simpleKeys)
  /\ ended => ~tokenAvailable /\ at = "idle"
  /\ started => Len(simpleKeys) = flowLevel + 1

\* The number of the next token to be queued.
NextNumber == tokensParsed + Len(tokens)

\* A possible key on the line of the mark, which is not stale for its line.
Here(k) == k.possible /\ k.mark.line = mark.line

\* Possible keys are numbered by tokens of the queue, those around the
\* innermost flow level by tokens that are there already, and lie before the
\* mark; only the key of the block level can be required.
KeysPlaced ==
  \A i \in DOMAIN simpleKeys :
    LET k == simpleKeys[i] IN
    /\ k.required => i = 1
    /\ k.possible =>
         /\ k.tokenNumber > 0 /\ k.tokenNumber >= tokensParsed /\ k.tokenNumber <= NextNumber
         /\ i < Len(simpleKeys) => k.tokenNumber < NextNumber
         /\ \/ k.mark.line < mark.line
            \/ k.mark.line = mark.line /\ k.mark.column < mark.column

KeysOrdered ==
  \A i, j \in DOMAIN simpleKeys :
    i < j /\ simpleKeys[i].possible /\ simpleKeys[j].possible
      => simpleKeys[i].tokenNumber < simpleKeys[j].tokenNumber

\* While a lexeme is fetched all possible keys are on its line, and where a
\* key is allowed the innermost one is not.
KeysFresh ==
  /\ at = "fetching" => \A i \in DOMAIN simpleKeys : simpleKeys[i].possible => Here(simpleKeys[i])
  /\ started /\ simpleKeyAllowed /\ TopKey.possible => ~Here(TopKey)

Rising == \A i, j \in DOMAIN indents : i < j => indents[i] < indents[j]

\* Indentations rise, up to the column of a lexeme in block context and of a
\* key of the block level that stands on the line.
Indented ==
  /\ started => indents[1] = -1
  /\ Rising
  /\ at = "fetching" /\ flowLevel = 0 => Indent <= mark.column
  /\ started /\ Here(simpleKeys[1]) => Indent <= simpleKeys[1].mark.column

\* The block collections opened, less those closed, by the first n tokens.
Balance(ts, n) == CountIn(ts, [type : BlockStarts, mark : Position], n)
                    - CountIn(ts, [type : {"BlockEnd"}, mark : Position], n)

Balanced ==
  /\ \A n \in 0..Len(tokens) : blocks + Balance(tokens, n) >= 0
  /\ blocks + Balance(tokens, Len(tokens)) = Len(indents) - 1

\* The tokens are in the order of the input, and the keys among them.
InInputOrder ==
  /\ NotAfter(delivered.mark, mark)
  /\ \A i \in DOMAIN tokens : /\ NotAfter(delivered.mark, tokens[i].mark)
                              /\ NotAfter(tokens[i].mark, mark)
  /\ \A i, j \in DOMAIN tokens : i < j => NotAfter(tokens[i].mark, tokens[j].mark)

KeysInInputOrder ==
  \A i \in DOMAIN simpleKeys :
    LET k == simpleKeys[i] IN
    k.possible =>
      /\ NotAfter(delivered.mark, k.mark)
      /\ \A n \in DOMAIN tokens : IF tokensParsed + n <= k.tokenNumber
                                  THEN NotAfter(tokens[n].mark, k.mark)
                                  ELSE NotAfter(k.mark, tokens[n].mark)

\* A collection goes on with an entry of its kind, which is in the queue.
GoesOn(t, next) == /\ t = "BlockSequenceStart" => next = "BlockEntry"
                   /\ t = "BlockMappingStart" => next \in {"Key", "Value"}

Followed ==
  /\ delivered.type \in BlockStarts => tokens # <<>>
  /\ tokens # <<>> => GoesOn(delivered.type, tokens[1].type)
  /\ \A i \in DOMAIN tokens :
       /\ tokens[i].type \in BlockStarts => i < Len(tokens)
       /\ i < Len(tokens) => GoesOn(tokens[i].type, tokens[i + 1].type)

\* The token of a key is one that a key can begin with, if it is there.
KeysPoint ==
  \A i \in DOMAIN simpleKeys :
    LET k == simpleKeys[i] n == k.tokenNumber - tokensParsed IN
      Here(k) /\ n < Len(tokens) => tokens[n + 1].type \in KeyStarts

StreamFramed ==
  /\ delivered.type = "None" <=> tokensParsed = 0
  /\ started /\ tokensParsed = 0 => tokens # <<>>
  /\ \A i \in DOMAIN tokens : tokens[i].type = "StreamStart" <=> (i = 1 /\ tokensParsed = 0)
  /\ delivered.type = "StreamEnd" => ended

KeysInv == KeysPlaced /\ KeysOrdered /\ KeysFresh /\ Indented
StreamInv == Balanced /\ InInputOrder /\ KeysInInputOrder /\ Followed /\ KeysPoint /\ StreamFramed

ScannerInv == ScannerTypes /\ Stages /\ KeysInv /\ StreamInv

-----------------------------------------------------------------------------
\* Positions.
LEMMA PositionFacts ==
  /\ \A p \in Position : NotAfter(p, p)
  /\ \A p, q, r \in Position : NotAfter(p, q) /\ NotAfter(q, r) => NotAfter(p, r)
  /\ Origin \in Position
  /\ \A p \in Position : NotAfter(Origin, p)
BY DEF NotAfter, Stream!NotAfter, Position, Origin

\* Reading on does not go back (Inline, NextLine, Onward).
LEMMA OnwardFacts ==
  ASSUME NEW p \in Position, NEW q
  PROVE  /\ q \in Inline(p) => q \in Position /\ q.line = p.line /\ q.column > p.column
         /\ q \in NextLine(p) => q \in Position /\ q.line > p.line
         /\ q \in Onward(p) => q \in Position /\ NotAfter(p, q)
         /\ q \in Inline(p) \cup NextLine(p) => NotAfter(p, q)
<1> USE DEF Position
<1>1. ASSUME q \in Inline(p) PROVE q \in Position /\ q.line = p.line /\ q.column > p.column
  <2>1. (p.column + 1)..MaxColumn \subseteq Nat /\ p.line \in Nat
    BY ScannerAssumption
  <2> QED BY <1>1, <2>1 DEF Inline
<1>2. ASSUME q \in NextLine(p) PROVE q \in Position /\ q.line > p.line
  <2>1. q \in [line : {p.line + 1}, column : 0..MaxColumn]
    BY <1>2 DEF NextLine
  <2>2. 0..MaxColumn \subseteq Nat /\ p.line + 1 \in Nat
    BY ScannerAssumption
  <2> QED BY <2>1, <2>2
<1> QED BY <1>1, <1>2 DEF Onward, NotAfter, Stream!NotAfter

\* The innermost key.
LEMMA TopKeyFacts ==
  ASSUME ScannerTypes, Stages, started
  PROVE  /\ flowLevel + 1 \in DOMAIN simpleKeys
         /\ DOMAIN simpleKeys = 1..(flowLevel + 1)
         /\ TopKey = simpleKeys[flowLevel + 1] /\ TopKey \in KeyRecord
         /\ simpleKeys # <<>>
BY DEF ScannerTypes, Stages, TopKey, Last

\* A key that is not possible any more.
LEMMA RetiredFacts ==
  ASSUME NEW k \in KeyRecord
  PROVE  LET r == [k EXCEPT !.possible = FALSE]
         IN r \in KeyRecord /\ ~r.possible /\ r.required = k.required
BY DEF KeyRecord

\* stale_simple_keys() takes possible keys away, and no other.
LEMMA FreshFacts ==
  ASSUME simpleKeys \in Seq(KeyRecord), NEW m
  PROVE  /\ Fresh(m) \in Seq(KeyRecord) /\ Len(Fresh(m)) = Len(simpleKeys)
         /\ \A i \in DOMAIN simpleKeys :
              /\ Fresh(m)[i].required = simpleKeys[i].required
              /\ Fresh(m)[i].possible => Fresh(m)[i] = simpleKeys[i]
              /\ Fresh(m)[i].possible /\ ~StaleError(m) => ~Stale(simpleKeys[i], m)
<1>1. \A i \in DOMAIN simpleKeys : simpleKeys[i] \in KeyRecord /\ Fresh(m)[i] \in KeyRecord
  <2> TAKE i \in DOMAIN simpleKeys
  <2>1. simpleKeys[i] \in KeyRecord
    OBVIOUS
  <2>2. [simpleKeys[i] EXCEPT !.possible = FALSE] \in KeyRecord
    BY <2>1, RetiredFacts
  <2> QED BY <2>1, <2>2 DEF Fresh
<1>2. DOMAIN Fresh(m) = DOMAIN simpleKeys /\ DOMAIN simpleKeys = 1..Len(simpleKeys)
  BY DEF Fresh
<1>3. Fresh(m) \in Seq(KeyRecord) /\ Len(Fresh(m)) = Len(simpleKeys)
  <2>1. Fresh(m) = [i \in 1..Len(simpleKeys) |-> Fresh(m)[i]]
    BY <1>2 DEF Fresh
  <2>2. Len(simpleKeys) \in Nat
    OBVIOUS
  <2>3. Fresh(m) \in [1..Len(simpleKeys) -> KeyRecord]
    BY <1>1, <1>2, <2>1
  <2> QED BY <2>2, <2>3, IsASeq, LenProperties
<1>4. ASSUME NEW i \in DOMAIN simpleKeys
      PROVE  /\ Fresh(m)[i].required = simpleKeys[i].required
             /\ Fresh(m)[i].possible => Fresh(m)[i] = simpleKeys[i]
             /\ Fresh(m)[i].possible /\ ~StaleError(m) => ~Stale(simpleKeys[i], m)
  <2>1. Fresh(m)[i] = IF /\ Stale(simpleKeys[i], m)
                         /\ \A j \in 1..i : ~(Stale(simpleKeys[j], m) /\ simpleKeys[j].required)
                      THEN [simpleKeys[i] EXCEPT !.possible = FALSE] ELSE simpleKeys[i]
    BY DEF Fresh
  <2>2. \A j \in 1..i : j \in DOMAIN simpleKeys
    BY <1>2
  <2>3. ~StaleError(m) => \A j \in 1..i : ~(Stale(simpleKeys[j], m) /\ simpleKeys[j].required)
    BY <2>2 DEF StaleError
  <2>4. /\ ~[simpleKeys[i] EXCEPT !.possible = FALSE].possible
        /\ [simpleKeys[i] EXCEPT !.possible = FALSE].required = simpleKeys[i].required
    BY <1>1, RetiredFacts
  <2> QED BY <2>1, <2>3, <2>4
<1> QED BY <1>3, <1>4

\* remove_simple_key() takes the innermost one away.
LEMMA RemovedFacts ==
  ASSUME ScannerTypes, Stages, started
  PROVE  /\ Removed \in Seq(KeyRecord) /\ Len(Removed) = Len(simpleKeys)
         /\ ~Removed[flowLevel + 1].possible
         /\ \A i \in DOMAIN simpleKeys :
              /\ Removed[i].required = simpleKeys[i].required
              /\ Removed[i].possible => Removed[i] = simpleKeys[i]
<1>1. /\ Len(simpleKeys) = flowLevel + 1 /\ flowLevel + 1 \in DOMAIN simpleKeys
      /\ simpleKeys \in Seq(KeyRecord)
  BY TopKeyFacts DEF Stages, ScannerTypes
<1> DEFINE r == [simpleKeys[flowLevel + 1] EXCEPT !.possible = FALSE]
<1>2. r \in KeyRecord /\ ~r.possible /\ r.required = simpleKeys[flowLevel + 1].required
  <2>1. simpleKeys[flowLevel + 1] \in KeyRecord
    BY <1>1
  <2> QED BY <2>1, RetiredFacts
<1>3. Removed = [simpleKeys EXCEPT ![flowLevel + 1] = r]
  BY <1>1 DEF Removed
<1> HIDE DEF r
<1>4. /\ Removed \in Seq(KeyRecord) /\ Len(Removed) = Len(simpleKeys)
      /\ \A i \in DOMAIN simpleKeys :
           Removed[i] = IF i = flowLevel + 1 THEN r ELSE simpleKeys[i]
  BY <1>1, <1>2, <1>3, ExceptSeq
<1> QED BY <1>1, <1>2, <1>4

\* Of two indentations the outer one is less; the current one is the last.
LEMMA IndentFacts ==
  ASSUME ScannerTypes
  PROVE  /\ Len(indents) \in Nat \ {0} /\ DOMAIN indents = 1..Len(indents)
         /\ Indent = indents[Len(indents)] /\ Indent \in Int
         /\ \A i \in DOMAIN indents : indents[i] \in Int
<1>1. Len(indents) \in Nat \ {0}
  BY EmptySeq, LenProperties DEF ScannerTypes
<1> QED BY <1>1, ElementOfSeq DEF ScannerTypes, Indent, Last

\* unroll_indent(column) leaves at least the indentation of the stream, and
\* none beyond the column.
LEMMA UnrollFacts ==
  ASSUME ScannerTypes, Rising, indents[1] = -1, NEW column \in Int, column >= -1
  PROVE  /\ KeptBy(column) \in DOMAIN indents
         /\ flowLevel = 0 => indents[KeptBy(column)] <= column
         /\ flowLevel # 0 => KeptBy(column) = Len(indents)
         /\ flowLevel = 0 /\ Indent <= column => KeptBy(column) = Len(indents)
<1> DEFINE T == {n \in DOMAIN indents : indents[n] <= column}
           Kept(n) == /\ n \in DOMAIN indents /\ indents[n] <= column
                      /\ \A i \in (n + 1)..Len(indents) : indents[i] > column
<1>1. T \in SUBSET Nat /\ T # {} /\ Len(indents) \in Nat /\ \A t \in T : t <= Len(indents)
  BY IndentFacts
<1>2. PICK m \in T : \A n \in T : n <= m
  <2> HIDE DEF T
  <2> QED BY <1>1, GreatestOf
<1>3. Kept(m)
  <2>1. \A i \in (m + 1)..Len(indents) : i \in DOMAIN indents /\ i > m /\ indents[i] \in Int
    BY IndentFacts
  <2> QED BY <1>2, <2>1
<1>4. flowLevel = 0 => Kept(KeptBy(column))
  BY <1>3 DEF KeptBy
<1>5. flowLevel = 0 /\ Indent <= column => KeptBy(column) = Len(indents)
  <2> SUFFICES ASSUME flowLevel = 0, Indent <= column, KeptBy(column) # Len(indents)
               PROVE  FALSE
    OBVIOUS
  <2>1. Kept(KeptBy(column))
    BY <1>4
  <2>2. Len(indents) \in (KeptBy(column) + 1)..Len(indents)
    BY <2>1, IndentFacts
  <2>3. indents[Len(indents)] > column
    BY <2>1, <2>2
  <2> QED BY <2>3, IndentFacts
<1>6. flowLevel # 0 => KeptBy(column) = Len(indents)
  BY DEF KeptBy
<1>7. Len(indents) \in DOMAIN indents
  BY IndentFacts
<1> QED BY <1>4, <1>5, <1>6, <1>7

LEMMA UnrolledFacts ==
  ASSUME ScannerTypes, Rising, indents[1] = -1, NEW column \in Int, column >= -1
  PROVE  /\ Unrolled(column) \in Seq(Int) /\ Unrolled(column) # <<>>
         /\ Len(Unrolled(column)) = KeptBy(column)
         /\ \A i \in 1..KeptBy(column) : Unrolled(column)[i] = indents[i]
         /\ Last(Unrolled(column)) = indents[KeptBy(column)]
<1> DEFINE n == KeptBy(column)
<1>1. n \in Nat \ {0} /\ n <= Len(indents) /\ Len(indents) \in Nat
  <2>1. n \in DOMAIN indents
    BY UnrollFacts
  <2> QED BY <2>1, IndentFacts
<1>2. \A i \in 1..n : indents[i] \in Int
  BY <1>1, IndentFacts
<1>3. /\ SubSeq(indents, 1, n) \in Seq(Int) /\ Len(SubSeq(indents, 1, n)) = n
      /\ \A i \in 1..n : SubSeq(indents, 1, n)[i] = indents[i]
  <2> HIDE DEF n
  <2>1. /\ SubSeq(indents, 1, n) \in Seq(Int)
        /\ Len(SubSeq(indents, 1, n)) = IF 1 <= n THEN n - 1 + 1 ELSE 0
        /\ \A i \in 1 .. n - 1 + 1 : SubSeq(indents, 1, n)[i] = indents[1 + i - 1]
    BY <1>1, <1>2, SubSeqProperties
  <2>2. n - 1 + 1 = n /\ \A i \in 1..n : 1 + i - 1 = i
    BY <1>1
  <2> QED BY <1>1, <2>1, <2>2
<1>4. Unrolled(column) = SubSeq(indents, 1, n)
  BY DEF Unrolled
<1>5. n \in 1..n
  BY <1>1
<1> HIDE DEF n
<1>6. Unrolled(column) # <<>>
  BY <1>1, <1>3, <1>4
<1> QED BY <1>1, <1>3, <1>4, <1>5, <1>6 DEF n, Last

\* The BlockEnds of unroll_indent.
LEMMA EndsFacts ==
  ASSUME ScannerTypes, Rising, indents[1] = -1, NEW column \in Int, column >= -1,
         NEW m \in Position
  PROVE  /\ Ends(column, m) \in Seq(TokenRecord)
         /\ Len(Ends(column, m)) = Len(indents) - KeptBy(column)
         /\ \A i \in 1..Len(Ends(column, m)) : Ends(column, m)[i] = Token("BlockEnd", m)
<1> DEFINE n == Len(indents) - KeptBy(column)
<1>1. n \in Nat
  <2>1. KeptBy(column) \in DOMAIN indents
    BY UnrollFacts
  <2> QED BY <2>1, IndentFacts
<1>2. Token("BlockEnd", m) \in TokenRecord
  BY DEF Token, TokenRecord, TokenType
<1>3. Ends(column, m) \in [1..n -> TokenRecord]
  BY <1>2 DEF Ends
<1> HIDE DEF n
<1>4. Ends(column, m) \in Seq(TokenRecord) /\ Len(Ends(column, m)) = n
  BY <1>1, <1>3, IsASeq, LenProperties
<1> QED BY <1>4 DEF n, Ends

\* roll_indent(column) opens a collection in block context, beyond the last.
LEMMA RolledFacts ==
  ASSUME ScannerTypes, Rising, NEW column \in Int
  PROVE  /\ Rolled(column) \in Seq(Int) /\ Rolled(column) # <<>>
         /\ Len(Rolled(column)) = Len(indents) + (IF Rolls(column) THEN 1 ELSE 0)
         /\ \A i \in 1..Len(indents) : Rolled(column)[i] = indents[i]
         /\ \A i, j \in DOMAIN Rolled(column) : i < j => Rolled(column)[i] < Rolled(column)[j]
         /\ flowLevel = 0 /\ Indent <= column => Last(Rolled(column)) = column
         /\ flowLevel # 0 => Rolled(column) = indents
<1>1. CASE ~Rolls(column)
  <2>1. Rolled(column) = indents
    BY <1>1 DEF Rolled
  <2>2. flowLevel = 0 /\ Indent <= column => Indent = column
    BY <1>1, IndentFacts DEF Rolls
  <2> QED BY <1>1, <2>1, <2>2 DEF ScannerTypes, Rising, Indent
<1>2. CASE Rolls(column)
  <2>1. Rolled(column) = Append(indents, column) /\ flowLevel = 0 /\ Indent < column
    BY <1>2 DEF Rolled, Rolls
  <2>2. /\ Rolled(column) \in Seq(Int) /\ Rolled(column) # <<>>
        /\ Len(Rolled(column)) = Len(indents) + 1
        /\ \A i \in 1..Len(indents) : Rolled(column)[i] = indents[i]
        /\ Rolled(column)[Len(indents) + 1] = column
        /\ Last(Rolled(column)) = column
    <3>1. indents \in Seq(Int)
      BY DEF ScannerTypes
    <3> QED BY <2>1, <3>1, AppendFacts
  <2>3. ASSUME NEW i \in DOMAIN Rolled(column), NEW j \in DOMAIN Rolled(column), i < j
        PROVE  Rolled(column)[i] < Rolled(column)[j]
    <3>1. i \in 1..Len(indents) /\ j \in 1..(Len(indents) + 1)
      BY <2>2, <2>3, IndentFacts
    <3>2. CASE j <= Len(indents)
      BY <2>2, <3>1, <3>2, <2>3, IndentFacts DEF Rising
    <3>3. CASE j = Len(indents) + 1
      <4>1. indents[i] <= indents[Len(indents)]
        BY <3>1, IndentFacts DEF Rising
      <4> QED BY <2>1, <2>2, <3>1, <3>3, <4>1, IndentFacts
    <3> QED BY <3>1, <3>2, <3>3, IndentFacts
  <2> QED BY <1>2, <2>1, <2>2, <2>3
<1> QED BY <1>1, <1>2

-----------------------------------------------------------------------------
\* At a lexeme every possible key is on its line; none is at the start of one.
LEMMA FetchingKeys ==
  ASSUME ScannerInv, at = "fetching"
  PROVE  /\ started /\ ~tokenAvailable /\ ~ended
         /\ \A i \in DOMAIN simpleKeys : simpleKeys[i].possible =>
              Here(simpleKeys[i]) /\ simpleKeys[i].mark.column < mark.column
         /\ mark.column = 0 => \A i \in DOMAIN simpleKeys : ~simpleKeys[i].possible
<1>1. started /\ ~tokenAvailable /\ ~ended
  BY DEF ScannerInv, Stages
<1>2. ASSUME NEW i \in DOMAIN simpleKeys, simpleKeys[i].possible
      PROVE  Here(simpleKeys[i]) /\ simpleKeys[i].mark.column < mark.column
  <2>1. simpleKeys[i] \in KeyRecord /\ mark \in Position
    BY DEF ScannerInv, ScannerTypes
  <2> QED BY <1>2, <2>1 DEF ScannerInv, KeysInv, KeysFresh, KeysPlaced, Here, KeyRecord, Position
<1>3. \A i \in DOMAIN simpleKeys : simpleKeys[i].mark.column \in Nat
  <2>1. \A i \in DOMAIN simpleKeys : simpleKeys[i] \in KeyRecord
    BY DEF ScannerInv, ScannerTypes
  <2> QED BY <2>1 DEF KeyRecord, Position
<1> QED BY <1>1, <1>2, <1>3

\* remove_simple_key() and save_simple_key() do not fail where a key may
\* begin, nor in flow context, nor at the start of a line.
LEMMA RemovableKey ==
  ASSUME ScannerInv, at = "fetching"
  PROVE  /\ simpleKeyAllowed => ~TopKey.possible
         /\ flowLevel # 0 \/ simpleKeyAllowed \/ mark.column = 0 => ~RemoveFails
<1>1. started
  BY FetchingKeys
<1>2. /\ TopKey = simpleKeys[flowLevel + 1] /\ flowLevel + 1 \in DOMAIN simpleKeys
      /\ flowLevel \in Nat
  BY <1>1, TopKeyFacts DEF ScannerInv, ScannerTypes
<1>3. simpleKeyAllowed => ~TopKey.possible
  BY <1>1, <1>2, FetchingKeys DEF ScannerInv, KeysInv, KeysFresh
<1>4. flowLevel # 0 => ~TopKey.required
  BY <1>2 DEF ScannerInv, KeysInv, KeysPlaced
<1>5. mark.column = 0 => ~TopKey.possible
  BY <1>2, FetchingKeys
<1> QED BY <1>3, <1>4, <1>5 DEF RemoveFails

-----------------------------------------------------------------------------
\* Tokens of one mark m, between the marks before and after the step, are
\* appended to the queue.
Appends(ts, m) ==
  /\ ts \in Seq(TokenRecord) /\ m \in Position
  /\ \A i \in DOMAIN ts : ts[i].mark = m
  /\ tokens' = tokens \o ts
  /\ mark' \in Position /\ NotAfter(mark, m) /\ NotAfter(m, mark')
  /\ UNCHANGED <<tokensParsed, ended, delivered, blocks, started>>

\* They go on as they should, and do not begin the stream again.
WellFollowed(ts) ==
  \A i \in DOMAIN ts :
    /\ ts[i].type # "StreamStart"
    /\ ts[i].type \in BlockStarts => i < Len(ts)
    /\ i < Len(ts) => GoesOn(ts[i].type, ts[i + 1].type)

\* They open and close what the step does to the indentations.
MatchIndents(ts) ==
  /\ \A n \in 0..Len(ts) : Len(indents) - 1 + Balance(ts, n) >= 0
  /\ Len(indents') = Len(indents) + Balance(ts, Len(ts))

\* A key of the new state is one of the old, or is the next token.
KeysChange(ts) ==
  /\ simpleKeys' \in Seq(KeyRecord)
  /\ \A i \in DOMAIN simpleKeys' :
       simpleKeys'[i].possible =>
         /\ \/ i \in DOMAIN simpleKeys /\ simpleKeys'[i] = simpleKeys[i]
            \/ simpleKeys'[i].tokenNumber = NextNumber /\ simpleKeys'[i].mark = mark
         /\ /\ simpleKeys'[i].mark.line = mark'.line
            /\ simpleKeys'[i].tokenNumber = NextNumber
            /\ ts # <<>>
            => ts[1].type \in KeyStarts

LEMMA BalanceFacts ==
  ASSUME NEW ts, NEW n \in Nat
  PROVE  /\ Balance(ts, n) \in Int
         /\ Balance(ts, 0) = 0
         /\ ts[n + 1] \in TokenRecord =>
              Balance(ts, n + 1) = Balance(ts, n)
                + (CASE ts[n + 1].type \in BlockStarts -> 1
                     [] ts[n + 1].type = "BlockEnd" -> -1
                     [] OTHER -> 0)
<1> DEFINE O == [type : BlockStarts, mark : Position]
           C == [type : {"BlockEnd"}, mark : Position]
<1>1. /\ CountIn(ts, O, 0) = 0 /\ CountIn(ts, C, 0) = 0
      /\ CountIn(ts, O, n) \in Int /\ CountIn(ts, C, n) \in Int
      /\ CountIn(ts, O, n + 1) = CountIn(ts, O, n) + (IF ts[n + 1] \in O THEN 1 ELSE 0)
      /\ CountIn(ts, C, n + 1) = CountIn(ts, C, n) + (IF ts[n + 1] \in C THEN 1 ELSE 0)
  <2> HIDE DEF O, C
  <2> QED BY CountFacts
<1>2. ASSUME ts[n + 1] \in TokenRecord
      PROVE  /\ ts[n + 1] \in O <=> ts[n + 1].type \in BlockStarts
             /\ ts[n + 1] \in C <=> ts[n + 1].type = "BlockEnd"
  BY <1>2 DEF TokenRecord, BlockStarts
<1>3. "BlockEnd" \notin BlockStarts
  BY DEF BlockStarts
<1> HIDE DEF O, C
<1> QED BY <1>1, <1>2, <1>3 DEF Balance, O, C

\* The balance of a prefix, and of what is appended to it.
LEMMA BalanceJoins ==
  ASSUME NEW s \in Seq(TokenRecord), NEW ts \in Seq(TokenRecord)
  PROVE  /\ \A n \in 0..Len(s) : Balance(s \o ts, n) = Balance(s, n)
         /\ \A n \in 0..Len(ts) : Balance(s \o ts, Len(s) + n) = Balance(s, Len(s)) + Balance(ts, n)
<1> DEFINE O == [type : BlockStarts, mark : Position]
           C == [type : {"BlockEnd"}, mark : Position]
<1>1. /\ Len(s) \in Nat /\ Len(ts) \in Nat
      /\ \A i \in 1..Len(s) : (s \o ts)[i] = s[i]
      /\ \A i \in 1..Len(ts) : (s \o ts)[Len(s) + i] = ts[i]
  OBVIOUS
<1> DEFINE j == s \o ts
           l == Len(s)
<1> HIDE DEF O, C, j
<1>2. ASSUME NEW X, NEW n \in 0..l PROVE CountIn(j, X, n) = CountIn(s, X, n)
  <2>1. n \in Nat /\ \A i \in 1..n : j[i] = s[i]
    BY <1>1 DEF j
  <2> QED BY <2>1, CountSame
<1>3. ASSUME NEW X, NEW n \in 0..Len(ts)
      PROVE  CountIn(j, X, l + n) = CountIn(s, X, l) + CountIn(ts, X, n)
  <2>1. n \in Nat /\ \A i \in 1..n : j[l + i] = ts[i]
    BY <1>1 DEF j
  <2>2. CountIn(j, X, l + n) = CountIn(j, X, l) + CountIn(ts, X, n)
    <3> HIDE DEF l
    <3> QED BY <1>1, <2>1, CountShift DEF l
  <2> QED BY <1>1, <1>2, <2>2
<1>4. ASSUME NEW n \in 0..l PROVE Balance(j, n) = Balance(s, n)
  BY <1>2 DEF Balance, O, C
<1>5. ASSUME NEW n \in 0..Len(ts)
      PROVE  Balance(j, l + n) = Balance(s, l) + Balance(ts, n)
  <2>1. /\ CountIn(s, O, l) \in Int /\ CountIn(s, C, l) \in Int
        /\ CountIn(ts, O, n) \in Int /\ CountIn(ts, C, n) \in Int
    BY <1>1, CountFacts
  <2>2. /\ CountIn(j, O, l + n) = CountIn(s, O, l) + CountIn(ts, O, n)
        /\ CountIn(j, C, l + n) = CountIn(s, C, l) + CountIn(ts, C, n)
    BY <1>3
  <2> QED BY <2>1, <2>2 DEF Balance, O, C
<1> QED BY <1>4, <1>5 DEF j

LEMMA JoinFacts ==
  ASSUME NEW s \in Seq(TokenRecord), NEW ts \in Seq(TokenRecord)
  PROVE  /\ s \o ts \in Seq(TokenRecord)
         /\ Len(s \o ts) = Len(s) + Len(ts) /\ Len(s) \in Nat /\ Len(ts) \in Nat
         /\ \A i \in 1..Len(s) : (s \o ts)[i] = s[i]
         /\ \A i \in 1..(Len(s) + Len(ts)) : i > Len(s) => i - Len(s) \in 1..Len(ts)
                                                          /\ (s \o ts)[i] = ts[i - Len(s)]
         /\ s \o ts = <<>> <=> s = <<>> /\ ts = <<>>
OBVIOUS

\* What the delivered tokens promise is kept where tokens are appended.
LEMMA AppendsKeeps ==
  ASSUME ScannerInv, started, NEW ts, NEW m,
         Appends(ts, m), WellFollowed(ts), MatchIndents(ts), KeysChange(ts)
  PROVE  StreamInv'
<1>1. /\ tokens \in Seq(TokenRecord) /\ ts \in Seq(TokenRecord)
      /\ tokensParsed \in Nat /\ blocks \in Int
      /\ \A i \in DOMAIN tokens : tokens[i] \in TokenRecord
      /\ mark \in Position /\ mark' \in Position /\ m \in Position /\ delivered.mark \in Position
      /\ Len(tokens) \in Nat /\ Len(ts) \in Nat
  BY DEF ScannerInv, ScannerTypes, Appends
<1>2. /\ tokens' = tokens \o ts
      /\ tokensParsed' = tokensParsed /\ delivered' = delivered /\ blocks' = blocks
      /\ ended' = ended /\ started'
  BY DEF Appends
<1>3. /\ Len(tokens') = Len(tokens) + Len(ts)
      /\ DOMAIN tokens' = 1..(Len(tokens) + Len(ts))
      /\ DOMAIN tokens = 1..Len(tokens) /\ DOMAIN ts = 1..Len(ts)
      /\ \A i \in DOMAIN tokens : tokens'[i] = tokens[i]
      /\ \A i \in DOMAIN tokens' : i > Len(tokens) =>
           i - Len(tokens) \in DOMAIN ts /\ tokens'[i] = ts[i - Len(tokens)]
      /\ tokens' = <<>> <=> tokens = <<>> /\ ts = <<>>
  BY <1>1, <1>2, JoinFacts
<1>4. \A i \in DOMAIN tokens' : i > Len(tokens) => tokens'[i].mark = m
  BY <1>3 DEF Appends
<1>5. \A i \in DOMAIN simpleKeys : simpleKeys[i] \in KeyRecord /\ simpleKeys[i].mark \in Position
  <2>1. \A i \in DOMAIN simpleKeys : simpleKeys[i] \in KeyRecord
    BY DEF ScannerInv, ScannerTypes
  <2> QED BY <2>1 DEF KeyRecord
<1>6. /\ NotAfter(mark, m) /\ NotAfter(m, mark') /\ NotAfter(mark, mark')
      /\ NotAfter(mark, mark) /\ NotAfter(m, m)
  BY <1>1, PositionFacts DEF Appends
<1>7. Balanced'
  <2>1. ASSUME NEW n \in 0..Len(tokens') PROVE blocks + Balance(tokens', n) >= 0
    <3>1. CASE n <= Len(tokens)
      <4>1. Balance(tokens', n) = Balance(tokens, n)
        BY <1>1, <1>2, <3>1, BalanceJoins
      <4> QED BY <1>1, <3>1, <4>1 DEF ScannerInv, StreamInv, Balanced
    <3>2. CASE n > Len(tokens)
      <4> DEFINE k == n - Len(tokens)
      <4>1. k \in 0..Len(ts) /\ n = Len(tokens) + k
        BY <1>1, <1>3, <3>2
      <4>2. Balance(tokens', n) = Balance(tokens, Len(tokens)) + Balance(ts, k)
        <5> HIDE DEF k
        <5> QED BY <1>1, <1>2, <4>1, BalanceJoins
      <4>3. Len(indents) - 1 + Balance(ts, k) >= 0
        BY <4>1 DEF MatchIndents
      <4>4. Balance(ts, k) \in Int /\ Balance(tokens, Len(tokens)) \in Int
        BY <1>1, <4>1, BalanceFacts
      <4>5. blocks + Balance(tokens, Len(tokens)) = Len(indents) - 1
        BY DEF ScannerInv, StreamInv, Balanced
      <4> HIDE DEF k
      <4> QED BY <1>1, <4>2, <4>3, <4>4, <4>5
    <3> QED BY <1>1, <3>1, <3>2
  <2>2. blocks + Balance(tokens', Len(tokens')) = Len(indents') - 1
    <3>1. Balance(tokens', Len(tokens')) = Balance(tokens, Len(tokens)) + Balance(ts, Len(ts))
      BY <1>1, <1>2, <1>3, BalanceJoins
    <3>2. blocks + Balance(tokens, Len(tokens)) = Len(indents) - 1
      BY DEF ScannerInv, StreamInv, Balanced
    <3>3. Balance(ts, Len(ts)) \in Int /\ Balance(tokens, Len(tokens)) \in Int /\ Len(indents) \in Int
      BY <1>1, BalanceFacts, IndentFacts DEF ScannerInv
    <3>4. Len(indents') = Len(indents) + Balance(ts, Len(ts))
      BY DEF MatchIndents
    <3> QED BY <1>1, <3>1, <3>2, <3>3, <3>4, SMTT(30)
  <2> QED BY <1>2, <2>1, <2>2 DEF Balanced, Balance, CountIn
<1>8. InInputOrder'
  <2>1. \A i \in DOMAIN tokens : tokens[i].mark \in Position
    BY <1>1 DEF TokenRecord
  <2>2. NotAfter(delivered.mark, mark')
    BY <1>1, <1>6, PositionFacts DEF ScannerInv, StreamInv, InInputOrder
  <2>3. ASSUME NEW i \in DOMAIN tokens'
        PROVE  NotAfter(delivered.mark, tokens'[i].mark) /\ NotAfter(tokens'[i].mark, mark')
    <3>1. CASE i \in DOMAIN tokens
      BY <1>1, <1>3, <1>6, <2>1, <3>1, PositionFacts DEF ScannerInv, StreamInv, InInputOrder
    <3>2. CASE i > Len(tokens)
      BY <1>1, <1>4, <1>6, <3>2, PositionFacts DEF ScannerInv, StreamInv, InInputOrder
    <3> QED BY <1>1, <1>3, <3>1, <3>2
  <2>4. ASSUME NEW i \in DOMAIN tokens', NEW j \in DOMAIN tokens', i < j
        PROVE  NotAfter(tokens'[i].mark, tokens'[j].mark)
    <3>1. CASE j \in DOMAIN tokens
      <4>1. i \in DOMAIN tokens
        BY <1>1, <1>3, <2>4, <3>1
      <4> QED BY <1>3, <2>4, <3>1, <4>1 DEF ScannerInv, StreamInv, InInputOrder
    <3>2. CASE i \in DOMAIN tokens /\ j > Len(tokens)
      <4>1. NotAfter(tokens[i].mark, mark)
        BY <3>2 DEF ScannerInv, StreamInv, InInputOrder
      <4>2. NotAfter(tokens[i].mark, m)
        BY <1>1, <1>6, <2>1, <3>2, <4>1, PositionFacts
      <4> QED BY <1>3, <1>4, <3>2, <4>2
    <3>3. CASE i > Len(tokens)
      <4>1. j > Len(tokens)
        BY <1>1, <1>3, <2>4, <3>3
      <4> QED BY <1>4, <1>6, <3>3, <4>1
    <3> QED BY <1>1, <1>3, <3>1, <3>2, <3>3
  <2> QED BY <1>2, <2>2, <2>3, <2>4 DEF InInputOrder
<1>9. KeysInInputOrder'
  <2> SUFFICES ASSUME NEW i \in DOMAIN simpleKeys', simpleKeys'[i].possible
               PROVE  /\ NotAfter(delivered.mark, simpleKeys'[i].mark)
                      /\ \A n \in DOMAIN tokens' :
                           IF tokensParsed + n <= simpleKeys'[i].tokenNumber
                           THEN NotAfter(tokens'[n].mark, simpleKeys'[i].mark)
                           ELSE NotAfter(simpleKeys'[i].mark, tokens'[n].mark)
    BY <1>2 DEF KeysInInputOrder
  <2>1. CASE i \in DOMAIN simpleKeys /\ simpleKeys'[i] = simpleKeys[i]
    <3> DEFINE k == simpleKeys[i]
    <3>1. k.possible /\ k.mark \in Position /\ k.tokenNumber \in Nat
      BY <1>5, <2>1 DEF KeyRecord
    <3>2. NotAfter(k.mark, mark) /\ k.tokenNumber <= tokensParsed + Len(tokens)
      BY <1>1, <2>1, <3>1, SMTT(30) DEF ScannerInv, KeysInv, KeysPlaced, NextNumber, NotAfter, Stream!NotAfter,
                              Position
    <3>3. NotAfter(k.mark, m)
      BY <1>1, <1>6, <3>1, <3>2, PositionFacts
    <3>4. /\ NotAfter(delivered.mark, k.mark)
          /\ \A n \in DOMAIN tokens : IF tokensParsed + n <= k.tokenNumber
                                      THEN NotAfter(tokens[n].mark, k.mark)
                                      ELSE NotAfter(k.mark, tokens[n].mark)
      BY <2>1, <3>1 DEF ScannerInv, StreamInv, KeysInInputOrder
    <3> HIDE DEF k
    <3>5. ASSUME NEW n \in DOMAIN tokens', n > Len(tokens)
          PROVE  ~(tokensParsed + n <= k.tokenNumber) /\ NotAfter(k.mark, tokens'[n].mark)
      BY <1>1, <1>3, <1>4, <3>1, <3>2, <3>3, <3>5
    <3>6. \A n \in DOMAIN tokens' : n \in DOMAIN tokens \/ n > Len(tokens)
      BY <1>1, <1>3
    <3> QED BY <1>3, <2>1, <3>4, <3>5, <3>6 DEF k
  <2>2. CASE simpleKeys'[i].tokenNumber = NextNumber /\ simpleKeys'[i].mark = mark
    <3>1. NotAfter(delivered.mark, mark)
      BY DEF ScannerInv, StreamInv, InInputOrder
    <3>2. ASSUME NEW n \in DOMAIN tokens
          PROVE  tokensParsed + n <= NextNumber /\ NotAfter(tokens'[n].mark, mark)
      BY <1>1, <1>3 DEF ScannerInv, StreamInv, InInputOrder, NextNumber
    <3>3. ASSUME NEW n \in DOMAIN tokens', n > Len(tokens)
          PROVE  ~(tokensParsed + n <= NextNumber) /\ NotAfter(mark, tokens'[n].mark)
      BY <1>1, <1>3, <1>4, <1>6, <3>3 DEF NextNumber
    <3>4. \A n \in DOMAIN tokens' : n \in DOMAIN tokens \/ n > Len(tokens)
      BY <1>1, <1>3
    <3> QED BY <2>2, <3>1, <3>2, <3>3, <3>4
  <2> QED BY <2>1, <2>2 DEF KeysChange
<1>10. Followed'
  <2>1. delivered.type \in BlockStarts => tokens' # <<>>
    BY <1>3 DEF ScannerInv, StreamInv, Followed
  <2>2. delivered.type \notin BlockStarts => \A t : GoesOn(delivered.type, t)
    BY DEF GoesOn, BlockStarts
  <2>3. tokens' # <<>> => GoesOn(delivered.type, tokens'[1].type)
    <3>1. CASE tokens = <<>>
      BY <2>2, <3>1 DEF ScannerInv, StreamInv, Followed
    <3>2. CASE tokens # <<>>
      <4>1. 1 \in DOMAIN tokens
        BY <1>1, <3>2
      <4> QED BY <1>3, <3>2, <4>1 DEF ScannerInv, StreamInv, Followed
    <3> QED BY <3>1, <3>2
  <2>4. ASSUME NEW i \in DOMAIN tokens'
        PROVE  /\ tokens'[i].type \in BlockStarts => i < Len(tokens')
               /\ i < Len(tokens') => GoesOn(tokens'[i].type, tokens'[i + 1].type)
    <3>1. CASE i \in DOMAIN tokens /\ i < Len(tokens)
      <4>1. i + 1 \in DOMAIN tokens /\ i < Len(tokens')
        BY <1>1, <1>3, <3>1
      <4> QED BY <1>3, <3>1, <4>1 DEF ScannerInv, StreamInv, Followed
    <3>2. CASE i = Len(tokens)
      <4>1. i \in DOMAIN tokens
        BY <1>1, <1>3, <3>2
      <4>2. tokens[i].type \notin BlockStarts
        BY <1>1, <3>2, <4>1 DEF ScannerInv, StreamInv, Followed
      <4> QED BY <1>3, <4>1, <4>2 DEF GoesOn, BlockStarts
    <3>3. CASE i > Len(tokens)
      <4> DEFINE k == i - Len(tokens)
      <4>1. k \in DOMAIN ts /\ tokens'[i] = ts[k] /\ (i < Len(tokens') <=> k < Len(ts))
        BY <1>1, <1>3, <3>3
      <4>2. k < Len(ts) => tokens'[i + 1] = ts[k + 1]
        <5> SUFFICES ASSUME k < Len(ts) PROVE tokens'[i + 1] = ts[k + 1]
          OBVIOUS
        <5>1. i + 1 \in DOMAIN tokens' /\ i + 1 > Len(tokens) /\ (i + 1) - Len(tokens) = k + 1
          BY <1>1, <1>3, <3>3
        <5> QED BY <1>3, <5>1
      <4> HIDE DEF k
      <4> QED BY <4>1, <4>2 DEF WellFollowed
    <3> QED BY <1>1, <1>3, <3>1, <3>2, <3>3
  <2> QED BY <1>2, <2>1, <2>3, <2>4 DEF Followed
<1>11. KeysPoint'
  <2> SUFFICES ASSUME NEW i \in DOMAIN simpleKeys', simpleKeys'[i].possible,
                      simpleKeys'[i].mark.line = mark'.line,
                      simpleKeys'[i].tokenNumber - tokensParsed < Len(tokens')
               PROVE  tokens'[simpleKeys'[i].tokenNumber - tokensParsed + 1].type \in KeyStarts
    BY <1>2 DEF KeysPoint, Here
  <2> DEFINE k == simpleKeys'[i]
             n == k.tokenNumber - tokensParsed
  <2>1. CASE k.tokenNumber = NextNumber
    <3>1. n = Len(tokens) /\ ts # <<>>
      BY <1>1, <1>3, <2>1 DEF NextNumber
    <3>2. ts[1].type \in KeyStarts
      BY <2>1, <3>1 DEF KeysChange
    <3>3. n + 1 \in DOMAIN tokens' /\ n + 1 > Len(tokens) /\ (n + 1) - Len(tokens) = 1
      BY <1>1, <1>3, <3>1
    <3> HIDE DEF n
    <3> QED BY <1>3, <3>2, <3>3 DEF n
  <2>2. CASE k.tokenNumber # NextNumber
    <3>1. i \in DOMAIN simpleKeys /\ k = simpleKeys[i]
      BY <2>2 DEF KeysChange
    <3>2. k \in KeyRecord /\ k.tokenNumber >= tokensParsed /\ k.tokenNumber <= NextNumber
      BY <1>5, <3>1 DEF ScannerInv, KeysInv, KeysPlaced
    <3>3. n \in Nat /\ n < Len(tokens) /\ n + 1 \in DOMAIN tokens
      <4>1. /\ k.tokenNumber \in Nat /\ tokensParsed \in Nat /\ Len(tokens) \in Nat
            /\ DOMAIN tokens = 1..Len(tokens)
        BY <1>1, <3>2 DEF KeyRecord
      <4>2. k.tokenNumber >= tokensParsed /\ k.tokenNumber < tokensParsed + Len(tokens)
        BY <2>2, <3>2, <4>1 DEF NextNumber
      <4> HIDE DEF k
      <4> QED BY <4>1, <4>2
    <3>4. k.mark.line = mark.line
      <4>1. k.mark.line <= mark.line /\ mark.line <= mark'.line
        BY <1>1, <1>5, <1>6, <3>1, SMTT(30) DEF ScannerInv, KeysInv, KeysPlaced, NotAfter, Stream!NotAfter, Position
      <4>2. k.mark.line \in Nat /\ mark.line \in Nat /\ mark'.line \in Nat
        BY <1>1, <1>5, <3>1 DEF Position
      <4> QED BY <4>1, <4>2
    <3>5. tokens[n + 1].type \in KeyStarts
      BY <3>1, <3>3, <3>4 DEF ScannerInv, StreamInv, KeysPoint, Here
    <3> HIDE DEF n
    <3> QED BY <1>3, <3>3, <3>5 DEF n
  <2> QED BY <2>1, <2>2
<1>12. StreamFramed'
  <2>1. ASSUME NEW i \in DOMAIN tokens'
        PROVE  tokens'[i].type = "StreamStart" <=> (i = 1 /\ tokensParsed = 0)
    <3>1. CASE i \in DOMAIN tokens
      BY <1>3, <3>1 DEF ScannerInv, StreamInv, StreamFramed
    <3>2. CASE i > Len(tokens)
      <4>1. tokens'[i].type # "StreamStart"
        BY <1>3, <3>2 DEF WellFollowed
      <4>2. ~(i = 1 /\ tokensParsed = 0)
        <5>1. tokensParsed = 0 => Len(tokens) > 0
          BY <1>1 DEF ScannerInv, StreamInv, StreamFramed
        <5> QED BY <1>1, <1>3, <3>2, <5>1
      <4> QED BY <4>1, <4>2
    <3> QED BY <1>1, <1>3, <3>1, <3>2
  <2> QED BY <1>2, <1>3, <2>1 DEF StreamFramed, ScannerInv, StreamInv
<1> QED BY <1>7, <1>8, <1>9, <1>10, <1>11, <1>12 DEF StreamInv

-----------------------------------------------------------------------------
\* Tokens that neither open nor close a collection, nor begin the stream.
Plain == TokenType \ (BlockStarts \cup {"BlockEnd", "StreamStart"})

\* n BlockEnds close n collections.
LEMMA EndsBalance ==
  ASSUME NEW ts \in Seq(TokenRecord), NEW k \in 0..Len(ts),
         \A i \in 1..k : ts[i].type = "BlockEnd"
  PROVE  \A n \in 0..k : Balance(ts, n) = -n
<1> DEFINE T == {n \in Nat : n <= k => Balance(ts, n) = -n}
<1>1. 0 \in T
  BY BalanceFacts
<1>2. ASSUME NEW n \in Nat, n \in T PROVE n + 1 \in T
  <2> SUFFICES ASSUME n + 1 <= k PROVE Balance(ts, n + 1) = -(n + 1)
    OBVIOUS
  <2>1. n + 1 \in 1..k /\ n + 1 \in 1..Len(ts)
    BY LenProperties
  <2>2. ts[n + 1] \in TokenRecord /\ ts[n + 1].type = "BlockEnd" /\ "BlockEnd" \notin BlockStarts
    BY <2>1 DEF BlockStarts
  <2>3. Balance(ts, n + 1) = Balance(ts, n) - 1
    BY <2>2, BalanceFacts
  <2>4. Balance(ts, n) = -n
    BY <1>2, <2>1
  <2> QED BY <2>3, <2>4
<1>3. Nat \subseteq T
  <2> HIDE DEF T
  <2> QED BY <1>1, <1>2, NatSetInduction
<1> QED BY <1>3

\* A lexeme that leaves the indentations alone adds at most one such token.
LEMMA PlainToken ==
  ASSUME ScannerInv, started, UNCHANGED indents, NEW m \in Position, NEW ts,
         ts = <<>> \/ \E t \in Plain : ts = <<Token(t, m)>>
  PROVE  /\ ts \in Seq(TokenRecord) /\ \A i \in DOMAIN ts : ts[i].mark = m
         /\ WellFollowed(ts) /\ MatchIndents(ts)
<1>1. Len(indents) \in Nat \ {0}
  BY IndentFacts DEF ScannerInv
<1>2. CASE ts = <<>>
  <2>1. Len(ts) = 0 /\ DOMAIN ts = {} /\ ts \in Seq(TokenRecord)
    BY <1>2
  <2>2. Balance(ts, 0) = 0
    BY BalanceFacts
  <2> QED BY <1>1, <2>1, <2>2 DEF WellFollowed, MatchIndents
<1>3. ASSUME NEW t \in Plain, ts = <<Token(t, m)>>
      PROVE  /\ ts \in Seq(TokenRecord) /\ \A i \in DOMAIN ts : ts[i].mark = m
             /\ WellFollowed(ts) /\ MatchIndents(ts)
  <2>1. Token(t, m) \in TokenRecord
    BY DEF Token, TokenRecord, Plain
  <2>2. Len(ts) = 1 /\ DOMAIN ts = {1} /\ ts[1] = Token(t, m) /\ ts \in Seq(TokenRecord)
    BY <1>3, <2>1
  <2>3. t \notin BlockStarts /\ t # "BlockEnd" /\ t # "StreamStart" /\ ts[1].type = t /\ ts[1].mark = m
    BY <2>2 DEF Plain, Token
  <2>4. Balance(ts, 0) = 0 /\ Balance(ts, 1) = 0
    <3>1. /\ Balance(ts, 0) = 0
          /\ ts[0 + 1] \in TokenRecord =>
               Balance(ts, 0 + 1) = Balance(ts, 0)
                 + (CASE ts[0 + 1].type \in BlockStarts -> 1
                      [] ts[0 + 1].type = "BlockEnd" -> -1
                      [] OTHER -> 0)
      BY BalanceFacts
    <3>2. 0 + 1 = 1
      OBVIOUS
    <3> QED BY <2>1, <2>2, <2>3, <3>1, <3>2
  <2>5. MatchIndents(ts)
    BY <1>1, <2>2, <2>4 DEF MatchIndents
  <2> QED BY <2>2, <2>3, <2>5 DEF WellFollowed
<1> QED BY <1>2, <1>3

\* A lexeme that unrolls the indentations.
LEMMA ClosingTokens ==
  ASSUME ScannerInv, started, NEW column \in Int, column >= -1, indents' = Unrolled(column),
         NEW m \in Position, NEW rest, rest = <<>> \/ \E t \in Plain : rest = <<Token(t, m)>>
  PROVE  LET ts == Ends(column, m) \o rest
         IN /\ ts \in Seq(TokenRecord) /\ \A i \in DOMAIN ts : ts[i].mark = m
            /\ WellFollowed(ts) /\ MatchIndents(ts)
            /\ indents' \in Seq(Int) /\ indents' # <<>>
            /\ indents'[1] = -1 /\ Rising'
            /\ Indent' \in Int /\ Indent' <= Indent
            /\ flowLevel = 0 => Indent' <= column
            /\ Ends(column, m) # <<>> => flowLevel = 0 /\ Indent > column
<1> DEFINE es == Ends(column, m)
           ts == es \o rest
           k == KeptBy(column)
<1>0. ScannerTypes /\ Rising /\ indents[1] = -1
  BY DEF ScannerInv, KeysInv, Indented
<1>1. /\ Len(indents) \in Nat \ {0} /\ DOMAIN indents = 1..Len(indents) /\ k \in 1..Len(indents)
      /\ \A i \in DOMAIN indents : indents[i] \in Int
      /\ Indent = indents[Len(indents)]
  BY <1>0, IndentFacts, UnrollFacts
<1>2. /\ es \in Seq(TokenRecord) /\ Len(es) = Len(indents) - k
      /\ \A i \in 1..Len(es) : es[i] = Token("BlockEnd", m)
  BY <1>0, EndsFacts
<1>3. /\ indents' \in Seq(Int) /\ indents' # <<>> /\ Len(indents') = k
      /\ \A i \in 1..k : indents'[i] = indents[i]
      /\ Indent' = indents[k]
  BY <1>0, UnrolledFacts DEF Indent
<1>4. /\ indents'[1] = -1 /\ Rising' /\ Indent' \in Int /\ Indent' <= Indent
      /\ flowLevel = 0 => Indent' <= column
      /\ es # <<>> => flowLevel = 0 /\ Indent > column
  <2>1. DOMAIN indents' = 1..k
    BY <1>3
  <2> HIDE DEF k
  <2>2. indents'[1] = -1 /\ Rising'
    BY <1>0, <1>1, <1>3, <2>1 DEF Rising
  <2>3. Indent' \in Int /\ Indent' <= Indent
    BY <1>0, <1>1, <1>3 DEF Rising
  <2>4. flowLevel = 0 => Indent' <= column
    BY <1>0, <1>3, UnrollFacts DEF k
  <2>5. es # <<>> => k # Len(indents)
    <3> SUFFICES ASSUME k = Len(indents) PROVE es = <<>>
      OBVIOUS
    <3> HIDE DEF es
    <3>1. Len(es) = 0
      BY <1>1, <1>2
    <3> QED BY <1>2, <3>1, EmptySeq
  <2>6. k # Len(indents) => flowLevel = 0 /\ Indent > column
    <3>1. /\ flowLevel # 0 => k = Len(indents)
          /\ flowLevel = 0 /\ Indent <= column => k = Len(indents)
      BY <1>0, UnrollFacts DEF k
    <3>2. Indent \in Int
      BY <1>1
    <3> QED BY <3>1, <3>2
  <2> QED BY <2>2, <2>3, <2>4, <2>5, <2>6
<1>5. /\ rest \in Seq(TokenRecord) /\ Len(rest) \in {0, 1}
      /\ \A i \in DOMAIN rest : /\ rest[i].mark = m /\ rest[i].type \notin BlockStarts
                                /\ rest[i].type # "StreamStart" /\ rest[i].type # "BlockEnd"
  <2>1. CASE rest = <<>>
    BY <2>1
  <2>2. ASSUME NEW t \in Plain, rest = <<Token(t, m)>>
        PROVE  /\ rest \in Seq(TokenRecord) /\ Len(rest) = 1
               /\ DOMAIN rest = {1} /\ rest[1].type = t /\ rest[1].mark = m
    <3>1. Token(t, m) \in TokenRecord
      BY DEF Token, TokenRecord, Plain
    <3> QED BY <2>2, <3>1 DEF Token
  <2> QED BY <2>1, <2>2 DEF Plain
<1>6. /\ ts \in Seq(TokenRecord) /\ Len(ts) = Len(es) + Len(rest)
      /\ DOMAIN ts = 1..(Len(es) + Len(rest)) /\ Len(es) \in Nat
      /\ \A i \in 1..Len(es) : ts[i] = es[i]
      /\ \A i \in DOMAIN ts : i > Len(es) => i - Len(es) \in DOMAIN rest /\ ts[i] = rest[i - Len(es)]
  <2>1. es \in Seq(TokenRecord) /\ rest \in Seq(TokenRecord)
    BY <1>2, <1>5
  <2> HIDE DEF es
  <2>2. /\ ts \in Seq(TokenRecord) /\ Len(ts) = Len(es) + Len(rest)
        /\ Len(es) \in Nat /\ Len(rest) \in Nat
        /\ \A i \in 1..Len(es) : ts[i] = es[i]
        /\ \A i \in 1..(Len(es) + Len(rest)) : i > Len(es) =>
             i - Len(es) \in 1..Len(rest) /\ ts[i] = rest[i - Len(es)]
    BY <2>1, JoinFacts
  <2> HIDE DEF ts
  <2>3. DOMAIN ts = 1..Len(ts) /\ DOMAIN rest = 1..Len(rest)
    BY <2>1, <2>2
  <2> QED BY <2>2, <2>3
<1> HIDE DEF es, k
<1>7. \A i \in 1..Len(es) : ts[i].type = "BlockEnd" /\ ts[i].mark = m
  BY <1>2, <1>6 DEF Token
<1>8. \A i \in DOMAIN ts : ts[i].mark = m /\ ts[i].type \notin BlockStarts /\ ts[i].type # "StreamStart"
  <2>1. ASSUME NEW i \in DOMAIN ts, i <= Len(es)
        PROVE  ts[i].mark = m /\ ts[i].type \notin BlockStarts /\ ts[i].type # "StreamStart"
    BY <1>6, <1>7, <2>1 DEF BlockStarts
  <2>2. ASSUME NEW i \in DOMAIN ts, i > Len(es)
        PROVE  ts[i].mark = m /\ ts[i].type \notin BlockStarts /\ ts[i].type # "StreamStart"
    BY <1>5, <1>6, <2>2
  <2>3. \A i \in DOMAIN ts : i <= Len(es) \/ i > Len(es)
    BY <1>6
  <2> QED BY <2>1, <2>2, <2>3
<1>9. WellFollowed(ts)
  BY <1>8 DEF WellFollowed, GoesOn, BlockStarts
<1>10. MatchIndents(ts)
  <2>1. \A n \in 0..Len(es) : Balance(ts, n) = -n
    <3>1. Len(es) \in 0..Len(ts)
      BY <1>5, <1>6
    <3> HIDE DEF ts
    <3> QED BY <1>6, <1>7, <3>1, EndsBalance
  <2>2. Len(rest) = 1 => Balance(ts, Len(es) + 1) = Balance(ts, Len(es))
    <3> SUFFICES ASSUME Len(rest) = 1
                 PROVE  Balance(ts, Len(es) + 1) = Balance(ts, Len(es))
      OBVIOUS
    <3>1. Len(es) + 1 \in DOMAIN ts /\ Len(es) + 1 > Len(es)
      BY <1>6
    <3>2. ts[Len(es) + 1].type \notin BlockStarts /\ ts[Len(es) + 1].type # "BlockEnd"
      BY <1>5, <1>6, <3>1
    <3>3. ts[Len(es) + 1] \in TokenRecord
      BY <1>6, <3>1
    <3>4. Balance(ts, Len(es) + 1) = Balance(ts, Len(es)) + 0 /\ Balance(ts, Len(es)) \in Int
      <4> HIDE DEF ts
      <4> QED BY <1>6, <3>2, <3>3, BalanceFacts
    <3> QED BY <3>4
  <2> DEFINE B(n) == Balance(ts, n)
             l == Len(es)
             i0 == Len(indents)
  <2>3. /\ \A n \in 0..l : B(n) = -n
        /\ Len(rest) = 1 => B(l + 1) = B(l)
        /\ Len(ts) = l + Len(rest) /\ Len(rest) \in {0, 1} /\ l \in Nat /\ l = i0 - k
        /\ i0 \in Nat \ {0} /\ k \in 1..i0 /\ Len(indents') = k
    BY <1>1, <1>2, <1>3, <1>5, <1>6, <2>1, <2>2
  <2> HIDE DEF B, l, i0, ts
  <2>4. l \in 0..l /\ B(l) = -l
    BY <2>3
  <2>5. B(Len(ts)) = -l
    <3>1. CASE Len(rest) = 0
      <4>1. Len(ts) = l
        BY <2>3, <3>1
      <4> QED BY <2>4, <4>1
    <3>2. CASE Len(rest) = 1
      <4>1. Len(ts) = l + 1
        BY <2>3, <3>2
      <4> QED BY <2>3, <2>4, <3>2, <4>1
    <3> QED BY <2>3, <3>1, <3>2
  <2>6. ASSUME NEW n \in 0..Len(ts) PROVE i0 - 1 + B(n) >= 0
    <3>1. n \in 0..l \/ n = Len(ts)
      <4>1. Len(ts) = l + Len(rest) /\ l \in Nat
        BY <2>3
      <4>2. Len(rest) = 0 \/ Len(rest) = 1
        BY <2>3
      <4>3. CASE Len(rest) = 0
        BY <4>1, <4>3
      <4>4. CASE Len(rest) = 1
        BY <4>1, <4>4
      <4> QED BY <4>2, <4>3, <4>4
    <3> QED BY <2>3, <2>5, <3>1
  <2>7. Len(indents') = i0 + B(Len(ts))
    BY <2>3, <2>5
  <2> QED BY <2>6, <2>7 DEF B, i0, MatchIndents
<1> QED BY <1>3, <1>4, <1>6, <1>8, <1>9, <1>10 DEF es

\* A lexeme that may open a collection before its token.
LEMMA OpeningTokens ==
  ASSUME ScannerInv, started, NEW column \in Int, indents' = Rolled(column),
         NEW m \in Position, NEW type \in BlockStarts, NEW next \in Plain, GoesOn(type, next)
  PROVE  LET ts == Append(Opener(type, column, m), Token(next, m))
         IN /\ ts \in Seq(TokenRecord) /\ \A i \in DOMAIN ts : ts[i].mark = m
            /\ WellFollowed(ts) /\ MatchIndents(ts)
            /\ Len(ts) \in {1, 2} /\ ts[Len(ts)] = Token(next, m)
            /\ \A n \in 0..Len(ts) : Balance(ts, n) >= 0
            /\ indents' \in Seq(Int) /\ indents' # <<>>
            /\ indents'[1] = -1 /\ Rising'
            /\ Indent' \in Int
            /\ flowLevel # 0 => indents' = indents
<1> DEFINE ts == Append(Opener(type, column, m), Token(next, m))
<1>0. ScannerTypes /\ Rising /\ indents[1] = -1
  BY DEF ScannerInv, KeysInv, Indented
<1>1. Len(indents) \in Nat \ {0} /\ DOMAIN indents = 1..Len(indents)
  BY <1>0, IndentFacts
<1>2. /\ indents' \in Seq(Int) /\ indents' # <<>> /\ Rising'
      /\ Len(indents') = Len(indents) + (IF Rolls(column) THEN 1 ELSE 0)
      /\ \A i \in 1..Len(indents) : indents'[i] = indents[i]
      /\ flowLevel # 0 => indents' = indents
  BY <1>0, RolledFacts DEF Rising
<1>3. indents'[1] = -1
  <2>1. 1 \in 1..Len(indents)
    BY <1>1
  <2> QED BY <1>0, <1>2, <2>1
<1>4. Indent' \in Int
  <2>1. Len(indents') \in Nat \ {0}
    BY <1>2, EmptySeq, LenProperties
  <2> QED BY <1>2, <2>1, ElementOfSeq DEF Indent, Last
<1>5. /\ Token(next, m) \in TokenRecord /\ Token(type, m) \in TokenRecord
      /\ Token(next, m).mark = m /\ Token(type, m).mark = m
      /\ Token(next, m).type = next /\ Token(type, m).type = type
      /\ type # "StreamStart" /\ next # "StreamStart" /\ next \notin BlockStarts
      /\ next # "BlockEnd" /\ type # "BlockEnd"
  BY DEF Token, TokenRecord, Plain, BlockStarts, TokenType
<1>6. CASE ~Rolls(column)
  <2>1. ts = <<Token(next, m)>>
    BY <1>6 DEF Opener
  <2>2. /\ ts \in Seq(TokenRecord) /\ Len(ts) = 1 /\ DOMAIN ts = {1} /\ ts[1] = Token(next, m)
    BY <1>5, <2>1
  <2> HIDE DEF ts
  <2>3. Balance(ts, 0) = 0 /\ Balance(ts, 1) = 0
    <3>1. /\ Balance(ts, 0) = 0
          /\ ts[0 + 1] \in TokenRecord =>
               Balance(ts, 0 + 1) = Balance(ts, 0)
                 + (CASE ts[0 + 1].type \in BlockStarts -> 1
                      [] ts[0 + 1].type = "BlockEnd" -> -1
                      [] OTHER -> 0)
      BY BalanceFacts
    <3>2. 0 + 1 = 1
      OBVIOUS
    <3> QED BY <1>5, <2>2, <3>1, <3>2
  <2>4. MatchIndents(ts)
    BY <1>1, <1>2, <1>6, <2>2, <2>3 DEF MatchIndents
  <2>5. WellFollowed(ts)
    BY <1>5, <2>2 DEF WellFollowed
  <2>6. \A n \in 0..Len(ts) : Balance(ts, n) >= 0
    BY <2>2, <2>3
  <2> QED BY <1>2, <1>3, <1>4, <1>5, <2>2, <2>4, <2>5, <2>6 DEF ts
<1>7. CASE Rolls(column)
  <2>1. ts = Append(<<Token(type, m)>>, Token(next, m))
    BY <1>7 DEF Opener
  <2>2. /\ ts \in Seq(TokenRecord) /\ Len(ts) = 2 /\ DOMAIN ts = {1, 2}
        /\ ts[1] = Token(type, m) /\ ts[2] = Token(next, m)
    <3> DEFINE s == <<Token(type, m)>>
               x == Token(next, m)
    <3>1. s \in Seq(TokenRecord) /\ Len(s) = 1 /\ s[1] = Token(type, m) /\ x \in TokenRecord
      BY <1>5
    <3> HIDE DEF s, x
    <3>2. /\ Append(s, x) \in Seq(TokenRecord) /\ Len(Append(s, x)) = Len(s) + 1
          /\ \A i \in 1..Len(s) : Append(s, x)[i] = s[i]
          /\ Append(s, x)[Len(s) + 1] = x
      <4>1. s \in Seq(TokenRecord) /\ x \in TokenRecord
        BY <3>1
      <4> QED BY <4>1, AppendFacts
    <3>3. Len(s) + 1 = 2 /\ 1 \in 1..Len(s)
      BY <3>1
    <3>4. DOMAIN Append(s, x) = {1, 2}
      BY <3>2, <3>3
    <3> QED BY <2>1, <3>1, <3>2, <3>3, <3>4 DEF s, x
  <2> HIDE DEF ts
  <2>3. Balance(ts, 0) = 0 /\ Balance(ts, 1) = 1
    <3>1. /\ Balance(ts, 0) = 0
          /\ ts[0 + 1] \in TokenRecord =>
               Balance(ts, 0 + 1) = Balance(ts, 0)
                 + (CASE ts[0 + 1].type \in BlockStarts -> 1
                      [] ts[0 + 1].type = "BlockEnd" -> -1
                      [] OTHER -> 0)
      BY BalanceFacts
    <3>2. 0 + 1 = 1
      OBVIOUS
    <3> QED BY <1>5, <2>2, <3>1, <3>2
  <2>4. Balance(ts, 2) = 1
    <3>1. ts[1 + 1] \in TokenRecord =>
            Balance(ts, 1 + 1) = Balance(ts, 1)
              + (CASE ts[1 + 1].type \in BlockStarts -> 1
                   [] ts[1 + 1].type = "BlockEnd" -> -1
                   [] OTHER -> 0)
      BY BalanceFacts
    <3>2. 1 + 1 = 2
      OBVIOUS
    <3> QED BY <1>5, <2>2, <2>3, <3>1, <3>2
  <2>5. \A n \in 0..Len(ts) : Balance(ts, n) \in {0, 1}
    BY <2>2, <2>3, <2>4
  <2>6. MatchIndents(ts)
    BY <1>1, <1>2, <1>7, <2>2, <2>4, <2>5 DEF MatchIndents
  <2>7. WellFollowed(ts)
    BY <1>5, <2>2 DEF WellFollowed, GoesOn, BlockStarts
  <2>8. \A n \in 0..Len(ts) : Balance(ts, n) >= 0
    BY <2>5
  <2> QED BY <1>2, <1>3, <1>4, <1>5, <2>2, <2>6, <2>7, <2>8 DEF ts
<1> QED BY <1>6, <1>7

-----------------------------------------------------------------------------
\* The possible keys of the new state are keys of the old.
KeysKept ==
  /\ simpleKeys' \in Seq(KeyRecord) /\ Len(simpleKeys') = Len(simpleKeys)
  /\ \A i \in DOMAIN simpleKeys :
       /\ simpleKeys'[i].required = simpleKeys[i].required
       /\ simpleKeys'[i].possible => simpleKeys'[i] = simpleKeys[i]

\* A key of the line was of the line before: lines are not left for earlier ones.
LEMMA HereBefore ==
  ASSUME ScannerInv, mark' \in Position, NotAfter(mark, mark'),
         NEW i \in DOMAIN simpleKeys, simpleKeys[i].possible, simpleKeys[i].mark.line = mark'.line
  PROVE  Here(simpleKeys[i]) /\ mark'.line = mark.line /\ simpleKeys[i].mark.column < mark.column
<1>1. simpleKeys[i] \in KeyRecord /\ mark \in Position
  BY DEF ScannerInv, ScannerTypes
<1> QED BY <1>1 DEF ScannerInv, KeysInv, KeysPlaced, Here, NotAfter, Stream!NotAfter, KeyRecord, Position

\* What a step that keeps them, and appends, preserves of the keys.
LEMMA KeptKeys ==
  ASSUME ScannerInv, started, KeysKept, UNCHANGED <<tokensParsed, started, flowLevel>>,
         Len(tokens') \in Nat, Len(tokens') >= Len(tokens),
         mark' \in Position, NotAfter(mark, mark'),
         indents'[1] = -1, Rising', Indent' \in Int,
         simpleKeys'[1].possible => Indent' <= Indent,
         at' = "fetching" =>
           /\ \A i \in DOMAIN simpleKeys' : simpleKeys'[i].possible => simpleKeys'[i].mark.line = mark'.line
           /\ flowLevel = 0 => Indent' <= mark'.column,
         simpleKeyAllowed' /\ simpleKeys'[flowLevel + 1].possible
           => simpleKeys'[flowLevel + 1].mark.line # mark'.line
  PROVE  KeysInv'
<1>1. /\ DOMAIN simpleKeys' = DOMAIN simpleKeys
      /\ \A i \in DOMAIN simpleKeys : /\ simpleKeys[i] \in KeyRecord /\ simpleKeys'[i] \in KeyRecord
                                      /\ simpleKeys[i].mark \in Position
                                      /\ simpleKeys[i].tokenNumber \in Nat
      /\ DOMAIN simpleKeys = 1..(flowLevel + 1) /\ flowLevel \in Nat
      /\ mark \in Position /\ tokensParsed \in Nat /\ Len(tokens) \in Nat
  <2>1. simpleKeys \in Seq(KeyRecord) /\ DOMAIN simpleKeys = 1..(flowLevel + 1)
    BY TopKeyFacts DEF ScannerInv, ScannerTypes
  <2>2. \A i \in DOMAIN simpleKeys : simpleKeys[i] \in KeyRecord /\ simpleKeys'[i] \in KeyRecord
    <3>1. simpleKeys' \in Seq(KeyRecord) /\ Len(simpleKeys') = flowLevel + 1
      BY DEF KeysKept, ScannerInv, Stages
    <3>2. \A i \in 1..(flowLevel + 1) : simpleKeys'[i] \in KeyRecord
      BY <3>1, ElementOfSeq
    <3>3. \A i \in 1..(flowLevel + 1) : simpleKeys[i] \in KeyRecord
      <4>1. Len(simpleKeys) = flowLevel + 1
        BY DEF ScannerInv, Stages
      <4> QED BY <2>1, <4>1, ElementOfSeq
    <3> QED BY <2>1, <3>2, <3>3
  <2>3. DOMAIN simpleKeys' = DOMAIN simpleKeys
    BY <2>1 DEF KeysKept
  <2> QED BY <2>1, <2>2, <2>3 DEF KeyRecord, ScannerInv, ScannerTypes
<1>2. /\ NextNumber \in Nat /\ NextNumber' \in Nat /\ NextNumber <= NextNumber'
  BY <1>1 DEF NextNumber
<1>3. KeysPlaced'
  <2> SUFFICES ASSUME NEW i \in DOMAIN simpleKeys
               PROVE  /\ simpleKeys'[i].required => i = 1
                      /\ simpleKeys'[i].possible =>
                           /\ simpleKeys'[i].tokenNumber > 0
                           /\ simpleKeys'[i].tokenNumber >= tokensParsed'
                           /\ simpleKeys'[i].tokenNumber <= NextNumber'
                           /\ i < Len(simpleKeys') => simpleKeys'[i].tokenNumber < NextNumber'
                           /\ \/ simpleKeys'[i].mark.line < mark'.line
                              \/ /\ simpleKeys'[i].mark.line = mark'.line
                                 /\ simpleKeys'[i].mark.column < mark'.column
    BY <1>1 DEF KeysPlaced
  <2>1. simpleKeys'[i].required => i = 1
    BY DEF KeysKept, ScannerInv, KeysInv, KeysPlaced
  <2> SUFFICES ASSUME simpleKeys'[i].possible
               PROVE  /\ simpleKeys'[i].tokenNumber > 0
                      /\ simpleKeys'[i].tokenNumber >= tokensParsed'
                      /\ simpleKeys'[i].tokenNumber <= NextNumber'
                      /\ i < Len(simpleKeys') => simpleKeys'[i].tokenNumber < NextNumber'
                      /\ \/ simpleKeys'[i].mark.line < mark'.line
                         \/ /\ simpleKeys'[i].mark.line = mark'.line
                            /\ simpleKeys'[i].mark.column < mark'.column
    BY <2>1
  <2>2. simpleKeys'[i] = simpleKeys[i] /\ simpleKeys[i].possible
    BY DEF KeysKept
  <2>3. /\ simpleKeys[i].tokenNumber > 0
        /\ simpleKeys[i].tokenNumber >= tokensParsed /\ simpleKeys[i].tokenNumber <= NextNumber
        /\ i < Len(simpleKeys) => simpleKeys[i].tokenNumber < NextNumber
        /\ \/ simpleKeys[i].mark.line < mark.line
           \/ simpleKeys[i].mark.line = mark.line /\ simpleKeys[i].mark.column < mark.column
    BY <2>2 DEF ScannerInv, KeysInv, KeysPlaced
  <2>4. \/ simpleKeys[i].mark.line < mark'.line
        \/ simpleKeys[i].mark.line = mark'.line /\ simpleKeys[i].mark.column < mark'.column
    BY <1>1, <2>3 DEF NotAfter, Stream!NotAfter, Position
  <2>5. Len(simpleKeys') = Len(simpleKeys)
    BY DEF KeysKept
  <2> QED BY <1>1, <1>2, <2>2, <2>3, <2>4, <2>5
<1>4. KeysOrdered'
  <2> SUFFICES ASSUME NEW i \in DOMAIN simpleKeys, NEW j \in DOMAIN simpleKeys,
                      i < j, simpleKeys'[i].possible, simpleKeys'[j].possible
               PROVE  simpleKeys'[i].tokenNumber < simpleKeys'[j].tokenNumber
    BY <1>1 DEF KeysOrdered
  <2>1. simpleKeys'[i] = simpleKeys[i] /\ simpleKeys'[j] = simpleKeys[j]
    BY DEF KeysKept
  <2> QED BY <2>1 DEF ScannerInv, KeysInv, KeysOrdered
<1>5. KeysFresh'
  <2>1. TopKey' = simpleKeys'[flowLevel + 1]
    <3>1. Len(simpleKeys') = flowLevel + 1
      BY DEF KeysKept, ScannerInv, Stages
    <3> QED BY <3>1 DEF TopKey, Last
  <2> QED BY <2>1 DEF KeysFresh, Here
<1>6. Indented'
  <2>1. started' /\ flowLevel' = flowLevel
    OBVIOUS
  <2>2. at' = "fetching" /\ flowLevel' = 0 => Indent' <= mark'.column
    OBVIOUS
  <2>3. ASSUME simpleKeys'[1].possible, simpleKeys'[1].mark.line = mark'.line
        PROVE  Indent' <= simpleKeys'[1].mark.column
    <3>1. 1 \in DOMAIN simpleKeys
      BY <1>1
    <3>2. simpleKeys'[1] = simpleKeys[1] /\ simpleKeys[1].possible
      BY <2>3, <3>1 DEF KeysKept
    <3>3. Here(simpleKeys[1])
      BY <2>3, <3>1, <3>2, HereBefore
    <3>4. Indent <= simpleKeys[1].mark.column /\ Indent' <= Indent
      BY <2>3, <3>3 DEF ScannerInv, KeysInv, Indented
    <3>5. Indent \in Int /\ simpleKeys[1].mark.column \in Int
      BY <1>1, <3>1, IndentFacts DEF ScannerInv, Position
    <3> QED BY <3>2, <3>4, <3>5
  <2> QED BY <2>1, <2>2, <2>3 DEF Indented, Here
<1> QED BY <1>3, <1>4, <1>5, <1>6 DEF KeysInv

-----------------------------------------------------------------------------
\* The steps that append keep the invariant if they keep its parts about keys.
LEMMA AppendStep ==
  ASSUME ScannerInv, started, NEW ts, NEW m, Appends(ts, m), WellFollowed(ts), MatchIndents(ts),
         KeysChange(ts), KeysInv', Len(simpleKeys') = flowLevel' + 1,
         over' \in BOOLEAN, flowLevel' \in Nat, indents' \in Seq(Int), indents' # <<>>,
         simpleKeyAllowed' \in BOOLEAN, tokenAvailable' \in BOOLEAN,
         at' \in {"idle", "testing", "skipping", "fetching", "failed"},
         tokenAvailable' => at' = "idle" /\ tokens' # <<>> /\ ~HeldBack(simpleKeys)',
         ended => ~tokenAvailable' /\ at' = "idle"
  PROVE  ScannerInv'
<1>1. StreamInv'
  BY AppendsKeeps
<1>2. Stages'
  BY DEF Stages, Appends
<1>3. ScannerTypes'
  <2>1. tokens' \in Seq(TokenRecord)
    <3>1. tokens \in Seq(TokenRecord) /\ ts \in Seq(TokenRecord)
      BY DEF ScannerInv, ScannerTypes, Appends
    <3> QED BY <3>1, JoinFacts DEF Appends
  <2> QED BY <2>1 DEF ScannerInv, ScannerTypes, Appends, KeysChange
<1> QED BY <1>1, <1>2, <1>3 DEF ScannerInv

\* Keys stay as they are, or some of them become impossible.
LEMMA KeptFacts ==
  ASSUME ScannerInv, started
  PROVE  /\ simpleKeys' = simpleKeys => KeysKept
         /\ simpleKeys' = Removed => KeysKept /\ ~simpleKeys'[flowLevel + 1].possible
         /\ \A m : simpleKeys' = Fresh(m) => KeysKept
<1>1. simpleKeys \in Seq(KeyRecord)
  BY DEF ScannerInv, ScannerTypes
<1>2. ScannerTypes /\ Stages
  BY DEF ScannerInv
<1>3. ASSUME simpleKeys' = Removed PROVE KeysKept /\ ~simpleKeys'[flowLevel + 1].possible
  BY <1>2, <1>3, RemovedFacts DEF KeysKept
<1>4. ASSUME NEW m, simpleKeys' = Fresh(m) PROVE KeysKept
  BY <1>1, <1>4, FreshFacts DEF KeysKept
<1> QED BY <1>1, <1>3, <1>4 DEF KeysKept

\* A step that keeps the keys and appends.
LEMMA KeptStep ==
  ASSUME ScannerInv, started, NEW ts, NEW m, Appends(ts, m), WellFollowed(ts), MatchIndents(ts),
         KeysKept, UNCHANGED flowLevel,
         over' \in BOOLEAN, indents' \in Seq(Int), indents' # <<>>,
         simpleKeyAllowed' \in BOOLEAN, tokenAvailable' \in BOOLEAN,
         at' \in {"idle", "testing", "skipping", "fetching", "failed"},
         tokenAvailable' => at' = "idle" /\ tokens' # <<>> /\ ~HeldBack(simpleKeys)',
         ended => ~tokenAvailable' /\ at' = "idle",
         indents'[1] = -1, Rising', Indent' \in Int,
         simpleKeys'[1].possible => Indent' <= Indent,
         at' = "fetching" =>
           /\ \A i \in DOMAIN simpleKeys' : simpleKeys'[i].possible => simpleKeys'[i].mark.line = mark'.line
           /\ flowLevel = 0 => Indent' <= mark'.column,
         simpleKeys'[flowLevel + 1].possible /\ simpleKeys'[flowLevel + 1].mark.line = mark'.line
           => ~simpleKeyAllowed' /\ (ts = <<>> \/ ts[1].type \in KeyStarts)
  PROVE  ScannerInv'
<1>1. /\ tokens \in Seq(TokenRecord) /\ ts \in Seq(TokenRecord) /\ Len(tokens) \in Nat
      /\ mark \in Position /\ m \in Position /\ mark' \in Position
  BY DEF ScannerInv, ScannerTypes, Appends
<1>2. Len(tokens') \in Nat /\ Len(tokens') >= Len(tokens)
  BY <1>1, JoinFacts DEF Appends
<1>3. NotAfter(mark, mark')
  BY <1>1, PositionFacts DEF Appends
<1>4. DOMAIN simpleKeys = 1..(flowLevel + 1) /\ flowLevel \in Nat /\ Len(simpleKeys) = flowLevel + 1
  BY TopKeyFacts DEF ScannerInv, ScannerTypes, Stages
<1>5. KeysInv'
  <2>1. UNCHANGED <<tokensParsed, started, flowLevel>>
    BY DEF Appends
  <2> QED BY <1>1, <1>2, <1>3, <2>1, KeptKeys
<1>6. KeysChange(ts)
  <2>1. DOMAIN simpleKeys' = DOMAIN simpleKeys
    BY <1>4 DEF KeysKept
  <2>2. ASSUME NEW i \in DOMAIN simpleKeys, simpleKeys'[i].possible
        PROVE  /\ simpleKeys'[i] = simpleKeys[i]
               /\ /\ simpleKeys'[i].mark.line = mark'.line
                  /\ simpleKeys'[i].tokenNumber = NextNumber
                  /\ ts # <<>>
                  => ts[1].type \in KeyStarts
    <3>1. simpleKeys'[i] = simpleKeys[i]
      BY <2>2 DEF KeysKept
    <3>2. i < Len(simpleKeys) => simpleKeys[i].tokenNumber < NextNumber
      BY <2>2, <3>1 DEF ScannerInv, KeysInv, KeysPlaced
    <3>3. i < Len(simpleKeys) \/ i = flowLevel + 1
      BY <1>4
    <3>4. NextNumber \in Nat
      BY <1>1 DEF NextNumber, ScannerInv, ScannerTypes
    <3>5. i < Len(simpleKeys) => simpleKeys[i].tokenNumber # NextNumber
      BY <3>2, <3>4
    <3> QED BY <2>2, <3>1, <3>3, <3>5
  <2> QED BY <2>1, <2>2 DEF KeysChange, KeysKept
<1>7. Len(simpleKeys') = flowLevel' + 1 /\ flowLevel' \in Nat
  BY <1>4 DEF KeysKept
<1> QED BY <1>5, <1>6, <1>7, AppendStep

\* The same of a lexeme: the token or error ends its fetch.
LEMMA FetchStep ==
  ASSUME ScannerInv, at = "fetching", at' \in {"testing", "failed"}, over' \in BOOLEAN,
         UNCHANGED <<tokensParsed, tokenAvailable, ended, delivered, blocks, started, flowLevel>>,
         NEW m \in Position, NEW ts \in Seq(TokenRecord), \A i \in DOMAIN ts : ts[i].mark = m,
         WellFollowed(ts), MatchIndents(ts), tokens' = tokens \o ts,
         mark' \in Position, NotAfter(mark, m), NotAfter(m, mark'),
         KeysKept, simpleKeyAllowed' \in BOOLEAN,
         indents' \in Seq(Int), indents' # <<>>, indents'[1] = -1, Rising', Indent' \in Int,
         simpleKeys'[1].possible => Indent' <= Indent,
         simpleKeys'[flowLevel + 1].possible /\ simpleKeys'[flowLevel + 1].mark.line = mark'.line
           => ~simpleKeyAllowed' /\ (ts = <<>> \/ ts[1].type \in KeyStarts)
  PROVE  ScannerInv'
<1>1. started /\ ~tokenAvailable /\ ~ended
  BY FetchingKeys
<1>2. Appends(ts, m)
  BY DEF Appends
<1>3. at' # "fetching" /\ at' \in {"idle", "testing", "skipping", "fetching", "failed"}
  OBVIOUS
<1>4. tokenAvailable' \in BOOLEAN /\ ~tokenAvailable'
  BY <1>1 DEF ScannerInv, ScannerTypes
<1>5. /\ tokenAvailable' => at' = "idle" /\ tokens' # <<>> /\ ~HeldBack(simpleKeys)'
      /\ ended => ~tokenAvailable' /\ at' = "idle"
      /\ at' = "fetching" =>
           /\ \A i \in DOMAIN simpleKeys' : simpleKeys'[i].possible => simpleKeys'[i].mark.line = mark'.line
           /\ flowLevel = 0 => Indent' <= mark'.column
  BY <1>1, <1>3, <1>4
<1> QED BY <1>1, <1>2, <1>3, <1>4, <1>5, KeptStep

\* Where a lexeme leaves the indentations alone.
LEMMA SameIndents ==
  ASSUME ScannerInv, started, UNCHANGED indents
  PROVE  /\ indents' \in Seq(Int) /\ indents' # <<>> /\ indents'[1] = -1 /\ Rising'
         /\ Indent' \in Int /\ Indent' <= Indent /\ Indent' = Indent
<1>1. Indent' = Indent /\ Rising'
  BY DEF Indent, ScannerInv, KeysInv, Indented, Rising
<1>2. Indent \in Int
  BY IndentFacts DEF ScannerInv
<1> QED BY <1>1, <1>2 DEF ScannerInv, ScannerTypes, KeysInv, Indented

\* A lexeme that has an error, or fails where a key may not begin.
LEMMA FailedStep ==
  ASSUME ScannerInv, at = "fetching", at' = "failed",
         UNCHANGED <<over, tokensParsed, tokenAvailable, ended, delivered, blocks, started>>,
         UNCHANGED <<mark, tokens, keyVars, indents>>
  PROVE  ScannerInv'
<1>1. started /\ mark \in Position /\ over \in BOOLEAN /\ simpleKeyAllowed \in BOOLEAN
      /\ tokens \in Seq(TokenRecord)
  BY FetchingKeys DEF ScannerInv, ScannerTypes
<1>2. KeysKept /\ simpleKeys' = simpleKeys /\ UNCHANGED <<simpleKeyAllowed, flowLevel>>
  BY <1>1, KeptFacts DEF keyVars
<1>3. /\ <<>> \in Seq(TokenRecord) /\ \A i \in DOMAIN << >> : <<>>[i].mark = mark
      /\ WellFollowed(<<>>) /\ MatchIndents(<<>>)
  BY <1>1, PlainToken
<1>4. NotAfter(mark, mark) /\ mark' = mark /\ tokens' = tokens \o <<>>
  BY <1>1, PositionFacts
<1>5. simpleKeys'[flowLevel + 1].possible => ~simpleKeyAllowed'
  <2>1. TopKey = simpleKeys[flowLevel + 1]
    BY <1>1, TopKeyFacts DEF ScannerInv
  <2> QED BY <1>2, <2>1, RemovableKey
<1>6. UNCHANGED <<tokensParsed, tokenAvailable, ended, delivered, blocks, started, flowLevel>>
  BY <1>2
<1>7. /\ indents' \in Seq(Int) /\ indents' # <<>> /\ indents'[1] = -1 /\ Rising'
      /\ Indent' \in Int /\ Indent' <= Indent
  BY <1>1, SameIndents
<1> QED BY <1>1, <1>2, <1>3, <1>4, <1>5, <1>6, <1>7, FetchStep

\* One that takes the innermost key away, or has none.
LEMMA PlainStep ==
  ASSUME ScannerInv, at = "fetching", at' \in {"testing", "failed"},
         UNCHANGED <<over, tokensParsed, tokenAvailable, ended, delivered, blocks, started>>,
         UNCHANGED <<flowLevel, indents>>,
         NEW ts, ts = <<>> \/ \E t \in Plain : ts = <<Token(t, mark)>>, tokens' = tokens \o ts,
         mark' \in Position, NotAfter(mark, mark'),
         simpleKeys' = Removed, simpleKeyAllowed' \in BOOLEAN
  PROVE  ScannerInv'
<1>1. started /\ mark \in Position /\ over \in BOOLEAN
  BY FetchingKeys DEF ScannerInv, ScannerTypes
<1>2. KeysKept /\ ~simpleKeys'[flowLevel + 1].possible
  BY <1>1, KeptFacts
<1>3. /\ ts \in Seq(TokenRecord) /\ \A i \in DOMAIN ts : ts[i].mark = mark
      /\ WellFollowed(ts) /\ MatchIndents(ts)
  BY <1>1, PlainToken
<1>4. NotAfter(mark, mark) /\ over' \in BOOLEAN
  BY <1>1, PositionFacts
<1>5. /\ indents' \in Seq(Int) /\ indents' # <<>> /\ indents'[1] = -1 /\ Rising'
      /\ Indent' \in Int /\ Indent' <= Indent
  BY <1>1, SameIndents
<1> QED BY <1>1, <1>2, <1>3, <1>4, <1>5, FetchStep

-----------------------------------------------------------------------------
\* The actions, one by one.
LEMMA MarkFacts ==
  ASSUME mark \in Position
  PROVE  /\ Skip => /\ mark' \in Position /\ NotAfter(mark, mark')
                    /\ mark'.line = mark.line /\ mark'.column = mark.column + 1
         /\ NotAfter(mark, mark)
         /\ mark.column = 0 /\ mark' = [mark EXCEPT !.column = 3] =>
              mark' \in Position /\ NotAfter(mark, mark')
         /\ mark' = (IF mark.column = 0 THEN mark ELSE [line |-> mark.line + 1, column |-> 0]) =>
              /\ mark' \in Position /\ NotAfter(mark, mark') /\ NotAfter(mark', mark')
              /\ mark.column # 0 => mark'.line > mark.line
BY DEF Skip, Position, NotAfter, Stream!NotAfter

LEMMA StreamStartKeeps == ASSUME ScannerInv, fetch_stream_start PROVE ScannerInv'
<1> DEFINE t == Token("StreamStart", mark)
<1>1. /\ tokens = <<>> /\ tokensParsed = 0 /\ ~tokenAvailable /\ ~ended /\ simpleKeys = <<>>
      /\ flowLevel = 0 /\ mark = Origin /\ delivered = NoToken /\ blocks = 0 /\ over \in BOOLEAN
  BY DEF ScannerInv, ScannerTypes, Stages, fetch_stream_start
<1>2. t \in TokenRecord /\ t.type = "StreamStart" /\ t.mark = Origin /\ Origin \in Position
  BY <1>1 DEF Token, TokenRecord, TokenType, Origin, Position
<1>3. NoKey \in KeyRecord /\ ~NoKey.possible /\ ~NoKey.required
  BY DEF NoKey, KeyRecord, Origin, Position
<1>4. /\ tokens' = <<t>> /\ simpleKeys' = <<NoKey>> /\ indents' = <<-1>>
      /\ started' = TRUE /\ simpleKeyAllowed' = TRUE /\ at' = "testing"
      /\ UNCHANGED <<mark, over, tokensParsed, tokenAvailable, ended, delivered, blocks, flowLevel>>
  BY <1>1 DEF fetch_stream_start, inputVars
<1> HIDE DEF t
<1>5. /\ tokens' \in Seq(TokenRecord) /\ Len(tokens') = 1 /\ DOMAIN tokens' = {1} /\ tokens'[1] = t
      /\ simpleKeys' \in Seq(KeyRecord) /\ Len(simpleKeys') = 1 /\ DOMAIN simpleKeys' = {1}
      /\ simpleKeys'[1] = NoKey
      /\ indents' \in Seq(Int) /\ Len(indents') = 1 /\ DOMAIN indents' = {1} /\ indents'[1] = -1
  BY <1>2, <1>3, <1>4
<1>6. NoToken.type = "None" /\ NoToken.mark = Origin
  BY DEF NoToken, Token
<1>7. NotAfter(Origin, Origin)
  BY <1>2, PositionFacts
<1>8. ScannerTypes'
  <2>1. mark' \in Position /\ over' \in BOOLEAN /\ started' \in BOOLEAN /\ ended' \in BOOLEAN
    BY <1>4 DEF ScannerInv, ScannerTypes
  <2>2. flowLevel' \in Nat /\ tokensParsed' \in Nat /\ tokenAvailable' \in BOOLEAN
    BY <1>4 DEF ScannerInv, ScannerTypes
  <2>3. indents' # <<>> /\ simpleKeyAllowed' \in BOOLEAN
    BY <1>4, <1>5, EmptySeq
  <2>4. delivered' \in [type : TokenType \cup {"None"}, mark : Position] /\ blocks' \in Int
    BY <1>4 DEF ScannerInv, ScannerTypes
  <2> QED BY <1>4, <1>5, <2>1, <2>2, <2>3, <2>4 DEF ScannerTypes
<1>9. Stages'
  BY <1>1, <1>4, <1>5 DEF Stages
<1>10. KeysInv'
  <2>1. TopKey' = NoKey
    BY <1>5 DEF TopKey, Last
  <2>2. KeysPlaced' /\ KeysOrdered'
    BY <1>3, <1>5 DEF KeysPlaced, KeysOrdered
  <2>3. KeysFresh'
    BY <1>3, <1>4, <1>5, <2>1 DEF KeysFresh
  <2>4. Indented'
    BY <1>3, <1>4, <1>5 DEF Indented, Rising, Here
  <2> QED BY <2>2, <2>3, <2>4 DEF KeysInv
<1>11. Balanced'
  <2>1. /\ Balance(tokens', 0) = 0
        /\ tokens'[0 + 1] \in TokenRecord =>
             Balance(tokens', 0 + 1) = Balance(tokens', 0)
               + (CASE tokens'[0 + 1].type \in BlockStarts -> 1
                    [] tokens'[0 + 1].type = "BlockEnd" -> -1
                    [] OTHER -> 0)
    BY BalanceFacts
  <2>2. 0 + 1 = 1 /\ "StreamStart" \notin BlockStarts
    BY DEF BlockStarts
  <2>3. Balance(tokens', 0) = 0 /\ Balance(tokens', 1) = 0
    BY <1>2, <1>5, <2>1, <2>2
  <2>4. /\ \A n \in 0..Len(tokens') : blocks' + Balance(tokens', n) >= 0
        /\ blocks' + Balance(tokens', Len(tokens')) = Len(indents') - 1
    BY <1>1, <1>4, <1>5, <2>3
  <2> QED BY <2>4 DEF Balanced, Balance, CountIn
<1>12. InInputOrder' /\ KeysInInputOrder'
  BY <1>1, <1>2, <1>3, <1>4, <1>5, <1>6, <1>7 DEF InInputOrder, KeysInInputOrder
<1>13. Followed' /\ KeysPoint'
  BY <1>1, <1>2, <1>3, <1>4, <1>5, <1>6 DEF Followed, KeysPoint, GoesOn, BlockStarts, Here
<1>14. StreamFramed'
  BY <1>1, <1>2, <1>4, <1>5, <1>6 DEF StreamFramed
<1> QED BY <1>8, <1>9, <1>10, <1>11, <1>12, <1>13, <1>14 DEF ScannerInv, StreamInv


\* The first state, and that after a reset.
LEMMA InitialFacts == ScannerInit => ScannerInv
<1> SUFFICES ASSUME ScannerInit PROVE ScannerInv
  OBVIOUS
<1>1. Origin \in Position /\ NotAfter(Origin, Origin)
  BY PositionFacts
<1>2. NoToken.type = "None" /\ NoToken.mark = Origin
      /\ NoToken \in [type : TokenType \cup {"None"}, mark : Position]
  BY <1>1 DEF NoToken, Token
<1>3. /\ Len(tokens) = 0 /\ DOMAIN tokens = {} /\ Len(indents) = 1 /\ DOMAIN indents = {1}
      /\ DOMAIN simpleKeys = {} /\ indents \in Seq(Int) /\ tokens \in Seq(TokenRecord)
      /\ simpleKeys \in Seq(KeyRecord)
  BY DEF ScannerInit
<1>4. ScannerTypes /\ Stages
  <2>1. indents # <<>>
    BY <1>3, EmptySeq
  <2>2. ScannerTypes
    <3>1. mark \in Position /\ over \in BOOLEAN /\ started \in BOOLEAN /\ ended \in BOOLEAN
      BY <1>1 DEF ScannerInit
    <3>2. flowLevel \in Nat /\ tokens \in Seq(TokenRecord) /\ tokensParsed \in Nat
      BY <1>3 DEF ScannerInit
    <3>3. tokenAvailable \in BOOLEAN /\ indents \in Seq(Int)
      BY <1>3 DEF ScannerInit
    <3>4. simpleKeyAllowed \in BOOLEAN /\ simpleKeys \in Seq(KeyRecord)
      BY <1>3 DEF ScannerInit
    <3>5. at \in {"idle", "testing", "skipping", "fetching", "failed"} /\ blocks \in Int
      BY DEF ScannerInit
    <3>6. delivered \in [type : TokenType \cup {"None"}, mark : Position]
      BY <1>2 DEF ScannerInit
    <3> QED BY <2>1, <3>1, <3>2, <3>3, <3>4, <3>5, <3>6 DEF ScannerTypes
  <2>3. Stages
    BY DEF ScannerInit, Stages
  <2> QED BY <2>2, <2>3
<1>5. KeysInv
  BY <1>3 DEF ScannerInit, KeysInv, KeysPlaced, KeysOrdered, KeysFresh, Indented, Rising
<1>6. Balanced
  <2>1. Balance(tokens, 0) = 0
    BY BalanceFacts
  <2> QED BY <1>3, <2>1 DEF ScannerInit, Balanced
<1>7. InInputOrder /\ KeysInInputOrder /\ Followed /\ KeysPoint /\ StreamFramed
  BY <1>1, <1>2, <1>3 DEF ScannerInit, InInputOrder, KeysInInputOrder, Followed, KeysPoint,
                          StreamFramed, BlockStarts
<1> QED BY <1>4, <1>5, <1>6, <1>7 DEF ScannerInv, StreamInv

LEMMA ResetKeeps == ASSUME ScannerReset PROVE ScannerInv'
<1>1. ScannerInit'
  BY DEF ScannerReset, ScannerInit
<1>2. ScannerInit' => ScannerInv'
  BY InitialFacts, PTL
<1> QED BY <1>1, <1>2

\* In the loop of fetch_more_tokens only the control state changes.
LEMMA LoopKeeps ==
  ASSUME ScannerInv, at' \in {"testing", "skipping"}, ~tokenAvailable, ~ended,
         UNCHANGED <<inputVars, queueVars, keyVars, indents, started>>
  PROVE  ScannerInv'
<1>1. UNCHANGED <<mark, over, tokens, tokensParsed, tokenAvailable, ended, delivered, blocks,
                  simpleKeyAllowed, simpleKeys, flowLevel, indents, started>>
  BY DEF inputVars, queueVars, keyVars
<1>2. ScannerTypes' /\ Stages'
  BY <1>1 DEF ScannerInv, ScannerTypes, Stages
<1>3. Balanced' /\ InInputOrder' /\ KeysInInputOrder'
  BY <1>1 DEF ScannerInv, StreamInv, Balanced, InInputOrder, KeysInInputOrder, Balance, CountIn
<1>4. Followed' /\ KeysPoint' /\ StreamFramed'
  BY <1>1 DEF ScannerInv, StreamInv, Followed, KeysPoint, StreamFramed, Here
<1>5. KeysPlaced' /\ KeysOrdered'
  BY <1>1 DEF ScannerInv, KeysInv, KeysPlaced, KeysOrdered, NextNumber
<1>6. KeysFresh' /\ Indented'
  BY <1>1 DEF ScannerInv, KeysInv, KeysFresh, Indented, Rising, Here, TopKey, Indent
<1> QED BY <1>2, <1>3, <1>4, <1>5, <1>6 DEF ScannerInv, StreamInv, KeysInv

LEMMA FetchMoreKeeps == ASSUME ScannerInv, fetch_more_tokens PROVE ScannerInv'
<1>0. ScannerTypes /\ Stages /\ at = "testing" /\ ~tokenAvailable /\ ~ended
  BY DEF ScannerInv, Stages, fetch_more_tokens
<1>1. CASE tokens = <<>>
  <2>1. /\ at' = "skipping"
        /\ UNCHANGED <<inputVars, queueVars, keyVars, indents, started>>
    BY <1>1 DEF fetch_more_tokens, inputVars, queueVars, keyVars
  <2> QED BY <1>0, <2>1, LoopKeeps
<1>2. CASE tokens # <<>>
  <2>1. started
    BY <1>0, <1>2 DEF Stages
  <2>2. /\ simpleKeys' = Fresh(mark) /\ at' \in {"failed", "skipping", "idle"}
        /\ UNCHANGED <<mark, over, tokens, tokensParsed, ended, delivered, blocks,
                       simpleKeyAllowed, flowLevel, indents, started>>
        /\ \/ UNCHANGED tokenAvailable
           \/ at' = "idle" /\ tokenAvailable' = TRUE /\ ~HeldBack(Fresh(mark))
    BY <1>2 DEF fetch_more_tokens, inputVars
  <2>3. KeysKept
    BY <2>1, <2>2, KeptFacts
  <2>4. mark \in Position /\ NotAfter(mark, mark) /\ mark' = mark
    BY <1>0, <2>2, PositionFacts DEF ScannerTypes
  <2>5. /\ <<>> \in Seq(TokenRecord) /\ \A i \in DOMAIN << >> : <<>>[i].mark = mark
        /\ WellFollowed(<<>>) /\ MatchIndents(<<>>)
    BY <2>1, <2>2, <2>4, PlainToken
  <2>6. tokens' = tokens \o <<>>
    BY <1>0, <2>2 DEF ScannerTypes
  <2>7. Appends(<<>>, mark)
    BY <2>2, <2>4, <2>5, <2>6 DEF Appends
  <2>8. /\ tokenAvailable' => at' = "idle" /\ tokens' # <<>> /\ ~HeldBack(simpleKeys)'
        /\ tokenAvailable' \in BOOLEAN
    <3>1. tokens' = tokens /\ (HeldBack(simpleKeys)' <=> HeldBack(Fresh(mark)))
      BY <2>2 DEF HeldBack
    <3>2. tokenAvailable \in BOOLEAN
      BY <1>0 DEF ScannerTypes
    <3>3. CASE UNCHANGED tokenAvailable
      BY <1>0, <3>2, <3>3
    <3>4. CASE at' = "idle" /\ tokenAvailable' = TRUE /\ ~HeldBack(Fresh(mark))
      BY <1>2, <3>1, <3>4
    <3> QED BY <2>2, <3>3, <3>4
  <2>9. /\ indents' \in Seq(Int) /\ indents' # <<>> /\ indents'[1] = -1 /\ Rising'
        /\ Indent' \in Int /\ Indent' <= Indent
    BY <2>1, <2>2, SameIndents
  <2>10. simpleKeys'[flowLevel + 1].possible /\ simpleKeys'[flowLevel + 1].mark.line = mark'.line
           => ~simpleKeyAllowed'
    <3>1. TopKey = simpleKeys[flowLevel + 1] /\ flowLevel + 1 \in DOMAIN simpleKeys
      BY <1>0, <2>1, TopKeyFacts
    <3>2. simpleKeys'[flowLevel + 1].possible => simpleKeys'[flowLevel + 1] = TopKey
      BY <2>3, <3>1 DEF KeysKept
    <3> QED BY <2>1, <2>2, <3>2 DEF ScannerInv, KeysInv, KeysFresh, Here
  <2>11. at' # "fetching" /\ at' \in {"idle", "testing", "skipping", "fetching", "failed"}
    BY <2>2
  <2>12. over' \in BOOLEAN /\ simpleKeyAllowed' \in BOOLEAN
    BY <1>0, <2>2 DEF ScannerTypes
  <2> QED BY <1>0, <2>1, <2>2, <2>3, <2>5, <2>7, <2>8, <2>9, <2>10, <2>11, <2>12, KeptStep
<1> QED BY <1>1, <1>2

\* Blanks, comments and line breaks are skipped; collections end at the column.
LEMMA ScanToNextKeeps == ASSUME ScannerInv, scan_to_next_token PROVE ScannerInv'
<1>0. ScannerTypes /\ Stages /\ started /\ ~tokenAvailable /\ ~ended
  BY DEF ScannerInv, Stages, scan_to_next_token
<1>1. /\ UNCHANGED <<over, tokensParsed, tokenAvailable, ended, delivered, blocks, flowLevel, started>>
      /\ simpleKeyAllowed' = (simpleKeyAllowed \/ (flowLevel = 0 /\ mark'.line > mark.line))
  BY DEF scan_to_next_token
<1>2. mark \in Position /\ mark' \in Position /\ NotAfter(mark, mark') /\ NotAfter(mark', mark')
  <2>1. mark \in Position
    BY <1>0 DEF ScannerTypes
  <2>2. mark' = mark \/ mark' \in Onward(mark)
    BY DEF scan_to_next_token
  <2>3. mark' \in Position /\ NotAfter(mark, mark')
    BY <2>1, <2>2, OnwardFacts, PositionFacts
  <2> QED BY <2>1, <2>3, PositionFacts
<1>3. TopKey = simpleKeys[flowLevel + 1] /\ flowLevel + 1 \in DOMAIN simpleKeys
      /\ DOMAIN simpleKeys = 1..(flowLevel + 1) /\ flowLevel \in Nat
  BY <1>0, TopKeyFacts DEF ScannerTypes
<1>4. simpleKeyAllowed' \in BOOLEAN /\ over' \in BOOLEAN /\ tokenAvailable' \in BOOLEAN /\ ~tokenAvailable'
  <2>1. simpleKeyAllowed \in BOOLEAN /\ over \in BOOLEAN /\ tokenAvailable \in BOOLEAN
    BY <1>0 DEF ScannerTypes
  <2> QED BY <1>0, <1>1, <2>1
\* Where a key becomes allowed the innermost one is of another line.
<1>5. ASSUME KeysKept, simpleKeys'[flowLevel + 1].possible,
             simpleKeys'[flowLevel + 1].mark.line = mark'.line
      PROVE  ~simpleKeyAllowed' /\ Here(TopKey) /\ TopKey = simpleKeys'[flowLevel + 1]
             /\ TopKey.mark.column < mark.column /\ mark.line = mark'.line
  <2>1. simpleKeys'[flowLevel + 1] = simpleKeys[flowLevel + 1]
    BY <1>3, <1>5 DEF KeysKept
  <2>2. Here(TopKey) /\ mark'.line = mark.line /\ TopKey.mark.column < mark.column
    BY <1>2, <1>3, <1>5, <2>1, HereBefore
  <2>3. ~simpleKeyAllowed
    BY <1>0, <2>2 DEF ScannerInv, KeysInv, KeysFresh, Here
  <2>4. ~(mark'.line > mark.line)
    BY <1>2, <2>2 DEF Position
  <2> QED BY <1>1, <1>3, <2>1, <2>2, <2>3, <2>4
<1>6. ASSUME at' = "failed", UNCHANGED <<tokens, indents>>, KeysKept PROVE ScannerInv'
  <2>1. /\ <<>> \in Seq(TokenRecord) /\ \A i \in DOMAIN << >> : <<>>[i].mark = mark'
        /\ WellFollowed(<<>>) /\ MatchIndents(<<>>)
    BY <1>0, <1>2, <1>6, PlainToken
  <2>2. tokens' = tokens \o <<>>
    BY <1>0, <1>6 DEF ScannerTypes
  <2>3. Appends(<<>>, mark')
    BY <1>1, <1>2, <2>1, <2>2 DEF Appends
  <2>4. /\ indents' \in Seq(Int) /\ indents' # <<>> /\ indents'[1] = -1 /\ Rising'
        /\ Indent' \in Int /\ Indent' <= Indent
    BY <1>0, <1>6, SameIndents
  <2>5. at' # "fetching" /\ at' \in {"idle", "testing", "skipping", "fetching", "failed"}
    BY <1>6
  <2>6. /\ tokenAvailable' => at' = "idle" /\ tokens' # <<>> /\ ~HeldBack(simpleKeys)'
        /\ ended => ~tokenAvailable' /\ at' = "idle"
        /\ at' = "fetching" =>
             /\ \A i \in DOMAIN simpleKeys' : simpleKeys'[i].possible => simpleKeys'[i].mark.line = mark'.line
             /\ flowLevel = 0 => Indent' <= mark'.column
        /\ simpleKeys'[flowLevel + 1].possible /\ simpleKeys'[flowLevel + 1].mark.line = mark'.line
             => ~simpleKeyAllowed' /\ (<<>> = <<>> \/ <<>>[1].type \in KeyStarts)
    BY <1>0, <1>4, <1>5, <1>6, <2>5
  <2> QED BY <1>0, <1>1, <1>4, <1>6, <2>1, <2>3, <2>4, <2>5, <2>6, KeptStep
<1>7. CASE ~over /\ at' = "failed" /\ UNCHANGED <<simpleKeys, tokens, indents>>
  BY <1>0, <1>6, <1>7, KeptFacts
<1>8. CASE at' = "failed" /\ simpleKeys' = Fresh(mark') /\ UNCHANGED <<tokens, indents>>
  BY <1>0, <1>6, <1>8, KeptFacts
<1>9. CASE /\ ~StaleError(mark')
           /\ at' = "fetching"
           /\ simpleKeys' = Fresh(mark')
           /\ tokens' = tokens \o Ends(mark'.column, mark')
           /\ indents' = Unrolled(mark'.column)
  <2> DEFINE ts == Ends(mark'.column, mark')
  <2>1. KeysKept
    BY <1>0, <1>9, KeptFacts
  <2>2. mark'.column \in Int /\ mark'.column >= -1
    BY <1>2 DEF Position
  <2>3. /\ ts \o <<>> \in Seq(TokenRecord) /\ \A i \in DOMAIN (ts \o <<>>) : (ts \o <<>>)[i].mark = mark'
        /\ WellFollowed(ts \o <<>>) /\ MatchIndents(ts \o <<>>)
        /\ indents' \in Seq(Int) /\ indents' # <<>> /\ indents'[1] = -1 /\ Rising'
        /\ Indent' \in Int /\ Indent' <= Indent
        /\ flowLevel = 0 => Indent' <= mark'.column
        /\ ts # <<>> => flowLevel = 0 /\ Indent > mark'.column
    BY <1>0, <1>2, <1>9, <2>2, ClosingTokens
  <2>4. ts \in Seq(TokenRecord)
    BY <1>0, <1>2, <2>2, EndsFacts DEF ScannerInv, KeysInv, Indented
  <2>5. ts \o <<>> = ts
    BY <2>4
  <2> HIDE DEF ts
  <2>6. Appends(ts, mark')
    BY <1>1, <1>2, <1>9, <2>3, <2>5 DEF Appends, ts
  <2>7. \A i \in DOMAIN simpleKeys' : simpleKeys'[i].possible => simpleKeys'[i].mark.line = mark'.line
    <3> SUFFICES ASSUME NEW i \in DOMAIN simpleKeys, simpleKeys'[i].possible
                 PROVE  simpleKeys'[i].mark.line = mark'.line
      <4>1. DOMAIN simpleKeys' = DOMAIN simpleKeys
        BY <1>9 DEF Fresh
      <4> QED BY <4>1
    <3>1. simpleKeys'[i] = simpleKeys[i] /\ simpleKeys[i].possible /\ ~Stale(simpleKeys[i], mark')
      <4>1. simpleKeys \in Seq(KeyRecord)
        BY <1>0 DEF ScannerTypes
      <4> QED BY <1>9, <4>1, FreshFacts
    <3>2. simpleKeys[i] \in KeyRecord
      BY <1>0 DEF ScannerTypes
    <3>3. simpleKeys[i].mark.line \in Nat /\ mark.line \in Nat /\ mark'.line \in Nat
      BY <1>2, <3>2 DEF KeyRecord, Position
    <3>4. ~(simpleKeys[i].mark.line < mark'.line)
      BY <3>1 DEF Stale
    <3>5. simpleKeys[i].mark.line <= mark.line /\ mark.line <= mark'.line
      BY <1>2, <3>1, <3>3 DEF ScannerInv, KeysInv, KeysPlaced, NotAfter, Stream!NotAfter
    <3> QED BY <3>1, <3>3, <3>4, <3>5
  <2>8. ASSUME simpleKeys'[flowLevel + 1].possible, simpleKeys'[flowLevel + 1].mark.line = mark'.line
        PROVE  ~simpleKeyAllowed' /\ ts = <<>>
    <3>1. ~simpleKeyAllowed' /\ Here(TopKey) /\ TopKey.mark.column < mark.column /\ mark.line = mark'.line
      BY <1>5, <2>1, <2>8
    <3>2. ASSUME ts # <<>> PROVE FALSE
      <4>1. TopKey = simpleKeys[1] /\ 1 \in DOMAIN simpleKeys
        BY <1>3, <2>3, <3>2
      <4>2. Indent <= TopKey.mark.column
        BY <1>0, <3>1, <4>1 DEF ScannerInv, KeysInv, Indented
      <4>3. TopKey.mark.column \in Nat
        <5>1. TopKey \in KeyRecord
          BY <1>0, TopKeyFacts
        <5> QED BY <5>1 DEF KeyRecord, Position
      <4>4. mark.column <= mark'.column /\ mark.column \in Nat /\ mark'.column \in Nat
        BY <1>2, <3>1 DEF NotAfter, Stream!NotAfter, Position
      <4>5. Indent > mark'.column /\ Indent \in Int
        BY <1>0, <2>3, <3>2, IndentFacts
      <4> QED BY <3>1, <4>2, <4>3, <4>4, <4>5
    <3> QED BY <3>1, <3>2
  <2>9. at' \in {"idle", "testing", "skipping", "fetching", "failed"} /\ WellFollowed(ts) /\ MatchIndents(ts)
    BY <1>9, <2>3, <2>5
  <2> QED BY <1>0, <1>1, <1>4, <2>1, <2>3, <2>6, <2>7, <2>8, <2>9, KeptStep
<1> QED BY <1>7, <1>8, <1>9 DEF scan_to_next_token

\* A lexeme that ends the collections: their BlockEnds, perhaps its token.
LEMMA ClosingStep ==
  ASSUME ScannerInv, at = "fetching", at' \in {"testing", "failed"}, over' \in BOOLEAN,
         UNCHANGED <<tokensParsed, tokenAvailable, ended, delivered, blocks, started, flowLevel>>,
         NEW m \in Position, NEW rest, rest = <<>> \/ \E t \in Plain : rest = <<Token(t, m)>>,
         tokens' = tokens \o (Ends(-1, m) \o rest),
         indents' = Unrolled(-1),
         mark' \in Position, NotAfter(mark, m), NotAfter(m, mark'),
         \/ simpleKeys' = Removed
         \/ simpleKeys' = simpleKeys /\ mark'.line # mark.line,
         simpleKeyAllowed' \in BOOLEAN
  PROVE  ScannerInv'
<1>1. started
  BY FetchingKeys
<1>2. LET ts == Ends(-1, m) \o rest
      IN /\ ts \in Seq(TokenRecord) /\ \A i \in DOMAIN ts : ts[i].mark = m
         /\ WellFollowed(ts) /\ MatchIndents(ts)
         /\ indents' \in Seq(Int) /\ indents' # <<>> /\ indents'[1] = -1 /\ Rising'
         /\ Indent' \in Int /\ Indent' <= Indent
  <2>1. -1 \in Int /\ -1 >= -1
    OBVIOUS
  <2> QED BY <1>1, <2>1, ClosingTokens
<1>3. KeysKept
  BY <1>1, KeptFacts
<1>4. ~(simpleKeys'[flowLevel + 1].possible /\ simpleKeys'[flowLevel + 1].mark.line = mark'.line)
  <2>1. CASE simpleKeys' = Removed
    BY <1>1, <2>1, KeptFacts
  <2>2. CASE simpleKeys' = simpleKeys /\ mark'.line # mark.line
    <3>1. flowLevel + 1 \in DOMAIN simpleKeys
      BY <1>1, TopKeyFacts DEF ScannerInv
    <3> QED BY <2>2, <3>1, FetchingKeys DEF Here
  <2> QED BY <2>1, <2>2
<1> DEFINE ts == Ends(-1, m) \o rest
<1>5. /\ ts \in Seq(TokenRecord) /\ \A i \in DOMAIN ts : ts[i].mark = m
      /\ WellFollowed(ts) /\ MatchIndents(ts) /\ tokens' = tokens \o ts
      /\ indents' \in Seq(Int) /\ indents' # <<>> /\ indents'[1] = -1 /\ Rising'
      /\ Indent' \in Int /\ Indent' <= Indent
  BY <1>2
<1> HIDE DEF ts
<1> QED BY <1>3, <1>4, <1>5, FetchStep

\* Append to the BlockEnds as concatenation.
LEMMA EndsThenToken ==
  ASSUME ScannerInv, started, NEW m \in Position, NEW t \in TokenType
  PROVE  /\ Append(Ends(-1, m), Token(t, m)) = Ends(-1, m) \o <<Token(t, m)>>
         /\ Ends(-1, m) = Ends(-1, m) \o <<>>
<1>1. Ends(-1, m) \in Seq(TokenRecord)
  <2>1. -1 \in Int /\ -1 >= -1
    OBVIOUS
  <2> QED BY <2>1, EndsFacts DEF ScannerInv, KeysInv, Indented
<1>2. Token(t, m) \in TokenRecord
  BY DEF Token, TokenRecord
<1> DEFINE es == Ends(-1, m)
           x == Token(t, m)
<1> HIDE DEF es, x
<1>3. es \in Seq(TokenRecord) /\ x \in TokenRecord
  BY <1>1, <1>2 DEF es, x
<1>4. Append(es, x) = es \o <<x>> /\ es = es \o <<>>
  BY <1>3
<1> QED BY <1>4 DEF es, x

LEMMA StreamEndKeeps == ASSUME ScannerInv, fetch_stream_end PROVE ScannerInv'
<1>1. at = "fetching" /\ started /\ mark \in Position
  BY FetchingKeys DEF ScannerInv, ScannerTypes, fetch_stream_end
<1>2. /\ mark' \in Position /\ NotAfter(mark, mark') /\ NotAfter(mark', mark')
      /\ mark.column # 0 => mark'.line > mark.line
  BY <1>1, MarkFacts DEF fetch_stream_end
<1>3. /\ over' \in BOOLEAN /\ indents' = Unrolled(-1)
      /\ UNCHANGED <<tokensParsed, tokenAvailable, ended, delivered, blocks, started>>
  BY DEF fetch_stream_end
<1>4. /\ Append(Ends(-1, mark'), Token("StreamEnd", mark')) = Ends(-1, mark') \o <<Token("StreamEnd", mark')>>
      /\ Ends(-1, mark') = Ends(-1, mark') \o <<>>
  <2>1. "StreamEnd" \in TokenType
    BY DEF TokenType
  <2> QED BY <1>1, <1>2, <2>1, EndsThenToken
<1>5. CASE RemoveFails
  <2>1. /\ tokens' = tokens \o (Ends(-1, mark') \o <<>>) /\ at' = "failed"
        /\ simpleKeys' = simpleKeys /\ flowLevel' = flowLevel /\ simpleKeyAllowed' = simpleKeyAllowed
    BY <1>4, <1>5 DEF fetch_stream_end, keyVars
  <2>2. mark.column # 0
    BY <1>1, <1>5, RemovableKey
  <2>3. mark'.line # mark.line
    BY <1>1, <1>2, <2>2 DEF Position
  <2>4. simpleKeyAllowed' \in BOOLEAN /\ at' \in {"testing", "failed"}
    BY <2>1 DEF ScannerInv, ScannerTypes
  <2> QED BY <1>1, <1>2, <1>3, <2>1, <2>3, <2>4, ClosingStep
<1>6. CASE ~RemoveFails
  <2>1. /\ tokens' = tokens \o (Ends(-1, mark') \o <<Token("StreamEnd", mark')>>)
        /\ at' \in {"testing", "failed"} /\ simpleKeys' = Removed /\ flowLevel' = flowLevel
        /\ simpleKeyAllowed' \in BOOLEAN
    BY <1>4, <1>6 DEF fetch_stream_end, Add
  <2>2. "StreamEnd" \in Plain
    BY DEF Plain, TokenType, BlockStarts
  <2> QED BY <1>1, <1>2, <1>3, <2>1, <2>2, ClosingStep
<1> QED BY <1>5, <1>6

\* fetch_directive and fetch_document_indicator: no key can be required.
LEMMA LineStartKeeps ==
  ASSUME ScannerInv, fetch_directive \/ fetch_document_indicator
  PROVE  ScannerInv'
<1>1. at = "fetching" /\ started /\ mark \in Position /\ mark.column = 0 /\ over \in BOOLEAN
  BY FetchingKeys DEF ScannerInv, ScannerTypes, fetch_directive, fetch_document_indicator, Fetching
<1>2. ~RemoveFails
  BY <1>1, RemovableKey
<1>3. /\ indents' = Unrolled(-1) /\ simpleKeys' = Removed /\ simpleKeyAllowed' \in BOOLEAN
      /\ at' \in {"testing", "failed"}
      /\ UNCHANGED <<over, tokensParsed, tokenAvailable, ended, delivered, blocks, started, flowLevel>>
  BY <1>2 DEF fetch_directive, fetch_document_indicator, RemoveError, Done, FetchFails, Add
<1>4. mark' \in Position /\ NotAfter(mark, mark') /\ NotAfter(mark, mark)
  <2>1. mark' \in Inline(mark) \cup NextLine(mark) \/ mark' = [mark EXCEPT !.column = 3]
    BY <1>2 DEF fetch_directive, fetch_document_indicator, RemoveError
  <2> QED BY <1>1, <2>1, MarkFacts, OnwardFacts
<1>5. \E rest : /\ rest = <<>> \/ \E t \in Plain : rest = <<Token(t, mark)>>
                /\ tokens' = tokens \o (Ends(-1, mark) \o rest)
  <2>1. /\ "Directive" \in Plain /\ "DocumentIndicator" \in Plain
        /\ "Directive" \in TokenType /\ "DocumentIndicator" \in TokenType
    BY DEF Plain, TokenType, BlockStarts
  <2>2. \/ tokens' = tokens \o Append(Ends(-1, mark), Token("Directive", mark))
        \/ tokens' = tokens \o Ends(-1, mark)
        \/ tokens' = tokens \o Append(Ends(-1, mark), Token("DocumentIndicator", mark))
    BY <1>2 DEF fetch_directive, fetch_document_indicator, RemoveError, Add
  <2>3. \A t \in TokenType :
          /\ Append(Ends(-1, mark), Token(t, mark)) = Ends(-1, mark) \o <<Token(t, mark)>>
          /\ Ends(-1, mark) = Ends(-1, mark) \o <<>>
    BY <1>1, EndsThenToken
  <2>4. \/ tokens' = tokens \o (Ends(-1, mark) \o <<Token("Directive", mark)>>)
        \/ tokens' = tokens \o (Ends(-1, mark) \o <<>>)
        \/ tokens' = tokens \o (Ends(-1, mark) \o <<Token("DocumentIndicator", mark)>>)
    BY <2>1, <2>2, <2>3
  <2> QED BY <2>1, <2>4
<1>6. over' \in BOOLEAN
  BY <1>1, <1>3
<1> QED BY <1>1, <1>3, <1>4, <1>5, <1>6, ClosingStep

-----------------------------------------------------------------------------
\* The fetches that only remove the key and add a token: fetch_flow_entry,
\* fetch_block_scalar and, outside flow collections, fetch_flow_collection_end.
LEMMA RemovingKeeps ==
  ASSUME ScannerInv,
         fetch_flow_entry \/ fetch_block_scalar \/ (fetch_flow_collection_end /\ flowLevel = 0)
  PROVE  ScannerInv'
<1>1. at = "fetching" /\ started /\ mark \in Position /\ UNCHANGED indents
  BY FetchingKeys DEF ScannerInv, ScannerTypes, fetch_flow_entry, fetch_block_scalar,
                      fetch_flow_collection_end, Fetching
<1>2. CASE RemoveFails
  <2>1. /\ tokens' = tokens \o <<>> /\ UNCHANGED keyVars /\ FetchFails /\ UNCHANGED mark
    BY <1>2 DEF fetch_flow_entry, fetch_block_scalar, fetch_flow_collection_end, RemoveError
  <2>2. tokens' = tokens
    BY <2>1 DEF ScannerInv, ScannerTypes
  <2> QED BY <1>1, <2>1, <2>2, FailedStep DEF FetchFails, Done
<1>3. CASE ~RemoveFails
  <2>1. /\ simpleKeys' = Removed /\ simpleKeyAllowed' \in BOOLEAN /\ at' \in {"testing", "failed"}
        /\ UNCHANGED <<over, tokensParsed, tokenAvailable, ended, delivered, blocks, started, flowLevel>>
    BY <1>3 DEF fetch_flow_entry, fetch_block_scalar, fetch_flow_collection_end, RemoveError,
                Add, Done, FetchFails
  <2>2. mark' \in Position /\ NotAfter(mark, mark')
    <3>1. Skip \/ mark' \in Inline(mark) \cup NextLine(mark)
      BY <1>3 DEF fetch_flow_entry, fetch_block_scalar, fetch_flow_collection_end, RemoveError
    <3> QED BY <1>1, <3>1, MarkFacts, OnwardFacts
  <2>3. \E ts : /\ ts = <<>> \/ \E t \in Plain : ts = <<Token(t, mark)>>
                /\ tokens' = tokens \o ts
    <3>1. "FlowEntry" \in Plain /\ "Content" \in Plain /\ "FlowEnd" \in Plain
      BY DEF Plain, TokenType, BlockStarts
    <3>2. tokens = tokens \o <<>>
      BY DEF ScannerInv, ScannerTypes
    <3>3. \/ tokens' = tokens \/ tokens' = tokens \o <<Token("FlowEntry", mark)>>
          \/ tokens' = tokens \o <<Token("Content", mark)>> \/ tokens' = tokens \o <<Token("FlowEnd", mark)>>
      BY <1>3 DEF fetch_flow_entry, fetch_block_scalar, fetch_flow_collection_end, RemoveError, Add
    <3> QED BY <3>1, <3>2, <3>3
  <2> QED BY <1>1, <2>1, <2>2, <2>3, PlainStep
<1> QED BY <1>2, <1>3

\* The fetches that may open a block collection at an indicator:
\* fetch_block_entry, fetch_key and fetch_value without a simple key.
LEMMA OpeningStep ==
  ASSUME ScannerInv, at = "fetching", at' = "testing",
         UNCHANGED <<over, tokensParsed, tokenAvailable, ended, delivered, blocks, started, flowLevel>>,
         indents' = Rolled(mark.column), Skip,
         NEW type \in BlockStarts, NEW next \in Plain, GoesOn(type, next),
         tokens' = tokens \o Append(Opener(type, mark.column, mark), Token(next, mark)),
         KeysKept, ~simpleKeys'[flowLevel + 1].possible, simpleKeyAllowed' \in BOOLEAN
  PROVE  ScannerInv'
<1>1. started /\ mark \in Position /\ over \in BOOLEAN /\ flowLevel \in Nat
  BY FetchingKeys DEF ScannerInv, ScannerTypes
<1> DEFINE ts == Append(Opener(type, mark.column, mark), Token(next, mark))
<1>2. /\ ts \in Seq(TokenRecord) /\ \A i \in DOMAIN ts : ts[i].mark = mark
      /\ WellFollowed(ts) /\ MatchIndents(ts) /\ tokens' = tokens \o ts
      /\ indents' \in Seq(Int) /\ indents' # <<>> /\ indents'[1] = -1 /\ Rising' /\ Indent' \in Int
      /\ flowLevel # 0 => indents' = indents
  <2>1. mark.column \in Int
    BY <1>1 DEF Position
  <2> QED BY <1>1, <2>1, OpeningTokens
<1> HIDE DEF ts
<1>3. mark' \in Position /\ NotAfter(mark, mark') /\ NotAfter(mark, mark)
  BY <1>1, MarkFacts
<1>4. simpleKeys'[1].possible => Indent' <= Indent
  <2>1. simpleKeys'[1].possible => flowLevel # 0
    OBVIOUS
  <2>2. flowLevel # 0 => Indent' <= Indent
    BY <1>1, <1>2, SameIndents
  <2> QED BY <2>1, <2>2
<1>5. over' \in BOOLEAN /\ at' \in {"testing", "failed"}
  BY <1>1
<1> QED BY <1>1, <1>2, <1>3, <1>4, <1>5, FetchStep

LEMMA OpeningKeeps ==
  ASSUME ScannerInv, fetch_block_entry \/ fetch_key
  PROVE  ScannerInv'
<1>1. at = "fetching" /\ started
  BY FetchingKeys DEF fetch_block_entry, fetch_key, Fetching
<1>2. CASE NotAllowedHere
  BY <1>1, <1>2, FailedStep DEF fetch_block_entry, fetch_key, FetchFails, Done
<1>3. CASE ~NotAllowedHere
  <2>1. ~RemoveFails
    BY <1>1, <1>3, RemovableKey DEF NotAllowedHere
  <2>2. /\ indents' = Rolled(mark.column) /\ Skip /\ simpleKeys' = Removed /\ flowLevel' = flowLevel
        /\ simpleKeyAllowed' \in BOOLEAN /\ at' = "testing"
        /\ UNCHANGED <<over, tokensParsed, tokenAvailable, ended, delivered, blocks, started>>
    BY <1>3, <2>1 DEF fetch_block_entry, fetch_key, RemoveError, Add, Done
  <2>3. KeysKept /\ ~simpleKeys'[flowLevel + 1].possible
    BY <1>1, <2>2, KeptFacts
  <2>4. CASE fetch_block_entry
    <3>1. /\ "BlockSequenceStart" \in BlockStarts /\ "BlockEntry" \in Plain
          /\ GoesOn("BlockSequenceStart", "BlockEntry")
      BY DEF BlockStarts, Plain, TokenType, GoesOn
    <3>2. tokens' = tokens \o Append(Opener("BlockSequenceStart", mark.column, mark), Token("BlockEntry", mark))
      BY <1>3, <2>1, <2>4 DEF fetch_block_entry, RemoveError, Add
    <3> QED BY <1>1, <2>2, <2>3, <3>1, <3>2, OpeningStep
  <2>5. CASE fetch_key
    <3>1. /\ "BlockMappingStart" \in BlockStarts /\ "Key" \in Plain
          /\ GoesOn("BlockMappingStart", "Key")
      BY DEF BlockStarts, Plain, TokenType, GoesOn
    <3>2. tokens' = tokens \o Append(Opener("BlockMappingStart", mark.column, mark), Token("Key", mark))
      BY <1>3, <2>1, <2>5 DEF fetch_key, RemoveError, Add
    <3> QED BY <1>1, <2>2, <2>3, <3>1, <3>2, OpeningStep
  <2> QED BY <2>4, <2>5
<1> QED BY <1>2, <1>3

LEMMA ValueAloneKeeps ==
  ASSUME ScannerInv, fetch_value, ~TopKey.possible
  PROVE  ScannerInv'
<1>1. at = "fetching" /\ started
  BY FetchingKeys DEF fetch_value, Fetching
<1>2. CASE NotAllowedHere
  BY <1>1, <1>2, FailedStep DEF fetch_value, ValueOfKey, FetchFails, Done
<1>3. CASE ~NotAllowedHere
  <2>1. /\ indents' = Rolled(mark.column) /\ Skip /\ simpleKeys' = simpleKeys /\ flowLevel' = flowLevel
        /\ simpleKeyAllowed' \in BOOLEAN /\ at' = "testing"
        /\ UNCHANGED <<over, tokensParsed, tokenAvailable, ended, delivered, blocks, started>>
        /\ tokens' = tokens \o Append(Opener("BlockMappingStart", mark.column, mark), Token("Value", mark))
    BY <1>3 DEF fetch_value, ValueOfKey, Add, Done
  <2>2. KeysKept /\ ~simpleKeys'[flowLevel + 1].possible
    <3>1. TopKey = simpleKeys[flowLevel + 1]
      BY <1>1, TopKeyFacts DEF ScannerInv
    <3> QED BY <1>1, <2>1, <3>1, KeptFacts
  <2>3. /\ "BlockMappingStart" \in BlockStarts /\ "Value" \in Plain
        /\ GoesOn("BlockMappingStart", "Value")
    BY DEF BlockStarts, Plain, TokenType, GoesOn
  <2> QED BY <1>1, <2>1, <2>2, <2>3, OpeningStep
<1> QED BY <1>2, <1>3

-----------------------------------------------------------------------------
\* save_simple_key() puts the key of the lexeme in place of the innermost one.
LEMMA SavedFacts ==
  ASSUME ScannerInv, at = "fetching"
  PROVE  /\ Saved \in Seq(KeyRecord) /\ Len(Saved) = flowLevel + 1
         /\ \A i \in 1..(flowLevel + 1) :
              Saved[i] = IF i = flowLevel + 1 /\ simpleKeyAllowed THEN KeyHere ELSE simpleKeys[i]
         /\ KeyHere \in KeyRecord /\ KeyHere.possible /\ KeyHere.mark = mark
         /\ KeyHere.tokenNumber = NextNumber /\ NextNumber > 0
         /\ KeyHere.required <=> (flowLevel = 0 /\ Indent = mark.column)
<1>1. /\ started /\ flowLevel + 1 \in DOMAIN simpleKeys /\ DOMAIN simpleKeys = 1..(flowLevel + 1)
      /\ simpleKeys \in Seq(KeyRecord) /\ Len(simpleKeys) = flowLevel + 1
  BY FetchingKeys, TopKeyFacts DEF ScannerInv, ScannerTypes, Stages
<1>2. /\ tokensParsed \in Nat /\ Len(tokens) \in Nat /\ mark \in Position
      /\ tokensParsed = 0 => tokens # <<>>
  BY <1>1 DEF ScannerInv, ScannerTypes, StreamInv, StreamFramed
<1>3. tokens # <<>> => Len(tokens) # 0
  <2>1. tokens \in Seq(TokenRecord)
    BY DEF ScannerInv, ScannerTypes
  <2> QED BY <2>1, EmptySeq
<1>4. NextNumber \in Nat /\ NextNumber > 0
  BY <1>2, <1>3 DEF NextNumber
<1>5. /\ KeyHere.possible /\ KeyHere.mark = mark /\ KeyHere.tokenNumber = NextNumber
      /\ KeyHere.required <=> (flowLevel = 0 /\ Indent = mark.column)
  BY DEF KeyHere, NextNumber
<1>6. KeyHere \in KeyRecord
  BY <1>2, <1>4 DEF KeyHere, KeyRecord, NextNumber
<1>7. CASE ~simpleKeyAllowed
  BY <1>1, <1>4, <1>5, <1>6, <1>7 DEF Saved
<1>8. CASE simpleKeyAllowed
  <2> DEFINE k == KeyHere
  <2>1. Saved = [simpleKeys EXCEPT ![flowLevel + 1] = k] /\ k \in KeyRecord
    BY <1>1, <1>6, <1>8 DEF Saved
  <2> HIDE DEF k
  <2>2. /\ Saved \in Seq(KeyRecord) /\ Len(Saved) = Len(simpleKeys)
        /\ \A i \in DOMAIN simpleKeys : Saved[i] = IF i = flowLevel + 1 THEN k ELSE simpleKeys[i]
    BY <1>1, <2>1, ExceptSeq
  <2> QED BY <1>1, <1>4, <1>5, <1>6, <1>8, <2>2 DEF k
<1> QED BY <1>7, <1>8

\* A lexeme at which a key may begin saves it; its token is added if it has no
\* error.  A flow collection adds a level inside.
Saves(ts) ==
  /\ ts = <<>> \/ \E t \in KeyStarts : ts = <<Token(t, mark)>>
  /\ tokens' = tokens \o ts
  /\ \/ simpleKeys' = Saved /\ flowLevel' = flowLevel
     \/ simpleKeys' = Append(Saved, NoKey) /\ flowLevel' = flowLevel + 1 /\ ts # <<>>
  /\ simpleKeyAllowed' => flowLevel' # flowLevel \/ mark'.line > mark.line

LEMMA SavedStep ==
  ASSUME ScannerInv, at = "fetching", at' \in {"testing", "failed"},
         UNCHANGED <<over, tokensParsed, tokenAvailable, ended, delivered, blocks, started, indents>>,
         NEW ts, Saves(ts), mark' \in Position, NotAfter(mark, mark'), mark' # mark,
         simpleKeyAllowed' \in BOOLEAN
  PROVE  ScannerInv'
<1>1. /\ started /\ ~tokenAvailable /\ ~ended /\ mark \in Position /\ over \in BOOLEAN
      /\ flowLevel \in Nat /\ tokensParsed \in Nat /\ tokens \in Seq(TokenRecord) /\ Len(tokens) \in Nat
      /\ Len(simpleKeys) = flowLevel + 1 /\ DOMAIN simpleKeys = 1..(flowLevel + 1)
      /\ tokenAvailable \in BOOLEAN
  BY FetchingKeys, TopKeyFacts DEF ScannerInv, ScannerTypes, Stages
<1>2. /\ Saved \in Seq(KeyRecord) /\ Len(Saved) = flowLevel + 1
      /\ \A i \in 1..(flowLevel + 1) :
           Saved[i] = IF i = flowLevel + 1 /\ simpleKeyAllowed THEN KeyHere ELSE simpleKeys[i]
      /\ KeyHere \in KeyRecord /\ KeyHere.possible /\ KeyHere.mark = mark
      /\ KeyHere.tokenNumber = NextNumber /\ NextNumber > 0
      /\ KeyHere.required <=> (flowLevel = 0 /\ Indent = mark.column)
  BY SavedFacts
<1>3. /\ ts \in Seq(TokenRecord) /\ \A i \in DOMAIN ts : ts[i].mark = mark
      /\ WellFollowed(ts) /\ MatchIndents(ts)
  <2>1. KeyStarts \subseteq Plain
    BY DEF KeyStarts, Plain, TokenType, BlockStarts
  <2> QED BY <1>1, <2>1, PlainToken DEF Saves
<1>4. ts = <<>> \/ ts[1].type \in KeyStarts
  BY DEF Token, Saves
<1>5. /\ tokens' = tokens \o ts /\ Len(tokens') = Len(tokens) + Len(ts) /\ Len(ts) \in Nat
      /\ ts # <<>> => Len(ts) > 0
  BY <1>1, <1>3, JoinFacts, EmptySeq DEF Saves
<1>6. Appends(ts, mark)
  BY <1>1, <1>3, PositionFacts DEF Appends, Saves
<1>7. PICK next \in Nat :
        /\ next = NextNumber' /\ NextNumber \in Nat /\ NextNumber <= next
        /\ ts # <<>> => NextNumber < next
  <2>1. NextNumber' = tokensParsed + (Len(tokens) + Len(ts))
    BY <1>1, <1>5 DEF NextNumber
  <2> QED BY <1>1, <1>5, <2>1 DEF NextNumber
\* The innermost level after the step.
<1>8. PICK top \in {flowLevel, flowLevel + 1} :
        /\ flowLevel' = top /\ simpleKeys' \in Seq(KeyRecord) /\ Len(simpleKeys') = top + 1
        /\ DOMAIN simpleKeys' = 1..(top + 1)
        /\ \A i \in 1..(flowLevel + 1) : simpleKeys'[i] = Saved[i]
        /\ top = flowLevel + 1 => ts # <<>> /\ simpleKeys'[flowLevel + 2] = NoKey
  <2>1. NoKey \in KeyRecord
    BY DEF NoKey, KeyRecord, Origin, Position
  <2>2. CASE simpleKeys' = Saved /\ flowLevel' = flowLevel
    BY <1>1, <1>2, <2>2
  <2>3. CASE simpleKeys' = Append(Saved, NoKey) /\ flowLevel' = flowLevel + 1 /\ ts # <<>>
    <3> DEFINE S == Saved
               k == NoKey
    <3> HIDE DEF S, k
    <3>1. /\ Append(S, k) \in Seq(KeyRecord) /\ Len(Append(S, k)) = Len(S) + 1
          /\ \A i \in 1..Len(S) : Append(S, k)[i] = S[i]
          /\ Append(S, k)[Len(S) + 1] = k
      BY <1>2, <2>1, AppendFacts DEF S, k
    <3>2. /\ simpleKeys' = Append(S, k) /\ Len(S) = flowLevel + 1
      BY <1>2, <2>3 DEF S, k
    <3>3. (flowLevel + 1) + 1 = flowLevel + 2
      BY <1>1
    <3>4. /\ simpleKeys' \in Seq(KeyRecord) /\ Len(simpleKeys') = (flowLevel + 1) + 1
          /\ simpleKeys'[flowLevel + 2] = k
          /\ \A i \in 1..(flowLevel + 1) : simpleKeys'[i] = S[i]
      BY <3>1, <3>2, <3>3
    <3>5. DOMAIN simpleKeys' = 1..((flowLevel + 1) + 1)
      BY <3>4
    <3> QED BY <2>3, <3>4, <3>5 DEF S, k
  <2> QED BY <2>2, <2>3 DEF Saves
<1>9. /\ \A i \in DOMAIN simpleKeys' : simpleKeys'[i] \in KeyRecord
      /\ \A i \in DOMAIN simpleKeys : simpleKeys[i] \in KeyRecord
      /\ ~NoKey.possible /\ ~NoKey.required
  BY <1>1, <1>8, ElementOfSeq DEF ScannerInv, ScannerTypes, NoKey
<1>10. \A i \in DOMAIN simpleKeys' :
         \/ /\ i \in DOMAIN simpleKeys /\ simpleKeys'[i] = simpleKeys[i]
            /\ ~(i = flowLevel + 1 /\ simpleKeyAllowed)
         \/ i = flowLevel + 1 /\ simpleKeyAllowed /\ simpleKeys'[i] = KeyHere
         \/ i = flowLevel + 2 /\ simpleKeys'[i] = NoKey
  <2> TAKE i \in DOMAIN simpleKeys'
  <2>1. CASE i <= flowLevel + 1
    BY <1>1, <1>2, <1>8, <2>1
  <2>2. CASE i > flowLevel + 1
    <3>1. i = flowLevel + 2 /\ top = flowLevel + 1
      BY <1>1, <1>8, <2>2
    <3> QED BY <1>8, <3>1
  <2> QED BY <1>1, <1>8, <2>1, <2>2
<1>11. \/ mark.line < mark'.line
       \/ mark.line = mark'.line /\ mark.column < mark'.column
  BY <1>1 DEF NotAfter, Stream!NotAfter, Position
<1>12. KeysPlaced'
  <2> SUFFICES ASSUME NEW i \in DOMAIN simpleKeys'
               PROVE  /\ simpleKeys'[i].required => i = 1
                      /\ simpleKeys'[i].possible =>
                           /\ simpleKeys'[i].tokenNumber > 0
                           /\ simpleKeys'[i].tokenNumber >= tokensParsed'
                           /\ simpleKeys'[i].tokenNumber <= NextNumber'
                           /\ i < Len(simpleKeys') => simpleKeys'[i].tokenNumber < NextNumber'
                           /\ \/ simpleKeys'[i].mark.line < mark'.line
                              \/ /\ simpleKeys'[i].mark.line = mark'.line
                                 /\ simpleKeys'[i].mark.column < mark'.column
    BY DEF KeysPlaced
  <2>0. /\ tokensParsed' = tokensParsed /\ tokensParsed \in Nat /\ NextNumber >= tokensParsed
        /\ Len(simpleKeys') = top + 1 /\ top \in Nat /\ flowLevel \in Nat
        /\ top = flowLevel + 1 => ts # <<>>
        /\ top \in {flowLevel, flowLevel + 1}
    BY <1>1, <1>8 DEF NextNumber
  <2>1. CASE i \in DOMAIN simpleKeys /\ simpleKeys'[i] = simpleKeys[i]
    <3>1. simpleKeys[i].required => i = 1
      BY <2>1 DEF ScannerInv, KeysInv, KeysPlaced
    <3>2. ASSUME simpleKeys[i].possible
          PROVE  /\ simpleKeys[i].tokenNumber > 0
                 /\ simpleKeys[i].tokenNumber >= tokensParsed /\ simpleKeys[i].tokenNumber <= NextNumber
                 /\ i < Len(simpleKeys) => simpleKeys[i].tokenNumber < NextNumber
                 /\ \/ simpleKeys[i].mark.line < mark.line
                    \/ simpleKeys[i].mark.line = mark.line /\ simpleKeys[i].mark.column < mark.column
      BY <2>1, <3>2 DEF ScannerInv, KeysInv, KeysPlaced
    <3>3. ASSUME simpleKeys[i].possible
          PROVE  \/ simpleKeys[i].mark.line < mark'.line
                 \/ simpleKeys[i].mark.line = mark'.line /\ simpleKeys[i].mark.column < mark'.column
      <4>1. simpleKeys[i].mark \in Position
        BY <1>9, <2>1 DEF KeyRecord
      <4> QED BY <1>1, <1>11, <3>2, <3>3, <4>1 DEF Position
    <3>4. i < Len(simpleKeys') => i < Len(simpleKeys) \/ ts # <<>>
      BY <1>1, <2>0, <2>1
    <3>5. simpleKeys[i].tokenNumber \in Nat
      BY <1>9, <2>1 DEF KeyRecord
    <3>6. ASSUME simpleKeys[i].possible
          PROVE  /\ simpleKeys[i].tokenNumber <= next
                 /\ i < Len(simpleKeys') => simpleKeys[i].tokenNumber < next
      <4>1. /\ simpleKeys[i].tokenNumber <= NextNumber
            /\ i < Len(simpleKeys) => simpleKeys[i].tokenNumber < NextNumber
        BY <3>2, <3>6
      <4>2. NextNumber \in Nat /\ NextNumber <= next /\ (ts # <<>> => NextNumber < next)
        BY <1>7
      <4> HIDE DEF NextNumber
      <4> QED BY <3>4, <3>5, <4>1, <4>2
    <3>7. NextNumber' = next
      BY <1>7
    <3> QED BY <2>0, <2>1, <3>1, <3>2, <3>3, <3>6, <3>7
  <2>2. CASE i = flowLevel + 1 /\ simpleKeyAllowed /\ simpleKeys'[i] = KeyHere
    <3>1. i < Len(simpleKeys') => ts # <<>>
      BY <2>0, <2>2
    <3>2. KeyHere.required => i = 1
      BY <1>2, <2>2
    <3>3. /\ KeyHere.tokenNumber > 0 /\ KeyHere.tokenNumber >= tokensParsed'
          /\ KeyHere.tokenNumber <= next
          /\ i < Len(simpleKeys') => KeyHere.tokenNumber < next
      <4>1. KeyHere.tokenNumber = NextNumber /\ NextNumber > 0 /\ NextNumber \in Nat
        BY <1>2, <1>7
      <4>2. NextNumber <= next /\ (ts # <<>> => NextNumber < next) /\ NextNumber >= tokensParsed
        BY <1>7, <2>0
      <4> QED BY <2>0, <3>1, <4>1, <4>2
    <3>4. NextNumber' = next
      BY <1>7
    <3> QED BY <1>2, <1>11, <2>2, <3>2, <3>3, <3>4
  <2>3. CASE simpleKeys'[i] = NoKey
    BY <1>9, <2>3
  <2> QED BY <1>10, <2>1, <2>2, <2>3
<1>13. KeysOrdered'
  <2> SUFFICES ASSUME NEW i \in DOMAIN simpleKeys', NEW j \in DOMAIN simpleKeys',
                      i < j, simpleKeys'[i].possible, simpleKeys'[j].possible
               PROVE  simpleKeys'[i].tokenNumber < simpleKeys'[j].tokenNumber
    BY DEF KeysOrdered
  <2>1. j \in DOMAIN simpleKeys
    BY <1>1, <1>8, <1>9, <1>10
  <2>2. i \in DOMAIN simpleKeys /\ i < flowLevel + 1 /\ simpleKeys'[i] = simpleKeys[i]
    BY <1>1, <1>8, <1>10, <2>1
  <2>3. CASE simpleKeys'[j] = simpleKeys[j]
    BY <2>1, <2>2, <2>3 DEF ScannerInv, KeysInv, KeysOrdered
  <2>4. CASE simpleKeys'[j] = KeyHere
    <3>1. simpleKeys[i].tokenNumber < NextNumber
      BY <1>1, <2>2 DEF ScannerInv, KeysInv, KeysPlaced
    <3> QED BY <1>2, <2>2, <2>4, <3>1
  <2> QED BY <1>1, <1>10, <2>1, <2>3, <2>4
<1>14. KeysFresh'
  <2>1. TopKey' = simpleKeys'[top + 1]
    BY <1>8 DEF TopKey, Last
  <2>2. ASSUME simpleKeyAllowed', TopKey'.possible PROVE TopKey'.mark.line # mark'.line
    <3>1. CASE top = flowLevel
      <4>1. mark'.line > mark.line
        BY <1>8, <2>2, <3>1 DEF Saves
      <4>2. CASE TopKey' = simpleKeys[flowLevel + 1]
        <5>1. flowLevel + 1 \in DOMAIN simpleKeys
          BY <1>1
        <5>3. simpleKeys[flowLevel + 1].mark.line = mark.line
          BY <2>2, <4>2, <5>1, FetchingKeys DEF Here
        <5> QED BY <1>1, <4>1, <4>2, <5>3 DEF Position
      <4>3. CASE TopKey' = KeyHere
        BY <1>1, <1>2, <4>1, <4>3 DEF Position
      <4> QED BY <1>1, <1>2, <1>8, <2>1, <3>1, <4>2, <4>3
    <3>2. CASE top = flowLevel + 1
      <4>1. TopKey' = NoKey
        <5>1. top + 1 = flowLevel + 2
          BY <1>1, <3>2
        <5> QED BY <1>8, <2>1, <3>2, <5>1
      <4> QED BY <1>9, <2>2, <4>1
    <3> QED BY <1>8, <3>1, <3>2
  <2>3. at' # "fetching"
    OBVIOUS
  <2> QED BY <2>2, <2>3 DEF KeysFresh, Here
<1>15. Indented'
  <2>1. /\ indents' \in Seq(Int) /\ indents' # <<>> /\ indents'[1] = -1 /\ Rising' /\ Indent' = Indent
    BY <1>1, SameIndents
  <2>2. ASSUME simpleKeys'[1].possible, simpleKeys'[1].mark.line = mark'.line
        PROVE  Indent' <= simpleKeys'[1].mark.column
    <3>0. 1 \in DOMAIN simpleKeys' /\ 1 \in DOMAIN simpleKeys /\ 1 # flowLevel + 2
      <4>1. top \in Nat /\ flowLevel \in Nat
        BY <1>1, <1>8
      <4>2. 1 \in 1..(top + 1) /\ 1 \in 1..(flowLevel + 1) /\ 1 # flowLevel + 2
        BY <4>1
      <4> QED BY <1>1, <1>8, <4>2
    <3>1. CASE simpleKeys'[1] = simpleKeys[1]
      <4>1. Here(simpleKeys[1])
        BY <2>2, <3>0, <3>1, HereBefore
      <4> QED BY <1>1, <2>1, <3>1, <4>1 DEF ScannerInv, KeysInv, Indented
    <3>2. CASE 1 = flowLevel + 1 /\ simpleKeys'[1] = KeyHere
      <4>1. Indent <= mark.column
        BY <1>1, <3>2 DEF ScannerInv, KeysInv, Indented
      <4> QED BY <1>2, <2>1, <3>2, <4>1
    <3> QED BY <1>10, <3>0, <3>1, <3>2
  <2>3. at' # "fetching" /\ started'
    BY <1>1
  <2> QED BY <2>1, <2>2, <2>3 DEF Indented, Here
<1>16. KeysChange(ts)
  <2>1. \A i \in DOMAIN simpleKeys' : simpleKeys'[i].possible =>
          \/ i \in DOMAIN simpleKeys /\ simpleKeys'[i] = simpleKeys[i]
          \/ simpleKeys'[i].tokenNumber = NextNumber /\ simpleKeys'[i].mark = mark
    BY <1>2, <1>9, <1>10
  <2> QED BY <1>4, <1>8, <2>1 DEF KeysChange
<1>17. KeysInv'
  BY <1>12, <1>13, <1>14, <1>15 DEF KeysInv
<1>18. /\ indents' \in Seq(Int) /\ indents' # <<>> /\ over' \in BOOLEAN
       /\ at' \in {"idle", "testing", "skipping", "fetching", "failed"}
       /\ tokenAvailable' \in BOOLEAN /\ ~tokenAvailable'
       /\ ended => ~tokenAvailable' /\ at' = "idle"
       /\ tokenAvailable' => at' = "idle" /\ tokens' # <<>> /\ ~HeldBack(simpleKeys)'
  <2>1. indents' \in Seq(Int) /\ indents' # <<>>
    BY <1>1, SameIndents
  <2>2. at' \in {"idle", "testing", "skipping", "fetching", "failed"}
    OBVIOUS
  <2> QED BY <1>1, <2>1, <2>2
<1>19. Len(simpleKeys') = flowLevel' + 1 /\ flowLevel' \in Nat
  BY <1>1, <1>8
<1> QED BY <1>1, <1>3, <1>6, <1>16, <1>17, <1>18, <1>19, AppendStep

\* The lexemes at which a key may begin.
LEMMA ContentKeeps ==
  ASSUME ScannerInv, NEW ends \in SUBSET Position, NEW allowed \in BOOLEAN, Content(ends, allowed),
         \A p \in ends : NotAfter(mark, p) /\ p # mark,
         allowed => \A p \in ends : p.line > mark.line
  PROVE  ScannerInv'
<1>1. at = "fetching" /\ started /\ UNCHANGED indents /\ ~SaveFails
  <2>1. at = "fetching"
    BY DEF Content, Fetching
  <2> QED BY <2>1, FetchingKeys, RemovableKey DEF Content, SaveFails
<1>2. /\ simpleKeys' = Saved /\ simpleKeyAllowed' = allowed /\ mark' \in ends /\ flowLevel' = flowLevel
      /\ UNCHANGED <<over, tokensParsed, tokenAvailable, ended, delivered, blocks, started>>
      /\ at' \in {"testing", "failed"}
      /\ tokens' = tokens \o <<Token("Content", mark)>> \/ tokens' = tokens
  BY <1>1 DEF Content, Add, Done, FetchFails
<1>3. PICK ts : Saves(ts)
  <2>1. tokens = tokens \o <<>> /\ "Content" \in KeyStarts
    BY DEF ScannerInv, ScannerTypes, KeyStarts
  <2> QED BY <1>2, <2>1 DEF Saves
<1> QED BY <1>1, <1>2, <1>3, SavedStep

LEMMA ContentsKeep ==
  ASSUME ScannerInv, fetch_anchor \/ fetch_tag \/ fetch_flow_scalar \/ fetch_plain_scalar
  PROVE  ScannerInv'
<1>1. mark \in Position
  BY DEF ScannerInv, ScannerTypes
<1>2. /\ Inline(mark) \subseteq Position /\ NextLine(mark) \subseteq Position
      /\ \A p \in Inline(mark) \cup NextLine(mark) : NotAfter(mark, p)
      /\ \A p \in NextLine(mark) : p.line > mark.line
      /\ \A p \in Inline(mark) : p.column > mark.column
  BY <1>1, OnwardFacts
<1>3. \A p \in Inline(mark) \cup NextLine(mark) : p # mark
  BY <1>1, <1>2 DEF Position
<1>4. \/ Content(Inline(mark), FALSE)
      \/ Content(Inline(mark) \cup NextLine(mark), FALSE)
      \/ Content(NextLine(mark), TRUE)
  BY DEF fetch_anchor, fetch_tag, fetch_flow_scalar, fetch_plain_scalar
<1>5. CASE Content(Inline(mark), FALSE)
  <2>1. Inline(mark) \in SUBSET Position /\ \A p \in Inline(mark) : NotAfter(mark, p) /\ p # mark
    BY <1>2, <1>3
  <2> QED BY <1>5, <2>1, ContentKeeps
<1>6. CASE Content(Inline(mark) \cup NextLine(mark), FALSE)
  <2>1. Inline(mark) \cup NextLine(mark) \in SUBSET Position
    BY <1>2
  <2> QED BY <1>2, <1>3, <1>6, <2>1, ContentKeeps
<1>7. CASE Content(NextLine(mark), TRUE)
  <2>1. NextLine(mark) \in SUBSET Position /\ \A p \in NextLine(mark) : NotAfter(mark, p) /\ p # mark
    BY <1>2, <1>3
  <2> QED BY <1>2, <1>7, <2>1, ContentKeeps
<1> QED BY <1>4, <1>5, <1>6, <1>7

LEMMA FlowStartKeeps == ASSUME ScannerInv, fetch_flow_collection_start PROVE ScannerInv'
<1>1. at = "fetching" /\ mark \in Position
  BY DEF fetch_flow_collection_start, Fetching, ScannerInv, ScannerTypes
<1>2. ~SaveFails
  BY <1>1, RemovableKey DEF SaveFails, RemoveFails
<1>3. /\ Skip /\ simpleKeys' = Append(Saved, NoKey) /\ flowLevel' = flowLevel + 1
      /\ simpleKeyAllowed' = TRUE /\ UNCHANGED indents /\ at' = "testing"
      /\ tokens' = tokens \o <<Token("FlowStart", mark)>>
      /\ UNCHANGED <<over, tokensParsed, tokenAvailable, ended, delivered, blocks, started>>
  BY <1>2 DEF fetch_flow_collection_start, Add, Done
<1>4. /\ mark' \in Position /\ NotAfter(mark, mark') /\ mark' # mark
  <2>1. mark'.column = mark.column + 1 /\ mark.column \in Nat
    BY <1>1, <1>3, MarkFacts DEF Position
  <2> QED BY <1>1, <1>3, <2>1, MarkFacts
<1>5. "FlowStart" \in KeyStarts /\ flowLevel' # flowLevel
  <2>1. flowLevel \in Nat
    BY DEF ScannerInv, ScannerTypes
  <2> QED BY <1>3, <2>1 DEF KeyStarts
<1>6. <<Token("FlowStart", mark)>> # <<>> /\ simpleKeyAllowed' \in BOOLEAN /\ at' \in {"testing", "failed"}
  BY <1>3
<1>7. Saves(<<Token("FlowStart", mark)>>)
  BY <1>3, <1>5, <1>6 DEF Saves
<1> QED BY <1>1, <1>3, <1>4, <1>5, <1>6, <1>7, SavedStep

\* "]" or "}" leaves the innermost level, and its key.
LEMMA FlowEndKeeps ==
  ASSUME ScannerInv, fetch_flow_collection_end, flowLevel # 0
  PROVE  ScannerInv'
<1>1. /\ at = "fetching" /\ started /\ ~tokenAvailable /\ ~ended /\ mark \in Position /\ over \in BOOLEAN
      /\ flowLevel \in Nat \ {0} /\ tokensParsed \in Nat /\ Len(tokens) \in Nat
      /\ simpleKeys \in Seq(KeyRecord) /\ Len(simpleKeys) = flowLevel + 1
      /\ DOMAIN simpleKeys = 1..(flowLevel + 1) /\ tokenAvailable \in BOOLEAN /\ UNCHANGED indents
  <2>1. at = "fetching"
    BY DEF fetch_flow_collection_end, Fetching
  <2> QED BY <2>1, FetchingKeys, TopKeyFacts DEF ScannerInv, ScannerTypes, Stages, fetch_flow_collection_end
<1>2. ~RemoveFails
  BY <1>1, RemovableKey
<1>3. /\ Skip /\ simpleKeys' = Front(simpleKeys) /\ flowLevel' = flowLevel - 1
      /\ simpleKeyAllowed' = FALSE /\ at' = "testing"
      /\ tokens' = tokens \o <<Token("FlowEnd", mark)>>
      /\ UNCHANGED <<over, tokensParsed, tokenAvailable, ended, delivered, blocks, started>>
  BY <1>1, <1>2 DEF fetch_flow_collection_end, RemoveError, Add, Done
<1> DEFINE ts == <<Token("FlowEnd", mark)>>
<1>4. /\ ts \in Seq(TokenRecord) /\ \A i \in DOMAIN ts : ts[i].mark = mark
      /\ WellFollowed(ts) /\ MatchIndents(ts) /\ Len(ts) = 1
  <2>1. "FlowEnd" \in Plain
    BY DEF Plain, TokenType, BlockStarts
  <2> QED BY <1>1, <2>1, PlainToken
<1>5. mark' \in Position /\ NotAfter(mark, mark') /\ NotAfter(mark, mark)
      /\ mark'.line = mark.line /\ mark'.column = mark.column + 1
  BY <1>1, <1>3, MarkFacts
<1> HIDE DEF ts
<1>6. Appends(ts, mark)
  BY <1>1, <1>3, <1>4, <1>5 DEF Appends, ts
<1>7. NextNumber \in Nat /\ NextNumber' = NextNumber + 1 /\ NextNumber >= tokensParsed
  <2>1. tokens \in Seq(TokenRecord) /\ tokens' = tokens \o ts
    BY <1>3 DEF ScannerInv, ScannerTypes, ts
  <2>2. Len(tokens') = Len(tokens) + 1
    <3>1. Len(tokens') = Len(tokens) + Len(ts)
      BY <1>4, <2>1, JoinFacts
    <3> QED BY <1>4, <3>1
  <2>3. NextNumber' = tokensParsed + (Len(tokens) + 1)
    BY <1>3, <2>2 DEF NextNumber
  <2> QED BY <1>1, <2>3 DEF NextNumber
<1>8. /\ simpleKeys' \in Seq(KeyRecord) /\ Len(simpleKeys') = flowLevel
      /\ \A i \in 1..flowLevel : simpleKeys'[i] = simpleKeys[i]
      /\ DOMAIN simpleKeys' = 1..flowLevel
  <2>1. simpleKeys # <<>>
    BY <1>1
  <2>2. /\ Front(simpleKeys) \in Seq(KeyRecord) /\ Len(Front(simpleKeys)) = Len(simpleKeys) - 1
        /\ \A i \in 1..(Len(simpleKeys) - 1) : Front(simpleKeys)[i] = simpleKeys[i]
    BY <1>1, <2>1, FrontFacts
  <2>3. Len(simpleKeys) - 1 = flowLevel
    BY <1>1
  <2>4. Len(simpleKeys') = flowLevel /\ simpleKeys' \in Seq(KeyRecord)
    BY <1>3, <2>2, <2>3
  <2> QED BY <1>3, <2>2, <2>3, <2>4
<1>9. \A i \in 1..flowLevel : i \in DOMAIN simpleKeys /\ i < Len(simpleKeys)
                              /\ simpleKeys[i] \in KeyRecord
  BY <1>1
<1>10. KeysPlaced'
  <2> SUFFICES ASSUME NEW i \in 1..flowLevel
               PROVE  /\ simpleKeys'[i].required => i = 1
                      /\ simpleKeys'[i].possible =>
                           /\ simpleKeys'[i].tokenNumber > 0
                           /\ simpleKeys'[i].tokenNumber >= tokensParsed'
                           /\ simpleKeys'[i].tokenNumber <= NextNumber'
                           /\ i < Len(simpleKeys') => simpleKeys'[i].tokenNumber < NextNumber'
                           /\ \/ simpleKeys'[i].mark.line < mark'.line
                              \/ /\ simpleKeys'[i].mark.line = mark'.line
                                 /\ simpleKeys'[i].mark.column < mark'.column
    BY <1>8 DEF KeysPlaced
  <2>1. /\ simpleKeys[i].required => i = 1
        /\ simpleKeys[i].possible =>
             /\ simpleKeys[i].tokenNumber > 0
             /\ simpleKeys[i].tokenNumber >= tokensParsed
             /\ simpleKeys[i].tokenNumber < NextNumber
             /\ \/ simpleKeys[i].mark.line < mark.line
                \/ simpleKeys[i].mark.line = mark.line /\ simpleKeys[i].mark.column < mark.column
    BY <1>9 DEF ScannerInv, KeysInv, KeysPlaced
  <2>2. simpleKeys[i].mark \in Position /\ simpleKeys[i].tokenNumber \in Nat
    BY <1>9 DEF KeyRecord
  <2>3. /\ simpleKeys[i].tokenNumber < NextNumber => simpleKeys[i].tokenNumber < NextNumber + 1
                                                     /\ simpleKeys[i].tokenNumber <= NextNumber + 1
        /\ simpleKeys[i].mark.column < mark.column => simpleKeys[i].mark.column < mark.column + 1
    BY <1>1, <1>7, <2>2 DEF Position
  <2>4. tokensParsed' = tokensParsed /\ simpleKeys'[i] = simpleKeys[i]
    BY <1>3, <1>8
  <2> QED BY <1>5, <1>7, <2>1, <2>3, <2>4
<1>11. KeysOrdered'
  BY <1>8, <1>9 DEF KeysOrdered, ScannerInv, KeysInv
<1>12. KeysFresh'
  BY <1>3 DEF KeysFresh
<1>13. Indented'
  <2>1. /\ indents'[1] = -1 /\ Rising' /\ Indent' = Indent
    BY <1>1, SameIndents
  <2>2. 1 \in 1..flowLevel
    BY <1>1
  <2>3. ASSUME simpleKeys'[1].possible, simpleKeys'[1].mark.line = mark'.line
        PROVE  Indent' <= simpleKeys'[1].mark.column
    <3>1. Here(simpleKeys[1]) /\ simpleKeys'[1] = simpleKeys[1]
      BY <1>5, <1>8, <2>2, <2>3 DEF Here
    <3> QED BY <1>1, <2>1, <3>1 DEF ScannerInv, KeysInv, Indented
  <2>4. at' # "fetching"
    BY <1>3
  <2> QED BY <2>1, <2>3, <2>4 DEF Indented, Here
<1>14. KeysChange(ts)
  <2> SUFFICES ASSUME NEW i \in 1..flowLevel, simpleKeys'[i].possible
               PROVE  /\ i \in DOMAIN simpleKeys /\ simpleKeys'[i] = simpleKeys[i]
                      /\ simpleKeys'[i].tokenNumber # NextNumber
    BY <1>8 DEF KeysChange
  <2>1. simpleKeys'[i] = simpleKeys[i] /\ simpleKeys[i].tokenNumber \in Nat
    BY <1>8, <1>9 DEF KeyRecord
  <2>2. simpleKeys[i].tokenNumber < NextNumber
    BY <1>9, <2>1 DEF ScannerInv, KeysInv, KeysPlaced
  <2>3. simpleKeys[i].tokenNumber # NextNumber
    BY <1>7, <2>1, <2>2
  <2> QED BY <1>9, <2>1, <2>3
<1>15. KeysInv'
  BY <1>10, <1>11, <1>12, <1>13 DEF KeysInv
<1>16. /\ indents' \in Seq(Int) /\ indents' # <<>> /\ over' \in BOOLEAN
       /\ at' \in {"idle", "testing", "skipping", "fetching", "failed"}
       /\ tokenAvailable' \in BOOLEAN /\ ~tokenAvailable' /\ simpleKeyAllowed' \in BOOLEAN
       /\ ended => ~tokenAvailable' /\ at' = "idle"
       /\ tokenAvailable' => at' = "idle" /\ tokens' # <<>> /\ ~HeldBack(simpleKeys)'
  <2>1. indents' \in Seq(Int) /\ indents' # <<>>
    BY <1>1, SameIndents
  <2> QED BY <1>1, <1>3, <2>1
<1>17. flowLevel' \in Nat /\ Len(simpleKeys') = flowLevel' + 1
  <2>1. flowLevel - 1 \in Nat /\ flowLevel = (flowLevel - 1) + 1
    BY <1>1
  <2> QED BY <1>3, <1>8, <2>1
<1> QED BY <1>1, <1>4, <1>6, <1>14, <1>15, <1>16, <1>17, AppendStep

-----------------------------------------------------------------------------
\* The delivery of the head of the queue.
LEMMA DequeueFacts ==
  ASSUME ScannerInv, Dequeue
  PROVE  /\ at = "idle" /\ tokenAvailable /\ tokens # <<>> /\ ~HeldBack(simpleKeys) /\ started
         /\ tokens \in Seq(TokenRecord) /\ tokensParsed \in Nat /\ blocks \in Int /\ mark \in Position
         /\ ~ended /\ delivered.mark \in Position
         /\ Len(tokens) \in Nat \ {0} /\ DOMAIN tokens = 1..Len(tokens)
         /\ Head(tokens) = tokens[1] /\ tokens[1] \in TokenRecord
         /\ Tail(tokens) \in Seq(TokenRecord) /\ Len(Tail(tokens)) = Len(tokens) - 1
         /\ \A i \in 1..(Len(tokens) - 1) : Tail(tokens)[i] = tokens[i + 1]
         /\ DOMAIN Tail(tokens) = 1..(Len(tokens) - 1)
         /\ \A i \in DOMAIN tokens : tokens[i] \in TokenRecord
         /\ delivered' = tokens[1] /\ tokens' = Tail(tokens) /\ tokensParsed' = tokensParsed + 1
         /\ tokenAvailable' = FALSE /\ ended' = (tokens[1].type = "StreamEnd")
         /\ UNCHANGED <<mark, over, simpleKeyAllowed, simpleKeys, flowLevel, indents, started, at>>
         /\ blocks' = blocks + Balance(tokens, 1) /\ blocks' \in Int
         /\ tokens[1].type = "BlockEnd" => blocks > 0
<1>1. /\ at = "idle" /\ tokenAvailable /\ tokens # <<>> /\ ~HeldBack(simpleKeys) /\ started
      /\ tokens \in Seq(TokenRecord) /\ tokensParsed \in Nat /\ blocks \in Int /\ mark \in Position
      /\ ~ended /\ delivered.mark \in Position
  BY DEF ScannerInv, ScannerTypes, Stages, Dequeue
<1>2. /\ Len(tokens) \in Nat \ {0} /\ DOMAIN tokens = 1..Len(tokens)
      /\ Head(tokens) = tokens[1] /\ tokens[1] \in TokenRecord
      /\ Tail(tokens) \in Seq(TokenRecord) /\ Len(Tail(tokens)) = Len(tokens) - 1
      /\ \A i \in 1..(Len(tokens) - 1) : Tail(tokens)[i] = tokens[i + 1]
      /\ DOMAIN Tail(tokens) = 1..(Len(tokens) - 1)
      /\ \A i \in DOMAIN tokens : tokens[i] \in TokenRecord
  <2>1. Len(tokens) \in Nat \ {0}
    BY <1>1, EmptySeq, LenProperties
  <2> QED BY <1>1, <2>1, HeadTailProperties, ElementOfSeq
<1>3. /\ delivered' = tokens[1] /\ tokens' = Tail(tokens) /\ tokensParsed' = tokensParsed + 1
      /\ tokenAvailable' = FALSE /\ ended' = (tokens[1].type = "StreamEnd")
      /\ UNCHANGED <<mark, over, simpleKeyAllowed, simpleKeys, flowLevel, indents, started, at>>
  BY <1>2 DEF Dequeue, inputVars, keyVars
<1>4. /\ blocks' = blocks + Balance(tokens, 1) /\ blocks' \in Int
      /\ tokens[1].type = "BlockEnd" => blocks > 0
  <2>1. /\ Balance(tokens, 0) = 0
        /\ tokens[0 + 1] \in TokenRecord =>
             Balance(tokens, 0 + 1) = Balance(tokens, 0)
               + (CASE tokens[0 + 1].type \in BlockStarts -> 1
                    [] tokens[0 + 1].type = "BlockEnd" -> -1
                    [] OTHER -> 0)
    BY BalanceFacts
  <2>2. 0 + 1 = 1 /\ "BlockEnd" \notin BlockStarts
    BY DEF BlockStarts
  <2>3. Balance(tokens, 1) = CASE tokens[1].type \in BlockStarts -> 1
                               [] tokens[1].type = "BlockEnd" -> -1
                               [] OTHER -> 0
    BY <1>2, <2>1, <2>2
  <2>4. blocks' = CASE tokens[1].type = "BlockEnd" -> blocks - 1
                    [] tokens[1].type \in BlockStarts -> blocks + 1
                    [] OTHER -> blocks
    BY <1>2 DEF Dequeue, BlockStarts
  <2>5. blocks + Balance(tokens, 1) >= 0
    <3>1. 1 \in 0..Len(tokens)
      BY <1>2
    <3> QED BY <3>1 DEF ScannerInv, StreamInv, Balanced
  <2> QED BY <1>1, <2>2, <2>3, <2>4, <2>5
<1> QED BY <1>1, <1>2, <1>3, <1>4

\* Delivering a token preserves the invariant.
LEMMA DequeueKeeps == ASSUME ScannerInv, Dequeue PROVE ScannerInv'
<1>1. /\ at = "idle" /\ tokenAvailable /\ tokens # <<>> /\ ~HeldBack(simpleKeys) /\ started
      /\ tokens \in Seq(TokenRecord) /\ tokensParsed \in Nat /\ blocks \in Int /\ mark \in Position
      /\ ~ended /\ delivered.mark \in Position
  BY DequeueFacts
<1>2. /\ Len(tokens) \in Nat \ {0} /\ DOMAIN tokens = 1..Len(tokens)
      /\ Head(tokens) = tokens[1] /\ tokens[1] \in TokenRecord
      /\ Tail(tokens) \in Seq(TokenRecord) /\ Len(Tail(tokens)) = Len(tokens) - 1
      /\ \A i \in 1..(Len(tokens) - 1) : Tail(tokens)[i] = tokens[i + 1]
      /\ DOMAIN Tail(tokens) = 1..(Len(tokens) - 1)
      /\ \A i \in DOMAIN tokens : tokens[i] \in TokenRecord
  BY DequeueFacts
<1>3. /\ delivered' = tokens[1] /\ tokens' = Tail(tokens) /\ tokensParsed' = tokensParsed + 1
      /\ tokenAvailable' = FALSE /\ ended' = (tokens[1].type = "StreamEnd")
      /\ UNCHANGED <<mark, over, simpleKeyAllowed, simpleKeys, flowLevel, indents, started, at>>
  BY DequeueFacts
<1>4. /\ tokens' \in Seq(TokenRecord) /\ Len(tokens') = Len(tokens) - 1
      /\ DOMAIN tokens' = 1..(Len(tokens) - 1)
      /\ \A i \in 1..(Len(tokens) - 1) : /\ tokens'[i] = tokens[i + 1] /\ i + 1 \in DOMAIN tokens
                                         /\ i + 1 > 1 /\ i \in Nat
  BY <1>2, <1>3
<1>5. blocks' = blocks + Balance(tokens, 1) /\ blocks' \in Int
  BY DequeueFacts
<1>6. ScannerTypes'
  <2>1. delivered' \in [type : TokenType \cup {"None"}, mark : Position]
    BY <1>2, <1>3 DEF TokenRecord
  <2>2. tokensParsed' \in Nat /\ tokenAvailable' \in BOOLEAN /\ ended' \in BOOLEAN
    <3>1. tokensParsed + 1 \in Nat
      BY <1>1
    <3>2. ended' \in BOOLEAN
      BY <1>3
    <3> QED BY <1>3, <3>1, <3>2
  <2> QED BY <1>3, <1>4, <1>5, <2>1, <2>2 DEF ScannerInv, ScannerTypes
<1>7. Stages'
  BY <1>1, <1>3 DEF ScannerInv, Stages
<1>8. NextNumber' = NextNumber /\ NextNumber \in Nat
  <2>1. tokensParsed' + Len(tokens') = (tokensParsed + 1) + (Len(tokens) - 1)
    BY <1>3, <1>4
  <2> QED BY <1>1, <1>2, <2>1 DEF NextNumber
<1>9. KeysPlaced'
  <2>1. \A i \in DOMAIN simpleKeys : simpleKeys[i].possible => simpleKeys[i].tokenNumber # tokensParsed
    BY <1>1 DEF HeldBack
  <2>2. \A i \in DOMAIN simpleKeys : simpleKeys[i].tokenNumber \in Nat
    <3>1. \A i \in DOMAIN simpleKeys : simpleKeys[i] \in KeyRecord
      BY DEF ScannerInv, ScannerTypes
    <3> QED BY <3>1 DEF KeyRecord
  <2>3. \A i \in DOMAIN simpleKeys : simpleKeys[i].possible => simpleKeys[i].tokenNumber >= tokensParsed + 1
    BY <1>1, <2>1, <2>2 DEF ScannerInv, KeysInv, KeysPlaced
  <2> QED BY <1>3, <1>8, <2>3 DEF ScannerInv, KeysInv, KeysPlaced
<1>10. KeysOrdered' /\ KeysFresh' /\ Indented'
  BY <1>3 DEF ScannerInv, KeysInv, KeysOrdered, KeysFresh, Indented, Rising, Here, TopKey, Indent
<1>11. Balanced'
  <2>1. ASSUME NEW n \in 0..(Len(tokens) - 1)
        PROVE  blocks' + Balance(tokens', n) = blocks + Balance(tokens, n + 1) /\ n + 1 \in 0..Len(tokens)
               /\ Balance(tokens, n + 1) \in Int
    <3> DEFINE t == tokens'
    <3>1. \A i \in 1..n : tokens[1 + i] = t[i]
      <4>1. \A i \in 1..n : i \in 1..(Len(tokens) - 1) /\ 1 + i = i + 1
        BY <1>2
      <4> QED BY <1>4, <4>1
    <3> HIDE DEF t
    <3>2. ASSUME NEW X PROVE CountIn(tokens, X, 1 + n) = CountIn(tokens, X, 1) + CountIn(t, X, n)
      <4>1. n \in Nat /\ 1 \in Nat
        BY <1>2
      <4> QED BY <3>1, <4>1, CountShift
    <3>3. 1 + n = n + 1 /\ n \in Nat /\ n + 1 \in Nat /\ n + 1 \in 0..Len(tokens)
      BY <1>2
    <3>4. ASSUME NEW X PROVE CountIn(tokens, X, 1) \in Int /\ CountIn(t, X, n) \in Int
      BY <3>3, CountFacts
    <3>5. Balance(tokens, n + 1) = Balance(tokens, 1) + Balance(t, n)
      BY <3>2, <3>3, <3>4 DEF Balance
    <3>6. Balance(tokens, 1) \in Int /\ Balance(t, n) \in Int /\ Balance(tokens, n + 1) \in Int
      BY <3>3, BalanceFacts
    <3> QED BY <1>1, <1>5, <3>3, <3>5, <3>6 DEF t
  <2>2. ASSUME NEW n \in 0..Len(tokens') PROVE blocks' + Balance(tokens', n) >= 0
    <3>1. n \in 0..(Len(tokens) - 1)
      BY <1>4
    <3>2. blocks' + Balance(tokens', n) = blocks + Balance(tokens, n + 1) /\ n + 1 \in 0..Len(tokens)
      BY <2>1, <3>1
    <3> QED BY <3>2 DEF ScannerInv, StreamInv, Balanced
  <2>3. blocks' + Balance(tokens', Len(tokens')) = Len(indents') - 1
    <3>1. Len(tokens) - 1 \in 0..(Len(tokens) - 1) /\ (Len(tokens) - 1) + 1 = Len(tokens)
      BY <1>2
    <3>2. blocks' + Balance(tokens', Len(tokens) - 1) = blocks + Balance(tokens, Len(tokens))
      BY <2>1, <3>1
    <3> QED BY <1>3, <1>4, <3>2 DEF ScannerInv, StreamInv, Balanced
  <2> QED BY <2>2, <2>3 DEF Balanced, Balance, CountIn
<1>12. 1 \in DOMAIN tokens
  BY <1>2
<1>13. InInputOrder'
  <2>1. NotAfter(tokens[1].mark, mark)
    BY <1>12 DEF ScannerInv, StreamInv, InInputOrder
  <2>2. ASSUME NEW i \in 1..(Len(tokens) - 1)
        PROVE  NotAfter(tokens[1].mark, tokens[i + 1].mark) /\ NotAfter(tokens[i + 1].mark, mark)
    <3>1. i + 1 \in DOMAIN tokens /\ 1 < i + 1
      BY <1>4
    <3> QED BY <1>12, <3>1 DEF ScannerInv, StreamInv, InInputOrder
  <2>3. ASSUME NEW i \in 1..(Len(tokens) - 1), NEW j \in 1..(Len(tokens) - 1), i < j
        PROVE  NotAfter(tokens[i + 1].mark, tokens[j + 1].mark)
    <3>1. i + 1 \in DOMAIN tokens /\ j + 1 \in DOMAIN tokens /\ i + 1 < j + 1
      BY <1>4, <2>3
    <3> QED BY <3>1 DEF ScannerInv, StreamInv, InInputOrder
  <2> QED BY <1>3, <1>4, <2>1, <2>2, <2>3, SMTT(30) DEF InInputOrder
<1>14. KeysInInputOrder'
  <2> SUFFICES ASSUME NEW i \in DOMAIN simpleKeys, simpleKeys[i].possible
               PROVE  /\ NotAfter(tokens[1].mark, simpleKeys[i].mark)
                      /\ \A n \in 1..(Len(tokens) - 1) :
                           IF (tokensParsed + 1) + n <= simpleKeys[i].tokenNumber
                           THEN NotAfter(tokens[n + 1].mark, simpleKeys[i].mark)
                           ELSE NotAfter(simpleKeys[i].mark, tokens[n + 1].mark)
    BY <1>3, <1>4 DEF KeysInInputOrder
  <2>1. \A n \in DOMAIN tokens : IF tokensParsed + n <= simpleKeys[i].tokenNumber
                                 THEN NotAfter(tokens[n].mark, simpleKeys[i].mark)
                                 ELSE NotAfter(simpleKeys[i].mark, tokens[n].mark)
    BY DEF ScannerInv, StreamInv, KeysInInputOrder
  <2>2. tokensParsed + 1 <= simpleKeys[i].tokenNumber
    BY <1>3, <1>9 DEF KeysPlaced
  <2>3. \A n \in 1..(Len(tokens) - 1) : n + 1 \in DOMAIN tokens /\ (tokensParsed + 1) + n = tokensParsed + (n + 1)
    BY <1>1, <1>2
  <2> QED BY <1>12, <2>1, <2>2, <2>3
<1>15. Followed'
  <2>1. tokens[1].type \in BlockStarts => tokens' # <<>>
    <3> SUFFICES ASSUME tokens[1].type \in BlockStarts PROVE Len(tokens') # 0
      BY <1>4
    <3>1. 1 < Len(tokens)
      BY <1>12 DEF ScannerInv, StreamInv, Followed
    <3> QED BY <1>2, <1>4, <3>1
  <2>2. tokens' # <<>> => GoesOn(tokens[1].type, tokens'[1].type)
    <3> SUFFICES ASSUME tokens' # <<>> PROVE GoesOn(tokens[1].type, tokens'[1].type)
      OBVIOUS
    <3>1. Len(tokens') # 0
      BY <1>4, EmptySeq
    <3>2. 1 \in 1..(Len(tokens) - 1) /\ 1 < Len(tokens) /\ 1 + 1 = 2
      BY <1>2, <1>4, <3>1
    <3>3. tokens'[1] = tokens[1 + 1]
      BY <1>4, <3>2
    <3> QED BY <1>12, <3>2, <3>3 DEF ScannerInv, StreamInv, Followed
  <2>3. ASSUME NEW i \in 1..(Len(tokens) - 1)
        PROVE  /\ tokens'[i].type \in BlockStarts => i < Len(tokens')
               /\ i < Len(tokens') => GoesOn(tokens'[i].type, tokens'[i + 1].type)
    <3>1. i + 1 \in DOMAIN tokens /\ tokens'[i] = tokens[i + 1]
          /\ (i < Len(tokens) - 1 <=> i + 1 < Len(tokens))
      BY <1>2, <1>4
    <3>2. i < Len(tokens) - 1 => tokens'[i + 1] = tokens[(i + 1) + 1]
      <4> SUFFICES ASSUME i < Len(tokens) - 1 PROVE i + 1 \in 1..(Len(tokens) - 1)
        BY <1>4
      <4> QED BY <1>2
    <3>3. /\ tokens[i + 1].type \in BlockStarts => i + 1 < Len(tokens)
          /\ i + 1 < Len(tokens) => GoesOn(tokens[i + 1].type, tokens[(i + 1) + 1].type)
      BY <3>1 DEF ScannerInv, StreamInv, Followed
    <3> QED BY <1>4, <3>1, <3>2, <3>3
  <2> QED BY <1>3, <1>4, <2>1, <2>2, <2>3 DEF Followed
<1>16. KeysPoint'
  <2> SUFFICES ASSUME NEW i \in DOMAIN simpleKeys, simpleKeys[i].possible,
                      simpleKeys[i].mark.line = mark.line,
                      simpleKeys[i].tokenNumber - (tokensParsed + 1) < Len(tokens) - 1
               PROVE  tokens'[simpleKeys[i].tokenNumber - (tokensParsed + 1) + 1].type \in KeyStarts
    BY <1>3, <1>4 DEF KeysPoint, Here
  <2>1. simpleKeys[i].tokenNumber \in Nat /\ tokensParsed + 1 <= simpleKeys[i].tokenNumber
    <3>1. simpleKeys[i] \in KeyRecord
      BY DEF ScannerInv, ScannerTypes
    <3> QED BY <1>3, <1>9, <3>1 DEF KeysPlaced, KeyRecord
  <2> DEFINE n == simpleKeys[i].tokenNumber - tokensParsed
  <2>2. /\ n \in 1..(Len(tokens) - 1) /\ n < Len(tokens)
        /\ simpleKeys[i].tokenNumber - (tokensParsed + 1) + 1 = n
    BY <1>1, <1>2, <2>1
  <2>3. tokens[n + 1].type \in KeyStarts
    BY <2>2 DEF ScannerInv, StreamInv, KeysPoint, Here
  <2> HIDE DEF n
  <2>4. tokens'[n] = tokens[n + 1]
    BY <1>4, <2>2
  <2> QED BY <2>2, <2>3, <2>4
<1>17. StreamFramed'
  <2>1. delivered'.type # "None"
    BY <1>2, <1>3 DEF TokenRecord, TokenType
  <2>2. tokensParsed' # 0
    <3>1. tokensParsed + 1 # 0
      BY <1>1
    <3> QED BY <1>3, <3>1
  <2>3. ASSUME NEW i \in 1..(Len(tokens) - 1) PROVE tokens'[i].type # "StreamStart"
    <3>1. i + 1 \in DOMAIN tokens /\ i + 1 # 1 /\ tokens'[i] = tokens[i + 1]
      BY <1>4
    <3> QED BY <3>1 DEF ScannerInv, StreamInv, StreamFramed
  <2>4. delivered'.type = "StreamEnd" => ended'
    BY <1>3
  <2> QED BY <1>4, <2>1, <2>2, <2>3, <2>4 DEF StreamFramed
<1> QED BY <1>6, <1>7, <1>9, <1>10, <1>11, <1>13, <1>14, <1>15, <1>16, <1>17
        DEF ScannerInv, KeysInv, StreamInv

-----------------------------------------------------------------------------
\* The tokens put in before a simple key.  The n tokens of s behind the first
\* l are those of t behind the first k.
SameTokens(s, l, t, k, n) == \A i \in 1..n : s[l + i] = t[k + i]

LEMMA BalanceShift ==
  ASSUME NEW s, NEW t, NEW l \in Nat, NEW k \in Nat, NEW n \in Nat, SameTokens(s, l, t, k, n)
  PROVE  Balance(s, l + n) - Balance(s, l) = Balance(t, k + n) - Balance(t, k)
<1> DEFINE u == [i \in 1..n |-> t[k + i]]
<1>1. /\ \A i \in 1..n : s[l + i] = u[i]
      /\ \A i \in 1..n : t[k + i] = u[i]
  BY DEF SameTokens
<1> HIDE DEF u
<1>2. ASSUME NEW X
      PROVE  /\ CountIn(s, X, l + n) = CountIn(s, X, l) + CountIn(u, X, n)
             /\ CountIn(t, X, k + n) = CountIn(t, X, k) + CountIn(u, X, n)
             /\ CountIn(s, X, l) \in Int /\ CountIn(t, X, k) \in Int /\ CountIn(u, X, n) \in Int
  <2>1. CountIn(s, X, l + n) = CountIn(s, X, l) + CountIn(u, X, n)
    <3>1. \A i \in 1..n : s[l + i] = u[i]
      BY <1>1
    <3> QED BY <3>1, CountShift
  <2>2. CountIn(t, X, k + n) = CountIn(t, X, k) + CountIn(u, X, n)
    <3>1. \A i \in 1..n : t[k + i] = u[i]
      BY <1>1
    <3> QED BY <3>1, CountShift
  <2>3. CountIn(s, X, l) \in Int /\ CountIn(t, X, k) \in Int /\ CountIn(u, X, n) \in Int
    BY CountFacts
  <2> QED BY <2>1, <2>2, <2>3
<1> QED BY <1>2 DEF Balance

LEMMA ConcatFacts ==
  ASSUME NEW s \in Seq(TokenRecord), NEW t \in Seq(TokenRecord)
  PROVE  /\ s \o t \in Seq(TokenRecord)
         /\ Len(s \o t) = Len(s) + Len(t)
         /\ \A i \in 1..Len(s) : (s \o t)[i] = s[i]
         /\ \A i \in 1..Len(t) : (s \o t)[Len(s) + i] = t[i]
OBVIOUS

\* The queue before and after: the key's token is the one behind the first n,
\* and the first of as many as are put in is at its place.
Inserted(q, s, a, v, n) ==
  /\ q \in Seq(TokenRecord) /\ Len(q) = Len(s) + Len(a) + 1
  /\ \A i \in 1..n : q[i] = s[i]
  /\ \A i \in 1..Len(a) : q[n + i] = a[i]
  /\ \A i \in 1..(Len(s) - n) : q[(n + Len(a)) + i] = s[n + i]
  /\ q[Len(s) + Len(a) + 1] = v

LEMMA InsertFacts ==
  ASSUME NEW s \in Seq(TokenRecord), NEW a \in Seq(TokenRecord), NEW v \in TokenRecord,
         NEW n \in 0..Len(s)
  PROVE  Inserted(SubSeq(s, 1, n) \o a \o SubSeq(s, n + 1, Len(s)) \o <<v>>, s, a, v, n)
<1> DEFINE l == Len(s)
           p == SubSeq(s, 1, n)
           r == SubSeq(s, n + 1, l)
<1>1. l \in Nat /\ Len(a) \in Nat /\ n \in Nat /\ n <= l
  OBVIOUS
<1>2. p \in Seq(TokenRecord) /\ Len(p) = n /\ \A i \in 1..n : p[i] = s[i]
  <2>1. \A i \in 1..n : s[i] \in TokenRecord
    BY <1>1
  <2>2. /\ SubSeq(s, 1, n) \in Seq(TokenRecord)
        /\ Len(SubSeq(s, 1, n)) = IF 1 <= n THEN n - 1 + 1 ELSE 0
        /\ \A i \in 1 .. n - 1 + 1 : SubSeq(s, 1, n)[i] = s[1 + i - 1]
    BY <1>1, <2>1, SubSeqProperties
  <2>3. n - 1 + 1 = n /\ \A i \in 1..n : 1 + i - 1 = i
    BY <1>1
  <2> QED BY <1>1, <2>2, <2>3
<1>3. r \in Seq(TokenRecord) /\ Len(r) = l - n /\ \A i \in 1..(l - n) : r[i] = s[n + i]
  <2>1. \A i \in (n + 1)..l : s[i] \in TokenRecord
    BY <1>1
  <2> HIDE DEF l
  <2>2. n + 1 \in Int /\ l \in Int
    BY <1>1
  <2>3. /\ SubSeq(s, n + 1, l) \in Seq(TokenRecord)
        /\ Len(SubSeq(s, n + 1, l)) = IF n + 1 <= l THEN l - (n + 1) + 1 ELSE 0
        /\ \A i \in 1 .. l - (n + 1) + 1 : SubSeq(s, n + 1, l)[i] = s[(n + 1) + i - 1]
    BY <2>1, <2>2, SubSeqProperties
  <2>4. l - (n + 1) + 1 = l - n /\ \A i \in 1..(l - n) : (n + 1) + i - 1 = n + i
    BY <1>1
  <2>5. (IF n + 1 <= l THEN l - (n + 1) + 1 ELSE 0) = l - n
    BY <1>1
  <2> QED BY <2>3, <2>4, <2>5
<1> DEFINE pa == p \o a
           par == pa \o r
           q == par \o <<v>>
<1> HIDE DEF p, r, l
<1>4. /\ pa \in Seq(TokenRecord) /\ Len(pa) = n + Len(a)
      /\ \A i \in 1..n : pa[i] = s[i]
      /\ \A i \in 1..Len(a) : pa[n + i] = a[i]
  <2>1. /\ pa \in Seq(TokenRecord) /\ Len(pa) = Len(p) + Len(a)
        /\ \A i \in 1..Len(p) : pa[i] = p[i]
        /\ \A i \in 1..Len(a) : pa[Len(p) + i] = a[i]
    BY <1>2, ConcatFacts
  <2> HIDE DEF pa
  <2> QED BY <1>2, <2>1
<1> HIDE DEF pa
<1>5. /\ par \in Seq(TokenRecord) /\ Len(par) = l + Len(a)
      /\ \A i \in 1..(n + Len(a)) : par[i] = pa[i]
      /\ \A i \in 1..(l - n) : par[(n + Len(a)) + i] = s[n + i]
  <2>1. /\ par \in Seq(TokenRecord) /\ Len(par) = Len(pa) + Len(r)
        /\ \A i \in 1..Len(pa) : par[i] = pa[i]
        /\ \A i \in 1..Len(r) : par[Len(pa) + i] = r[i]
    BY <1>3, <1>4, ConcatFacts
  <2>2. (n + Len(a)) + (l - n) = l + Len(a)
    BY <1>1
  <2> HIDE DEF par
  <2> QED BY <1>3, <1>4, <2>1, <2>2
<1> HIDE DEF par
<1>6. /\ q \in Seq(TokenRecord) /\ Len(q) = l + Len(a) + 1
      /\ \A i \in 1..(l + Len(a)) : q[i] = par[i]
      /\ q[l + Len(a) + 1] = v
  <2> DEFINE z == <<v>>
  <2>1. z \in Seq(TokenRecord) /\ Len(z) = 1 /\ z[1] = v /\ 1 \in 1..1
    OBVIOUS
  <2>2. q = par \o z
    OBVIOUS
  <2> HIDE DEF z, q
  <2>3. /\ q \in Seq(TokenRecord) /\ Len(q) = Len(par) + Len(z)
        /\ \A i \in 1..Len(par) : q[i] = par[i]
        /\ \A i \in 1..Len(z) : q[Len(par) + i] = z[i]
    BY <1>5, <2>1, <2>2, ConcatFacts
  <2> QED BY <1>5, <2>1, <2>3
<1> HIDE DEF q
<1>7. \A i \in 1..n : q[i] = s[i]
  <2>1. \A i \in 1..n : i \in 1..(n + Len(a)) /\ i \in 1..(l + Len(a))
    BY <1>1
  <2> QED BY <1>4, <1>5, <1>6, <2>1
<1>8. \A i \in 1..Len(a) : q[n + i] = a[i]
  <2>1. \A i \in 1..Len(a) : n + i \in 1..(n + Len(a)) /\ n + i \in 1..(l + Len(a))
    BY <1>1
  <2> QED BY <1>4, <1>5, <1>6, <2>1
<1>9. \A i \in 1..(l - n) : q[(n + Len(a)) + i] = s[n + i]
  <2>1. \A i \in 1..(l - n) : (n + Len(a)) + i \in 1..(l + Len(a))
    BY <1>1
  <2> QED BY <1>5, <1>6, <2>1
<1>10. Inserted(q, s, a, v, n)
  BY <1>6, <1>7, <1>8, <1>9 DEF Inserted, l
<1> QED BY <1>10 DEF q, par, pa, p, r, l

\* The tokens that announce a key.
LEMMA KeyTokens ==
  ASSUME ScannerInv, started, NEW column, column \in Int, indents' = Rolled(column),
         NEW m, m \in Position
  PROVE  LET ts == Append(Opener("BlockMappingStart", column, m), Token("Key", m))
         IN /\ ts \in Seq(TokenRecord) /\ \A i \in DOMAIN ts : ts[i].mark = m
            /\ WellFollowed(ts) /\ MatchIndents(ts)
            /\ Len(ts) \in {1, 2} /\ ts[Len(ts)] = Token("Key", m)
            /\ \A n \in 0..Len(ts) : Balance(ts, n) >= 0
            /\ indents' \in Seq(Int) /\ indents' # <<>>
            /\ indents'[1] = -1 /\ Rising'
            /\ Indent' \in Int
            /\ flowLevel # 0 => indents' = indents
<1>1. PICK type \in BlockStarts, next \in Plain :
        type = "BlockMappingStart" /\ next = "Key" /\ GoesOn(type, next)
  BY DEF BlockStarts, Plain, TokenType, GoesOn
<1> QED BY <1>1, OpeningTokens

\* ":" after a simple key.
LEMMA ValueOfKeyKeeps == ASSUME ScannerInv, at = "fetching", ValueOfKey, Done PROVE ScannerInv'
<1> DEFINE k == TopKey
           K == TopKey.mark
           n == TopKey.tokenNumber - tokensParsed
           l == Len(tokens)
           A == Announced(TopKey)
           a == Len(Announced(TopKey))
           v == Token("Value", mark)
<1>1. /\ started /\ ~tokenAvailable /\ ~ended /\ mark \in Position /\ over \in BOOLEAN
      /\ flowLevel \in Nat /\ tokensParsed \in Nat /\ tokens \in Seq(TokenRecord) /\ l \in Nat
      /\ Len(simpleKeys) = flowLevel + 1 /\ DOMAIN simpleKeys = 1..(flowLevel + 1)
      /\ tokenAvailable \in BOOLEAN /\ blocks \in Int /\ DOMAIN tokens = 1..l
      /\ delivered.mark \in Position
      /\ \A i \in DOMAIN tokens : tokens[i] \in TokenRecord /\ tokens[i].mark \in Position
  <2>1. tokens \in Seq(TokenRecord)
    BY DEF ScannerInv, ScannerTypes
  <2>2. \A i \in DOMAIN tokens : tokens[i] \in TokenRecord
    BY <2>1
  <2>3. \A i \in DOMAIN tokens : tokens[i].mark \in Position
    BY <2>2 DEF TokenRecord
  <2> QED BY <2>1, <2>2, <2>3, FetchingKeys, TopKeyFacts DEF ScannerInv, ScannerTypes, Stages
<1>2. /\ k.possible /\ k \in KeyRecord /\ k = simpleKeys[flowLevel + 1] /\ flowLevel + 1 \in DOMAIN simpleKeys
      /\ Here(k) /\ K.column < mark.column /\ K.line = mark.line /\ K \in Position
      /\ k.tokenNumber > 0 /\ k.tokenNumber \in Nat /\ k.tokenNumber = tokensParsed + n /\ n \in 0..l
  <2>1. /\ k.possible /\ k \in KeyRecord /\ k = simpleKeys[flowLevel + 1] /\ flowLevel + 1 \in DOMAIN simpleKeys
    BY <1>1, TopKeyFacts DEF ScannerInv, ValueOfKey
  <2>2. Here(k) /\ K.column < mark.column /\ K.line = mark.line
    BY <2>1, FetchingKeys DEF Here
  <2>3. k.tokenNumber > 0 /\ k.tokenNumber >= tokensParsed /\ k.tokenNumber <= NextNumber
    BY <2>1 DEF ScannerInv, KeysInv, KeysPlaced
  <2>4. k.tokenNumber \in Nat /\ K \in Position
    BY <2>1 DEF KeyRecord
  <2>5. n \in 0..l /\ k.tokenNumber = tokensParsed + n
    BY <1>1, <2>3, <2>4 DEF NextNumber
  <2> QED BY <2>1, <2>2, <2>3, <2>4, <2>5
<1>3. /\ Skip /\ simpleKeys' = Removed /\ simpleKeyAllowed' = FALSE /\ flowLevel' = flowLevel
      /\ at' = "testing" /\ indents' = Rolled(K.column)
      /\ tokens' = SubSeq(tokens, 1, n) \o A \o SubSeq(tokens, n + 1, l) \o <<v>>
      /\ UNCHANGED <<over, tokensParsed, tokenAvailable, ended, delivered, blocks, started>>
  BY DEF ValueOfKey, Done
<1>4. /\ A \in Seq(TokenRecord) /\ \A i \in DOMAIN A : A[i].mark = K
      /\ WellFollowed(A) /\ MatchIndents(A)
      /\ a \in {1, 2} /\ A[a] = Token("Key", K)
      /\ \A i \in 0..a : Balance(A, i) >= 0
      /\ indents' \in Seq(Int) /\ indents' # <<>> /\ indents'[1] = -1 /\ Rising' /\ Indent' \in Int
      /\ flowLevel # 0 => indents' = indents
  <2>1. /\ "BlockMappingStart" \in BlockStarts /\ "Key" \in Plain /\ GoesOn("BlockMappingStart", "Key")
    BY DEF BlockStarts, Plain, TokenType, GoesOn
  <2>2. K.column \in Int /\ K \in Position /\ indents' = Rolled(K.column)
    BY <1>2, <1>3 DEF Position
  <2>3. A = Append(Opener("BlockMappingStart", K.column, K), Token("Key", K))
    BY DEF Announced
  <2>4. a = Len(A)
    OBVIOUS
  <2> HIDE DEF K, A, a
  <2>5. A \in Seq(TokenRecord) /\ (\A i \in DOMAIN A : A[i].mark = K) /\ WellFollowed(A) /\ MatchIndents(A)
    BY <1>1, <2>2, <2>3, KeyTokens
  <2>6. Len(A) \in {1, 2} /\ A[Len(A)] = Token("Key", K) /\ \A i \in 0..Len(A) : Balance(A, i) >= 0
    BY <1>1, <2>2, <2>3, KeyTokens
  <2>7. /\ indents' \in Seq(Int) /\ indents' # <<>> /\ indents'[1] = -1 /\ Rising' /\ Indent' \in Int
        /\ flowLevel # 0 => indents' = indents
    BY <1>1, <2>2, KeyTokens
  <2> QED BY <2>4, <2>5, <2>6, <2>7
<1>5. /\ mark' \in Position /\ NotAfter(mark, mark') /\ mark'.line = mark.line
      /\ NotAfter(K, mark) /\ K \in Position /\ NotAfter(K, K) /\ NotAfter(mark, mark)
      /\ v \in TokenRecord /\ v.mark = mark /\ v.type = "Value"
  <2>1. NotAfter(K, mark)
    BY <1>1, <1>2 DEF NotAfter, Stream!NotAfter, Position
  <2>2. v \in TokenRecord /\ v.mark = mark /\ v.type = "Value"
    BY <1>1 DEF Token, TokenRecord, TokenType
  <2> HIDE DEF K, v
  <2> QED BY <1>1, <1>2, <1>3, <2>1, <2>2, MarkFacts, PositionFacts
<1> HIDE DEF k, K, n, l, A, a, v
<1>6. a \in Nat /\ a = Len(A) /\ l = Len(tokens) /\ DOMAIN A = 1..a /\ n \in Nat /\ n <= l /\ a > 0
  <2>1. a = Len(A) /\ l = Len(tokens)
    BY DEF a, A, l
  <2> QED BY <1>1, <1>2, <1>4, <2>1, SMTT(30)
\* The new queue, by the places of its tokens.
<1>7. /\ tokens' \in Seq(TokenRecord) /\ Len(tokens') = l + a + 1
      /\ DOMAIN tokens' = 1..(l + a + 1)
      /\ \A i \in 1..n : tokens'[i] = tokens[i]
      /\ \A i \in 1..a : tokens'[n + i] = A[i]
      /\ \A i \in 1..(l - n) : tokens'[(n + a) + i] = tokens[n + i]
      /\ tokens'[l + a + 1] = v
  <2>1. n \in 0..Len(tokens) /\ tokens' = SubSeq(tokens, 1, n) \o A \o SubSeq(tokens, n + 1, Len(tokens)) \o <<v>>
    BY <1>2, <1>3, <1>6
  <2>2. /\ tokens' \in Seq(TokenRecord) /\ Len(tokens') = Len(tokens) + Len(A) + 1
        /\ \A i \in 1..n : tokens'[i] = tokens[i]
        /\ \A i \in 1..Len(A) : tokens'[n + i] = A[i]
        /\ \A i \in 1..(Len(tokens) - n) : tokens'[(n + Len(A)) + i] = tokens[n + i]
        /\ tokens'[Len(tokens) + Len(A) + 1] = v
    <3>1. /\ A \in Seq(TokenRecord) /\ v \in TokenRecord /\ tokens \in Seq(TokenRecord)
          /\ n \in 0..Len(tokens)
      BY <1>1, <1>4, <1>5, <2>1
    <3> DEFINE q == SubSeq(tokens, 1, n) \o A \o SubSeq(tokens, n + 1, Len(tokens)) \o <<v>>
    <3>2. Inserted(q, tokens, A, v, n)
      BY <3>1, InsertFacts
    <3> HIDE DEF q
    <3>3. tokens' = q
      BY <2>1 DEF q
    <3>4. Inserted(tokens', tokens, A, v, n)
      BY <3>2, <3>3
    <3> QED BY <3>4 DEF Inserted
  <2>3. Len(tokens') = l + a + 1
    BY <1>6, <2>2
  <2> QED BY <1>6, <2>2, <2>3
<1>8. ASSUME NEW i \in 1..(l + a + 1)
      PROVE  \/ i \in 1..n
             \/ \E j \in 1..a : i = n + j
             \/ \E j \in 1..(l - n) : i = (n + a) + j
             \/ i = l + a + 1
  <2>1. i > n /\ i <= n + a => i - n \in 1..a /\ i = n + (i - n)
    BY <1>1, <1>6
  <2>2. i > n + a /\ i <= l + a => i - (n + a) \in 1..(l - n) /\ i = (n + a) + (i - (n + a))
    BY <1>1, <1>6
  <2>3. i <= n \/ (i > n /\ i <= n + a) \/ (i > n + a /\ i <= l + a) \/ i = l + a + 1
    BY <1>1, <1>6
  <2>4. CASE i <= n
    <3>1. i \in 1..n
      BY <2>4
    <3> QED BY <3>1
  <2>5. CASE i > n /\ i <= n + a
    BY <2>1, <2>5
  <2>6. CASE i > n + a /\ i <= l + a
    BY <2>2, <2>6
  <2> QED BY <2>3, <2>4, <2>5, <2>6
<1>9. /\ \A i \in 1..n : i \in DOMAIN tokens
      /\ \A i \in 1..(l - n) : n + i \in DOMAIN tokens
  BY <1>1, <1>6
<1>10. KeysKept /\ ~simpleKeys'[flowLevel + 1].possible /\ DOMAIN simpleKeys' = DOMAIN simpleKeys
  <2>1. KeysKept /\ ~simpleKeys'[flowLevel + 1].possible
    BY <1>1, <1>3, KeptFacts
  <2>2. Len(simpleKeys') = flowLevel + 1 /\ simpleKeys' \in Seq(KeyRecord)
    BY <1>1, <2>1 DEF KeysKept
  <2> QED BY <1>1, <2>1, <2>2
\* The keys that stay stand before the one that is used.
<1>11. ASSUME NEW i \in DOMAIN simpleKeys', simpleKeys'[i].possible
       PROVE  /\ i \in DOMAIN simpleKeys /\ simpleKeys'[i] = simpleKeys[i]
              /\ simpleKeys[i] \in KeyRecord /\ simpleKeys[i].tokenNumber \in Nat
              /\ simpleKeys[i].mark \in Position
              /\ simpleKeys[i].tokenNumber < tokensParsed + n
              /\ simpleKeys[i].tokenNumber >= tokensParsed
  <2>1. i \in DOMAIN simpleKeys /\ simpleKeys'[i] = simpleKeys[i]
    BY <1>10, <1>11 DEF KeysKept
  <2>2. simpleKeys[i] \in KeyRecord
    BY <2>1 DEF ScannerInv, ScannerTypes
  <2>3. i < flowLevel + 1
    BY <1>1, <1>10, <1>11, <2>1
  <2>4. simpleKeys[i].tokenNumber < k.tokenNumber /\ simpleKeys[i].tokenNumber >= tokensParsed
    BY <1>2, <1>11, <2>1, <2>3 DEF ScannerInv, KeysInv, KeysOrdered, KeysPlaced
  <2>5. simpleKeys[i].tokenNumber \in Nat /\ simpleKeys[i].mark \in Position
    BY <2>2 DEF KeyRecord
  <2> QED BY <1>2, <2>1, <2>2, <2>4, <2>5
<1>12. KeysInv'
  <2>1. UNCHANGED <<tokensParsed, started, flowLevel>>
    BY <1>3
  <2>2. Len(tokens') \in Nat /\ Len(tokens') >= Len(tokens)
    BY <1>1, <1>6, <1>7
  <2>3. simpleKeys'[1].possible => Indent' <= Indent
    <3>1. simpleKeys'[1].possible => flowLevel # 0
      BY <1>10
    <3>2. flowLevel # 0 => Indent' <= Indent
      BY <1>1, <1>4, SameIndents
    <3> QED BY <3>1, <3>2
  <2>4. at' # "fetching"
    BY <1>3
  <2> QED BY <1>1, <1>4, <1>5, <1>10, <2>1, <2>2, <2>3, <2>4, KeptKeys
<1>13. ScannerTypes' /\ Stages'
  <2>1. simpleKeys' \in Seq(KeyRecord) /\ Len(simpleKeys') = flowLevel + 1
    BY <1>1, <1>10 DEF KeysKept
  <2>2. mark' \in Position /\ simpleKeyAllowed' \in BOOLEAN
        /\ at' \in {"idle", "testing", "skipping", "fetching", "failed"}
    BY <1>3, <1>5
  <2>3. ScannerTypes'
    BY <1>3, <1>4, <1>7, <2>1, <2>2 DEF ScannerInv, ScannerTypes
  <2>4. Stages'
    BY <1>1, <1>3, <2>1 DEF Stages
  <2> QED BY <2>3, <2>4
<1>14. Balanced'
  <2> DEFINE B(i) == Balance(tokens', i)
             T(i) == Balance(tokens, i)
             D(i) == Balance(A, i)
  <2>1. ASSUME NEW i \in 0..n PROVE B(i) = T(i)
    <3>1. i \in Nat /\ \A j \in 1..i : tokens'[j] = tokens[j]
      BY <1>6, <1>7
    <3>2. ASSUME NEW X PROVE CountIn(tokens', X, i) = CountIn(tokens, X, i)
      <4>1. \A j \in 1..i : tokens'[j] \in X <=> tokens[j] \in X
        BY <3>1
      <4> QED BY <3>1, <4>1, CountSame
    <3> QED BY <3>2 DEF Balance
  <2>2. ASSUME NEW i \in 0..a PROVE B(n + i) = T(n) + D(i)
    <3>1. \A j \in 1..i : tokens'[n + j] = A[0 + j]
      <4>1. \A j \in 1..i : j \in 1..a /\ 0 + j = j
        BY <1>6
      <4> QED BY <1>7, <4>1
    <3>2. i \in Nat /\ n \in Nat /\ 0 \in Nat /\ 0 + i = i /\ n \in 0..n
      BY <1>6
    <3>3. B(n + i) - B(n) = Balance(A, 0 + i) - Balance(A, 0)
      <4>1. SameTokens(tokens', n, A, 0, i)
        BY <3>1 DEF SameTokens
      <4> QED BY <3>2, <4>1, BalanceShift
    <3>4. B(n) = T(n) /\ Balance(A, 0) = 0
      BY <2>1, <3>2, BalanceFacts
    <3>5. n + i \in Nat
      BY <3>2
    <3>6. B(n + i) \in Int /\ B(n) \in Int /\ D(i) \in Int
      BY <3>2, <3>5, BalanceFacts
    <3> HIDE DEF B, T
    <3> QED BY <3>2, <3>3, <3>4, <3>6
  <2>3. ASSUME NEW i \in 0..(l - n) PROVE B((n + a) + i) = T(n + i) + D(a)
    <3>1. \A j \in 1..i : tokens'[(n + a) + j] = tokens[n + j]
      <4>1. \A j \in 1..i : j \in 1..(l - n)
        BY <1>1, <1>6
      <4> QED BY <1>7, <4>1
    <3>2. i \in Nat /\ n \in Nat /\ n + a \in Nat /\ a \in 0..a /\ n + i \in Nat /\ (n + a) + i \in Nat
      BY <1>1, <1>6
    <3>3. B((n + a) + i) - B(n + a) = T(n + i) - T(n)
      <4>1. PICK z \in Nat : z = n + a
        BY <3>2
      <4>2. \A j \in 1..i : tokens'[z + j] = tokens[n + j]
        BY <3>1, <4>1
      <4>3. SameTokens(tokens', z, tokens, n, i)
        BY <4>2 DEF SameTokens
      <4>4. Balance(tokens', z + i) - Balance(tokens', z) = Balance(tokens, n + i) - Balance(tokens, n)
        BY <3>2, <4>1, <4>3, BalanceShift
      <4> QED BY <4>1, <4>4
    <3>4. B(n + a) = T(n) + D(a)
      BY <2>2, <3>2
    <3>5. /\ B((n + a) + i) \in Int /\ B(n + a) \in Int /\ T(n + i) \in Int /\ T(n) \in Int
          /\ D(a) \in Int
      BY <1>6, <3>2, BalanceFacts
    <3> HIDE DEF B, T, D
    <3> QED BY <3>3, <3>4, <3>5
  <2>4. B(l + a + 1) = B(l + a)
    <3>1. tokens'[(l + a) + 1] = v /\ l + a \in Nat
      BY <1>1, <1>6, <1>7
    <3>2. "Value" \notin BlockStarts /\ v \in TokenRecord /\ v.type = "Value"
      BY <1>5 DEF BlockStarts
    <3>3. B((l + a) + 1) = B(l + a) + 0 /\ B(l + a) \in Int
      BY <3>1, <3>2, BalanceFacts
    <3> QED BY <3>3
  <2>5. /\ \A i \in 0..l : blocks + T(i) >= 0 /\ T(i) \in Int
        /\ blocks + T(l) = Len(indents) - 1
        /\ \A i \in 0..a : D(i) >= 0 /\ D(i) \in Int
        /\ Len(indents') = Len(indents) + D(a)
    <3>1. \A i \in 0..l : blocks + T(i) >= 0 /\ T(i) \in Int
      <4>1. \A i \in 0..l : T(i) \in Int
        BY BalanceFacts
      <4> QED BY <1>6, <4>1 DEF ScannerInv, StreamInv, Balanced
    <3>2. \A i \in 0..a : D(i) >= 0 /\ D(i) \in Int
      <4>1. \A i \in 0..a : D(i) \in Int
        BY BalanceFacts
      <4> QED BY <1>4, <4>1
    <3>3. blocks + T(l) = Len(indents) - 1
      BY <1>6 DEF ScannerInv, StreamInv, Balanced
    <3>4. Len(indents') = Len(indents) + D(a)
      BY <1>4, <1>6 DEF MatchIndents
    <3> QED BY <3>1, <3>2, <3>3, <3>4
  <2> HIDE DEF B, T, D
  <2>6. n \in 0..l /\ a \in 0..a /\ l - n \in 0..(l - n) /\ (n + a) + (l - n) = l + a /\ n + (l - n) = l
        /\ \A i \in 0..(l - n) : n + i \in 0..l
    BY <1>1, <1>6
  <2>7. B(l + a + 1) = T(l) + D(a)
    BY <2>3, <2>4, <2>6
  <2>8. ASSUME NEW i \in 0..(l + a + 1) PROVE blocks + B(i) >= 0
    <3>1. CASE i \in 0..n
      <4>1. i \in 0..l
        BY <1>1, <1>6, <3>1
      <4> QED BY <2>1, <2>5, <3>1, <4>1
    <3>2. CASE i \in 1..n
      BY <1>6, <3>1, <3>2
    <3>3. ASSUME NEW j \in 1..a, i = n + j PROVE blocks + B(i) >= 0
      <4>1. j \in 0..a
        BY <1>6
      <4>2. B(i) = T(n) + D(j)
        BY <2>2, <3>3, <4>1
      <4>3. blocks + T(n) >= 0 /\ T(n) \in Int /\ D(j) >= 0 /\ D(j) \in Int
        BY <2>5, <2>6, <4>1
      <4> QED BY <1>1, <4>2, <4>3
    <3>4. ASSUME NEW j \in 1..(l - n), i = (n + a) + j PROVE blocks + B(i) >= 0
      <4>1. j \in 0..(l - n) /\ n + j \in 0..l
        BY <1>1, <1>6
      <4>2. B(i) = T(n + j) + D(a)
        BY <2>3, <3>4, <4>1
      <4>3. blocks + T(n + j) >= 0 /\ T(n + j) \in Int /\ D(a) >= 0 /\ D(a) \in Int
        BY <2>5, <2>6, <4>1
      <4> QED BY <1>1, <4>2, <4>3
    <3>5. CASE i = l + a + 1
      <4>1. l \in 0..l
        BY <1>1
      <4>2. blocks + T(l) >= 0 /\ T(l) \in Int /\ D(a) >= 0 /\ D(a) \in Int
        BY <2>5, <2>6, <4>1
      <4> QED BY <1>1, <2>7, <3>5, <4>2
    <3>6. i = 0 \/ i \in 1..(l + a + 1)
      BY <1>1, <1>6
    <3>7. 0 \in 0..n
      BY <1>6
    <3> QED BY <1>8, <3>1, <3>2, <3>3, <3>4, <3>5, <3>6, <3>7
  <2>9. blocks + B(l + a + 1) = Len(indents') - 1
    <3>1. Len(indents) \in Int /\ T(l) \in Int /\ D(a) \in Int
      <4>1. l \in 0..l
        BY <1>1
      <4> QED BY <2>5, <2>6, <4>1, IndentFacts, SMTT(30) DEF ScannerInv
    <3> QED BY <1>1, <2>5, <2>7, <3>1, SMTT(30)
  <2>10. /\ \A i \in 0..Len(tokens') : blocks' + Balance(tokens', i) >= 0
         /\ blocks' + Balance(tokens', Len(tokens')) = Len(indents') - 1
    BY <1>3, <1>7, <2>8, <2>9 DEF B
  <2> QED BY <2>10 DEF Balanced, Balance, CountIn
\* Old tokens lie on the two sides of the key's mark.
<1>15. /\ \A i \in 1..n : NotAfter(tokens[i].mark, K)
       /\ \A i \in 1..(l - n) : NotAfter(K, tokens[n + i].mark)
       /\ NotAfter(delivered.mark, K)
  <2>1. /\ NotAfter(delivered.mark, K)
        /\ \A i \in DOMAIN tokens : IF tokensParsed + i <= k.tokenNumber
                                    THEN NotAfter(tokens[i].mark, K)
                                    ELSE NotAfter(K, tokens[i].mark)
    BY <1>2 DEF ScannerInv, StreamInv, KeysInInputOrder, k, K
  <2>2. \A i \in 1..n : tokensParsed + i <= k.tokenNumber
    BY <1>1, <1>2, <1>6
  <2>3. \A i \in 1..(l - n) : ~(tokensParsed + (n + i) <= k.tokenNumber)
    BY <1>1, <1>2, <1>6
  <2> QED BY <1>9, <2>1, <2>2, <2>3
<1>16. /\ \A i \in 1..n : tokens'[i].mark = tokens[i].mark
       /\ \A i \in 1..a : tokens'[n + i].mark = K
       /\ \A i \in 1..(l - n) : tokens'[(n + a) + i].mark = tokens[n + i].mark
       /\ tokens'[l + a + 1].mark = mark
  <2>1. \A i \in 1..n : tokens'[i].mark = tokens[i].mark
    BY <1>7
  <2>2. \A i \in 1..a : tokens'[n + i].mark = K
    BY <1>4, <1>6, <1>7, SMTT(30)
  <2>3. \A i \in 1..(l - n) : tokens'[(n + a) + i].mark = tokens[n + i].mark
    BY <1>7
  <2>4. tokens'[l + a + 1].mark = mark
    BY <1>5, <1>7
  <2> QED BY <2>1, <2>2, <2>3, <2>4
<1>17. InInputOrder'
  <2>1. /\ NotAfter(delivered.mark, mark')
        /\ NotAfter(delivered.mark, mark) /\ NotAfter(K, mark')
        /\ \A i \in DOMAIN tokens : NotAfter(tokens[i].mark, mark) /\ NotAfter(delivered.mark, tokens[i].mark)
        /\ \A i \in DOMAIN tokens : NotAfter(tokens[i].mark, mark')
    BY <1>1, <1>5, PositionFacts DEF ScannerInv, StreamInv, InInputOrder
  <2>2. ASSUME NEW i \in 1..(l + a + 1)
        PROVE  /\ NotAfter(delivered.mark, tokens'[i].mark) /\ NotAfter(tokens'[i].mark, mark')
               /\ NotAfter(tokens'[i].mark, mark)
    <3>1. CASE i \in 1..n
      BY <1>9, <1>16, <2>1, <3>1
    <3>2. ASSUME NEW j \in 1..a, i = n + j PROVE tokens'[i].mark = K
      BY <1>16, <3>2
    <3>3. ASSUME NEW j \in 1..(l - n), i = (n + a) + j
          PROVE  n + j \in DOMAIN tokens /\ tokens'[i].mark = tokens[n + j].mark
      BY <1>9, <1>16, <3>3
    <3>4. CASE i = l + a + 1
      BY <1>5, <1>16, <2>1, <3>4
    <3> QED BY <1>5, <1>8, <1>15, <2>1, <3>1, <3>2, <3>3, <3>4
  <2>3. ASSUME NEW i \in 1..(l + a + 1), NEW j \in 1..(l + a + 1), i < j
        PROVE  NotAfter(tokens'[i].mark, tokens'[j].mark)
    <3>1. CASE j \in 1..n
      <4>1. i \in 1..n
        BY <1>6, <2>3, <3>1
      <4> QED BY <1>9, <1>16, <2>3, <3>1, <4>1 DEF ScannerInv, StreamInv, InInputOrder
    <3>2. ASSUME NEW y \in 1..a, j = n + y PROVE NotAfter(tokens'[i].mark, tokens'[j].mark)
      <4>1. i \in 1..n \/ \E x \in 1..a : i = n + x
        <5>1. i <= n \/ (i > n /\ i - n \in 1..a /\ i = n + (i - n))
          BY <1>6, <2>3, <3>2
        <5> QED BY <1>6, <5>1
      <4> QED BY <1>5, <1>15, <1>16, <3>2, <4>1
    <3>3. ASSUME NEW y \in 1..(l - n), j = (n + a) + y PROVE NotAfter(tokens'[i].mark, tokens'[j].mark)
      <4>1. CASE i \in 1..n
        <5>1. n + y \in DOMAIN tokens /\ i \in DOMAIN tokens /\ i < n + y
          BY <1>1, <1>6, <1>9, <4>1
        <5>2. NotAfter(tokens[i].mark, tokens[n + y].mark)
          BY <5>1 DEF ScannerInv, StreamInv, InInputOrder
        <5> QED BY <1>16, <3>3, <4>1, <5>2
      <4>2. ASSUME NEW x \in 1..a, i = n + x PROVE NotAfter(tokens'[i].mark, tokens'[j].mark)
        BY <1>15, <1>16, <3>3, <4>2
      <4>3. ASSUME NEW x \in 1..(l - n), i = (n + a) + x PROVE NotAfter(tokens'[i].mark, tokens'[j].mark)
        <5>1. n + x \in DOMAIN tokens /\ n + y \in DOMAIN tokens /\ n + x < n + y
          BY <1>1, <1>6, <1>9, <2>3, <3>3, <4>3
        <5>2. NotAfter(tokens[n + x].mark, tokens[n + y].mark)
          BY <5>1 DEF ScannerInv, StreamInv, InInputOrder
        <5> QED BY <1>16, <3>3, <4>3, <5>2
      <4>4. i # l + a + 1
        BY <1>1, <1>6, <2>3, <3>3
      <4> QED BY <1>8, <4>1, <4>2, <4>3, <4>4
    <3>4. CASE j = l + a + 1
      BY <1>16, <2>2, <3>4
    <3> QED BY <1>8, <3>1, <3>2, <3>3, <3>4
  <2> QED BY <1>3, <1>7, <2>1, <2>2, <2>3 DEF InInputOrder
<1>18. KeysInInputOrder'
  <2> SUFFICES ASSUME NEW i \in DOMAIN simpleKeys', simpleKeys'[i].possible
               PROVE  /\ NotAfter(delivered.mark, simpleKeys'[i].mark)
                      /\ \A j \in 1..(l + a + 1) :
                           IF tokensParsed + j <= simpleKeys'[i].tokenNumber
                           THEN NotAfter(tokens'[j].mark, simpleKeys'[i].mark)
                           ELSE NotAfter(simpleKeys'[i].mark, tokens'[j].mark)
    BY <1>3, <1>7 DEF KeysInInputOrder
  <2> DEFINE p == simpleKeys[i].mark
             d == simpleKeys[i].tokenNumber
  <2>1. /\ i \in DOMAIN simpleKeys /\ simpleKeys'[i] = simpleKeys[i] /\ simpleKeys[i].possible
        /\ p \in Position /\ d \in Nat /\ d < tokensParsed + n /\ d >= tokensParsed
    BY <1>11
  <2>2. /\ NotAfter(delivered.mark, p)
        /\ \A j \in DOMAIN tokens : IF tokensParsed + j <= d THEN NotAfter(tokens[j].mark, p)
                                                             ELSE NotAfter(p, tokens[j].mark)
    BY <2>1 DEF ScannerInv, StreamInv, KeysInInputOrder
  <2>3. simpleKeys'[i].mark = p /\ simpleKeys'[i].tokenNumber = d
    BY <2>1
  <2> HIDE DEF p, d
  <2>4. NotAfter(p, K) /\ NotAfter(p, mark)
    <3>1. n \in 1..n /\ ~(tokensParsed + n <= d)
      BY <1>1, <1>6, <2>1
    <3>2. NotAfter(p, tokens[n].mark) /\ NotAfter(tokens[n].mark, K) /\ tokens[n].mark \in Position
      BY <1>1, <1>9, <1>15, <2>2, <3>1
    <3> QED BY <1>1, <1>5, <2>1, <3>2, PositionFacts
  <2>5. ASSUME NEW j \in 1..(l + a + 1)
        PROVE  IF tokensParsed + j <= d THEN NotAfter(tokens'[j].mark, p)
                                        ELSE NotAfter(p, tokens'[j].mark)
    <3>1. CASE j \in 1..n
      BY <1>9, <1>16, <2>2, <3>1
    <3>2. j > n => ~(tokensParsed + j <= d)
      BY <1>1, <1>6, <2>1
    <3>3. ASSUME NEW y \in 1..a, j = n + y PROVE NotAfter(p, tokens'[j].mark) /\ j > n
      BY <1>6, <1>16, <2>4, <3>3
    <3>4. ASSUME NEW y \in 1..(l - n), j = (n + a) + y PROVE NotAfter(p, tokens'[j].mark) /\ j > n
      <4>1. n + y \in DOMAIN tokens /\ ~(tokensParsed + (n + y) <= d) /\ j > n
        BY <1>1, <1>6, <1>9, <2>1, <3>4
      <4> QED BY <1>16, <2>2, <3>4, <4>1
    <3>5. CASE j = l + a + 1
      <4>1. j > n
        BY <1>1, <1>6, <3>5
      <4> QED BY <1>16, <2>4, <3>2, <3>5, <4>1
    <3> QED BY <1>8, <3>1, <3>2, <3>3, <3>4, <3>5
  <2> QED BY <2>2, <2>3, <2>5
\* The collection before the key, if any, has not just begun.
<1>19. /\ n > 0 => tokens[n].type \notin BlockStarts
       /\ n = 0 => delivered.type \notin BlockStarts
       /\ l > 0 => tokens[l].type \notin BlockStarts
  <2>1. n < l => tokens[n + 1].type \in KeyStarts
    <3>1. k.tokenNumber - tokensParsed = n /\ Here(k)
      BY <1>1, <1>2, <1>6
    <3> QED BY <1>2, <1>6, <3>1 DEF ScannerInv, StreamInv, KeysPoint
  <2>2. \A t \in BlockStarts, u \in KeyStarts : ~GoesOn(t, u)
    BY DEF BlockStarts, KeyStarts, GoesOn
  <2>3. \A i \in DOMAIN tokens : /\ tokens[i].type \in BlockStarts => i < l
                                 /\ i < l => GoesOn(tokens[i].type, tokens[i + 1].type)
    BY <1>6 DEF ScannerInv, StreamInv, Followed
  <2>4. n > 0 => n \in DOMAIN tokens
    BY <1>1, <1>6
  <2>5. l > 0 => l \in DOMAIN tokens /\ ~(l < l)
    BY <1>1
  <2>6. n = 0 => delivered.type \notin BlockStarts
    <3> SUFFICES ASSUME n = 0, delivered.type \in BlockStarts PROVE FALSE
      OBVIOUS
    <3>1. tokens # <<>> /\ GoesOn(delivered.type, tokens[1].type)
      BY DEF ScannerInv, StreamInv, Followed
    <3>2. n < l /\ n + 1 = 1
      BY <1>1, <1>6, <3>1, EmptySeq
    <3> QED BY <2>1, <2>2, <3>1, <3>2
  <2> QED BY <2>1, <2>2, <2>3, <2>4, <2>5, <2>6
<1>20. \A t \in TokenType \cup {"None"} : t \notin BlockStarts => \A u : GoesOn(t, u)
  BY DEF GoesOn, BlockStarts
<1>21. Followed'
  <2>0. /\ \A i \in 1..(l - n) : tokens'[(n + a) + i].type = tokens[n + i].type
        /\ \A i \in 1..n : tokens'[i].type = tokens[i].type
        /\ \A i \in 1..a : tokens'[n + i].type = A[i].type
        /\ tokens'[l + a + 1].type = "Value" /\ "Value" \notin BlockStarts
        /\ "Key" \notin BlockStarts /\ A[a].type = "Key"
        /\ \A t, u : t \notin BlockStarts => GoesOn(t, u)
    <3>1. A[a].type = "Key"
      BY <1>4 DEF Token
    <3> QED BY <1>5, <1>7, <3>1 DEF BlockStarts, GoesOn
  <2>1. tokens' # <<>>
    BY <1>1, <1>6, <1>7
  <2>2. GoesOn(delivered.type, tokens'[1].type)
    <3>1. CASE n = 0
      BY <1>19, <2>0, <3>1
    <3>2. CASE n > 0
      <4>1. 1 \in 1..n /\ tokens # <<>>
        BY <1>6, <3>2
      <4> QED BY <2>0, <4>1 DEF ScannerInv, StreamInv, Followed
    <3> QED BY <1>6, <3>1, <3>2
  <2>3. ASSUME NEW i \in 1..(l + a + 1)
        PROVE  /\ tokens'[i].type \in BlockStarts => i < l + a + 1
               /\ i < l + a + 1 => GoesOn(tokens'[i].type, tokens'[i + 1].type)
    <3>1. CASE i \in 1..n
      <4>1. i < l + a + 1
        BY <1>1, <1>6, <3>1
      <4>2. CASE i < n
        <5>1. i \in DOMAIN tokens /\ i < Len(tokens) /\ i \in 1..n /\ i + 1 \in 1..n
          BY <1>1, <1>6, <4>2
        <5>2. GoesOn(tokens[i].type, tokens[i + 1].type)
          BY <5>1 DEF ScannerInv, StreamInv, Followed
        <5> QED BY <2>0, <4>1, <5>1, <5>2
      <4>3. CASE i = n
        <5>1. tokens[n].type \notin BlockStarts
          BY <1>19, <3>1, <4>3
        <5> QED BY <2>0, <3>1, <4>1, <4>3, <5>1
      <4> QED BY <1>6, <3>1, <4>2, <4>3
    <3>2. ASSUME NEW j \in 1..a, i = n + j
          PROVE  /\ tokens'[i].type \in BlockStarts => i < l + a + 1
                 /\ i < l + a + 1 => GoesOn(tokens'[i].type, tokens'[i + 1].type)
      <4>1. i < l + a + 1
        BY <1>1, <1>6, <3>2
      <4>2. CASE j = a
        BY <2>0, <3>2, <4>1, <4>2
      <4>3. CASE j < a
        <5>1. j \in DOMAIN A /\ j < Len(A) /\ j + 1 \in 1..a /\ i + 1 = n + (j + 1)
          BY <1>6, <3>2, <4>3
        <5>2. GoesOn(A[j].type, A[j + 1].type)
          BY <1>4, <5>1 DEF WellFollowed
        <5> QED BY <2>0, <3>2, <4>1, <5>1, <5>2
      <4> QED BY <1>6, <4>2, <4>3
    <3>3. ASSUME NEW j \in 1..(l - n), i = (n + a) + j
          PROVE  /\ tokens'[i].type \in BlockStarts => i < l + a + 1
                 /\ i < l + a + 1 => GoesOn(tokens'[i].type, tokens'[i + 1].type)
      <4>1. i < l + a + 1
        BY <1>1, <1>6, <3>3
      <4>2. CASE j = l - n
        <5>1. n + j = l /\ l > 0
          BY <1>1, <1>6, <4>2
        <5>2. tokens[n + j].type \notin BlockStarts
          BY <1>19, <5>1
        <5> QED BY <2>0, <3>3, <4>1, <5>2
      <4>3. CASE j < l - n
        <5>1. n + j \in DOMAIN tokens /\ n + j < Len(tokens) /\ j + 1 \in 1..(l - n)
              /\ i + 1 = (n + a) + (j + 1) /\ (n + j) + 1 = n + (j + 1)
          <6>1. j \in Nat /\ j >= 1 /\ j + 1 <= l - n /\ n \in Nat /\ a \in Nat /\ l \in Nat
            BY <1>1, <1>6, <4>3
          <6>2. n + j \in DOMAIN tokens /\ n + j < Len(tokens)
            BY <1>1, <1>6, <6>1
          <6>3. i + 1 = (n + a) + (j + 1) /\ (n + j) + 1 = n + (j + 1)
            BY <3>3, <6>1
          <6>4. j + 1 \in 1..(l - n)
            BY <6>1
          <6> QED BY <6>2, <6>3, <6>4
        <5>2. GoesOn(tokens[n + j].type, tokens[n + (j + 1)].type)
          BY <5>1 DEF ScannerInv, StreamInv, Followed
        <5> QED BY <2>0, <3>3, <4>1, <5>1, <5>2
      <4>4. j = l - n \/ j < l - n
        <5>1. l - n \in Int
          BY <1>1, <1>6
        <5> QED BY <5>1
      <4> QED BY <4>2, <4>3, <4>4
    <3>4. CASE i = l + a + 1
      <4>1. ~(i < l + a + 1)
        BY <1>1, <1>6, <3>4
      <4> QED BY <2>0, <3>4, <4>1
    <3> QED BY <1>8, <3>1, <3>2, <3>3, <3>4
  <2> QED BY <1>3, <1>7, <2>1, <2>2, <2>3 DEF Followed
<1>22. KeysPoint'
  <2> SUFFICES ASSUME NEW i \in DOMAIN simpleKeys', simpleKeys'[i].possible,
                      simpleKeys'[i].mark.line = mark'.line
               PROVE  tokens'[simpleKeys'[i].tokenNumber - tokensParsed + 1].type \in KeyStarts
    BY <1>3 DEF KeysPoint, Here
  <2> DEFINE d == simpleKeys[i].tokenNumber - tokensParsed
  <2>1. /\ i \in DOMAIN simpleKeys /\ simpleKeys'[i] = simpleKeys[i] /\ Here(simpleKeys[i])
    BY <1>5, <1>11 DEF Here
  <2>2. d + 1 \in 1..n /\ d < Len(tokens)
    BY <1>1, <1>6, <1>11
  <2>3. tokens[d + 1].type \in KeyStarts
    BY <2>1, <2>2 DEF ScannerInv, StreamInv, KeysPoint
  <2> HIDE DEF d
  <2>4. tokens'[d + 1].type \in KeyStarts
    BY <1>7, <2>2, <2>3
  <2> QED BY <2>1, <2>4 DEF d
<1>23. StreamFramed'
  <2>0. \A i \in DOMAIN tokens : tokens[i].type = "StreamStart" <=> (i = 1 /\ tokensParsed = 0)
    BY DEF ScannerInv, StreamInv, StreamFramed
  <2>1. tokensParsed = 0 => n > 0
    BY <1>1, <1>2, <1>6
  <2>2. ASSUME NEW i \in 1..(l + a + 1)
        PROVE  tokens'[i].type = "StreamStart" <=> (i = 1 /\ tokensParsed = 0)
    <3>1. CASE i \in 1..n
      BY <1>7, <1>9, <2>0, <3>1
    <3>2. i > n => ~(i = 1 /\ tokensParsed = 0)
      BY <1>6, <2>1
    <3>3. ASSUME NEW j \in 1..a, i = n + j PROVE tokens'[i].type # "StreamStart" /\ i > n
      <4>1. tokens'[i] = A[j] /\ i > n /\ j \in DOMAIN A
        BY <1>6, <1>7, <3>3
      <4> QED BY <1>4, <4>1 DEF WellFollowed
    <3>4. ASSUME NEW j \in 1..(l - n), i = (n + a) + j PROVE tokens'[i].type # "StreamStart" /\ i > n
      <4>1. /\ tokens'[i] = tokens[n + j] /\ n + j \in DOMAIN tokens /\ i > n
            /\ ~(n + j = 1 /\ tokensParsed = 0)
        <5>1. tokens'[i] = tokens[n + j] /\ n + j \in DOMAIN tokens
          BY <1>7, <1>9, <3>4
        <5>2. i > n /\ ~(n + j = 1 /\ tokensParsed = 0)
          BY <1>1, <1>6, <2>1, <3>4
        <5> QED BY <5>1, <5>2
      <4> QED BY <2>0, <4>1
    <3>5. CASE i = l + a + 1
      <4>1. tokens'[i].type # "StreamStart" /\ i > n
        BY <1>1, <1>5, <1>6, <1>7, <3>5
      <4> QED BY <3>2, <4>1
    <3> QED BY <1>8, <3>1, <3>2, <3>3, <3>4, <3>5
  <2>3. tokens' # <<>>
    BY <1>1, <1>6, <1>7
  <2> QED BY <1>3, <1>7, <2>2, <2>3 DEF StreamFramed, ScannerInv, StreamInv
<1> QED BY <1>12, <1>13, <1>14, <1>17, <1>18, <1>21, <1>22, <1>23 DEF ScannerInv, StreamInv

-----------------------------------------------------------------------------
\* Every step of the scanner preserves the invariant.
LEMMA FetchNextKeeps == ASSUME ScannerInv, fetch_next_token PROVE ScannerInv'
<1>1. CASE fetch_stream_start
  BY <1>1, StreamStartKeeps
<1>2. CASE scan_to_next_token
  BY <1>2, ScanToNextKeeps
<1>3. CASE fetch_stream_end
  BY <1>3, StreamEndKeeps
<1>4. CASE fetch_directive \/ fetch_document_indicator
  BY <1>4, LineStartKeeps
<1>5. CASE fetch_flow_collection_start
  BY <1>5, FlowStartKeeps
<1>6. CASE fetch_flow_collection_end
  BY <1>6, RemovingKeeps, FlowEndKeeps
<1>7. CASE fetch_flow_entry \/ fetch_block_scalar
  BY <1>7, RemovingKeeps
<1>8. CASE fetch_block_entry \/ fetch_key
  BY <1>8, OpeningKeeps
<1>9. CASE fetch_value
  <2>1. CASE ValueOfKey /\ Done
    <3>1. at = "fetching"
      BY <1>9 DEF fetch_value, Fetching
    <3> QED BY <2>1, <3>1, ValueOfKeyKeeps
  <2>2. CASE ~TopKey.possible
    BY <1>9, <2>2, ValueAloneKeeps
  <2> QED BY <1>9, <2>1, <2>2 DEF fetch_value
<1>10. CASE fetch_anchor \/ fetch_tag \/ fetch_flow_scalar \/ fetch_plain_scalar
  BY <1>10, ContentsKeep
<1>11. CASE NoLexeme
  <2>1. at = "fetching" /\ at' = "failed" /\ Done /\ UNCHANGED <<mark, tokens, keyVars, indents>>
    BY <1>11 DEF NoLexeme, Fetching, FetchFails
  <2> QED BY <2>1, FailedStep DEF Done
<1> QED BY <1>1, <1>2, <1>3, <1>4, <1>5, <1>6, <1>7, <1>8, <1>9, <1>10, <1>11 DEF fetch_next_token

LEMMA StutterKeeps == ASSUME ScannerInv, UNCHANGED scannerVars PROVE ScannerInv'
BY DEF scannerVars, inputVars, queueVars, keyVars, ScannerInv, ScannerTypes, Stages, HeldBack,
       NextNumber, Here, KeysPlaced, KeysOrdered, KeysFresh, TopKey, Rising, Indent, Indented,
       Balanced, InInputOrder, KeysInInputOrder, Followed, KeysPoint, StreamFramed, KeysInv, StreamInv

LEMMA ScannerStep == ASSUME ScannerInv, [ScannerNext]_scannerVars PROVE ScannerInv'
<1>1. CASE Peek
  BY <1>1, LoopKeeps DEF Peek
<1>2. CASE AskAgain
  <2>1. ~tokenAvailable /\ ~ended
    BY <1>2 DEF AskAgain, ScannerInv, Stages
  <2> QED BY <1>2, <2>1, LoopKeeps DEF AskAgain
<1>3. CASE fetch_more_tokens
  BY <1>3, FetchMoreKeeps
<1>4. CASE fetch_next_token
  BY <1>4, FetchNextKeeps
<1>5. CASE Dequeue
  BY <1>5, DequeueKeeps
<1>6. CASE ScannerReset
  BY <1>6, ResetKeeps
<1>7. CASE UNCHANGED scannerVars
  BY <1>7, StutterKeeps
<1> QED BY <1>1, <1>2, <1>3, <1>4, <1>5, <1>6, <1>7 DEF ScannerNext, Fetch

\* The inductive invariant holds, whether or not the caller stops at errors.
THEOREM ScannerInvariant == ScannerSpec => []ScannerInv
<1> QED BY InitialFacts, ScannerStep, PTL DEF ScannerSpec

-----------------------------------------------------------------------------
\* KeysInQueue: the tokens of keys are in the queue, or about to be, and in
\* the order of the flow levels: what fetch_value inserts goes to its place.
THEOREM KeysStayInQueue == ScannerSpec => []KeysInQueue
<1>1. ScannerInv => KeysInQueue
  <2> SUFFICES ASSUME ScannerInv PROVE KeysInQueue
    OBVIOUS
  <2>1. tokensParsed \in Nat /\ Len(tokens) \in Nat /\ (started => Len(simpleKeys) = flowLevel + 1)
    BY LenProperties DEF ScannerInv, ScannerTypes, Stages
  <2>2. DOMAIN simpleKeys = 1..Len(simpleKeys) /\ Len(simpleKeys) \in Nat
    BY LenProperties DEF ScannerInv, ScannerTypes
  <2>3. ASSUME NEW i \in DOMAIN simpleKeys, simpleKeys[i].possible
        PROVE  simpleKeys[i].tokenNumber \in tokensParsed..(tokensParsed + Len(tokens))
    <3>1. simpleKeys[i].tokenNumber \in Nat
      <4>1. simpleKeys[i] \in KeyRecord
        BY DEF ScannerInv, ScannerTypes
      <4> QED BY <4>1 DEF KeyRecord
    <3> QED BY <2>1, <2>3, <3>1 DEF ScannerInv, KeysInv, KeysPlaced, NextNumber
  <2>4. ASSUME NEW i \in DOMAIN simpleKeys, simpleKeys[i].possible,
               NEW j \in 1..(i - 1), simpleKeys[j].possible
        PROVE  simpleKeys[j].tokenNumber < simpleKeys[i].tokenNumber
    <3>1. j \in DOMAIN simpleKeys /\ j < i
      BY <2>2
    <3> QED BY <2>4, <3>1 DEF ScannerInv, KeysInv, KeysOrdered
  <2> QED BY <2>1, <2>3, <2>4 DEF KeysInQueue
<1> QED BY <1>1, ScannerInvariant, PTL

\* NoKeyDropped: save_simple_key never overwrites a key that may still be
\* one, nor fails because the one pending is required.
THEOREM PendingKeysKept == ScannerSpec => []NoKeyDropped
<1>1. ScannerInv => NoKeyDropped
  <2> SUFFICES ASSUME ScannerInv, at = "fetching", simpleKeyAllowed, TopKey.possible PROVE FALSE
    BY DEF NoKeyDropped
  <2>1. started /\ ~Here(TopKey)
    BY FetchingKeys DEF ScannerInv, KeysInv, KeysFresh
  <2>2. TopKey = simpleKeys[flowLevel + 1] /\ flowLevel + 1 \in DOMAIN simpleKeys
    BY <2>1, TopKeyFacts DEF ScannerInv
  <2> QED BY <2>1, <2>2, FetchingKeys
<1> QED BY <1>1, ScannerInvariant, PTL

\* The two ways to count the collections opened and closed in the queue.
LEMMA QueueBalance ==
  ASSUME tokens \in Seq(TokenRecord)
  PROVE  /\ Balance(tokens, Len(tokens)) = OpenedBy(tokens) - ClosedBy(tokens)
         /\ OpenedBy(tokens) \in Int /\ ClosedBy(tokens) \in Int
<1> DEFINE O == [type : BlockStarts, mark : Position]
           C == [type : {"BlockEnd"}, mark : Position]
<1>1. Len(tokens) \in Nat /\ DOMAIN tokens = 1..Len(tokens)
  BY LenProperties
<1>2. ASSUME NEW i \in DOMAIN tokens
      PROVE  /\ tokens[i] \in O <=> tokens[i].type \in BlockStarts
             /\ tokens[i] \in C <=> tokens[i].type = "BlockEnd"
  <2>1. tokens[i] \in TokenRecord
    OBVIOUS
  <2> QED BY <2>1 DEF TokenRecord, BlockStarts
<1>3. OpenedBy(tokens) = CountIn(tokens, O, Len(tokens))
  <2>1. {i \in DOMAIN tokens : tokens[i].type \in {"BlockSequenceStart", "BlockMappingStart"}}
          = {i \in 1..Len(tokens) : tokens[i] \in O}
    BY <1>1, <1>2 DEF BlockStarts
  <2> QED BY <2>1 DEF OpenedBy, CountIn
<1>4. ClosedBy(tokens) = CountIn(tokens, C, Len(tokens))
  <2>1. {i \in DOMAIN tokens : tokens[i].type = "BlockEnd"} = {i \in 1..Len(tokens) : tokens[i] \in C}
    BY <1>1, <1>2
  <2> QED BY <2>1 DEF ClosedBy, CountIn
<1>5. CountIn(tokens, O, Len(tokens)) \in Int /\ CountIn(tokens, C, Len(tokens)) \in Int
  <2> HIDE DEF O, C
  <2> QED BY <1>1, CountFacts
<1> QED BY <1>3, <1>4, <1>5 DEF Balance

\* IndentsAgree: the indentations rise from the -1 of the stream, so that
\* unroll_indent stops, and are as many as the block collections that the
\* tokens delivered and queued leave open.
THEOREM IndentsAlwaysAgree == ScannerSpec => []IndentsAgree
<1>1. ScannerInv => IndentsAgree
  <2> SUFFICES ASSUME ScannerInv PROVE IndentsAgree
    OBVIOUS
  <2>1. IndentsRise
    BY DEF IndentsRise, ScannerInv, KeysInv, Indented, Rising
  <2>2. blocks + Balance(tokens, Len(tokens)) = Len(indents) - 1 /\ blocks \in Int /\ Len(indents) \in Int
    BY IndentFacts DEF ScannerInv, StreamInv, Balanced, ScannerTypes
  <2>3. tokens \in Seq(TokenRecord)
    BY DEF ScannerInv, ScannerTypes
  <2>4. BlocksMatchIndents
    BY <2>2, <2>3, QueueBalance DEF BlocksMatchIndents
  <2> QED BY <2>1, <2>4 DEF IndentsAgree
<1> QED BY <1>1, ScannerInvariant, PTL

-----------------------------------------------------------------------------
\* Taking a token out of the queue is a delivery of the stream.
LEMMA DequeueDelivers == ASSUME ScannerInv, Dequeue PROVE Stream!TokenStreamNext
<1> DEFINE t == tokens[1].type
<1>1. /\ delivered' = tokens[1] /\ tokens[1] \in TokenRecord /\ ~ended /\ tokens # <<>>
      /\ 1 \in DOMAIN tokens /\ blocks \in Int /\ Head(tokens) = tokens[1]
  BY DequeueFacts
<1>2. t \in TokenType /\ tokens[1].mark \in Position
  BY <1>1 DEF TokenRecord
<1>3. Stream!Follows(t)
  <2>1. delivered.type = "None" <=> t = "StreamStart"
    BY <1>1 DEF ScannerInv, StreamInv, StreamFramed
  <2>2. delivered.type # "StreamEnd"
    BY <1>1 DEF ScannerInv, StreamInv, StreamFramed
  <2>3. GoesOn(delivered.type, t)
    BY <1>1 DEF ScannerInv, StreamInv, Followed
  <2> QED BY <2>1, <2>2, <2>3 DEF Stream!Follows, GoesOn
<1>4. NotAfter(delivered.mark, tokens[1].mark)
  BY <1>1 DEF ScannerInv, StreamInv, InInputOrder
<1>5. \/ t \in BlockStarts /\ blocks' = blocks + 1
      \/ t = "BlockEnd" /\ blocks > 0 /\ blocks' = blocks - 1
      \/ t \notin BlockStarts \cup {"BlockEnd"} /\ blocks' = blocks
  <2>1. blocks' = CASE t = "BlockEnd" -> blocks - 1
                    [] t \in BlockStarts -> blocks + 1
                    [] OTHER -> blocks
    BY <1>1 DEF Dequeue, BlockStarts
  <2>2. "BlockEnd" \notin BlockStarts /\ (t = "BlockEnd" => blocks > 0)
    BY DequeueFacts DEF BlockStarts
  <2> QED BY <2>1, <2>2
<1>6. Stream!Deliver(t)
  BY <1>1, <1>2, <1>3, <1>4, <1>5
     DEF Stream!Deliver, Stream!BlockStarts, BlockStarts, NotAfter, Position
<1> QED BY <1>2, <1>6 DEF Stream!TokenStreamNext

\* Every other step but a reset leaves what was delivered as it is.
LEMMA OthersStutter ==
  ASSUME Peek \/ Fetch \/ AskAgain \/ UNCHANGED scannerVars
  PROVE  UNCHANGED <<delivered, blocks>>
<1>1. CASE Peek \/ AskAgain \/ UNCHANGED scannerVars
  BY <1>1 DEF Peek, AskAgain, scannerVars, queueVars
<1>2. CASE fetch_more_tokens \/ scan_to_next_token \/ fetch_stream_start \/ fetch_stream_end
  BY <1>2 DEF fetch_more_tokens, scan_to_next_token, fetch_stream_start, fetch_stream_end
<1>3. CASE fetch_directive \/ fetch_document_indicator \/ fetch_flow_collection_start
  BY <1>3 DEF fetch_directive, fetch_document_indicator, fetch_flow_collection_start,
              RemoveError, FetchFails, Done
<1>4. CASE fetch_flow_collection_end \/ fetch_flow_entry \/ fetch_block_scalar \/ NoLexeme
  BY <1>4 DEF fetch_flow_collection_end, fetch_flow_entry, fetch_block_scalar, NoLexeme,
              RemoveError, FetchFails, Done
<1>5. CASE fetch_block_entry \/ fetch_key \/ fetch_value
  BY <1>5 DEF fetch_block_entry, fetch_key, fetch_value, RemoveError, FetchFails, Done
<1>6. CASE fetch_anchor \/ fetch_tag \/ fetch_flow_scalar \/ fetch_plain_scalar
  BY <1>6 DEF fetch_anchor, fetch_tag, fetch_flow_scalar, fetch_plain_scalar, Content, FetchFails, Done
<1> QED BY <1>1, <1>2, <1>3, <1>4, <1>5, <1>6 DEF Fetch, fetch_next_token

\* DeliversStream: the scanner implements TokenStream.  The tokens delivered
\* begin with StreamStart and end with StreamEnd, come in the order of the
\* input also where a Key was put in late, and nest their block collections.
THEOREM ScannerDeliversStream == ScannerSpec => DeliversStream
<1>1. ScannerInit => Stream!TokenStreamInit
  BY DEF ScannerInit, Stream!TokenStreamInit, NoToken, Token, Origin
<1>2. ScannerInv /\ [ScannerNext]_scannerVars => [Stream!TokenStreamNext]_(Stream!streamVars)
  <2> SUFFICES ASSUME ScannerInv, [ScannerNext]_scannerVars
               PROVE  Stream!TokenStreamNext \/ UNCHANGED Stream!streamVars
    OBVIOUS
  <2>1. CASE Dequeue
    BY <2>1, DequeueDelivers
  <2>2. CASE ScannerReset
    <3>1. Stream!Restart
      BY <2>2 DEF ScannerReset, Stream!Restart, NoToken, Token, Origin
    <3> QED BY <3>1 DEF Stream!TokenStreamNext
  <2>3. CASE Peek \/ Fetch \/ AskAgain \/ UNCHANGED scannerVars
    BY <2>3, OthersStutter DEF Stream!streamVars
  <2> QED BY <2>1, <2>2, <2>3 DEF ScannerNext
<1> QED BY <1>1, <1>2, ScannerInvariant, PTL DEF ScannerSpec, DeliversStream, Stream!TokenStreamSpec
=============================================================================
