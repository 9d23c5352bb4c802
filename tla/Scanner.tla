------------------------------ MODULE Scanner ------------------------------
(***************************************************************************)
(* The token queue of src/scanner.rs.  A mapping key need not announce     *)
(* itself: "a: b" is known to be a key only when the ':' is met.  So the   *)
(* scanner remembers where a simple key may have begun (one place for each *)
(* flow level), keeps back the tokens from there on, and puts a Key and    *)
(* perhaps a BlockMappingStart before them if the ':' comes.  Indentation  *)
(* opens block collections, and closes them by BlockEnd tokens.            *)
(*                                                                         *)
(* The text is abstracted to what the queue depends on: where each lexeme  *)
(* begins and ends, and what the dispatch of fetch_next_token makes of it. *)
(* Anchors, aliases, tags and scalars are one type of token ("Content"),   *)
(* as are the two flow collections and the directives.  Characters are one *)
(* byte wide, so that within a line the index of a mark is its column.     *)
(* One call of fetch_more_tokens is a loop over the control states         *)
(* "testing", "skipping" and "fetching"; nothing else runs during it.      *)
(***************************************************************************)
EXTENDS Integers, Sequences, FiniteSets, SequencesExt

CONSTANTS MaxLine, MaxColumn,  \* the input ends at the latest here
          MaxFlow,             \* how deep flow collections nest in the input
          KeyLimit,            \* how long a simple key may be: 1024 in the code
          Repoll               \* does the caller go on after an error?

ASSUME ScannerAssumption == /\ {MaxLine, MaxColumn, MaxFlow, KeyLimit} \subseteq Nat
                            /\ Repoll \in BOOLEAN

VARIABLES mark,              \* the current position
          over,              \* is the input at its end (IS_Z)?
          started,           \* stream_start_produced
          ended,             \* stream_end_produced
          flowLevel,
          tokens,            \* the queue of tokens [type, mark]
          tokensParsed,      \* how many were taken out of it
          tokenAvailable,
          indents,           \* the code's indents with its indent on top
          simpleKeyAllowed,
          simpleKeys,
          at,                \* what the scanner is doing
          delivered,         \* the last token taken out of the queue
          blocks             \* history: block collections the tokens taken leave open

inputVars == <<mark, over>>
queueVars == <<tokens, tokensParsed, tokenAvailable, ended, delivered, blocks>>
keyVars == <<simpleKeyAllowed, simpleKeys, flowLevel>>
scannerVars == <<inputVars, queueVars, keyVars, indents, started, at>>

-----------------------------------------------------------------------------
TokenType == {"StreamStart", "StreamEnd", "Directive", "DocumentIndicator",
              "FlowStart", "FlowEnd", "FlowEntry", "BlockEntry",
              "BlockSequenceStart", "BlockMappingStart", "BlockEnd",
              "Key", "Value", "Content"}

Token(type, m) == [type |-> type, mark |-> m]

Origin == [line |-> 0, column |-> 0]
NoToken == Token("None", Origin)
NoKey == [possible |-> FALSE, required |-> FALSE, tokenNumber |-> 0, mark |-> Origin]

\* Positions further on in the line, and those on the next line.
Inline(m) == [line : {m.line}, column : (m.column + 1)..MaxColumn]
NextLine(m) == IF m.line < MaxLine THEN [line : {m.line + 1}, column : 0..MaxColumn] ELSE {}
Onward(m) == {m} \cup Inline(m) \cup NextLine(m)

Indent == Last(indents)

TopKey == Last(simpleKeys)

-----------------------------------------------------------------------------
\* A key is stale once its line is over or it is too long.
Stale(k, m) == /\ k.possible
               /\ k.mark.line < m.line \/ k.mark.column + KeyLimit < m.column

\* stale_simple_keys(): it stops at a required key that is stale.
StaleError(m) == \E i \in DOMAIN simpleKeys : Stale(simpleKeys[i], m) /\ simpleKeys[i].required

Fresh(m) ==
  [i \in DOMAIN simpleKeys |->
     IF /\ Stale(simpleKeys[i], m)
        /\ \A j \in 1..i : ~(Stale(simpleKeys[j], m) /\ simpleKeys[j].required)
     THEN [simpleKeys[i] EXCEPT !.possible = FALSE]
     ELSE simpleKeys[i]]

\* remove_simple_key() fails if the key is required.
RemoveFails == TopKey.possible /\ TopKey.required

Removed == [simpleKeys EXCEPT ![Len(simpleKeys)].possible = FALSE]

\* Mutant: the tokens already taken out are not counted.
KeyHereUncounted == [possible |-> TRUE,
                     required |-> flowLevel = 0 /\ Indent = mark.column,
                     tokenNumber |-> Len(tokens),
                     mark |-> mark]

KeyHere == [possible |-> TRUE,
            required |-> flowLevel = 0 /\ Indent = mark.column,
            tokenNumber |-> tokensParsed + Len(tokens),
            mark |-> mark]

SaveFails == simpleKeyAllowed /\ RemoveFails

\* save_simple_key()
Saved == IF simpleKeyAllowed THEN [simpleKeys EXCEPT ![Len(simpleKeys)] = KeyHere]
                             ELSE simpleKeys

\* roll_indent() opens a block collection at the column.
Rolls(column) == flowLevel = 0 /\ Indent < column

Rolled(column) == IF Rolls(column) THEN Append(indents, column) ELSE indents

\* How many collections unroll_indent(column) leaves open.
KeptBy(column) ==
  IF flowLevel # 0 THEN Len(indents)
  ELSE CHOOSE n \in DOMAIN indents :
         /\ indents[n] <= column
         /\ \A i \in (n + 1)..Len(indents) : indents[i] > column

Unrolled(column) == SubSeq(indents, 1, KeptBy(column))

\* Mutant: one BlockEnd, however many collections end.
EndsOnce(column, m) == IF KeptBy(column) = Len(indents) THEN <<>> ELSE <<Token("BlockEnd", m)>>

\* The BlockEnd tokens it adds.
Ends(column, m) == [i \in 1..(Len(indents) - KeptBy(column)) |-> Token("BlockEnd", m)]

-----------------------------------------------------------------------------
\* peek(), peek_mut() or scan() with no token ready.
Peek ==
  /\ at = "idle" /\ ~tokenAvailable /\ ~ended
  /\ at' = "testing"
  /\ UNCHANGED <<inputVars, queueVars, keyVars, indents, started>>

\* The token at the head may yet turn out to be a key.
HeldBack(keys) == \E i \in DOMAIN keys : /\ keys[i].possible
                                         /\ keys[i].tokenNumber = tokensParsed

\* The test of the loop of fetch_more_tokens.
fetch_more_tokens ==
  /\ at = "testing"
  /\ IF tokens = <<>>
     THEN /\ at' = "skipping"
          /\ UNCHANGED <<simpleKeys, tokenAvailable>>
     ELSE /\ simpleKeys' = Fresh(mark)
          /\ \/ /\ StaleError(mark)
                /\ at' = "failed"
                /\ UNCHANGED tokenAvailable
             \/ /\ ~StaleError(mark) /\ HeldBack(Fresh(mark))
                /\ at' = "skipping"
                /\ UNCHANGED tokenAvailable
             \/ /\ ~StaleError(mark) /\ ~HeldBack(Fresh(mark))
                /\ at' = "idle"
                /\ tokenAvailable' = TRUE
  /\ UNCHANGED <<inputVars, tokens, tokensParsed, ended, delivered, blocks,
                 simpleKeyAllowed, flowLevel, indents, started>>

\* scan() or skip_token() with a token ready.
Dequeue ==
  /\ at = "idle" /\ tokenAvailable
  /\ delivered' = Head(tokens)
  /\ tokens' = Tail(tokens)
  /\ tokensParsed' = tokensParsed + 1
  /\ tokenAvailable' = FALSE
  /\ ended' = (Head(tokens).type = "StreamEnd")
  /\ blocks' = CASE Head(tokens).type = "BlockEnd" -> blocks - 1
                 [] Head(tokens).type \in {"BlockSequenceStart", "BlockMappingStart"} -> blocks + 1
                 [] OTHER -> blocks
  /\ UNCHANGED <<inputVars, keyVars, indents, started, at>>

\* fetch_next_token() up to its dispatch: scan_to_next_token, which skips
\* blanks, comments and line breaks, stale_simple_keys and unroll_indent.
\* The reader may fail on the way.
scan_to_next_token ==
  /\ at = "skipping" /\ started
  /\ mark' \in IF over THEN {mark} ELSE Onward(mark)
  /\ simpleKeyAllowed' = (simpleKeyAllowed \/ (flowLevel = 0 /\ mark'.line > mark.line))
  /\ \/ /\ ~over
        /\ at' = "failed"
        /\ UNCHANGED <<simpleKeys, tokens, indents>>
     \/ /\ StaleError(mark')
        /\ at' = "failed"
        /\ simpleKeys' = Fresh(mark')
        /\ UNCHANGED <<tokens, indents>>
     \/ /\ ~StaleError(mark')
        /\ at' = "fetching"
        /\ simpleKeys' = Fresh(mark')
        /\ tokens' = tokens \o Ends(mark'.column, mark')
        /\ indents' = Unrolled(mark'.column)
  /\ UNCHANGED <<over, tokensParsed, tokenAvailable, ended, delivered, blocks,
                 flowLevel, started>>

fetch_stream_start ==
  /\ at = "skipping" /\ ~started
  /\ started' = TRUE
  /\ indents' = <<-1>>
  /\ simpleKeys' = Append(simpleKeys, NoKey)
  /\ simpleKeyAllowed' = TRUE
  /\ tokens' = Append(tokens, Token("StreamStart", mark))
  /\ at' = "testing"
  /\ UNCHANGED <<inputVars, tokensParsed, tokenAvailable, ended, delivered, blocks, flowLevel>>

-----------------------------------------------------------------------------
\* A fetch_* function begins, adds the tokens ts, or fails.
Fetching == at = "fetching" /\ ~over

Add(ts) == tokens' = tokens \o ts /\ at' = "testing"

Done == UNCHANGED <<over, tokensParsed, tokenAvailable, ended, delivered, blocks, started>>

FetchFails == at' = "failed" /\ Done

\* Of a lexeme that is one character.
Skip == mark.column < MaxColumn /\ mark' = [mark EXCEPT !.column = @ + 1]

\* remove_simple_key() fails, with the tokens ts already added.
RemoveError(ts) == /\ RemoveFails
                   /\ tokens' = tokens \o ts
                   /\ UNCHANGED keyVars
                   /\ FetchFails

\* Mutant: the StreamEnd token is not queued.
StreamEndUnqueued ==
  /\ at = "fetching"
  /\ over' = TRUE
  /\ mark' = IF mark.column = 0 THEN mark ELSE [line |-> mark.line + 1, column |-> 0]
  /\ indents' = Unrolled(-1)
  /\ IF RemoveFails
     THEN tokens' = tokens \o Ends(-1, mark') /\ at' = "failed" /\ UNCHANGED keyVars
     ELSE /\ simpleKeys' = Removed
          /\ simpleKeyAllowed' = FALSE
          /\ Add(Ends(-1, mark'))
          /\ UNCHANGED flowLevel
  /\ UNCHANGED <<tokensParsed, tokenAvailable, ended, delivered, blocks, started>>

fetch_stream_end ==
  /\ at = "fetching"
  /\ over' = TRUE
  /\ mark' = IF mark.column = 0 THEN mark ELSE [line |-> mark.line + 1, column |-> 0]
  /\ indents' = Unrolled(-1)
  /\ IF RemoveFails
     THEN tokens' = tokens \o Ends(-1, mark') /\ at' = "failed" /\ UNCHANGED keyVars
     ELSE /\ simpleKeys' = Removed
          /\ simpleKeyAllowed' = FALSE
          /\ Add(Append(Ends(-1, mark'), Token("StreamEnd", mark')))
          /\ UNCHANGED flowLevel
  /\ UNCHANGED <<tokensParsed, tokenAvailable, ended, delivered, blocks, started>>

\* A directive takes the line, if it is well formed.
fetch_directive ==
  /\ Fetching /\ mark.column = 0
  /\ indents' = Unrolled(-1)
  /\ \/ RemoveError(Ends(-1, mark)) /\ UNCHANGED mark
     \/ /\ ~RemoveFails
        /\ simpleKeys' = Removed
        /\ simpleKeyAllowed' = FALSE
        /\ mark' \in Inline(mark) \cup NextLine(mark)
        /\ \/ Add(Append(Ends(-1, mark), Token("Directive", mark))) /\ Done
           \/ tokens' = tokens \o Ends(-1, mark) /\ FetchFails
        /\ UNCHANGED flowLevel

\* "---" or "..."
fetch_document_indicator ==
  /\ Fetching /\ mark.column = 0
  /\ indents' = Unrolled(-1)
  /\ \/ RemoveError(Ends(-1, mark)) /\ UNCHANGED mark
     \/ /\ ~RemoveFails
        /\ simpleKeys' = Removed
        /\ simpleKeyAllowed' = FALSE
        /\ mark' = [mark EXCEPT !.column = 3]
        /\ Add(Append(Ends(-1, mark), Token("DocumentIndicator", mark)))
        /\ UNCHANGED flowLevel
        /\ Done

\* "[" or "{"
fetch_flow_collection_start ==
  /\ Fetching /\ flowLevel < MaxFlow
  /\ \/ SaveFails /\ FetchFails /\ UNCHANGED <<mark, tokens, keyVars>>
     \/ /\ ~SaveFails
        /\ Skip
        /\ simpleKeys' = Append(Saved, NoKey)
        /\ flowLevel' = flowLevel + 1
        /\ simpleKeyAllowed' = TRUE
        /\ Add(<<Token("FlowStart", mark)>>)
        /\ Done
  /\ UNCHANGED indents

\* "]" or "}"
fetch_flow_collection_end ==
  /\ Fetching
  /\ \/ RemoveError(<<>>) /\ UNCHANGED mark
     \/ /\ ~RemoveFails
        /\ Skip
        /\ IF flowLevel = 0
           THEN simpleKeys' = Removed /\ UNCHANGED flowLevel
           ELSE simpleKeys' = Front(simpleKeys) /\ flowLevel' = flowLevel - 1
        /\ simpleKeyAllowed' = FALSE
        /\ Add(<<Token("FlowEnd", mark)>>)
        /\ Done
  /\ UNCHANGED indents

\* ","
fetch_flow_entry ==
  /\ Fetching
  /\ \/ RemoveError(<<>>) /\ UNCHANGED mark
     \/ /\ ~RemoveFails
        /\ Skip
        /\ simpleKeys' = Removed
        /\ simpleKeyAllowed' = TRUE
        /\ Add(<<Token("FlowEntry", mark)>>)
        /\ UNCHANGED flowLevel
        /\ Done
  /\ UNCHANGED indents

\* In block context an indicator must stand where a simple key could.
NotAllowedHere == flowLevel = 0 /\ ~simpleKeyAllowed

\* The token that opens the collection of an indicator, if it is the first.
Opener(type, column, m) == IF Rolls(column) THEN <<Token(type, m)>> ELSE <<>>

\* "-" and a blank.
fetch_block_entry ==
  /\ Fetching
  /\ \/ NotAllowedHere /\ FetchFails /\ UNCHANGED <<mark, tokens, keyVars, indents>>
     \/ /\ ~NotAllowedHere
        /\ indents' = Rolled(mark.column)
        /\ \/ RemoveError(Opener("BlockSequenceStart", mark.column, mark)) /\ UNCHANGED mark
           \/ /\ ~RemoveFails
              /\ Skip
              /\ simpleKeys' = Removed
              /\ simpleKeyAllowed' = TRUE
              /\ Add(Append(Opener("BlockSequenceStart", mark.column, mark),
                            Token("BlockEntry", mark)))
              /\ UNCHANGED flowLevel
              /\ Done

\* "?"
fetch_key ==
  /\ Fetching
  /\ \/ NotAllowedHere /\ FetchFails /\ UNCHANGED <<mark, tokens, keyVars, indents>>
     \/ /\ ~NotAllowedHere
        /\ indents' = Rolled(mark.column)
        /\ \/ RemoveError(Opener("BlockMappingStart", mark.column, mark)) /\ UNCHANGED mark
           \/ /\ ~RemoveFails
              /\ Skip
              /\ simpleKeys' = Removed
              /\ simpleKeyAllowed' = (flowLevel = 0)
              /\ Add(Append(Opener("BlockMappingStart", mark.column, mark),
                            Token("Key", mark)))
              /\ UNCHANGED flowLevel
              /\ Done

\* The tokens put in before the key k that ":" completes.
Announced(k) == Append(Opener("BlockMappingStart", k.mark.column, k.mark),
                       Token("Key", k.mark))

\* Mutant: the mapping is opened after its key.
ValueOfKeyFirst ==
  LET n == TopKey.tokenNumber - tokensParsed IN
  /\ TopKey.possible
  /\ Skip
  /\ tokens' = SubSeq(tokens, 1, n) \o Reverse(Announced(TopKey))
                 \o SubSeq(tokens, n + 1, Len(tokens)) \o <<Token("Value", mark)>>
  /\ indents' = Rolled(TopKey.mark.column)
  /\ simpleKeys' = Removed
  /\ simpleKeyAllowed' = FALSE
  /\ UNCHANGED flowLevel
  /\ at' = "testing"

\* ":" after a simple key.
ValueOfKey ==
  LET n == TopKey.tokenNumber - tokensParsed IN
  /\ TopKey.possible
  /\ Skip
  /\ tokens' = SubSeq(tokens, 1, n) \o Announced(TopKey)
                 \o SubSeq(tokens, n + 1, Len(tokens)) \o <<Token("Value", mark)>>
  /\ indents' = Rolled(TopKey.mark.column)
  /\ simpleKeys' = Removed
  /\ simpleKeyAllowed' = FALSE
  /\ UNCHANGED flowLevel
  /\ at' = "testing"

\* ":"
fetch_value ==
  /\ Fetching
  /\ \/ ValueOfKey /\ Done
     \/ /\ ~TopKey.possible /\ NotAllowedHere
        /\ FetchFails /\ UNCHANGED <<mark, tokens, keyVars, indents>>
     \/ /\ ~TopKey.possible /\ ~NotAllowedHere
        /\ Skip
        /\ indents' = Rolled(mark.column)
        /\ simpleKeyAllowed' = (flowLevel = 0)
        /\ Add(Append(Opener("BlockMappingStart", mark.column, mark), Token("Value", mark)))
        /\ UNCHANGED <<simpleKeys, flowLevel>>
        /\ Done

\* A lexeme at which a simple key may begin: it is scanned to one of the
\* positions in ends, or not.
Content(ends, allowed) ==
  /\ Fetching
  /\ \/ SaveFails /\ FetchFails /\ UNCHANGED <<mark, tokens, keyVars>>
     \/ /\ ~SaveFails
        /\ simpleKeys' = Saved
        /\ simpleKeyAllowed' = allowed
        /\ mark' \in ends
        /\ \/ Add(<<Token("Content", mark)>>) /\ Done
           \/ ~allowed /\ FetchFails /\ UNCHANGED tokens
        /\ UNCHANGED flowLevel
  /\ UNCHANGED indents

\* Mutant: a key may begin right behind an anchor.
AnchorAllows == Content(Inline(mark), TRUE)

\* Anchors and aliases, tags, quoted scalars.
fetch_anchor == Content(Inline(mark), FALSE)
fetch_tag == Content(Inline(mark), FALSE)
fetch_flow_scalar == Content(Inline(mark) \cup NextLine(mark), FALSE)

\* A plain scalar may end at a line break it has read.
fetch_plain_scalar == \/ Content(Inline(mark) \cup NextLine(mark), FALSE)
                      \/ Content(NextLine(mark), TRUE)

\* "|" or ">", in block context.
fetch_block_scalar ==
  /\ Fetching /\ flowLevel = 0
  /\ \/ RemoveError(<<>>) /\ UNCHANGED mark
     \/ /\ ~RemoveFails
        /\ simpleKeys' = Removed
        /\ simpleKeyAllowed' = TRUE
        /\ mark' \in Inline(mark) \cup NextLine(mark)
        /\ \/ Add(<<Token("Content", mark)>>) /\ Done
           \/ FetchFails /\ UNCHANGED tokens
        /\ UNCHANGED flowLevel
  /\ UNCHANGED indents

\* "found character that cannot start any token"
NoLexeme == /\ Fetching
            /\ FetchFails
            /\ UNCHANGED <<mark, tokens, keyVars, indents>>

-----------------------------------------------------------------------------
ScannerInit ==
  /\ mark = Origin /\ over = FALSE /\ started = FALSE /\ ended = FALSE
  /\ flowLevel = 0 /\ tokens = <<>> /\ tokensParsed = 0 /\ tokenAvailable = FALSE
  /\ indents = <<0>> /\ simpleKeyAllowed = FALSE /\ simpleKeys = <<>>
  /\ at = "idle" /\ delivered = NoToken /\ blocks = 0

\* The caller asks again after an error.
AskAgain == /\ at = "failed" /\ Repoll
            /\ at' = "testing"
            /\ UNCHANGED <<inputVars, queueVars, keyVars, indents, started>>

\* Scanner::reset(), for a new input.
ScannerReset ==
  /\ at \in {"idle", "failed"}
  /\ mark' = Origin /\ over' = FALSE /\ started' = FALSE /\ ended' = FALSE
  /\ flowLevel' = 0 /\ tokens' = <<>> /\ tokensParsed' = 0 /\ tokenAvailable' = FALSE
  /\ indents' = <<0>> /\ simpleKeyAllowed' = FALSE /\ simpleKeys' = <<>>
  /\ at' = "idle" /\ delivered' = NoToken /\ blocks' = 0

fetch_next_token ==
  \/ fetch_stream_start \/ scan_to_next_token
  \/ fetch_stream_end \/ fetch_directive \/ fetch_document_indicator
  \/ fetch_flow_collection_start \/ fetch_flow_collection_end \/ fetch_flow_entry
  \/ fetch_block_entry \/ fetch_key \/ fetch_value
  \/ fetch_anchor \/ fetch_tag \/ fetch_flow_scalar \/ fetch_plain_scalar
  \/ fetch_block_scalar \/ NoLexeme

Fetch == fetch_more_tokens \/ fetch_next_token

ScannerNext == Peek \/ Fetch \/ Dequeue \/ AskAgain \/ ScannerReset

ScannerSpec == ScannerInit /\ [][ScannerNext]_scannerVars

\* fetch_more_tokens runs to its end.
FairScannerSpec == ScannerSpec /\ WF_scannerVars(Fetch)
=============================================================================
