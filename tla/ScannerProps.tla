---------------------------- MODULE ScannerProps ----------------------------
(***************************************************************************)
(* What the scanner must satisfy: the agreement of the simple keys with    *)
(* the queue and the flow levels, the order of indentations, the token     *)
(* stream it delivers, and the end of its look-ahead.                      *)
(***************************************************************************)
EXTENDS Scanner

-----------------------------------------------------------------------------
\* Each flow level has its simple key, and a key that is still possible
\* stands at a token that is in the queue (or about to be), behind the keys
\* of the levels around it: the insertions of fetch_value are in range, and
\* no Key is announced for a token that has been delivered.
KeysInQueue ==
  /\ started => Len(simpleKeys) = flowLevel + 1
  /\ \A i \in DOMAIN simpleKeys :
       simpleKeys[i].possible =>
         /\ simpleKeys[i].tokenNumber \in tokensParsed..(tokensParsed + Len(tokens))
         /\ \A j \in 1..(i - 1) :
              simpleKeys[j].possible => simpleKeys[j].tokenNumber < simpleKeys[i].tokenNumber

\* The indentations of the open block collections increase inwards, from
\* the -1 of the stream: unroll_indent never pops the last.
IndentsRise ==
  started => /\ indents[1] = -1
             /\ \A i, j \in DOMAIN indents : i < j => indents[i] < indents[j]

\* Where a simple key may begin none is pending: save_simple_key never
\* drops a key, nor fails for one.
NoKeyDropped == at = "fetching" /\ simpleKeyAllowed => ~TopKey.possible

\* The block collections that the tokens open and the indentations agree:
\* the BlockEnds to come are those of the collections still open.
OpenedBy(ts) == Cardinality({i \in DOMAIN ts : ts[i].type \in {"BlockSequenceStart", "BlockMappingStart"}})
ClosedBy(ts) == Cardinality({i \in DOMAIN ts : ts[i].type = "BlockEnd"})
BlocksMatchIndents == blocks + OpenedBy(tokens) = Len(indents) - 1 + ClosedBy(tokens)

\* Both: every BlockEnd closes the innermost collection that a token opened,
\* and where it closes is told by the column alone.
IndentsAgree == IndentsRise /\ BlocksMatchIndents

Stream == INSTANCE TokenStream
            WITH last <- delivered.type, place <- delivered.mark

\* The tokens delivered are one stream, in the order of the input.
DeliversStream == Stream!TokenStreamSpec

\* The look-ahead ends: with a token ready, or with an error.
FetchAnswers == (at = "testing") ~> (at \in {"idle", "failed"})
=============================================================================
